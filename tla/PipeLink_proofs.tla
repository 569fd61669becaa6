-------------------------- MODULE PipeLink_proofs --------------------------
(* Proofs about PipeLink, for every number of connections and posts.        *)
EXTENDS PipeLink, SequenceLemmas, FiniteSetTheorems, TLAPS

LEMMA OtherSide == Other("client") = "server" /\ Other("server") = "client"
  <1>1. \A t \in Side : (t # "client" <=> t = "server") /\ (t # "server" <=> t = "client")
    BY DEF Side
  <1>2. "client" \in Side /\ "server" \in Side /\ "client" # "server"
    BY DEF Side
  <1>3. Other("client") \in Side /\ Other("client") # "client"
    BY <1>1, <1>2 DEF Other
  <1>4. Other("server") \in Side /\ Other("server") # "server"
    BY <1>1, <1>2 DEF Other
  <1>5. QED
    BY <1>1, <1>3, <1>4

LEMMA SideSplit == \A s \in Side : Other(s) \in Side /\ Other(s) # s
  BY OtherSide DEF Side

-----------------------------------------------------------------------------
(* What the operations on one connection keep.                              *)

Event == Notice \cup Arrival

\* An object between the steps of its pipe thread.
ObjectInv(c) ==
    /\ c \in PipeConnection
    /\ c.got # <<>> <=> c.reading = "done"
    /\ Len(c.got) <= 1
    /\ c.writing => c.writeQueue # <<>>
    /\ IsFiniteSet(c.rpc)

LEMMA ClosedType ==
  ASSUME NEW c, ObjectInv(c)
  PROVE  /\ ObjectInv(Closed(c))
         /\ Closed(c).state = "closed" /\ Closed(c).rpc = {}
         /\ Closed(c).reading = (IF c.reading = "pending" THEN "canceled" ELSE c.reading)
         /\ Closed(c).got = c.got /\ Closed(c).writing = c.writing
         /\ Closed(c).writeQueue = c.writeQueue /\ Closed(c).nextSeq = c.nextSeq
         /\ Closed(c).leaked = c.leaked
  <1>1. IsFiniteSet({})
    BY FS_EmptySet
  <1>2. QED
    BY <1>1 DEF ObjectInv, Closed, PipeConnection

\* The object of a connection that is made, and when its first read has started.
Opening(c) == [c EXCEPT !.state = "open"]
Started(c) == [c EXCEPT !.state = "open", !.reading = "pending"]

LEMMA OpenType ==
  ASSUME NEW c, ObjectInv(c), c.reading = "no"
  PROVE  /\ ObjectInv(Opening(c)) /\ ObjectInv(Started(c))
         /\ \A d \in {Opening(c), Started(c)} :
               /\ d.state = "open" /\ d.got = c.got /\ d.writing = c.writing
               /\ d.writeQueue = c.writeQueue /\ d.rpc = c.rpc /\ d.nextSeq = c.nextSeq
               /\ d.leaked = c.leaked
         /\ Opening(c).reading = "no" /\ Started(c).reading = "pending"
  BY DEF ObjectInv, PipeConnection, Opening, Started

LEMMA NoObjectInv ==
  /\ ObjectInv(NoObject) /\ ObjectInv(Opened) /\ ObjectInv(Closed(NoObject))
  /\ ObjectInv(Opening(NoObject))
  /\ \A d \in {Opened, Opening(NoObject)} :
        /\ d.state = "open" /\ d.got = <<>> /\ d.writing = FALSE /\ d.writeQueue = <<>>
        /\ d.rpc = {} /\ d.nextSeq = 1 /\ d.leaked = FALSE
  /\ Opened.reading = "pending" /\ Opening(NoObject).reading = "no"
  <1>1. <<>> \in Seq(Message) /\ Len(<<>>) = 0 /\ 1 \in Nat /\ IsFiniteSet({})
    BY EmptySeq, FS_EmptySet
  <1>2. ObjectInv(NoObject)
    BY <1>1 DEF ObjectInv, NoObject, PipeConnection
  <1>3. /\ NoObject.reading = "no" /\ NoObject.got = <<>> /\ NoObject.writing = FALSE
        /\ NoObject.writeQueue = <<>> /\ NoObject.rpc = {} /\ NoObject.nextSeq = 1
        /\ NoObject.leaked = FALSE
    BY DEF NoObject
  <1>4. ObjectInv(Closed(NoObject))
    BY <1>2, ClosedType
  <1>5. Opened = Started(NoObject)
    BY Zenon DEF Opened, Started
  <1>6. QED
    BY <1>2, <1>3, <1>4, <1>5, OpenType

LEMMA ShutPipeType ==
  ASSUME NEW s \in Side, NEW p \in Pipe
  PROVE  /\ ShutPipe(s, p) \in Pipe
         /\ ShutPipe(s, p).shut = p.shut \cup {s}
         /\ \A t \in Side : ShutPipe(s, p).to[t] =
                               IF s = "server" \/ t = s THEN <<>> ELSE p.to[t]
  BY EmptySeq DEF ShutPipe, Pipe

LEMMA ClosedNoticesType ==
  ASSUME NEW s \in Side, NEW c, NEW closing \in BOOLEAN, NEW destroyed \in BOOLEAN
  PROVE  ClosedNotices(s, c, closing, destroyed) \in Seq(Event)
  <1> DEFINE one == [what |-> "closed"]
  <1>1. one \in Event
    BY DEF Event, Notice
  <1>2. <<one>> \in Seq(Event) /\ <<>> \in Seq(Event)
    BY <1>1, EmptySeq
  <1> HIDE DEF one
  <1>3. <<one>> \o <<one>> \in Seq(Event) /\ <<one>> \o <<>> \in Seq(Event)
        /\ <<>> \o <<one>> \in Seq(Event) /\ <<>> \o <<>> \in Seq(Event)
    BY <1>2, ConcatProperties
  <1>4. QED
    BY <1>2, <1>3 DEF ClosedNotices, one

\* The callbacks of a close: one for each request that was registered.
LEMMA ClosedAnswersType ==
  ASSUME NEW c, ObjectInv(c), NEW ended \in ClosedAnswers(c)
  PROVE  /\ ended \in Seq(Answer)
         /\ \A i \in DOMAIN ended : ended[i].how = "ConnectionClosed"
                                    /\ \E r \in c.rpc : r.n = ended[i].n
         /\ \A r \in c.rpc : \E i \in DOMAIN ended : ended[i].n = r.n
         /\ (\A r, t \in c.rpc : r.n = t.n => r = t)
            => \A i, j \in DOMAIN ended : ended[i].n = ended[j].n => i = j
  <1> DEFINE size == Cardinality(c.rpc)
  <1>1. size \in Nat
    BY FS_CardinalityType DEF ObjectInv
  <1>2. c.rpc \subseteq Request
    BY DEF ObjectInv, PipeConnection
  <1> HIDE DEF size
  <1>3. PICK f \in Bijection(1..size, c.rpc) :
              ended = [i \in DOMAIN f |-> [n |-> f[i].n, how |-> "ConnectionClosed"]]
    BY DEF ClosedAnswers, size
  <1>4. /\ f \in [1..size -> c.rpc]
        /\ \A a, b \in 1..size : f[a] = f[b] => a = b
        /\ \A r \in c.rpc : \E a \in 1..size : f[a] = r
    BY DEF Bijection, Injection, Surjection, IsInjective
  <1>5. DOMAIN ended = 1..size /\ \A i \in 1..size : ended[i] = [n |-> f[i].n, how |-> "ConnectionClosed"]
    BY <1>3, <1>4
  <1>6. \A i \in 1..size : f[i] \in c.rpc /\ f[i] \in Request
    BY <1>2, <1>4
  <1>7. \A i \in 1..size : ended[i] \in Answer /\ ended[i].n = f[i].n /\ ended[i].how = "ConnectionClosed"
    BY <1>5, <1>6 DEF Request, Answer
  <1>8. ended \in Seq(Answer)
    <2>1. ended \in [1..size -> Answer]
      BY <1>3, <1>4, <1>5, <1>7
    <2>2. QED
      BY <2>1, <1>1, SeqDef
  <1>9. QED
    BY <1>4, <1>5, <1>6, <1>7, <1>8

LEMMA SendingType ==
  ASSUME NEW s \in Side, NEW c, ObjectInv(c), NEW p \in Pipe
  PROVE  /\ ObjectInv(Sending(s, c, p).c)
         /\ Sending(s, c, p).p \in Pipe
         /\ Sending(s, c, p).closing \in BOOLEAN
  <1> DEFINE m == Head(c.writeQueue)
  <1>1. Other(s) \in Side
    BY SideSplit
  <1>2. CASE c.writing \/ c.writeQueue = <<>>
    BY <1>2 DEF Sending
  <1>3. CASE ~(c.writing \/ c.writeQueue = <<>>) /\ Broken(s, c, p)
    <2>1. ObjectInv([c EXCEPT !.leaked = TRUE])
      BY DEF ObjectInv, PipeConnection
    <2>2. QED
      BY <1>3, <2>1 DEF Sending
  <1>4. CASE ~(c.writing \/ c.writeQueue = <<>>) /\ ~Broken(s, c, p)
    <2>1. ObjectInv([c EXCEPT !.writing = TRUE])
      BY <1>4 DEF ObjectInv, PipeConnection
    <2>2. m \in Message
      BY <1>4, HeadType DEF ObjectInv, PipeConnection
    <2>3. p.to \in [Side -> Seq(Message)] /\ p.shut \in SUBSET Side
      BY DEF Pipe
    <2>4. Append(p.to[Other(s)], m) \in Seq(Message)
      BY <1>1, <2>2, <2>3, AppendProperties
    <2>5. [p EXCEPT !.to[Other(s)] = Append(@, m)] \in Pipe
      BY <1>1, <2>3, <2>4 DEF Pipe
    <2>6. QED
      BY <1>4, <2>1, <2>5 DEF Sending
  <1>5. QED
    BY <1>2, <1>3, <1>4

LEMMA NumberedType ==
  ASSUME NEW c, ObjectInv(c), NEW m \in Message
  PROVE  ObjectInv(Numbered(c, m))
  <1> DEFINE seq == IF m.seq = 0 THEN c.nextSeq ELSE m.seq
             named == [m EXCEPT !.seq = seq]
             call == [seq |-> seq, n |-> m.n]
             rpc == IF m.mode = "call" THEN c.rpc \cup {call} ELSE c.rpc
             next == IF m.seq = 0 THEN c.nextSeq + 1 ELSE c.nextSeq
  <1>1. seq \in Nat /\ next \in Nat /\ m.n \in Nat
    BY DEF ObjectInv, PipeConnection, Message
  <1>2. named \in Message /\ call \in Request
    BY <1>1 DEF Message, Request
  <1>3. rpc \in SUBSET Request /\ IsFiniteSet(rpc)
    BY <1>2, FS_AddElement DEF ObjectInv, PipeConnection
  <1>4. Append(c.writeQueue, named) \in Seq(Message) /\ Append(c.writeQueue, named) # <<>>
    BY <1>2, AppendProperties DEF ObjectInv, PipeConnection
  <1>5. Numbered(c, m) = [c EXCEPT !.nextSeq = next, !.rpc = rpc,
                                   !.writeQueue = Append(c.writeQueue, named)]
    BY DEF Numbered, ObjectInv, PipeConnection
  <1> HIDE DEF seq, named, call, rpc, next
  <1>6. QED
    BY <1>1, <1>3, <1>4, <1>5 DEF ObjectInv, PipeConnection

\* A read that has completed with m, and the object after its routine has taken
\* m, after a read that failed, and after a write that has completed.
Got(c, m) == [c EXCEPT !.reading = "done", !.got = <<m>>]
Unread(c) == [c EXCEPT !.reading = "no"]
Written(c) == [c EXCEPT !.writing = FALSE, !.writeQueue = Tail(@)]

LEMMA GotType ==
  ASSUME NEW c, ObjectInv(c), NEW m \in Message
  PROVE  /\ ObjectInv(Got(c, m))
         /\ Got(c, m).reading = "done" /\ Got(c, m).got = <<m>> /\ Got(c, m).state = c.state
         /\ Got(c, m).writing = c.writing /\ Got(c, m).writeQueue = c.writeQueue
         /\ Got(c, m).rpc = c.rpc /\ Got(c, m).nextSeq = c.nextSeq /\ Got(c, m).leaked = c.leaked
  <1> DEFINE got == <<m>>
  <1>1. got \in Seq(Message) /\ got # <<>> /\ Len(got) <= 1
    OBVIOUS
  <1>2. Got(c, m) = [c EXCEPT !.reading = "done", !.got = got]
    BY Zenon DEF Got
  <1> HIDE DEF got
  <1>3. ObjectInv(Got(c, m))
    BY <1>1, <1>2 DEF ObjectInv, PipeConnection
  <1>4. /\ Got(c, m).reading = "done" /\ Got(c, m).got = got /\ Got(c, m).state = c.state
        /\ Got(c, m).writing = c.writing /\ Got(c, m).writeQueue = c.writeQueue
        /\ Got(c, m).rpc = c.rpc /\ Got(c, m).nextSeq = c.nextSeq /\ Got(c, m).leaked = c.leaked
    BY <1>1, <1>2 DEF ObjectInv, PipeConnection
  <1>5. QED
    BY <1>3, <1>4 DEF got

LEMMA UnreadType ==
  ASSUME NEW c, ObjectInv(c), c.reading # "done"
  PROVE  /\ ObjectInv(Unread(c))
         /\ Unread(c).reading = "no" /\ Unread(c).got = c.got /\ Unread(c).state = c.state
         /\ Unread(c).writing = c.writing /\ Unread(c).writeQueue = c.writeQueue
         /\ Unread(c).rpc = c.rpc /\ Unread(c).nextSeq = c.nextSeq /\ Unread(c).leaked = c.leaked
  BY DEF ObjectInv, PipeConnection, Unread

LEMMA WrittenType ==
  ASSUME NEW c, ObjectInv(c), c.writing
  PROVE  /\ ObjectInv(Written(c))
         /\ Written(c).reading = c.reading /\ Written(c).got = c.got /\ Written(c).state = c.state
         /\ Written(c).writing = FALSE /\ Written(c).writeQueue = Tail(c.writeQueue)
         /\ Written(c).rpc = c.rpc /\ Written(c).nextSeq = c.nextSeq /\ Written(c).leaked = c.leaked
  <1>1. c.writeQueue \in Seq(Message) /\ c.writeQueue # <<>>
    BY DEF ObjectInv, PipeConnection
  <1>2. Tail(c.writeQueue) \in Seq(Message)
    BY <1>1, HeadType
  <1>3. QED
    BY <1>2 DEF ObjectInv, PipeConnection, Written

LEMMA HandledType ==
  ASSUME NEW c, ObjectInv(c), NEW mine
  PROVE  /\ Handled(c, mine) \in PipeConnection
         /\ Handled(c, mine).got = <<>> /\ Handled(c, mine).rpc = c.rpc \ mine
         /\ IsFiniteSet(Handled(c, mine).rpc)
         /\ Handled(c, mine).state = c.state /\ Handled(c, mine).reading = c.reading
         /\ Handled(c, mine).writing = c.writing /\ Handled(c, mine).writeQueue = c.writeQueue
         /\ Handled(c, mine).nextSeq = c.nextSeq /\ Handled(c, mine).leaked = c.leaked
         /\ Handled(c, mine).writing => Handled(c, mine).writeQueue # <<>>
  <1>1. <<>> \in Seq(Message)
    BY EmptySeq
  <1>2. IsFiniteSet(c.rpc \ mine)
    BY FS_Subset DEF ObjectInv
  <1>3. QED
    BY <1>1, <1>2 DEF ObjectInv, PipeConnection, Handled

LEMMA ReadingType ==
  ASSUME NEW s \in Side, NEW c \in PipeConnection, NEW p \in Pipe, NEW next \in Reading(s, c, p),
         c.got = <<>>, c.writing => c.writeQueue # <<>>, IsFiniteSet(c.rpc)
  PROVE  ObjectInv(next.c) /\ next.closing \in BOOLEAN
  <1> DEFINE started == [c EXCEPT !.reading = "pending"]
             failed == [c EXCEPT !.reading = "no", !.leaked = TRUE]
  <1>0. Len(<<>>) = 0
    BY EmptySeq
  <1>1. /\ started \in PipeConnection
        /\ started.got = <<>> /\ started.reading = "pending" /\ started.writing = c.writing
        /\ started.writeQueue = c.writeQueue /\ started.rpc = c.rpc
    BY DEF PipeConnection
  <1>2. /\ failed \in PipeConnection
        /\ failed.got = <<>> /\ failed.reading = "no" /\ failed.writing = c.writing
        /\ failed.writeQueue = c.writeQueue /\ failed.rpc = c.rpc
    BY DEF PipeConnection
  <1>3. \/ next = [c |-> started, closing |-> FALSE]
        \/ next = [c |-> failed, closing |-> TRUE]
    BY Zenon DEF Reading
  <1> HIDE DEF started, failed
  <1>4. ObjectInv(started) /\ ObjectInv(failed)
    BY <1>0, <1>1, <1>2 DEF ObjectInv
  <1>5. CASE next = [c |-> started, closing |-> FALSE]
    <2>1. next.c = started /\ next.closing = FALSE
      BY <1>5
    <2>2. QED
      BY <1>4, <2>1
  <1>6. CASE next = [c |-> failed, closing |-> TRUE]
    <2>1. next.c = failed /\ next.closing = TRUE
      BY <1>6
    <2>2. QED
      BY <1>4, <2>1
  <1>7. QED
    BY <1>3, <1>5, <1>6

-----------------------------------------------------------------------------
(* Types.                                                                   *)

\* The bound on connections, and an object that greets is the last one.
LinkInv ==
    /\ TypeOK
    /\ last <= MaxConn /\ (greeting => last > 0)
    /\ \A s \in Side, k \in Id : ObjectInv(conn[s][k])

\* What a step of a pipe thread on connection k of s may change, pointwise.
SettledTo(s, k, c, p, events, results, closing, ended) ==
    LET after == IF closing THEN Closed(c) ELSE c
        destroyed == /\ k \notin Listed(s, k, c, closing)
                     /\ after.reading = "no" /\ ~after.writing /\ ~after.leaked
    IN  /\ conn'[s][k] = (IF destroyed THEN Closed(NoObject) ELSE after)
        /\ \A t \in Side, l \in Id : t # s \/ l # k => conn'[t][l] = conn[t][l]
        /\ pipe'[k] = (IF closing THEN ShutPipe(s, p) ELSE p)
        /\ \A l \in Id : l # k => pipe'[l] = pipe[l]
        /\ listed'[s] = (IF closing THEN listed[s] \ {k} ELSE listed[s])
        /\ \A t \in Side : t # s => listed'[t] = listed[t]
        /\ log'[s][k] = log[s][k] \o events \o ClosedNotices(s, c, closing, destroyed)
        /\ \A t \in Side, l \in Id : t # s \/ l # k => log'[t][l] = log[t][l]
        /\ ended \in (IF closing THEN ClosedAnswers(c) ELSE {<<>>})
        /\ answers' = answers \o results \o ended

LEMMA SettleFacts ==
  ASSUME LinkInv, NEW s \in Side, NEW k \in Id, NEW c, NEW p, NEW events, NEW results,
         NEW closing, Settle(s, k, c, p, events, results, closing)
  PROVE  \E ended : SettledTo(s, k, c, p, events, results, closing, ended)
  <1> DEFINE after == IF closing THEN Closed(c) ELSE c
             destroyed == /\ k \notin Listed(s, k, c, closing)
                          /\ after.reading = "no" /\ ~after.writing /\ ~after.leaked
             object == IF destroyed THEN Closed(NoObject) ELSE after
             notices == ClosedNotices(s, c, closing, destroyed)
             shut == IF closing THEN ShutPipe(s, p) ELSE p
             rest == IF closing THEN listed[s] \ {k} ELSE listed[s]
  <1>1. PICK ended \in (IF closing THEN ClosedAnswers(c) ELSE {<<>>}) :
            answers' = answers \o results \o ended
    BY DEF Settle
  <1>2. conn \in [Side -> [Id -> PipeConnection]] /\ pipe \in [Id -> Pipe]
        /\ listed \in [Side -> SUBSET Id] /\ log \in [Side -> [Id -> Seq(Notice \cup Arrival)]]
    BY DEF LinkInv, TypeOK
  <1>3. /\ conn' = [conn EXCEPT ![s][k] = object] /\ pipe' = [pipe EXCEPT ![k] = shut]
        /\ listed' = [listed EXCEPT ![s] = rest]
        /\ log' = [log EXCEPT ![s][k] = @ \o events \o notices]
    BY DEF Settle, Listed
  <1>4. SettledTo(s, k, c, p, events, results, closing, ended)
        <=> /\ conn'[s][k] = object
            /\ \A t \in Side, l \in Id : t # s \/ l # k => conn'[t][l] = conn[t][l]
            /\ pipe'[k] = shut
            /\ \A l \in Id : l # k => pipe'[l] = pipe[l]
            /\ listed'[s] = rest
            /\ \A t \in Side : t # s => listed'[t] = listed[t]
            /\ log'[s][k] = log[s][k] \o events \o notices
            /\ \A t \in Side, l \in Id : t # s \/ l # k => log'[t][l] = log[t][l]
            /\ ended \in (IF closing THEN ClosedAnswers(c) ELSE {<<>>})
            /\ answers' = answers \o results \o ended
    BY DEF SettledTo
  <1> HIDE DEF object, notices, shut, rest
  <1>5. /\ conn'[s][k] = object
        /\ \A t \in Side, l \in Id : t # s \/ l # k => conn'[t][l] = conn[t][l]
    BY <1>2, <1>3
  <1>6. /\ log'[s][k] = log[s][k] \o events \o notices
        /\ \A t \in Side, l \in Id : t # s \/ l # k => log'[t][l] = log[t][l]
    BY <1>2, <1>3
  <1>7. /\ pipe'[k] = shut /\ \A l \in Id : l # k => pipe'[l] = pipe[l]
        /\ listed'[s] = rest /\ \A t \in Side : t # s => listed'[t] = listed[t]
    BY <1>2, <1>3
  <1>8. QED
    BY <1>1, <1>4, <1>5, <1>6, <1>7

\* A step of a pipe thread keeps the types.
LEMMA SettleType ==
  ASSUME LinkInv, NEW s \in Side, NEW k \in Id, NEW c, NEW p \in Pipe,
         NEW events \in Seq(Event), NEW results \in Seq(Answer), NEW closing \in BOOLEAN,
         ObjectInv(c), Settle(s, k, c, p, events, results, closing)
  PROVE  /\ conn' \in [Side -> [Id -> PipeConnection]]
         /\ \A t \in Side, l \in Id : ObjectInv(conn'[t][l])
         /\ pipe' \in [Id -> Pipe] /\ listed' \in [Side -> SUBSET Id]
         /\ log' \in [Side -> [Id -> Seq(Notice \cup Arrival)]]
         /\ answers' \in Seq(Answer)
  <1> USE DEF Event
  <1>1. conn \in [Side -> [Id -> PipeConnection]] /\ pipe \in [Id -> Pipe]
        /\ listed \in [Side -> SUBSET Id] /\ log \in [Side -> [Id -> Seq(Notice \cup Arrival)]]
        /\ answers \in Seq(Answer) /\ \A t \in Side, l \in Id : ObjectInv(conn[t][l])
    BY DEF LinkInv, TypeOK
  <1> DEFINE after == IF closing THEN Closed(c) ELSE c
             destroyed == /\ k \notin Listed(s, k, c, closing)
                          /\ after.reading = "no" /\ ~after.writing /\ ~after.leaked
             object == IF destroyed THEN Closed(NoObject) ELSE after
             notices == ClosedNotices(s, c, closing, destroyed)
             shut == IF closing THEN ShutPipe(s, p) ELSE p
  <1>2. ObjectInv(object)
    BY ClosedType, NoObjectInv
  <1>3. shut \in Pipe
    BY ShutPipeType
  <1>4. destroyed \in BOOLEAN
    OBVIOUS
  <1>5. notices \in Seq(Event)
    BY <1>4, ClosedNoticesType
  <1>6. log[s][k] \o events \o notices \in Seq(Event)
    <2> DEFINE old == log[s][k]
    <2>1. old \in Seq(Event)
      BY <1>1
    <2> HIDE DEF old, notices
    <2>2. old \o events \in Seq(Event)
      BY <2>1, ConcatProperties
    <2>3. (old \o events) \o notices \in Seq(Event)
      BY <1>5, <2>2, ConcatProperties
    <2>4. QED
      BY <2>3 DEF old
  <1>7. PICK ended : ended \in (IF closing THEN ClosedAnswers(c) ELSE {<<>>})
                     /\ answers' = answers \o results \o ended
    BY DEF Settle
  <1>8. ended \in Seq(Answer)
    BY <1>7, ClosedAnswersType, EmptySeq
  <1>9. answers' \in Seq(Answer)
    BY <1>1, <1>7, <1>8, ConcatProperties
  <1>10. /\ conn' = [conn EXCEPT ![s][k] = object]
         /\ pipe' = [pipe EXCEPT ![k] = shut]
         /\ listed' = [listed EXCEPT ![s] = Listed(s, k, c, closing)]
         /\ log' = [log EXCEPT ![s][k] = @ \o events \o notices]
    BY DEF Settle
  <1>11. Listed(s, k, c, closing) \in SUBSET Id
    BY <1>1 DEF Listed
  <1> HIDE DEF object, shut, notices
  <1>12. object \in PipeConnection
    BY <1>2 DEF ObjectInv
  <1>13. conn' \in [Side -> [Id -> PipeConnection]] /\ log' \in [Side -> [Id -> Seq(Notice \cup Arrival)]]
    BY <1>1, <1>6, <1>10, <1>12
  <1>14. pipe' \in [Id -> Pipe] /\ listed' \in [Side -> SUBSET Id]
    BY <1>1, <1>3, <1>10, <1>11
  <1>15. \A t \in Side, l \in Id : conn'[t][l] = IF t = s /\ l = k THEN object ELSE conn[t][l]
    BY <1>1, <1>10
  <1>16. QED
    BY <1>1, <1>2, <1>9, <1>13, <1>14, <1>15

LEMMA InitLink == Init => LinkInv
  <1> SUFFICES ASSUME Init PROVE LinkInv
    OBVIOUS
  <1> USE DEF Init
  <1>1. \A S : <<>> \in Seq(S)
    BY EmptySeq
  <1>2. NoObject \in PipeConnection /\ ObjectInv(NoObject)
        /\ NoObject.got = <<>> /\ NoObject.reading = "no"
    BY NoObjectInv DEF ObjectInv, NoObject
  <1>3. [to |-> [s \in Side |-> <<>>], shut |-> {}] \in Pipe
    BY <1>1 DEF Pipe
  <1>4. \A s \in Side, k \in Id : conn[s][k] = NoObject
    OBVIOUS
  <1>5. conn \in [Side -> [Id -> PipeConnection]] /\ pipe \in [Id -> Pipe]
        /\ log \in [Side -> [Id -> Seq(Notice \cup Arrival)]]
        /\ queue \in [Side -> Seq([k : Id, m : Message])]
    BY <1>1, <1>2, <1>3
  <1>6. TypeOK
    BY <1>1, <1>2, <1>4, <1>5 DEF TypeOK
  <1>7. last <= MaxConn /\ (greeting => last > 0)
    BY LinkAssumption
  <1>8. QED
    BY <1>2, <1>4, <1>6, <1>7 DEF LinkInv

\* What the types say of the parts of the state, in the form the steps use.
LEMMA TypeFacts ==
  ASSUME LinkInv
  PROVE  /\ conn \in [Side -> [Id -> PipeConnection]] /\ pipe \in [Id -> Pipe]
         /\ listed \in [Side -> SUBSET Id]
         /\ log \in [Side -> [Id -> Seq(Event)]]
         /\ queue \in [Side -> Seq([k : Id, m : Message])]
         /\ answers \in Seq(Answer) /\ asked \in Seq(Id) /\ called \in SUBSET Nat
         /\ last \in Nat /\ last <= MaxConn /\ (last > 0 => last \in Id)
         /\ (greeting => last \in Id)
         /\ \A s \in Side, k \in Id : ObjectInv(conn[s][k])
  <1>1. /\ conn \in [Side -> [Id -> PipeConnection]] /\ pipe \in [Id -> Pipe]
        /\ listed \in [Side -> SUBSET Id]
        /\ log \in [Side -> [Id -> Seq(Notice \cup Arrival)]]
        /\ queue \in [Side -> Seq([k : Id, m : Message])]
        /\ answers \in Seq(Answer) /\ asked \in Seq(Id) /\ called \in SUBSET Nat
    BY DEF LinkInv, TypeOK
  <1>2. last \in Nat /\ last <= MaxConn /\ (greeting => last > 0)
        /\ \A s \in Side, k \in Id : ObjectInv(conn[s][k])
    BY DEF LinkInv, TypeOK
  <1>3. last > 0 => last \in Id
    BY <1>2, LinkAssumption DEF Id
  <1>4. QED
    BY <1>1, <1>2, <1>3 DEF Event

\* The step of a thread, together with what it leaves alone, keeps LinkInv.
LEMMA SettleLink ==
  ASSUME LinkInv, NEW s \in Side, NEW k \in Id, NEW c, NEW p \in Pipe,
         NEW events \in Seq(Event), NEW results \in Seq(Answer), NEW closing \in BOOLEAN,
         ObjectInv(c), Settle(s, k, c, p, events, results, closing),
         UNCHANGED <<last, welcomed, replied, asked, called>>,
         queue' \in [Side -> Seq([k : Id, m : Message])],
         phase' \in [Side -> {"running", "closing", "ended"}],
         greeting' = FALSE \/ greeting' = greeting, faults' \in Nat
  PROVE  LinkInv'
  <1>1. /\ conn' \in [Side -> [Id -> PipeConnection]]
        /\ \A t \in Side, l \in Id : ObjectInv(conn'[t][l])
        /\ pipe' \in [Id -> Pipe] /\ listed' \in [Side -> SUBSET Id]
        /\ log' \in [Side -> [Id -> Seq(Notice \cup Arrival)]]
        /\ answers' \in Seq(Answer)
    BY SettleType
  <1>2. \A t \in Side, l \in Id : conn'[t][l].got # <<>> <=> conn'[t][l].reading = "done"
    BY <1>1 DEF ObjectInv
  <1>3. greeting \in BOOLEAN /\ greeting' \in BOOLEAN /\ (greeting' => greeting)
    <2>1. greeting \in BOOLEAN
      BY DEF LinkInv, TypeOK
    <2>2. CASE greeting' = FALSE
      BY <2>1, <2>2
    <2>3. CASE greeting' = greeting
      BY <2>1, <2>3
    <2>4. QED
      BY <2>2, <2>3
  <1>4. TypeOK'
    BY <1>1, <1>2, <1>3 DEF TypeOK, LinkInv
  <1>5. QED
    BY <1>1, <1>3, <1>4 DEF LinkInv

LEMMA PostType ==
  ASSUME LinkInv, NEW mode \in Modes, Post(mode)
  PROVE  LinkInv'
  <1> USE DEF Post
  <1> DEFINE n == Len(asked) + 1
             m == [mode |-> mode, n |-> n, seq |-> 0]
  <1>1. n \in Nat /\ asked \in Seq(Id)
    BY DEF LinkInv, TypeOK
  <1>2. m \in Message
    BY <1>1, LinkAssumption DEF Message
  <1>3. PICK k \in listed["client"] :
           queue' = [queue EXCEPT !["client"] = Append(@, [k |-> k, m |-> m])]
           /\ asked' = Append(asked, k)
    OBVIOUS
  <1>4. k \in Id /\ "client" \in Side
    BY DEF LinkInv, TypeOK, Side
  <1> HIDE DEF m, n
  <1>5. [k |-> k, m |-> m] \in [k : Id, m : Message]
    BY <1>2, <1>4
  <1>6. queue["client"] \in Seq([k : Id, m : Message])
    BY <1>4 DEF LinkInv, TypeOK
  <1>7. Append(queue["client"], [k |-> k, m |-> m]) \in Seq([k : Id, m : Message])
    BY <1>5, <1>6, AppendProperties
  <1>8. queue' \in [Side -> Seq([k : Id, m : Message])]
    BY <1>3, <1>4, <1>7 DEF LinkInv, TypeOK
  <1>9. asked' \in Seq(Id) /\ called' \subseteq Nat
    BY <1>1, <1>3, <1>4, AppendProperties DEF LinkInv, TypeOK, n
  <1>10. QED
    BY <1>8, <1>9 DEF LinkInv, TypeOK

LEMMA WelcomeType ==
  ASSUME LinkInv, NEW k \in Id, Welcome(k)
  PROVE  LinkInv'
  <1> USE DEF Welcome, history
  <1> DEFINE m == [mode |-> "message", n |-> k, seq |-> 0]
             item == [k |-> k, m |-> m]
  <1>1. m \in Message
    BY LinkAssumption DEF Message, Id
  <1>2. item \in [k : Id, m : Message]
    BY <1>1
  <1>3. queue["server"] \in Seq([k : Id, m : Message]) /\ "server" \in Side
        /\ queue \in [Side -> Seq([k : Id, m : Message])]
    BY DEF LinkInv, TypeOK, Side
  <1>4. queue' = [queue EXCEPT !["server"] = Append(@, item)] \/ queue' = queue
    OBVIOUS
  <1> HIDE DEF item
  <1>5. Append(queue["server"], item) \in Seq([k : Id, m : Message])
    BY <1>2, <1>3, AppendProperties
  <1>6. queue' \in [Side -> Seq([k : Id, m : Message])]
    BY <1>3, <1>4, <1>5
  <1>7. QED
    BY <1>6 DEF LinkInv, TypeOK

\* An event of a log has its type; one that is received carries a message.
LEMMA EventType ==
  ASSUME LinkInv, NEW s \in Side, NEW k \in Id, NEW i \in DOMAIN log[s][k]
  PROVE  /\ log[s][k][i] \in Event
         /\ log[s][k][i].what = "received" => log[s][k][i].m \in Message
  <1>1. log[s][k] \in Seq(Event)
    BY DEF LinkInv, TypeOK, Event
  <1>2. log[s][k][i] \in Event
    BY <1>1, ElementOfSeq
  <1>3. QED
    BY <1>2 DEF Event, Notice, Arrival

LEMMA ReplyType ==
  ASSUME LinkInv, NEW n \in DOMAIN asked, Reply(n)
  PROVE  LinkInv'
  <1> USE DEF Reply, history
  <1>1. PICK k \in Id : \E i \in DOMAIN log["server"][k] :
           LET e == log["server"][k][i]
           IN  /\ e.what = "received" /\ e.m.mode = "call" /\ e.m.n = n
               /\ replied' = replied \cup {n}
               /\ queue' = IF Alive("server", k)
                          THEN [queue EXCEPT !["server"] =
                                   Append(@, [k |-> k, m |-> [e.m EXCEPT !.mode = "reply"]])]
                          ELSE queue
    OBVIOUS
  <1>2. PICK i \in DOMAIN log["server"][k] :
           LET e == log["server"][k][i]
           IN  /\ e.what = "received" /\ e.m.mode = "call" /\ e.m.n = n
               /\ replied' = replied \cup {n}
               /\ queue' = IF Alive("server", k)
                          THEN [queue EXCEPT !["server"] =
                                   Append(@, [k |-> k, m |-> [e.m EXCEPT !.mode = "reply"]])]
                          ELSE queue
    BY <1>1
  <1> DEFINE m == log["server"][k][i].m
             item == [k |-> k, m |-> [m EXCEPT !.mode = "reply"]]
  <1>3. "server" \in Side
    BY DEF Side
  <1>4. m \in Message
    BY <1>2, <1>3, EventType
  <1>5. /\ queue' = [queue EXCEPT !["server"] = Append(@, item)] \/ queue' = queue
        /\ replied' = replied \cup {n}
    BY <1>2
  <1> HIDE DEF m
  <1>6. item \in [k : Id, m : Message]
    BY <1>4 DEF Message
  <1>7. queue \in [Side -> Seq([k : Id, m : Message])]
    BY DEF LinkInv, TypeOK
  <1>8. queue["server"] \in Seq([k : Id, m : Message])
    BY <1>3, <1>7
  <1> HIDE DEF item
  <1>9. Append(queue["server"], item) \in Seq([k : Id, m : Message])
    BY <1>6, <1>8, AppendProperties
  <1>10. queue' \in [Side -> Seq([k : Id, m : Message])]
    BY <1>3, <1>5, <1>7, <1>9
  <1>11. n \in Nat
    BY SMTT(30) DEF LinkInv, TypeOK
  <1>12. QED
    BY <1>5, <1>10, <1>11 DEF LinkInv, TypeOK

LEMMA CompleteReadType ==
  ASSUME LinkInv, NEW s \in Side, NEW k \in Id, CompleteRead(s, k)
  PROVE  LinkInv'
  <1> DEFINE data == pipe[k].to[s]
             c == conn[s][k]
             d == [c EXCEPT !.reading = "done", !.got = <<Head(data)>>]
             p == [pipe[k] EXCEPT !.to[s] = Tail(data)]
  <1>1. conn \in [Side -> [Id -> PipeConnection]] /\ pipe \in [Id -> Pipe]
    BY DEF LinkInv, TypeOK
  <1>2. c \in PipeConnection /\ pipe[k] \in Pipe /\ ObjectInv(c)
    BY <1>1 DEF LinkInv
  <1>3. data \in Seq(Message) /\ data # <<>>
    <2>1. data # <<>>
      BY Zenon DEF CompleteRead
    <2>2. QED
      BY <1>2, <2>1 DEF Pipe
  <1>4. Head(data) \in Message /\ Tail(data) \in Seq(Message)
    BY <1>3, HeadType
  <1>5. conn' = [conn EXCEPT ![s][k] = d] /\ pipe' = [pipe EXCEPT ![k] = p]
    BY <1>1 DEF CompleteRead
  <1> HIDE DEF data
  <1>7. ObjectInv(d)
    BY <1>2, <1>4, GotType, Zenon DEF Got
  <1>8. p \in Pipe
    BY <1>2, <1>4 DEF Pipe
  <1> HIDE DEF d, p, c
  <1>9. /\ conn' \in [Side -> [Id -> PipeConnection]] /\ pipe' \in [Id -> Pipe]
        /\ \A t \in Side, l \in Id : conn'[t][l] = d \/ conn'[t][l] = conn[t][l]
    <2>1. d \in PipeConnection
      BY <1>7 DEF ObjectInv
    <2>2. conn' \in [Side -> [Id -> PipeConnection]] /\ pipe' \in [Id -> Pipe]
      BY <1>1, <1>5, <1>8, <2>1
    <2>3. \A t \in Side, l \in Id : conn'[t][l] = d \/ conn'[t][l] = conn[t][l]
      BY <1>1, <1>5
    <2>4. QED
      BY <2>2, <2>3
  <1>10. \A t \in Side, l \in Id : ObjectInv(conn'[t][l])
    BY <1>7, <1>9 DEF LinkInv
  <1>11. \A t \in Side, l \in Id : conn'[t][l].got # <<>> <=> conn'[t][l].reading = "done"
    BY <1>10 DEF ObjectInv
  <1>12. UNCHANGED <<listed, last, greeting, queue, log, phase, welcomed, replied,
                     asked, called, faults, answers>>
    BY Zenon DEF CompleteRead, history
  <1>13. QED
    BY <1>9, <1>10, <1>11, <1>12 DEF LinkInv, TypeOK

LEMMA QueuedSendType ==
  ASSUME LinkInv, NEW s \in Side, QueuedSend(s)
  PROVE  LinkInv'
  <1> DEFINE k == Head(queue[s]).k
             m == Head(queue[s]).m
             c == conn[s][k]
             error(how) == IF m.mode = "call" THEN <<[n |-> m.n, how |-> how]>> ELSE <<>>
             sent == Sending(s, Numbered(c, m), pipe[k])
  <1>1. queue[s] \in Seq([k : Id, m : Message]) /\ queue[s] # <<>>
    BY DEF QueuedSend, LinkInv, TypeOK
  <1>2. /\ Head(queue[s]) \in [k : Id, m : Message]
        /\ Tail(queue[s]) \in Seq([k : Id, m : Message])
    BY <1>1, HeadType
  <1>3. k \in Id /\ m \in Message
    BY <1>2
  <1>4. queue' \in [Side -> Seq([k : Id, m : Message])] /\ UNCHANGED <<phase, last, greeting, welcomed, replied, asked, called, faults>>
    <2>1. /\ queue' = [queue EXCEPT ![s] = Tail(@)]
          /\ UNCHANGED <<phase, last, greeting, welcomed, replied, asked, called, faults>>
      BY DEF QueuedSend, history
    <2>2. queue \in [Side -> Seq([k : Id, m : Message])]
      BY TypeFacts
    <2>3. QED
      BY <1>2, <2>1, <2>2
  <1>5. \A how \in {"ConnectionClosed", "NoConnection"} : error(how) \in Seq(Answer)
    <2> TAKE how \in {"ConnectionClosed", "NoConnection"}
    <2>1. [n |-> m.n, how |-> how] \in Answer
      BY <1>3 DEF Answer, Message
    <2>2. QED
      BY <2>1, EmptySeq
  <1>6. \/ answers' = answers \o error("ConnectionClosed") /\ UNCHANGED <<conn, pipe, listed, log>>
        \/ c.state = "closed" /\ Settle(s, k, c, pipe[k], <<>>, error("NoConnection"), TRUE)
        \/ c.state = "open" /\ Settle(s, k, sent.c, sent.p, <<>>, <<>>, sent.closing)
    BY DEF QueuedSend
  <1>7. ObjectInv(c) /\ pipe[k] \in Pipe /\ <<>> \in Seq(Event) /\ <<>> \in Seq(Answer)
    BY <1>3, TypeFacts, EmptySeq
  <1>8. ObjectInv(sent.c) /\ sent.p \in Pipe /\ sent.closing \in BOOLEAN
    BY <1>3, <1>7, NumberedType, SendingType
  <1>9. phase' \in [Side -> {"running", "closing", "ended"}] /\ faults' \in Nat
    BY <1>4 DEF LinkInv, TypeOK
  <1> HIDE DEF k, m, c, error, sent
  <1>10. CASE answers' = answers \o error("ConnectionClosed") /\ UNCHANGED <<conn, pipe, listed, log>>
    <2>1. answers' \in Seq(Answer)
      BY <1>5, <1>10, ConcatProperties, TypeFacts
    <2>2. QED
      BY <1>4, <1>10, <2>1 DEF LinkInv, TypeOK
  <1>11. CASE Settle(s, k, c, pipe[k], <<>>, error("NoConnection"), TRUE)
    BY <1>3, <1>4, <1>5, <1>7, <1>9, <1>11, SettleLink
  <1>12. CASE Settle(s, k, sent.c, sent.p, <<>>, <<>>, sent.closing)
    BY <1>3, <1>4, <1>7, <1>8, <1>9, <1>12, SettleLink
  <1>13. QED
    BY <1>6, <1>10, <1>11, <1>12

LEMMA HandleReadCompleteType ==
  ASSUME LinkInv, NEW s \in Side, NEW k \in Id, HandleReadComplete(s, k)
  PROVE  LinkInv'
  <1> DEFINE c == conn[s][k]
             m == Head(c.got)
             mine == Answered(c, m)
             events == IF mine = {} THEN <<[what |-> "received", m |-> m]>> ELSE <<>>
             results == IF mine = {} THEN <<>> ELSE <<[n |-> m.n, how |-> "reply"]>>
  <1>1. ObjectInv(c) /\ pipe[k] \in Pipe
    BY TypeFacts
  <1>2. c.got # <<>> /\ c.got \in Seq(Message)
    BY <1>1 DEF HandleReadComplete, ObjectInv, PipeConnection
  <1>3. m \in Message
    BY <1>2, HeadType
  <1>4. PICK next \in Reading(s, Handled(c, mine), pipe[k]) :
           Settle(s, k, next.c, pipe[k], events, results, next.closing)
    BY DEF HandleReadComplete
  <1>5. UNCHANGED <<last, greeting, queue, phase, welcomed, replied, asked, called, faults>>
    BY DEF HandleReadComplete, history
  <1> HIDE DEF c, mine
  <1>6. ObjectInv(next.c) /\ next.closing \in BOOLEAN
    <2> DEFINE d == Handled(c, mine)
    <2>1. /\ d \in PipeConnection /\ d.got = <<>> /\ (d.writing => d.writeQueue # <<>>)
          /\ IsFiniteSet(d.rpc)
      BY <1>1, HandledType
    <2>2. next \in Reading(s, d, pipe[k])
      BY <1>4
    <2> HIDE DEF d
    <2>3. QED
      BY <1>1, <2>1, <2>2, ReadingType
  <1> HIDE DEF m
  <1>7. events \in Seq(Event) /\ results \in Seq(Answer)
    <2>1. [what |-> "received", m |-> m] \in Event
      BY <1>3 DEF Event, Arrival
    <2>2. [n |-> m.n, how |-> "reply"] \in Answer
      BY <1>3 DEF Answer, Message
    <2>3. QED
      BY <2>1, <2>2, EmptySeq
  <1> HIDE DEF events, results
  <1>8. phase' \in [Side -> {"running", "closing", "ended"}] /\ faults' \in Nat
        /\ queue' \in [Side -> Seq([k : Id, m : Message])]
    BY <1>5 DEF LinkInv, TypeOK
  <1>9. QED
    BY <1>1, <1>4, <1>5, <1>6, <1>7, <1>8, SettleLink

LEMMA HandleReadErrorType ==
  ASSUME LinkInv, NEW s \in Side, NEW k \in Id, HandleReadError(s, k)
  PROVE  LinkInv'
  <1>1. ObjectInv(conn[s][k]) /\ pipe[k] \in Pipe
    BY TypeFacts
  <1>2. /\ conn[s][k].reading # "done"
        /\ UNCHANGED <<last, greeting, queue, phase, welcomed, replied, asked, called, faults>>
    BY DEF HandleReadError, history
  <1>3. Settle(s, k, Unread(conn[s][k]), pipe[k], <<>>, <<>>, TRUE)
    BY Zenon DEF HandleReadError, Unread
  <1>4. ObjectInv(Unread(conn[s][k])) /\ <<>> \in Seq(Event) /\ <<>> \in Seq(Answer)
    BY <1>1, <1>2, UnreadType, EmptySeq
  <1>5. QED
    BY <1>1, <1>2, <1>3, <1>4, SettleLink DEF LinkInv, TypeOK

LEMMA HandleWriteCompleteType ==
  ASSUME LinkInv, NEW s \in Side, NEW k \in Id, HandleWriteComplete(s, k)
  PROVE  LinkInv'
  <1> DEFINE c == Written(conn[s][k])
             next == Sending(s, c, pipe[k])
  <1>1. ObjectInv(conn[s][k]) /\ pipe[k] \in Pipe
    BY TypeFacts
  <1>2. /\ conn[s][k].writing
        /\ UNCHANGED <<last, greeting, queue, phase, welcomed, replied, asked, called, faults>>
    BY Zenon DEF HandleWriteComplete, history
  <1>3. \/ Settle(s, k, next.c, next.p, <<>>, <<>>, next.closing)
        \/ Settle(s, k, c, pipe[k], <<>>, <<>>, TRUE)
    BY Zenon DEF HandleWriteComplete, Written
  <1>4. ObjectInv(c) /\ <<>> \in Seq(Event) /\ <<>> \in Seq(Answer)
    BY <1>1, <1>2, WrittenType, EmptySeq
  <1> HIDE DEF c
  <1>5. ObjectInv(next.c) /\ next.p \in Pipe /\ next.closing \in BOOLEAN
    BY <1>1, <1>4, SendingType
  <1> HIDE DEF next
  <1>6. phase' \in [Side -> {"running", "closing", "ended"}] /\ faults' \in Nat
        /\ queue' \in [Side -> Seq([k : Id, m : Message])]
    BY <1>2 DEF LinkInv, TypeOK
  <1>7. CASE Settle(s, k, next.c, next.p, <<>>, <<>>, next.closing)
    BY <1>2, <1>4, <1>5, <1>6, <1>7, SettleLink
  <1>8. CASE Settle(s, k, c, pipe[k], <<>>, <<>>, TRUE)
    BY <1>1, <1>2, <1>4, <1>6, <1>8, SettleLink
  <1>9. QED
    BY <1>3, <1>7, <1>8

LEMMA ConnectType ==
  ASSUME LinkInv, Connect
  PROVE  LinkInv'
  <1> DEFINE k == last + 1
  <1>1. k \in Id /\ "client" \in Side /\ last < MaxConn
    BY TypeFacts, LinkAssumption DEF Connect, Id, Side
  <1>2. /\ last' = k /\ conn' = [conn EXCEPT !["client"][k] = Opened]
        /\ listed' = [listed EXCEPT !["client"] = {k}] /\ greeting' = TRUE
        /\ UNCHANGED <<pipe, queue, log, phase, welcomed, replied, asked, called, faults, answers>>
    BY DEF Connect, history
  <1>3. Opened \in PipeConnection /\ ObjectInv(Opened)
    BY NoObjectInv DEF ObjectInv
  <1> HIDE DEF k
  <1>4. conn \in [Side -> [Id -> PipeConnection]] /\ listed \in [Side -> SUBSET Id]
    BY TypeFacts
  <1>5. /\ conn' \in [Side -> [Id -> PipeConnection]] /\ listed' \in [Side -> SUBSET Id]
        /\ \A t \in Side, l \in Id : conn'[t][l] = Opened \/ conn'[t][l] = conn[t][l]
    BY <1>1, <1>2, <1>3, <1>4
  <1>6. \A t \in Side, l \in Id : ObjectInv(conn'[t][l])
    BY <1>3, <1>5, TypeFacts
  <1>7. \A t \in Side, l \in Id : conn'[t][l].got # <<>> <=> conn'[t][l].reading = "done"
    BY <1>6 DEF ObjectInv
  <1>8. last' \in Nat /\ last' <= MaxConn /\ last' > 0
    BY <1>1, <1>2, TypeFacts, LinkAssumption DEF k
  <1>9. TypeOK'
    BY <1>2, <1>5, <1>7, <1>8 DEF LinkInv, TypeOK
  <1>10. QED
    BY <1>6, <1>8, <1>9 DEF LinkInv

LEMMA GreetType ==
  ASSUME LinkInv, Greet
  PROVE  LinkInv'
  <1> DEFINE hello == [mode |-> "message", n |-> 0, seq |-> 0]
             sent == Sending("client", Numbered(conn["client"][last], hello), pipe[last])
  <1>1. last \in Id /\ "client" \in Side /\ ObjectInv(conn["client"][last]) /\ pipe[last] \in Pipe
    BY TypeFacts DEF Greet, Side
  <1>2. hello \in Message
    BY DEF Message
  <1> HIDE DEF hello
  <1>3. ObjectInv(sent.c) /\ sent.p \in Pipe /\ sent.closing \in BOOLEAN
    BY <1>1, <1>2, NumberedType, SendingType
  <1>4. /\ Settle("client", last, sent.c, sent.p, <<>>, <<>>, sent.closing)
        /\ greeting' = FALSE
        /\ UNCHANGED <<last, queue, phase, welcomed, replied, asked, called, faults>>
    BY DEF Greet, history, hello
  <1> HIDE DEF sent
  <1>5. /\ phase' \in [Side -> {"running", "closing", "ended"}] /\ faults' \in Nat
        /\ queue' \in [Side -> Seq([k : Id, m : Message])]
        /\ <<>> \in Seq(Event) /\ <<>> \in Seq(Answer)
    BY <1>4, EmptySeq DEF LinkInv, TypeOK
  <1>6. QED
    BY <1>1, <1>3, <1>4, <1>5, SettleLink

LEMMA AcceptType ==
  ASSUME LinkInv, Accept
  PROVE  LinkInv'
  <1> DEFINE opened == Opening(NoObject)
  <1>1. last \in Id /\ "server" \in Side /\ pipe[last] \in Pipe
    BY TypeFacts DEF Accept, Side
  <1>2. PICK first \in Reading("server", opened, pipe[last]) :
          /\ conn' = [conn EXCEPT !["server"][last] =
                         IF first.closing THEN Closed(first.c) ELSE first.c]
          /\ pipe' = [pipe EXCEPT ![last] = IF first.closing THEN ShutPipe("server", @) ELSE @]
          /\ log' = [log EXCEPT !["server"][last] =
                ClosedNotices("server", first.c, first.closing, FALSE)
                \o <<[what |-> "incoming"]>>]
    BY Zenon DEF Accept, Opening
  <1>3. listed' = [listed EXCEPT !["server"] = @ \cup {last}]
        /\ UNCHANGED <<last, greeting, queue, phase, welcomed, replied, asked, called, faults, answers>>
    BY Zenon DEF Accept, history
  <1>4. opened \in PipeConnection /\ opened.got = <<>> /\ opened.writing = FALSE /\ IsFiniteSet(opened.rpc)
    BY NoObjectInv DEF ObjectInv
  <1> HIDE DEF opened
  <1>5. ObjectInv(first.c) /\ first.closing \in BOOLEAN
    BY <1>1, <1>4, ReadingType
  <1> DEFINE object == IF first.closing THEN Closed(first.c) ELSE first.c
             p == IF first.closing THEN ShutPipe("server", pipe[last]) ELSE pipe[last]
             notices == ClosedNotices("server", first.c, first.closing, FALSE)
             incoming == [what |-> "incoming"]
             events == notices \o <<incoming>>
  <1>6. ObjectInv(object) /\ p \in Pipe
    BY <1>1, <1>5, ClosedType, ShutPipeType
  <1>7. notices \in Seq(Event)
    BY <1>1, <1>5, ClosedNoticesType
  <1>8. incoming \in Event
    BY DEF Event, Notice
  <1> HIDE DEF notices, incoming
  <1>9. events \in Seq(Event)
    BY <1>7, <1>8, ConcatProperties
  <1>10. /\ conn' = [conn EXCEPT !["server"][last] = object] /\ pipe' = [pipe EXCEPT ![last] = p]
         /\ log' = [log EXCEPT !["server"][last] = events]
    BY <1>2 DEF notices, incoming
  <1>11. /\ conn \in [Side -> [Id -> PipeConnection]] /\ pipe \in [Id -> Pipe]
         /\ log \in [Side -> [Id -> Seq(Event)]] /\ listed \in [Side -> SUBSET Id]
    BY TypeFacts
  <1>12. object \in PipeConnection
    BY <1>6 DEF ObjectInv
  <1> HIDE DEF object, p, events
  <1>13. /\ conn' \in [Side -> [Id -> PipeConnection]] /\ pipe' \in [Id -> Pipe]
         /\ \A t \in Side, l \in Id : conn'[t][l] = object \/ conn'[t][l] = conn[t][l]
    BY <1>1, <1>6, <1>10, <1>11, <1>12
  <1>14. log' \in [Side -> [Id -> Seq(Event)]] /\ listed' \in [Side -> SUBSET Id]
    BY <1>1, <1>3, <1>9, <1>10, <1>11
  <1>15. \A t \in Side, l \in Id : ObjectInv(conn'[t][l])
    BY <1>6, <1>13, TypeFacts
  <1>16. \A t \in Side, l \in Id : conn'[t][l].got # <<>> <=> conn'[t][l].reading = "done"
    BY <1>15 DEF ObjectInv
  <1>17. TypeOK'
    BY <1>3, <1>13, <1>14, <1>16 DEF LinkInv, TypeOK, Event
  <1>18. QED
    BY <1>3, <1>15, <1>17 DEF LinkInv

\* What the types say of the rest of the state.
LEMMA RestFacts ==
  ASSUME LinkInv
  PROVE  /\ phase \in [Side -> {"running", "closing", "ended"}] /\ faults \in Nat
         /\ last \in Nat /\ greeting \in BOOLEAN /\ welcomed \subseteq Id /\ replied \subseteq Nat
         /\ asked \in Seq(Id) /\ called \subseteq Nat /\ answers \in Seq(Answer)
         /\ queue \in [Side -> Seq([k : Id, m : Message])] /\ last <= MaxConn
         /\ log \in [Side -> [Id -> Seq(Notice \cup Arrival)]] /\ listed \in [Side -> SUBSET Id]
  BY DEF LinkInv, TypeOK

LEMMA PhaseFacts ==
  ASSUME LinkInv
  PROVE  phase \in [Side -> {"running", "closing", "ended"}] /\ faults \in Nat
  BY DEF LinkInv, TypeOK

LEMMA CrashType ==
  ASSUME LinkInv, Crash
  PROVE  LinkInv'
  <1>1. /\ conn' = [conn EXCEPT !["client"] = [k \in Id |-> NoObject]]
        /\ pipe' = [k \in Id |-> IF conn["client"][k].state = "open"
                                  THEN ShutPipe("client", pipe[k]) ELSE pipe[k]]
        /\ listed' = [listed EXCEPT !["client"] = {}]
        /\ greeting' = FALSE /\ faults' = faults + 1
        /\ queue' = [queue EXCEPT !["client"] = <<>>]
        /\ called' = {} /\ answers' = <<>>
        /\ UNCHANGED <<last, log, phase, welcomed, replied, asked>>
    BY DEF Crash
  <1>2. /\ conn \in [Side -> [Id -> PipeConnection]] /\ pipe \in [Id -> Pipe]
        /\ queue \in [Side -> Seq([k : Id, m : Message])] /\ listed \in [Side -> SUBSET Id]
    BY TypeFacts
  <1>3. NoObject \in PipeConnection /\ ObjectInv(NoObject) /\ "client" \in Side
    BY NoObjectInv DEF ObjectInv, Side
  <1>4. \A k \in Id : ShutPipe("client", pipe[k]) \in Pipe
    BY <1>2, <1>3, ShutPipeType
  <1>5. /\ conn' \in [Side -> [Id -> PipeConnection]]
        /\ \A t \in Side, l \in Id : conn'[t][l] = NoObject \/ conn'[t][l] = conn[t][l]
    BY <1>1, <1>2, <1>3
  <1>6. pipe' \in [Id -> Pipe]
    BY <1>1, <1>2, <1>4
  <1>7. queue' \in [Side -> Seq([k : Id, m : Message])] /\ listed' \in [Side -> SUBSET Id]
        /\ answers' \in Seq(Answer)
    BY <1>1, <1>2, EmptySeq
  <1>8. \A t \in Side, l \in Id : ObjectInv(conn'[t][l])
    BY <1>3, <1>5, TypeFacts
  <1>9. \A t \in Side, l \in Id : conn'[t][l].got # <<>> <=> conn'[t][l].reading = "done"
    BY <1>8 DEF ObjectInv
  <1>10. TypeOK'
    <2>0. faults' \in Nat
      BY <1>1, PhaseFacts
    <2>1. greeting' \in BOOLEAN /\ called' \subseteq Nat
      BY <1>1
    <2>2. /\ log' \in [Side -> [Id -> Seq(Notice \cup Arrival)]]
          /\ last' \in Nat /\ phase' \in [Side -> {"running", "closing", "ended"}]
          /\ welcomed' \subseteq Id /\ replied' \subseteq Nat /\ asked' \in Seq(Id)
      BY <1>1, RestFacts
    <2>3. QED
      BY <1>5, <1>6, <1>7, <1>9, <2>0, <2>1, <2>2 DEF TypeOK
  <1>11. last' <= MaxConn /\ ~greeting'
    BY <1>1, RestFacts
  <1>12. QED
    BY <1>8, <1>10, <1>11 DEF LinkInv

LEMMA StopClientType ==
  ASSUME LinkInv, StopClient
  PROVE  LinkInv'
  <1>1. /\ UNCHANGED <<last, greeting, queue, welcomed, replied, asked, called>>
        /\ phase' = [phase EXCEPT !["client"] = "ended"] /\ faults' = faults + 1
    BY DEF StopClient
  <1>2. /\ phase' \in [Side -> {"running", "closing", "ended"}] /\ faults' \in Nat
        /\ queue' \in [Side -> Seq([k : Id, m : Message])]
    <2>1. phase' = [phase EXCEPT !["client"] = "ended"] /\ faults' = faults + 1
      BY <1>1
    <2>2. phase' \in [Side -> {"running", "closing", "ended"}]
      BY <2>1, PhaseFacts
    <2>3. faults' \in Nat
      BY <2>1, PhaseFacts
    <2>4. QED
      BY <1>1, <2>2, <2>3, RestFacts
  <1>3. CASE UNCHANGED <<conn, pipe, listed, log, answers>>
    BY <1>1, <1>2, <1>3 DEF LinkInv, TypeOK
  <1>4. ASSUME NEW k \in listed["client"],
               Settle("client", k, conn["client"][k], pipe[k], <<>>, <<>>, TRUE)
        PROVE  LinkInv'
    <2>1. k \in Id /\ "client" \in Side
      BY TypeFacts DEF Side
    <2>2. ObjectInv(conn["client"][k]) /\ pipe[k] \in Pipe
          /\ <<>> \in Seq(Event) /\ <<>> \in Seq(Answer)
      BY <2>1, TypeFacts, EmptySeq
    <2>3. QED
      BY <1>1, <1>2, <1>4, <2>1, <2>2, SettleLink
  <1>5. QED
    BY <1>3, <1>4 DEF StopClient

\* What StopServer changes, pointwise.
LEMMA StopServerFacts ==
  ASSUME LinkInv, StopServer
  PROVE  /\ conn' \in [Side -> [Id -> PipeConnection]] /\ pipe' \in [Id -> Pipe]
         /\ \A l \in Id : conn'["client"][l] = conn["client"][l]
         /\ \A l \in Id : conn'["server"][l] =
               IF l \in listed["server"] /\ conn["server"][l].state = "open"
               THEN Closed(conn["server"][l]) ELSE conn["server"][l]
         /\ \A l \in Id : \/ pipe'[l] = ShutPipe("server", pipe[l])
                            \/ pipe'[l] = pipe[l]
         /\ \A l \in Id : l \in 1..last \/ l \in listed["server"] \/ pipe'[l] = pipe[l]
         /\ UNCHANGED <<listed, last, greeting, queue, log, welcomed, replied, asked, called, answers>>
         /\ phase' = [phase EXCEPT !["server"] = "closing"] /\ faults' = faults + 1
  <1> DEFINE closes == {k \in listed["server"] : conn["server"][k].state = "open"}
             free == {k \in 1..last : conn["server"][k].state = "none"}
  <1>1. /\ conn' = [conn EXCEPT !["server"] =
                 [k \in Id |-> IF k \in closes THEN Closed(@[k]) ELSE @[k]]]
        /\ pipe' = [k \in Id |-> IF k \in closes \cup free
                                    THEN ShutPipe("server", pipe[k]) ELSE pipe[k]]
        /\ UNCHANGED <<listed, last, greeting, queue, log, welcomed, replied, asked, called, answers>>
        /\ phase' = [phase EXCEPT !["server"] = "closing"] /\ faults' = faults + 1
    BY DEF StopServer
  <1>2. /\ conn \in [Side -> [Id -> PipeConnection]] /\ pipe \in [Id -> Pipe]
        /\ \A t \in Side, l \in Id : ObjectInv(conn[t][l])
    BY TypeFacts
  <1>3. "server" \in Side /\ "client" \in Side /\ "server" # "client"
    BY DEF Side
  <1>4. \A k \in Id : Closed(conn["server"][k]) \in PipeConnection
    BY <1>2, <1>3, ClosedType DEF ObjectInv
  <1>5. \A k \in Id : ShutPipe("server", pipe[k]) \in Pipe
    BY <1>2, <1>3, ShutPipeType
  <1>6. \A k \in Id : k \in closes <=> k \in listed["server"] /\ conn["server"][k].state = "open"
    OBVIOUS
  <1>7. \A k \in free : k \in 1..last
    OBVIOUS
  <1> HIDE DEF closes, free
  <1>8. /\ conn' \in [Side -> [Id -> PipeConnection]] /\ pipe' \in [Id -> Pipe]
    BY <1>1, <1>2, <1>3, <1>4, <1>5
  <1>9. /\ \A l \in Id : conn'["client"][l] = conn["client"][l]
        /\ \A l \in Id : conn'["server"][l] =
              IF l \in closes THEN Closed(conn["server"][l]) ELSE conn["server"][l]
    BY <1>1, <1>2, <1>3
  <1>10. /\ \A l \in Id : pipe'[l] = ShutPipe("server", pipe[l]) \/ pipe'[l] = pipe[l]
         /\ \A l \in Id : l \in closes \/ l \in free \/ pipe'[l] = pipe[l]
    BY <1>1
  <1>11. QED
    BY <1>1, <1>6, <1>7, <1>8, <1>9, <1>10

LEMMA StopServerType ==
  ASSUME LinkInv, StopServer
  PROVE  LinkInv'
  <1>1. \A t \in Side, l \in Id : ObjectInv(conn'[t][l])
    <2> TAKE t \in Side, l \in Id
    <2>1. t = "client" \/ t = "server"
      BY DEF Side
    <2>2. conn'[t][l] = conn[t][l] \/ conn'[t][l] = Closed(conn[t][l])
      BY <2>1, StopServerFacts
    <2>3. QED
      BY <2>2, TypeFacts, ClosedType
  <1>2. \A t \in Side, l \in Id : conn'[t][l].got # <<>> <=> conn'[t][l].reading = "done"
    BY <1>1 DEF ObjectInv
  <1>3. TypeOK'
    <2>1. phase' \in [Side -> {"running", "closing", "ended"}] /\ faults' \in Nat
      <3>1. phase' = [phase EXCEPT !["server"] = "closing"] /\ faults' = faults + 1
        BY StopServerFacts
      <3>2. phase' \in [Side -> {"running", "closing", "ended"}]
        BY <3>1, PhaseFacts
      <3>3. faults' \in Nat
        BY <3>1, PhaseFacts
      <3>4. QED
        BY <3>2, <3>3
    <2>2. conn' \in [Side -> [Id -> PipeConnection]] /\ pipe' \in [Id -> Pipe]
      BY StopServerFacts
    <2>3. /\ log' \in [Side -> [Id -> Seq(Notice \cup Arrival)]] /\ greeting' \in BOOLEAN
          /\ last' \in Nat /\ listed' \in [Side -> SUBSET Id] /\ called' \subseteq Nat
          /\ welcomed' \subseteq Id /\ replied' \subseteq Nat /\ asked' \in Seq(Id)
          /\ answers' \in Seq(Answer) /\ queue' \in [Side -> Seq([k : Id, m : Message])]
      BY StopServerFacts, RestFacts
    <2>4. QED
      BY <1>2, <2>1, <2>2, <2>3 DEF TypeOK
  <1>4. QED
    BY <1>1, <1>3, StopServerFacts DEF LinkInv

LEMMA StutterLink == ASSUME LinkInv, UNCHANGED vars PROVE LinkInv'
  BY DEF LinkInv, TypeOK, vars

\* The actions of Next, one by one.
LEMMA NextSplit ==
  ASSUME Next
  PROVE  \/ \E mode \in Modes : Post(mode)
         \/ \E k \in Id : Welcome(k)
         \/ \E n \in DOMAIN asked : Reply(n)
         \/ \E s \in Side, k \in Id : CompleteRead(s, k)
         \/ \E s \in Side : QueuedSend(s)
         \/ \E s \in Side, k \in Id : HandleReadComplete(s, k)
         \/ \E s \in Side, k \in Id : HandleReadError(s, k)
         \/ \E s \in Side, k \in Id : HandleWriteComplete(s, k)
         \/ Connect \/ Greet \/ Accept \/ Crash \/ StopClient \/ StopServer
  BY DEF Next, MainThread, System, PipeThread, Completion

LEMMA NextLink ==
  ASSUME LinkInv, [Next]_vars
  PROVE  LinkInv'
  <1>1. CASE UNCHANGED vars
    BY <1>1, StutterLink
  <1>2. CASE Next
    BY <1>2, NextSplit, PostType, WelcomeType, ReplyType, CompleteReadType, QueuedSendType,
       HandleReadCompleteType, HandleReadErrorType, HandleWriteCompleteType, ConnectType,
       GreetType, AcceptType, CrashType, StopClientType, StopServerType
  <1>3. QED
    BY <1>1, <1>2

LEMMA AlwaysLink == Spec => []LinkInv
  BY InitLink, NextLink, PTL DEF Spec

\* Every object, pipe, queue and log keeps its type, at most one read of an
\* object holds data, and it does so exactly while its completion routine is
\* due (m_self and the buffers of InternalBeginRead and HandleReadComplete).
THEOREM TypeCorrect == Spec => []TypeOK
  <1>1. LinkInv => TypeOK
    BY DEF LinkInv
  <1>2. QED
    BY <1>1, AlwaysLink, PTL

-----------------------------------------------------------------------------
(* What the operations on one connection change, field by field.            *)

\* Every field but the three of the write queue and the reference it leaks.
SameRead(d, c) ==
    /\ d.state = c.state /\ d.reading = c.reading /\ d.got = c.got
    /\ d.rpc = c.rpc /\ d.nextSeq = c.nextSeq

\* What InternalBeginSend may have done.
Wrote(s, c, p, r) ==
    /\ SameRead(r.c, c) /\ r.c.writeQueue = c.writeQueue
    /\ \/ (c.writing \/ c.writeQueue = <<>>) /\ r.c = c /\ r.p = p /\ r.closing = FALSE
       \/ Broken(s, c, p) /\ r.p = p /\ r.closing = TRUE /\ r.c.writing = c.writing /\ ~c.writing
       \/ /\ ~c.writing /\ c.writeQueue # <<>> /\ ~Broken(s, c, p) /\ r.closing = FALSE
          /\ r.c.writing = TRUE /\ r.c.leaked = c.leaked /\ r.p.shut = p.shut
          /\ r.p.to[Other(s)] = Append(p.to[Other(s)], Head(c.writeQueue))
          /\ r.p.to[s] = p.to[s]

LEMMA SendingCases ==
  ASSUME NEW s \in Side, NEW c, ObjectInv(c), NEW p \in Pipe
  PROVE  Wrote(s, c, p, Sending(s, c, p))
  <1> USE DEF Wrote
  <1> DEFINE r == Sending(s, c, p)
             leak == [c EXCEPT !.leaked = TRUE]
             write == [c EXCEPT !.writing = TRUE]
             q == Append(p.to[Other(s)], Head(c.writeQueue))
             pp == [p EXCEPT !.to[Other(s)] = q]
  <1>1. c \in PipeConnection /\ p.to \in [Side -> Seq(Message)] /\ Other(s) \in Side /\ Other(s) # s
    BY SideSplit DEF ObjectInv, Pipe
  <1>2. SameRead(leak, c) /\ leak.writeQueue = c.writeQueue /\ leak.writing = c.writing
    BY <1>1 DEF SameRead, PipeConnection
  <1>3. SameRead(write, c) /\ write.writeQueue = c.writeQueue /\ write.writing = TRUE /\ write.leaked = c.leaked
    BY <1>1 DEF SameRead, PipeConnection
  <1> HIDE DEF leak, write
  <1>4. pp.shut = p.shut /\ pp.to[Other(s)] = q /\ pp.to[s] = p.to[s]
    BY <1>1 DEF Pipe
  <1> HIDE DEF pp, q
  <1>5. CASE c.writing \/ c.writeQueue = <<>>
    <2>1. r = [c |-> c, p |-> p, closing |-> FALSE]
      BY <1>5 DEF Sending
    <2>2. SameRead(c, c)
      BY DEF SameRead
    <2> HIDE DEF r
    <2>3. r.c = c /\ r.p = p /\ r.closing = FALSE
      BY <2>1
    <2>4. QED
      BY <1>5, <2>2, <2>3, Zenon DEF r
  <1>6. CASE ~(c.writing \/ c.writeQueue = <<>>) /\ Broken(s, c, p)
    <2>1. r = [c |-> leak, p |-> p, closing |-> TRUE]
      BY <1>6, Zenon DEF Sending, leak
    <2> HIDE DEF r
    <2>2. r.c = leak /\ r.p = p /\ r.closing = TRUE
      BY <2>1
    <2>3. QED
      BY <1>2, <1>6, <2>2, Zenon DEF r
  <1>7. CASE ~(c.writing \/ c.writeQueue = <<>>) /\ ~Broken(s, c, p)
    <2>1. r = [c |-> write, p |-> pp, closing |-> FALSE]
      BY <1>7, Zenon DEF Sending, write, pp, q
    <2> HIDE DEF r
    <2>2. r.c = write /\ r.p = pp /\ r.closing = FALSE
      BY <2>1
    <2>3. QED
      BY <1>3, <1>4, <1>7, <2>2, Zenon DEF r, q
  <1>8. QED
    BY <1>5, <1>6, <1>7

LEMMA SendingSame ==
  ASSUME NEW s \in Side, NEW c, ObjectInv(c), NEW p \in Pipe
  PROVE  /\ Sending(s, c, p).c.state = c.state /\ Sending(s, c, p).c.reading = c.reading
         /\ Sending(s, c, p).c.got = c.got /\ Sending(s, c, p).c.rpc = c.rpc
         /\ Sending(s, c, p).c.nextSeq = c.nextSeq /\ Sending(s, c, p).c.writeQueue = c.writeQueue
  <1> DEFINE r == Sending(s, c, p)
  <1>1. SameRead(r.c, c) /\ r.c.writeQueue = c.writeQueue
    BY SendingCases, Zenon DEF Wrote
  <1> HIDE DEF r
  <1>2. /\ r.c.state = c.state /\ r.c.reading = c.reading /\ r.c.got = c.got
        /\ r.c.rpc = c.rpc /\ r.c.nextSeq = c.nextSeq /\ r.c.writeQueue = c.writeQueue
    BY <1>1 DEF SameRead
  <1>3. QED
    BY <1>2 DEF r

LEMMA NumberedFacts ==
  ASSUME NEW c, ObjectInv(c), NEW m \in Message
  PROVE  LET d == Numbered(c, m)
             seq == IF m.seq = 0 THEN c.nextSeq ELSE m.seq
         IN  /\ d.state = c.state /\ d.reading = c.reading /\ d.got = c.got
             /\ d.writing = c.writing /\ d.leaked = c.leaked
             /\ d.nextSeq = IF m.seq = 0 THEN c.nextSeq + 1 ELSE c.nextSeq
             /\ d.rpc = IF m.mode = "call" THEN c.rpc \cup {[seq |-> seq, n |-> m.n]} ELSE c.rpc
             /\ d.writeQueue = Append(c.writeQueue, [mode |-> m.mode, n |-> m.n, seq |-> seq])
  <1> DEFINE seq == IF m.seq = 0 THEN c.nextSeq ELSE m.seq
             named == [mode |-> m.mode, n |-> m.n, seq |-> seq]
             rpc == IF m.mode = "call" THEN c.rpc \cup {[seq |-> seq, n |-> m.n]} ELSE c.rpc
             next == IF m.seq = 0 THEN c.nextSeq + 1 ELSE c.nextSeq
             line == Append(c.writeQueue, named)
  <1>1. [m EXCEPT !.seq = seq] = named
    BY DEF Message
  <1>2. c \in PipeConnection
    BY DEF ObjectInv
  <1>3. Numbered(c, m) = [c EXCEPT !.nextSeq = next, !.rpc = rpc, !.writeQueue = line]
    BY <1>1, <1>2 DEF Numbered, PipeConnection
  <1> HIDE DEF next, rpc, line
  <1>4. /\ Numbered(c, m).state = c.state /\ Numbered(c, m).reading = c.reading
        /\ Numbered(c, m).got = c.got /\ Numbered(c, m).writing = c.writing
        /\ Numbered(c, m).leaked = c.leaked
        /\ Numbered(c, m).nextSeq = next /\ Numbered(c, m).rpc = rpc
        /\ Numbered(c, m).writeQueue = line
    BY <1>2, <1>3 DEF PipeConnection
  <1>5. QED
    BY <1>4 DEF next, rpc, line

LEMMA ReadingCases ==
  ASSUME NEW s \in Side, NEW c \in PipeConnection, NEW p, NEW next \in Reading(s, c, p)
  PROVE  /\ next.c.state = c.state /\ next.c.got = c.got /\ next.c.rpc = c.rpc
         /\ next.c.nextSeq = c.nextSeq /\ next.c.writing = c.writing
         /\ next.c.writeQueue = c.writeQueue
         /\ \/ next.closing = FALSE /\ next.c.reading = "pending" /\ c.state # "closed"
            \/ next.closing = TRUE /\ next.c.reading = "no"
  <1> DEFINE started == [c EXCEPT !.reading = "pending"]
             failed == [c EXCEPT !.reading = "no", !.leaked = TRUE]
  <1>1. /\ started.state = c.state /\ started.got = c.got /\ started.reading = "pending"
        /\ started.rpc = c.rpc /\ started.nextSeq = c.nextSeq
        /\ started.writing = c.writing /\ started.writeQueue = c.writeQueue
    BY DEF PipeConnection
  <1>2. /\ failed.state = c.state /\ failed.got = c.got /\ failed.reading = "no"
        /\ failed.rpc = c.rpc /\ failed.nextSeq = c.nextSeq
        /\ failed.writing = c.writing /\ failed.writeQueue = c.writeQueue
    BY DEF PipeConnection
  <1>3. \/ next = [c |-> started, closing |-> FALSE] /\ c.state # "closed"
        \/ next = [c |-> failed, closing |-> TRUE]
    BY Zenon DEF Reading
  <1> HIDE DEF started, failed
  <1>4. CASE next = [c |-> started, closing |-> FALSE] /\ c.state # "closed"
    <2>1. next.c = started /\ next.closing = FALSE
      BY <1>4
    <2>2. QED
      BY <1>1, <1>4, <2>1
  <1>5. CASE next = [c |-> failed, closing |-> TRUE]
    <2>1. next.c = failed /\ next.closing = TRUE
      BY <1>5
    <2>2. QED
      BY <1>2, <2>1
  <1>6. QED
    BY <1>3, <1>4, <1>5

\* The end of a connection that a step reports.
LEMMA ClosedNoticesFacts ==
  ASSUME NEW c, NEW closing \in BOOLEAN, NEW destroyed \in BOOLEAN
  PROVE  /\ ClosedNotices("client", c, closing, destroyed) = <<>>
         /\ ~closing /\ ~destroyed => ClosedNotices("server", c, closing, destroyed) = <<>>
         /\ \A i \in DOMAIN ClosedNotices("server", c, closing, destroyed) :
               ClosedNotices("server", c, closing, destroyed)[i].what = "closed"
         /\ closing \/ destroyed => ClosedNotices("server", c, closing, destroyed) # <<>>
  <1> DEFINE one == [what |-> "closed"]
             notices == ClosedNotices("server", c, closing, destroyed)
  <1>1. one.what = "closed" /\ one \in Event
    BY DEF Event, Notice
  <1>2. notices = (IF closing THEN <<one>> ELSE <<>>) \o (IF destroyed THEN <<one>> ELSE <<>>)
    BY DEF ClosedNotices
  <1> HIDE DEF one, notices
  <1> DEFINE a == IF closing THEN <<one>> ELSE <<>>
             b == IF destroyed THEN <<one>> ELSE <<>>
  <1>3. /\ a \in Seq({one}) /\ b \in Seq({one})
        /\ Len(a) = (IF closing THEN 1 ELSE 0) /\ Len(b) = (IF destroyed THEN 1 ELSE 0)
    <2>1. <<one>> \in Seq({one}) /\ Len(<<one>>) = 1
      OBVIOUS
    <2>2. <<>> \in Seq({one}) /\ Len(<<>>) = 0
      BY EmptySeq
    <2> DEFINE single == <<one>>
    <2> HIDE DEF single
    <2>3. a = (IF closing THEN single ELSE <<>>) /\ b = (IF destroyed THEN single ELSE <<>>)
      BY DEF single
    <2>4. single \in Seq({one}) /\ Len(single) = 1
      BY <2>1 DEF single
    <2> HIDE DEF a, b
    <2>5. QED
      BY <2>2, <2>3, <2>4
  <1>10. notices = a \o b
    BY <1>2
  <1> HIDE DEF a, b
  <1>11. notices \in Seq({one}) /\ Len(notices) = Len(a) + Len(b)
    BY <1>3, <1>10, ConcatProperties
  <1>4. \A i \in DOMAIN notices : notices[i].what = "closed"
    <2> TAKE i \in DOMAIN notices
    <2>1. notices[i] \in {one}
      BY <1>11, ElementOfSeq
    <2>2. QED
      BY <1>1, <2>1
  <1>5. (closing \/ destroyed => notices # <<>>) /\ (~closing /\ ~destroyed => notices = <<>>)
    BY <1>3, <1>11, EmptySeq
  <1>6. ClosedNotices("client", c, closing, destroyed) = <<>>
    BY DEF ClosedNotices
  <1>7. QED
    BY <1>4, <1>5, <1>6 DEF notices

-----------------------------------------------------------------------------
(* ClosedIsLast.                                                            *)

\* An open connection of the launcher always has a read outstanding.
ReadInv == \A k \in Id : conn["server"][k].state = "open" => conn["server"][k].reading # "no"

\* The end of a log that ends with a report of the end.
EndsWell(q) == \E i \in DOMAIN q : /\ q[i].what = "closed"
                                  /\ \A j \in DOMAIN q : j > i => q[j].what # "received"

LEMMA EndsWellAppended ==
  ASSUME NEW q \in Seq(Event), NEW notices \in Seq(Event), notices # <<>>,
         \A i \in DOMAIN notices : notices[i].what = "closed"
  PROVE  EndsWell(q \o notices)
  <1> DEFINE r == q \o notices
             last_ == Len(q) + Len(notices)
  <1>1. Len(q) \in Nat /\ Len(notices) \in Nat /\ Len(notices) > 0
        /\ DOMAIN notices = 1..Len(notices)
    BY LenProperties, EmptySeq
  <1>2. r \in Seq(Event) /\ Len(r) = last_ /\ DOMAIN r = 1..last_
        /\ r[last_] = notices[Len(notices)]
    BY <1>1, ConcatProperties
  <1>3. r[last_].what = "closed" /\ last_ \in DOMAIN r
    BY <1>1, <1>2
  <1>4. \A j \in DOMAIN r : ~(j > last_)
    BY <1>1, <1>2
  <1> HIDE DEF r, last_
  <1>5. EndsWell(r)
    BY <1>3, <1>4 DEF EndsWell
  <1>6. QED
    BY <1>5 DEF r

EndInv == ReadInv /\ ClosedIsLast

\* A step of the launcher's pipe thread: if it does not close connection k, it
\* leaves a read outstanding or finds k ended and receives nothing.
LEMMA SettleEnd ==
  ASSUME LinkInv, EndInv, NEW s \in Side, NEW k \in Id, NEW c, NEW p \in Pipe,
         NEW events \in Seq(Event), NEW results, NEW closing \in BOOLEAN,
         ObjectInv(c), Settle(s, k, c, p, events, results, closing),
         s = "server" /\ ~closing =>
            \/ c.reading # "no"
            \/ c.state # "open" /\ events = <<>>
               /\ c.state = conn[s][k].state /\ c.reading = conn[s][k].reading
  PROVE  EndInv'
  <1> DEFINE after == IF closing THEN Closed(c) ELSE c
             destroyed == /\ k \notin Listed(s, k, c, closing)
                          /\ after.reading = "no" /\ ~after.writing /\ ~after.leaked
             notices == ClosedNotices(s, c, closing, destroyed)
             old == log[s][k]
  <1>1. PICK ended : SettledTo(s, k, c, p, events, results, closing, ended)
    BY SettleFacts
  <1>2. /\ conn'[s][k] = (IF destroyed THEN Closed(NoObject) ELSE after)
        /\ log'[s][k] = old \o events \o notices
    BY <1>1 DEF SettledTo
  <1>3. \A t \in Side, l \in Id : t # s \/ l # k => conn'[t][l] = conn[t][l] /\ log'[t][l] = log[t][l]
    BY <1>1 DEF SettledTo
  <1>4. ObjectInv(after) /\ (closing => after.state = "closed") /\ ObjectInv(Closed(NoObject))
        /\ Closed(NoObject).state = "closed"
    BY ClosedType, NoObjectInv
  <1>5. destroyed \in BOOLEAN /\ old \in Seq(Event)
    BY TypeFacts
  <1>6. notices \in Seq(Event)
    BY <1>5, ClosedNoticesType
  <1>7. CASE s = "client"
    <2>1. \A l \in Id : conn'["server"][l] = conn["server"][l] /\ log'["server"][l] = log["server"][l]
      BY <1>3, <1>7 DEF Side
    <2>2. QED
      BY <2>1 DEF EndInv, ReadInv, ClosedIsLast
  <1>8. CASE s = "server"
    <2> DEFINE obj == conn'["server"][k]
               lg == log'["server"][k]
    <2>1. \A l \in Id : l # k => conn'["server"][l] = conn["server"][l] /\ log'["server"][l] = log["server"][l]
      BY <1>3, <1>8
    <2>2. (obj.state = "open" => obj.reading # "no")
          /\ (obj.state = "closed" /\ obj.reading = "no" => EndsWell(lg))
      <3>1. CASE closing \/ destroyed
        <4>1. /\ notices # <<>>
              /\ \A i \in DOMAIN notices : notices[i].what = "closed"
          <5> HIDE DEF destroyed
          <5>1. /\ closing \/ destroyed => ClosedNotices("server", c, closing, destroyed) # <<>>
                /\ \A i \in DOMAIN ClosedNotices("server", c, closing, destroyed) :
                      ClosedNotices("server", c, closing, destroyed)[i].what = "closed"
            BY <1>5, ClosedNoticesFacts
          <5>2. notices = ClosedNotices("server", c, closing, destroyed)
            BY <1>8
          <5>3. QED
            BY <3>1, <5>1, <5>2
        <4>2. old \o events \in Seq(Event)
          BY <1>5, ConcatProperties
        <4> HIDE DEF notices, old
        <4>3. EndsWell(lg)
          BY <1>2, <1>6, <1>8, <4>1, <4>2, EndsWellAppended
        <4>4. obj.state = "closed"
          BY <1>2, <1>4, <1>8, <3>1
        <4>5. QED
          BY <4>3, <4>4
      <3>2. CASE ~closing /\ ~destroyed
        <4>1. notices = <<>> /\ obj = c
          BY <1>2, <1>5, <1>8, <3>2, ClosedNoticesFacts
        <4> HIDE DEF notices
        <4>2. CASE c.reading # "no"
          BY <4>1, <4>2
        <4>3. CASE c.reading = "no"
          <5>1. c.state # "open" /\ events = <<>> /\ c.state = conn[s][k].state /\ c.reading = conn[s][k].reading
            BY <1>8, <3>2, <4>3
          <5>2. lg = old
            BY <1>2, <1>5, <1>8, <4>1, <5>1, ConcatEmptySeq
          <5>3. c.state = "closed" => EndsWell(old)
            BY <1>8, <4>3, <5>1 DEF EndInv, ClosedIsLast, EndsWell
          <5>4. QED
            BY <4>1, <5>1, <5>2, <5>3
        <4>4. QED
          BY <4>2, <4>3
      <3>3. QED
        BY <3>1, <3>2
    <2> HIDE DEF obj, lg
    <2>3. ReadInv'
      BY <2>1, <2>2 DEF EndInv, ReadInv, obj
    <2>4. ClosedIsLast'
      BY <2>1, <2>2 DEF EndInv, ClosedIsLast, EndsWell, obj, lg
    <2>5. QED
      BY <2>3, <2>4 DEF EndInv
  <1>9. QED
    BY <1>7, <1>8 DEF Side

LEMMA EndStutter ==
  ASSUME EndInv, \A l \in Id : conn'["server"][l] = conn["server"][l] /\ log'["server"][l] = log["server"][l]
  PROVE  EndInv'
  BY DEF EndInv, ReadInv, ClosedIsLast

LEMMA EndConnect == ASSUME LinkInv, EndInv, Connect PROVE EndInv'
  <1>1. conn' = [conn EXCEPT !["client"][last + 1] = Opened] /\ log' = log
    BY DEF Connect
  <1>2. conn \in [Side -> [Id -> PipeConnection]] /\ "server" \in Side /\ "server" # "client"
    BY TypeFacts DEF Side
  <1>3. \A l \in Id : conn'["server"][l] = conn["server"][l]
    BY <1>1, <1>2
  <1>4. QED
    BY <1>1, <1>3, EndStutter

LEMMA EndCrash == ASSUME LinkInv, EndInv, Crash PROVE EndInv'
  <1>1. conn' = [conn EXCEPT !["client"] = [l \in Id |-> NoObject]] /\ log' = log
    BY DEF Crash
  <1>2. conn \in [Side -> [Id -> PipeConnection]] /\ "server" \in Side /\ "server" # "client"
    BY TypeFacts DEF Side
  <1>3. \A l \in Id : conn'["server"][l] = conn["server"][l]
    BY <1>1, <1>2
  <1>4. QED
    BY <1>1, <1>3, EndStutter

LEMMA EndPost == ASSUME LinkInv, EndInv, NEW mode \in Modes, Post(mode) PROVE EndInv'
  BY EndStutter DEF Post

LEMMA EndWelcome == ASSUME LinkInv, EndInv, NEW k \in Id, Welcome(k) PROVE EndInv'
  BY EndStutter DEF Welcome

LEMMA EndReply == ASSUME LinkInv, EndInv, NEW n \in DOMAIN asked, Reply(n) PROVE EndInv'
  BY EndStutter DEF Reply

\* What CompleteRead changes, pointwise.
LEMMA CompleteReadFacts ==
  ASSUME LinkInv, NEW s \in Side, NEW k \in Id, CompleteRead(s, k)
  PROVE  /\ conn[s][k].reading = "pending" /\ pipe[k].to[s] # <<>>
         /\ pipe[k].to[s] \in Seq(Message) /\ Head(pipe[k].to[s]) \in Message
         /\ conn'[s][k] = Got(conn[s][k], Head(pipe[k].to[s]))
         /\ \A t \in Side, l \in Id : t # s \/ l # k => conn'[t][l] = conn[t][l]
         /\ pipe'[k].to[s] = Tail(pipe[k].to[s]) /\ pipe'[k].to[Other(s)] = pipe[k].to[Other(s)]
         /\ pipe'[k].shut = pipe[k].shut
         /\ \A l \in Id : l # k => pipe'[l] = pipe[l]
         /\ UNCHANGED <<listed, last, greeting, queue, log, phase, welcomed, replied,
                        asked, called, faults, answers>>
  <1> DEFINE data == pipe[k].to[s]
             d == Got(conn[s][k], Head(data))
  <1>1. conn \in [Side -> [Id -> PipeConnection]] /\ pipe \in [Id -> Pipe] /\ Other(s) \in Side /\ Other(s) # s
    BY TypeFacts, SideSplit
  <1>2. pipe[k].to \in [Side -> Seq(Message)] /\ pipe[k] \in Pipe
    BY <1>1 DEF Pipe
  <1>3. conn[s][k].reading = "pending" /\ data # <<>>
    BY Zenon DEF CompleteRead
  <1>4. data \in Seq(Message) /\ Head(data) \in Message
    BY <1>2, <1>3, HeadType
  <1>5. conn' = [conn EXCEPT ![s][k] = d] /\ pipe' = [pipe EXCEPT ![k] = [@ EXCEPT !.to[s] = Tail(data)]]
    BY <1>1 DEF CompleteRead, Got
  <1> HIDE DEF d, data
  <1>6. conn'[s][k] = d /\ \A t \in Side, l \in Id : t # s \/ l # k => conn'[t][l] = conn[t][l]
    BY <1>1, <1>5
  <1>7. /\ pipe'[k] = [pipe[k] EXCEPT !.to[s] = Tail(data)]
        /\ \A l \in Id : l # k => pipe'[l] = pipe[l]
    BY <1>1, <1>5
  <1>8. /\ pipe'[k].to[s] = Tail(data) /\ pipe'[k].to[Other(s)] = pipe[k].to[Other(s)]
        /\ pipe'[k].shut = pipe[k].shut
    BY <1>1, <1>2, <1>7 DEF Pipe
  <1>9. UNCHANGED <<listed, last, greeting, queue, log, phase, welcomed, replied,
                    asked, called, faults, answers>>
    BY Zenon DEF CompleteRead, history
  <1>10. QED
    BY <1>3, <1>4, <1>6, <1>7, <1>8, <1>9 DEF d, data

LEMMA EndCompleteRead ==
  ASSUME LinkInv, EndInv, NEW s \in Side, NEW k \in Id, CompleteRead(s, k) PROVE EndInv'
  <1>1. /\ conn[s][k].reading = "pending" /\ Head(pipe[k].to[s]) \in Message
        /\ conn'[s][k] = Got(conn[s][k], Head(pipe[k].to[s])) /\ log' = log
        /\ \A t \in Side, l \in Id : t # s \/ l # k => conn'[t][l] = conn[t][l]
    BY CompleteReadFacts
  <1>2. conn'[s][k].reading = "done" /\ "server" \in Side
    BY <1>1, GotType, TypeFacts DEF Side
  <1>3. \A l \in Id : conn'["server"][l] = conn["server"][l] \/ conn'["server"][l].reading = "done"
    BY <1>1, <1>2
  <1>4. QED
    BY <1>1, <1>3 DEF EndInv, ReadInv, ClosedIsLast

\* What QueuedSend does, with its local definitions named.
LEMMA QueuedSendFacts ==
  ASSUME LinkInv, NEW s \in Side, QueuedSend(s)
  PROVE  LET k == Head(queue[s]).k
             m == Head(queue[s]).m
             c == conn[s][k]
             error(how) == IF m.mode = "call" THEN <<[n |-> m.n, how |-> how]>> ELSE <<>>
             sent == Sending(s, Numbered(c, m), pipe[k])
         IN  /\ queue[s] \in Seq([k : Id, m : Message]) /\ queue[s] # <<>>
             /\ k \in Id /\ m \in Message /\ ObjectInv(c) /\ pipe[k] \in Pipe
             /\ (s = "client" => ~greeting)
             /\ queue'[s] = Tail(queue[s]) /\ \A t \in Side : t # s => queue'[t] = queue[t]
             /\ UNCHANGED <<last, greeting, phase, welcomed, replied, asked, called, faults>>
             /\ \/ /\ ~Alive(s, k) /\ answers' = answers \o error("ConnectionClosed")
                   /\ UNCHANGED <<conn, pipe, listed, log>>
                \/ /\ Alive(s, k) /\ c.state = "closed"
                   /\ Settle(s, k, c, pipe[k], <<>>, error("NoConnection"), TRUE)
                \/ /\ Alive(s, k) /\ c.state = "open" /\ ObjectInv(Numbered(c, m))
                   /\ Settle(s, k, sent.c, sent.p, <<>>, <<>>, sent.closing)
                   /\ ObjectInv(sent.c) /\ sent.p \in Pipe /\ sent.closing \in BOOLEAN
  <1> DEFINE k == Head(queue[s]).k
             m == Head(queue[s]).m
             c == conn[s][k]
             error(how) == IF m.mode = "call" THEN <<[n |-> m.n, how |-> how]>> ELSE <<>>
             sent == Sending(s, Numbered(c, m), pipe[k])
  <1>1. queue[s] \in Seq([k : Id, m : Message]) /\ queue[s] # <<>> /\ queue \in [Side -> Seq([k : Id, m : Message])]
    BY DEF QueuedSend, LinkInv, TypeOK
  <1>2. Head(queue[s]) \in [k : Id, m : Message]
    BY <1>1, HeadType
  <1>3. k \in Id /\ m \in Message
    BY <1>2
  <1>4. /\ queue' = [queue EXCEPT ![s] = Tail(@)] /\ (s = "client" => ~greeting)
        /\ UNCHANGED <<phase, last, greeting, welcomed, replied, asked, called, faults>>
    BY DEF QueuedSend, history
  <1>5. queue'[s] = Tail(queue[s]) /\ \A t \in Side : t # s => queue'[t] = queue[t]
    BY <1>1, <1>4
  <1>6. \/ /\ ~Alive(s, k) /\ answers' = answers \o error("ConnectionClosed")
           /\ UNCHANGED <<conn, pipe, listed, log>>
        \/ /\ Alive(s, k) /\ c.state = "closed"
           /\ Settle(s, k, c, pipe[k], <<>>, error("NoConnection"), TRUE)
        \/ /\ Alive(s, k) /\ c.state = "open"
           /\ Settle(s, k, sent.c, sent.p, <<>>, <<>>, sent.closing)
    BY DEF QueuedSend
  <1>7. ObjectInv(c) /\ pipe[k] \in Pipe
    BY <1>3, TypeFacts
  <1>8. ObjectInv(Numbered(c, m)) /\ ObjectInv(sent.c) /\ sent.p \in Pipe /\ sent.closing \in BOOLEAN
    BY <1>3, <1>7, NumberedType, SendingType
  <1>9. QED
    BY <1>1, <1>3, <1>4, <1>5, <1>6, <1>7, <1>8, Zenon

LEMMA EndQueuedSend == ASSUME LinkInv, EndInv, NEW s \in Side, QueuedSend(s) PROVE EndInv'
  <1> DEFINE k == Head(queue[s]).k
             m == Head(queue[s]).m
             c == conn[s][k]
             error(how) == IF m.mode = "call" THEN <<[n |-> m.n, how |-> how]>> ELSE <<>>
             sent == Sending(s, Numbered(c, m), pipe[k])
  <1>1. /\ k \in Id /\ m \in Message /\ ObjectInv(c) /\ pipe[k] \in Pipe
        /\ \/ UNCHANGED <<conn, pipe, listed, log>>
           \/ Settle(s, k, c, pipe[k], <<>>, error("NoConnection"), TRUE)
           \/ /\ c.state = "open" /\ ObjectInv(Numbered(c, m))
              /\ Settle(s, k, sent.c, sent.p, <<>>, <<>>, sent.closing)
              /\ ObjectInv(sent.c) /\ sent.p \in Pipe /\ sent.closing \in BOOLEAN
    BY QueuedSendFacts, Zenon
  <1>2. <<>> \in Seq(Event)
    BY EmptySeq
  <1>3. CASE UNCHANGED <<conn, pipe, listed, log>>
    BY <1>3, EndStutter
  <1>4. CASE Settle(s, k, c, pipe[k], <<>>, error("NoConnection"), TRUE)
    <2> HIDE DEF k, c, error
    <2>1. QED
      BY <1>1, <1>2, <1>4, SettleEnd
  <1>5. CASE /\ c.state = "open" /\ ObjectInv(Numbered(c, m))
             /\ Settle(s, k, sent.c, sent.p, <<>>, <<>>, sent.closing)
             /\ ObjectInv(sent.c) /\ sent.p \in Pipe /\ sent.closing \in BOOLEAN
    <2>1. s = "server" => c.reading # "no"
      BY <1>1, <1>5 DEF EndInv, ReadInv
    <2>2. sent.c.reading = c.reading
      <3>1. sent.c.reading = Numbered(c, m).reading
        BY <1>1, <1>5, SendingSame
      <3>2. QED
        BY <1>1, <3>1, NumberedFacts
    <2> HIDE DEF k, c, m, sent
    <2>3. QED
      BY <1>1, <1>2, <1>5, <2>1, <2>2, SettleEnd
  <1>6. QED
    BY <1>1, <1>3, <1>4, <1>5

\* What HandleReadComplete does, with its local definitions named.
LEMMA HandleReadCompleteFacts ==
  ASSUME LinkInv, NEW s \in Side, NEW k \in Id, HandleReadComplete(s, k)
  PROVE  LET c == conn[s][k]
             m == Head(c.got)
             mine == Answered(c, m)
             events == IF mine = {} THEN <<[what |-> "received", m |-> m]>> ELSE <<>>
             results == IF mine = {} THEN <<>> ELSE <<[n |-> m.n, how |-> "reply"]>>
         IN  /\ ObjectInv(c) /\ pipe[k] \in Pipe /\ c.reading = "done" /\ m \in Message
             /\ c.got = <<m>> /\ Handled(c, mine) \in PipeConnection
             /\ events \in Seq(Event) /\ results \in Seq(Answer)
             /\ \E next \in Reading(s, Handled(c, mine), pipe[k]) :
                   /\ ObjectInv(next.c) /\ next.closing \in BOOLEAN
                   /\ Settle(s, k, next.c, pipe[k], events, results, next.closing)
             /\ UNCHANGED <<last, greeting, queue, phase, welcomed, replied, asked, called, faults>>
  <1> DEFINE c == conn[s][k]
             m == Head(c.got)
             mine == Answered(c, m)
             events == IF mine = {} THEN <<[what |-> "received", m |-> m]>> ELSE <<>>
             results == IF mine = {} THEN <<>> ELSE <<[n |-> m.n, how |-> "reply"]>>
  <1>1. ObjectInv(c) /\ pipe[k] \in Pipe
    BY TypeFacts
  <1>2. c.got # <<>> /\ c.got \in Seq(Message) /\ Len(c.got) <= 1 /\ c.reading = "done"
    BY <1>1 DEF HandleReadComplete, ObjectInv, PipeConnection
  <1>3. m \in Message /\ c.got = <<m>>
    BY <1>2, OnlyElement
  <1>4. PICK next \in Reading(s, Handled(c, mine), pipe[k]) :
           Settle(s, k, next.c, pipe[k], events, results, next.closing)
    BY DEF HandleReadComplete
  <1>5. UNCHANGED <<last, greeting, queue, phase, welcomed, replied, asked, called, faults>>
    BY DEF HandleReadComplete, history
  <1>6. ObjectInv(next.c) /\ next.closing \in BOOLEAN /\ Handled(c, mine) \in PipeConnection
    <2> DEFINE d == Handled(c, mine)
    <2> HIDE DEF c, mine
    <2>1. /\ d \in PipeConnection /\ d.got = <<>> /\ (d.writing => d.writeQueue # <<>>)
          /\ IsFiniteSet(d.rpc)
      BY <1>1, HandledType
    <2>2. next \in Reading(s, d, pipe[k])
      BY <1>4
    <2> HIDE DEF d
    <2>3. ObjectInv(next.c) /\ next.closing \in BOOLEAN
      BY <1>1, <2>1, <2>2, ReadingType
    <2>4. QED
      BY <2>1, <2>3 DEF d
  <1>7. events \in Seq(Event) /\ results \in Seq(Answer)
    <2> HIDE DEF m, mine
    <2>1. [what |-> "received", m |-> m] \in Event
      BY <1>3 DEF Event, Arrival
    <2>2. [n |-> m.n, how |-> "reply"] \in Answer
      BY <1>3 DEF Answer, Message
    <2>3. QED
      BY <2>1, <2>2, EmptySeq
  <1>8. QED
    BY <1>1, <1>2, <1>3, <1>4, <1>5, <1>6, <1>7, Zenon

LEMMA EndHandleReadComplete ==
  ASSUME LinkInv, EndInv, NEW s \in Side, NEW k \in Id, HandleReadComplete(s, k) PROVE EndInv'
  <1> DEFINE c == conn[s][k]
             m == Head(c.got)
             mine == Answered(c, m)
             events == IF mine = {} THEN <<[what |-> "received", m |-> m]>> ELSE <<>>
             results == IF mine = {} THEN <<>> ELSE <<[n |-> m.n, how |-> "reply"]>>
  <1>1. /\ pipe[k] \in Pipe /\ Handled(c, mine) \in PipeConnection
        /\ events \in Seq(Event)
        /\ \E next \in Reading(s, Handled(c, mine), pipe[k]) :
                   /\ ObjectInv(next.c) /\ next.closing \in BOOLEAN
                   /\ Settle(s, k, next.c, pipe[k], events, results, next.closing)
    BY HandleReadCompleteFacts, Zenon
  <1>2. PICK next \in Reading(s, Handled(c, mine), pipe[k]) :
                   /\ ObjectInv(next.c) /\ next.closing \in BOOLEAN
                   /\ Settle(s, k, next.c, pipe[k], events, results, next.closing)
    BY <1>1
  <1> HIDE DEF c, mine, events, results
  <1>3. ~next.closing => next.c.reading = "pending"
    BY <1>1, ReadingCases
  <1>4. QED
    BY <1>1, <1>2, <1>3, SettleEnd

LEMMA HandleReadErrorFacts ==
  ASSUME LinkInv, NEW s \in Side, NEW k \in Id, HandleReadError(s, k)
  PROVE  /\ ObjectInv(conn[s][k]) /\ pipe[k] \in Pipe /\ conn[s][k].reading # "done"
         /\ ObjectInv(Unread(conn[s][k]))
         /\ Settle(s, k, Unread(conn[s][k]), pipe[k], <<>>, <<>>, TRUE)
         /\ UNCHANGED <<last, greeting, queue, phase, welcomed, replied, asked, called, faults>>
  <1>1. ObjectInv(conn[s][k]) /\ pipe[k] \in Pipe
    BY TypeFacts
  <1>2. /\ conn[s][k].reading # "done"
        /\ UNCHANGED <<last, greeting, queue, phase, welcomed, replied, asked, called, faults>>
    BY DEF HandleReadError, history
  <1>3. Settle(s, k, Unread(conn[s][k]), pipe[k], <<>>, <<>>, TRUE)
    BY Zenon DEF HandleReadError, Unread
  <1>4. QED
    BY <1>1, <1>2, <1>3, UnreadType

LEMMA EndHandleReadError ==
  ASSUME LinkInv, EndInv, NEW s \in Side, NEW k \in Id, HandleReadError(s, k) PROVE EndInv'
  BY HandleReadErrorFacts, SettleEnd, EmptySeq

LEMMA HandleWriteCompleteFacts ==
  ASSUME LinkInv, NEW s \in Side, NEW k \in Id, HandleWriteComplete(s, k)
  PROVE  LET c == Written(conn[s][k])
             next == Sending(s, c, pipe[k])
         IN  /\ ObjectInv(conn[s][k]) /\ pipe[k] \in Pipe /\ conn[s][k].writing /\ ObjectInv(c)
             /\ UNCHANGED <<last, greeting, queue, phase, welcomed, replied, asked, called, faults>>
             /\ \/ /\ Settle(s, k, next.c, next.p, <<>>, <<>>, next.closing)
                   /\ ObjectInv(next.c) /\ next.p \in Pipe /\ next.closing \in BOOLEAN
                \/ c.state = "closed" /\ Settle(s, k, c, pipe[k], <<>>, <<>>, TRUE)
  <1> DEFINE c == Written(conn[s][k])
             next == Sending(s, c, pipe[k])
  <1>1. ObjectInv(conn[s][k]) /\ pipe[k] \in Pipe
    BY TypeFacts
  <1>2. /\ conn[s][k].writing
        /\ UNCHANGED <<last, greeting, queue, phase, welcomed, replied, asked, called, faults>>
    BY Zenon DEF HandleWriteComplete, history
  <1>3. \/ Settle(s, k, next.c, next.p, <<>>, <<>>, next.closing)
        \/ c.state = "closed" /\ Settle(s, k, c, pipe[k], <<>>, <<>>, TRUE)
    BY Zenon DEF HandleWriteComplete, Written
  <1>4. ObjectInv(c)
    BY <1>1, <1>2, WrittenType
  <1>5. ObjectInv(next.c) /\ next.p \in Pipe /\ next.closing \in BOOLEAN
    BY <1>1, <1>4, SendingType
  <1>6. QED
    BY <1>1, <1>2, <1>3, <1>4, <1>5, Zenon

LEMMA EndHandleWriteComplete ==
  ASSUME LinkInv, EndInv, NEW s \in Side, NEW k \in Id, HandleWriteComplete(s, k) PROVE EndInv'
  <1> DEFINE c == Written(conn[s][k])
             next == Sending(s, c, pipe[k])
  <1>1. /\ ObjectInv(conn[s][k]) /\ pipe[k] \in Pipe /\ conn[s][k].writing /\ ObjectInv(c)
        /\ \/ /\ Settle(s, k, next.c, next.p, <<>>, <<>>, next.closing)
              /\ ObjectInv(next.c) /\ next.p \in Pipe /\ next.closing \in BOOLEAN
           \/ c.state = "closed" /\ Settle(s, k, c, pipe[k], <<>>, <<>>, TRUE)
    BY HandleWriteCompleteFacts, Zenon
  <1>2. c.reading = conn[s][k].reading /\ c.state = conn[s][k].state
    BY <1>1, WrittenType
  <1>3. next.c.reading = c.reading /\ next.c.state = c.state
    BY <1>1, SendingSame
  <1>4. s = "server" /\ c.reading = "no" => c.state # "open"
    BY <1>2 DEF EndInv, ReadInv
  <1>5. <<>> \in Seq(Event)
    BY EmptySeq
  <1> HIDE DEF next, c
  <1>6. QED
    BY <1>1, <1>2, <1>3, <1>4, <1>5, SettleEnd

LEMMA GreetFacts ==
  ASSUME LinkInv, Greet
  PROVE  LET hello == [mode |-> "message", n |-> 0, seq |-> 0]
             c == Numbered(conn["client"][last], hello)
             sent == Sending("client", c, pipe[last])
         IN  /\ last \in Id /\ ObjectInv(conn["client"][last]) /\ pipe[last] \in Pipe
             /\ hello \in Message /\ ObjectInv(c) /\ greeting /\ greeting' = FALSE
             /\ ObjectInv(sent.c) /\ sent.p \in Pipe /\ sent.closing \in BOOLEAN
             /\ Settle("client", last, sent.c, sent.p, <<>>, <<>>, sent.closing)
             /\ UNCHANGED <<last, queue, phase, welcomed, replied, asked, called, faults>>
  <1> DEFINE hello == [mode |-> "message", n |-> 0, seq |-> 0]
             c == Numbered(conn["client"][last], hello)
             sent == Sending("client", c, pipe[last])
  <1>1. last \in Id /\ "client" \in Side /\ ObjectInv(conn["client"][last]) /\ pipe[last] \in Pipe
    BY TypeFacts DEF Greet, Side
  <1>2. hello \in Message
    BY DEF Message
  <1>3. /\ Settle("client", last, sent.c, sent.p, <<>>, <<>>, sent.closing)
        /\ greeting /\ greeting' = FALSE
        /\ UNCHANGED <<last, queue, phase, welcomed, replied, asked, called, faults>>
    BY DEF Greet, history
  <1> HIDE DEF hello
  <1>4. ObjectInv(c) /\ ObjectInv(sent.c) /\ sent.p \in Pipe /\ sent.closing \in BOOLEAN
    BY <1>1, <1>2, NumberedType, SendingType
  <1>5. QED
    BY <1>1, <1>2, <1>3, <1>4, Zenon DEF hello

LEMMA EndGreet == ASSUME LinkInv, EndInv, Greet PROVE EndInv'
  <1> DEFINE hello == [mode |-> "message", n |-> 0, seq |-> 0]
             c == Numbered(conn["client"][last], hello)
             sent == Sending("client", c, pipe[last])
  <1>1. /\ last \in Id /\ ObjectInv(sent.c) /\ sent.p \in Pipe /\ sent.closing \in BOOLEAN
        /\ Settle("client", last, sent.c, sent.p, <<>>, <<>>, sent.closing)
    BY GreetFacts, Zenon
  <1>2. "client" \in Side /\ "client" # "server" /\ <<>> \in Seq(Event)
    BY EmptySeq DEF Side
  <1> HIDE DEF sent
  <1>3. QED
    BY <1>1, <1>2, SettleEnd

\* What Accept changes, pointwise.
LEMMA AcceptFacts ==
  ASSUME LinkInv, Accept
  PROVE  \E first \in Reading("server", Opening(NoObject), pipe[last]) :
          LET notices == ClosedNotices("server", first.c, first.closing, FALSE)
          IN  /\ last \in Id /\ conn["server"][last].state = "none"
              /\ ObjectInv(first.c) /\ first.closing \in BOOLEAN /\ notices \in Seq(Event)
              /\ conn'["server"][last] = IF first.closing THEN Closed(first.c) ELSE first.c
              /\ \A l \in Id : conn'["client"][l] = conn["client"][l]
              /\ \A l \in Id : l # last => conn'["server"][l] = conn["server"][l]
              /\ pipe'[last] = IF first.closing THEN ShutPipe("server", pipe[last]) ELSE pipe[last]
              /\ \A l \in Id : l # last => pipe'[l] = pipe[l]
              /\ log'["server"][last] = notices \o <<[what |-> "incoming"]>>
              /\ \A l \in Id : l # last => log'["server"][l] = log["server"][l]
              /\ listed'["client"] = listed["client"]
              /\ UNCHANGED <<last, greeting, queue, phase, welcomed, replied, asked, called, faults, answers>>
  <1> DEFINE opened == Opening(NoObject)
  <1>1. /\ last \in Id /\ "server" \in Side /\ "client" \in Side /\ "client" # "server"
        /\ pipe[last] \in Pipe
    BY TypeFacts DEF Accept, Side
  <1>2. PICK first \in Reading("server", opened, pipe[last]) :
          /\ conn' = [conn EXCEPT !["server"][last] =
                         IF first.closing THEN Closed(first.c) ELSE first.c]
          /\ pipe' = [pipe EXCEPT ![last] = IF first.closing THEN ShutPipe("server", @) ELSE @]
          /\ log' = [log EXCEPT !["server"][last] =
                ClosedNotices("server", first.c, first.closing, FALSE)
                \o <<[what |-> "incoming"]>>]
    BY Zenon DEF Accept, Opening
  <1>3. listed' = [listed EXCEPT !["server"] = @ \cup {last}] /\ conn["server"][last].state = "none"
        /\ UNCHANGED <<last, greeting, queue, phase, welcomed, replied, asked, called, faults, answers>>
    BY Zenon DEF Accept, history
  <1>4. opened \in PipeConnection /\ opened.got = <<>> /\ opened.writing = FALSE /\ IsFiniteSet(opened.rpc)
    BY NoObjectInv DEF ObjectInv
  <1> HIDE DEF opened
  <1>5. ObjectInv(first.c) /\ first.closing \in BOOLEAN
    BY <1>1, <1>4, ReadingType
  <1> DEFINE object == IF first.closing THEN Closed(first.c) ELSE first.c
             p == IF first.closing THEN ShutPipe("server", pipe[last]) ELSE pipe[last]
             notices == ClosedNotices("server", first.c, first.closing, FALSE)
             events == notices \o <<[what |-> "incoming"]>>
  <1>6. notices \in Seq(Event)
    BY <1>1, <1>5, ClosedNoticesType
  <1>7. /\ conn' = [conn EXCEPT !["server"][last] = object] /\ pipe' = [pipe EXCEPT ![last] = p]
        /\ log' = [log EXCEPT !["server"][last] = events]
    BY <1>2
  <1>8. /\ conn \in [Side -> [Id -> PipeConnection]] /\ pipe \in [Id -> Pipe]
        /\ log \in [Side -> [Id -> Seq(Event)]] /\ listed \in [Side -> SUBSET Id]
    BY TypeFacts
  <1> HIDE DEF object, p, events, notices
  <1>9. /\ conn'["server"][last] = object
        /\ \A l \in Id : conn'["client"][l] = conn["client"][l]
        /\ \A l \in Id : l # last => conn'["server"][l] = conn["server"][l]
    BY <1>1, <1>7, <1>8
  <1>10. /\ log'["server"][last] = events
         /\ \A l \in Id : l # last => log'["server"][l] = log["server"][l]
    BY <1>1, <1>7, <1>8
  <1>11. /\ pipe'[last] = p /\ \A l \in Id : l # last => pipe'[l] = pipe[l]
         /\ listed'["client"] = listed["client"]
    BY <1>1, <1>3, <1>7, <1>8
  <1>12. QED
    BY <1>1, <1>3, <1>5, <1>6, <1>9, <1>10, <1>11, Zenon DEF object, p, events, notices, opened

\* What the launcher reports of a connection that it accepts: nothing received.
LEMMA AcceptLog ==
  ASSUME NEW c, NEW closing \in BOOLEAN, ClosedNotices("server", c, closing, FALSE) \in Seq(Event)
  PROVE  LET q == ClosedNotices("server", c, closing, FALSE) \o <<[what |-> "incoming"]>>
         IN  /\ \A j \in DOMAIN q : q[j].what # "received"
             /\ closing => EndsWell(q)
  <1> DEFINE notices == ClosedNotices("server", c, closing, FALSE)
             incoming == [what |-> "incoming"]
             q == notices \o <<incoming>>
  <1>1. incoming.what = "incoming" /\ incoming \in Event
    BY DEF Event, Notice
  <1>2. /\ notices \in Seq(Event) /\ (closing => notices # <<>>)
        /\ \A i \in DOMAIN notices : notices[i].what = "closed"
    BY ClosedNoticesFacts
  <1> HIDE DEF incoming, notices
  <1>3. <<incoming>> \in Seq(Event) /\ Len(<<incoming>>) = 1 /\ <<incoming>>[1] = incoming
    BY <1>1
  <1> DEFINE single == <<incoming>>
  <1> HIDE DEF single
  <1>4. single \in Seq(Event) /\ Len(single) = 1 /\ single[1].what = "incoming" /\ q = notices \o single
    BY <1>1, <1>3 DEF single
  <1> HIDE DEF q
  <1>5. Len(notices) \in Nat /\ DOMAIN notices = 1..Len(notices) /\ (closing => Len(notices) > 0)
    BY <1>2, LenProperties, EmptySeq
  <1>6. /\ DOMAIN q = 1..Len(notices) + 1
        /\ \A i \in DOMAIN q : q[i] = IF i <= Len(notices) THEN notices[i] ELSE single[i - Len(notices)]
    <2>0. q \in Seq(Event) /\ Len(q) = Len(notices) + Len(single)
          /\ \A i \in 1..Len(notices) + Len(single) :
                 q[i] = IF i <= Len(notices) THEN notices[i] ELSE single[i - Len(notices)]
      <3>1. single \in Seq(Event) /\ q = notices \o single
        BY <1>4
      <3>2. QED
        BY <1>2, <3>1, ConcatProperties
    <2>1. q \in Seq(Event) /\ Len(q) = Len(notices) + 1
          /\ \A i \in 1..Len(notices) + 1 :
                 q[i] = IF i <= Len(notices) THEN notices[i] ELSE single[i - Len(notices)]
      BY <1>4, <2>0
    <2>2. DOMAIN q = 1..Len(notices) + 1
      BY <2>1, LenProperties
    <2>3. QED
      BY <2>1, <2>2
  <1>7. \A j \in DOMAIN q : q[j].what # "received"
    <2> TAKE j \in DOMAIN q
    <2>1. CASE j <= Len(notices)
      BY <1>2, <1>5, <1>6, <2>1
    <2>2. CASE ~(j <= Len(notices))
      <3>1. j = Len(notices) + 1 /\ j - Len(notices) = 1
        BY <1>5, <1>6, <2>2
      <3>2. QED
        BY <1>4, <1>6, <2>2, <3>1
    <2>3. QED
      BY <2>1, <2>2
  <1>8. ASSUME closing PROVE EndsWell(q)
    <2>1. 1 \in DOMAIN q /\ 1 \in DOMAIN notices
      BY <1>5, <1>6, <1>8
    <2>2. q[1] = notices[1]
      BY <1>5, <1>6, <1>8, <2>1
    <2>3. q[1].what = "closed"
      BY <1>2, <2>1, <2>2
    <2>4. QED
      BY <1>7, <2>1, <2>3 DEF EndsWell
  <1>9. QED
    BY <1>7, <1>8 DEF q, notices, incoming

LEMMA EndAccept == ASSUME LinkInv, EndInv, Accept PROVE EndInv'
  <1>1. PICK first \in Reading("server", Opening(NoObject), pipe[last]) :
          LET notices == ClosedNotices("server", first.c, first.closing, FALSE)
          IN  /\ last \in Id
              /\ ObjectInv(first.c) /\ first.closing \in BOOLEAN /\ notices \in Seq(Event)
              /\ conn'["server"][last] = IF first.closing THEN Closed(first.c) ELSE first.c
              /\ \A l \in Id : l # last => conn'["server"][l] = conn["server"][l]
              /\ log'["server"][last] = notices \o <<[what |-> "incoming"]>>
              /\ \A l \in Id : l # last => log'["server"][l] = log["server"][l]
    BY AcceptFacts
  <1>2. Opening(NoObject) \in PipeConnection /\ "server" \in Side
    BY NoObjectInv DEF ObjectInv, Side
  <1>3. \/ first.closing = FALSE /\ first.c.reading = "pending"
        \/ first.closing = TRUE /\ first.c.reading = "no"
    BY <1>2, ReadingCases
  <1> DEFINE obj == conn'["server"][last]
             lg == log'["server"][last]
  <1>4. first.closing => obj.state = "closed" /\ EndsWell(lg)
    <2>1. first.closing => obj.state = "closed"
      BY <1>1, ClosedType
    <2>2. first.closing => EndsWell(lg)
      BY <1>1, AcceptLog
    <2>3. QED
      BY <2>1, <2>2
  <1>5. ~first.closing => obj.reading = "pending"
    BY <1>1, <1>3
  <1>6. \A l \in Id : l # last => conn'["server"][l] = conn["server"][l] /\ log'["server"][l] = log["server"][l]
    BY <1>1
  <1> HIDE DEF obj, lg
  <1>7. ReadInv'
    BY <1>4, <1>5, <1>6 DEF EndInv, ReadInv, obj
  <1>8. ClosedIsLast'
    BY <1>4, <1>5, <1>6 DEF EndInv, ClosedIsLast, EndsWell, obj, lg
  <1>9. QED
    BY <1>7, <1>8 DEF EndInv

LEMMA StopClientFacts ==
  ASSUME LinkInv, StopClient
  PROVE  /\ UNCHANGED <<last, greeting, queue, welcomed, replied, asked, called>> /\ ~greeting
         /\ \/ listed["client"] = {} /\ UNCHANGED <<conn, pipe, listed, log, answers>>
            \/ \E k \in Id : /\ k \in listed["client"]
                  /\ ObjectInv(conn["client"][k]) /\ pipe[k] \in Pipe
                  /\ Settle("client", k, conn["client"][k], pipe[k], <<>>, <<>>, TRUE)
  <1>1. /\ UNCHANGED <<last, greeting, queue, welcomed, replied, asked, called>> /\ ~greeting
        /\ IF listed["client"] = {}
           THEN UNCHANGED <<conn, pipe, listed, log, answers>>
           ELSE \E k \in listed["client"] :
                   Settle("client", k, conn["client"][k], pipe[k], <<>>, <<>>, TRUE)
    BY DEF StopClient
  <1>2. \A k \in listed["client"] : k \in Id /\ ObjectInv(conn["client"][k]) /\ pipe[k] \in Pipe
    BY TypeFacts DEF Side
  <1>3. QED
    BY <1>1, <1>2

LEMMA EndStopClient == ASSUME LinkInv, EndInv, StopClient PROVE EndInv'
  <1>1. CASE UNCHANGED <<conn, pipe, listed, log, answers>>
    BY <1>1, EndStutter
  <1>2. ASSUME NEW k \in Id, ObjectInv(conn["client"][k]), pipe[k] \in Pipe,
               Settle("client", k, conn["client"][k], pipe[k], <<>>, <<>>, TRUE)
        PROVE  EndInv'
    <2>1. "client" \in Side /\ <<>> \in Seq(Event)
      BY EmptySeq DEF Side
    <2>2. QED
      BY <1>2, <2>1, SettleEnd
  <1>3. QED
    BY <1>1, <1>2, StopClientFacts

LEMMA EndStopServer == ASSUME LinkInv, EndInv, StopServer PROVE EndInv'
  <1>1. /\ log' = log
        /\ \A l \in Id : conn'["server"][l] =
               IF l \in listed["server"] /\ conn["server"][l].state = "open"
               THEN Closed(conn["server"][l]) ELSE conn["server"][l]
    BY StopServerFacts
  <1>2. \A l \in Id : ObjectInv(conn["server"][l])
    BY TypeFacts DEF Side
  <1>3. ASSUME NEW l \in Id, conn'["server"][l] # conn["server"][l]
        PROVE  conn'["server"][l].state = "closed" /\ conn'["server"][l].reading # "no"
    <2>1. conn["server"][l].state = "open" /\ conn'["server"][l] = Closed(conn["server"][l])
      BY <1>1, <1>3
    <2>2. conn["server"][l].reading # "no"
      BY <2>1 DEF EndInv, ReadInv
    <2>3. QED
      BY <1>2, <2>1, <2>2, ClosedType
  <1>4. QED
    BY <1>1, <1>3 DEF EndInv, ReadInv, ClosedIsLast

LEMMA InitEnd == Init => EndInv
  <1> SUFFICES ASSUME Init PROVE EndInv
    OBVIOUS
  <1>1. \A k \in Id : conn["server"][k] = NoObject
    BY DEF Init, Side
  <1>2. NoObject.state = "none"
    BY DEF NoObject
  <1>3. QED
    BY <1>1, <1>2 DEF EndInv, ReadInv, ClosedIsLast

LEMMA NextEnd ==
  ASSUME LinkInv, EndInv, [Next]_vars
  PROVE  EndInv'
  <1>1. CASE UNCHANGED vars
    BY <1>1, EndStutter DEF vars
  <1>2. CASE Next
    BY <1>2, NextSplit, EndPost, EndWelcome, EndReply, EndCompleteRead, EndQueuedSend,
       EndHandleReadComplete, EndHandleReadError, EndHandleWriteComplete, EndConnect,
       EndGreet, EndAccept, EndCrash, EndStopClient, EndStopServer
  <1>3. QED
    BY <1>1, <1>2

\* When a connection of the launcher has ended and no read of it is
\* outstanding, its end was reported after everything received from it
\* (CloseConnection, HandleReadComplete and the destructor of PipeConnection).
THEOREM ClosedIsLastCorrect == Spec => []ClosedIsLast
  <1>1. EndInv => ClosedIsLast
    BY DEF EndInv
  <1>2. LinkInv /\ EndInv /\ [Next]_vars => EndInv'
    BY NextEnd
  <1>3. Spec => []EndInv
    BY <1>2, InitEnd, AlwaysLink, PTL DEF Spec
  <1>4. QED
    BY <1>1, <1>3, PTL

-----------------------------------------------------------------------------
(* Which connections can be touched, and what may be queued.                *)

C(k) == conn["client"][k]
S(k) == conn["server"][k]

\* What the main threads have queued.
QueueInv ==
    /\ \A i \in DOMAIN queue["client"] :
          /\ queue["client"][i].m.n \in DOMAIN asked
          /\ asked[queue["client"][i].m.n] = queue["client"][i].k
          /\ queue["client"][i].m.mode # "reply" /\ queue["client"][i].m.seq = 0
    /\ \A i, j \in DOMAIN queue["client"] :
          i < j => queue["client"][i].m.n < queue["client"][j].m.n
    /\ \A n \in DOMAIN asked : asked[n] <= last
    /\ \A i \in DOMAIN queue["server"] : queue["server"][i].m.mode # "call"

\* Nothing has happened to a connection that was not made.
FreshInv ==
    \A k \in Id : k > last =>
        /\ \A s \in Side : ~Alive(s, k) /\ pipe[k].to[s] = <<>>
        /\ "server" \notin pipe[k].shut /\ S(k).state = "none"

\* Nor to the launcher's end of one that it has not accepted.
NoneInv == \A k \in Id : S(k).state = "none" => S(k) = NoObject /\ log["server"][k] = <<>>

OpenInv == \A k \in Id : /\ C(k).state = "open" => k \in listed["client"]
                         /\ S(k).rpc = {}

BaseInv == QueueInv /\ FreshInv /\ NoneInv /\ OpenInv

LEMMA SettleBase ==
  ASSUME LinkInv, BaseInv, NEW s \in Side, NEW k \in Id, NEW c, NEW p \in Pipe,
         NEW events, NEW results, NEW closing \in BOOLEAN,
         ObjectInv(c), Settle(s, k, c, p, events, results, closing), last' = last,
         k <= last, s = "server" => c.state # "none" /\ c.rpc = {},
         s = "client" /\ c.state = "open" /\ ~closing => k \in listed["client"]
  PROVE  FreshInv' /\ NoneInv' /\ OpenInv'
  <1> DEFINE after == IF closing THEN Closed(c) ELSE c
             destroyed == /\ k \notin Listed(s, k, c, closing)
                          /\ after.reading = "no" /\ ~after.writing /\ ~after.leaked
             object == IF destroyed THEN Closed(NoObject) ELSE after
  <1>1. PICK ended : SettledTo(s, k, c, p, events, results, closing, ended)
    BY SettleFacts
  <1>2. /\ conn'[s][k] = object
        /\ \A t \in Side, l \in Id : t # s \/ l # k => conn'[t][l] = conn[t][l]
        /\ \A l \in Id : l # k => pipe'[l] = pipe[l]
        /\ \A t \in Side, l \in Id : t # s \/ l # k => log'[t][l] = log[t][l]
        /\ listed'[s] = (IF closing THEN listed[s] \ {k} ELSE listed[s])
        /\ \A t \in Side : t # s => listed'[t] = listed[t]
    BY <1>1 DEF SettledTo
  <1>3. \A t \in Side, l \in Id : l # k => (l \in listed'[t] <=> l \in listed[t])
    BY <1>2
  <1>4. Closed(NoObject).state = "closed" /\ Closed(NoObject).rpc = {}
        /\ Closed(c).state = "closed" /\ Closed(c).rpc = {}
    BY NoObjectInv, ClosedType
  <1>5. "client" \in Side /\ "server" \in Side /\ "client" # "server"
    BY DEF Side
  <1> HIDE DEF destroyed
  <1>6. /\ s = "server" => object.state # "none" /\ object.rpc = {}
        /\ object.state = "open" => ~closing /\ object = c
    BY <1>4
  <1> HIDE DEF object
  <1>7. FreshInv'
    <2>1. \A l \in Id : l > last => l # k
      BY TypeFacts DEF Id
    <2>2. \A l \in Id : l > last => \A t \in Side : Alive(t, l)' <=> Alive(t, l)
      BY <1>2, <1>3, <2>1 DEF Alive
    <2>3. \A l \in Id : l > last => pipe'[l] = pipe[l] /\ conn'["server"][l] = conn["server"][l]
      BY <1>2, <1>5, <2>1
    <2>4. QED
      BY <2>2, <2>3 DEF BaseInv, FreshInv, S
  <1>8. NoneInv'
    <2> SUFFICES ASSUME NEW l \in Id, conn'["server"][l].state = "none"
                 PROVE  conn'["server"][l] = NoObject /\ log'["server"][l] = <<>>
      BY DEF NoneInv, S
    <2>1. s # "server" \/ l # k
      BY <1>2, <1>6
    <2>2. conn'["server"][l] = conn["server"][l] /\ log'["server"][l] = log["server"][l]
      BY <1>2, <1>5, <2>1
    <2>3. QED
      BY <2>2 DEF BaseInv, NoneInv, S
  <1>9. OpenInv'
    <2>1. ASSUME NEW l \in Id, conn'["client"][l].state = "open" PROVE l \in listed'["client"]
      <3>1. CASE s = "client" /\ l = k
        BY <1>2, <1>6, <2>1, <3>1
      <3>2. CASE ~(s = "client" /\ l = k)
        <4>1. conn'["client"][l] = conn["client"][l]
          BY <1>2, <1>5, <3>2
        <4>2. l \in listed["client"]
          BY <2>1, <4>1 DEF BaseInv, OpenInv, C
        <4>3. QED
          BY <1>2, <1>3, <1>5, <3>2, <4>2
      <3>3. QED
        BY <3>1, <3>2
    <2>2. ASSUME NEW l \in Id PROVE conn'["server"][l].rpc = {}
      <3>1. CASE s = "server" /\ l = k
        BY <1>2, <1>6, <3>1
      <3>2. CASE ~(s = "server" /\ l = k)
        BY <1>2, <1>5, <3>2 DEF BaseInv, OpenInv, S
      <3>3. QED
        BY <3>1, <3>2
    <2>3. QED
      BY <2>1, <2>2 DEF OpenInv, C, S
  <1>10. QED
    BY <1>7, <1>8, <1>9

\* A connection that an endpoint holds has been made.
LEMMA AliveMade ==
  ASSUME LinkInv, BaseInv, NEW s \in Side, NEW k \in Id,
         \/ Alive(s, k) \/ k \in listed[s]
         \/ conn[s][k].reading # "no" \/ conn[s][k].writing
  PROVE  k <= last /\ (s = "server" /\ (conn[s][k].reading # "no" \/ conn[s][k].writing)
                       => conn[s][k].state # "none")
  <1>1. Alive(s, k)
    BY DEF Alive
  <1>2. ~(k > last)
    BY <1>1 DEF BaseInv, FreshInv
  <1>3. k <= last
    BY <1>2, TypeFacts DEF Id
  <1>4. NoObject.reading = "no" /\ NoObject.writing = FALSE
    BY DEF NoObject
  <1>5. s = "server" /\ conn[s][k].state = "none" => conn[s][k].reading = "no" /\ ~conn[s][k].writing
    BY <1>4 DEF BaseInv, NoneInv, S
  <1>6. QED
    BY <1>3, <1>5

LEMMA InitBase == Init => BaseInv
  <1> SUFFICES ASSUME Init PROVE BaseInv
    OBVIOUS
  <1>1. /\ \A s \in Side, k \in Id : conn[s][k] = NoObject /\ log[s][k] = <<>>
        /\ \A k \in Id : pipe[k] = [to |-> [s \in Side |-> <<>>], shut |-> {}]
        /\ \A s \in Side : listed[s] = {} /\ queue[s] = <<>>
        /\ asked = <<>> /\ last = 0 /\ "client" \in Side /\ "server" \in Side
    BY DEF Init, Side
  <1>2. /\ NoObject.state = "none" /\ NoObject.reading = "no" /\ ~NoObject.writing
        /\ ~NoObject.leaked /\ NoObject.rpc = {}
    BY DEF NoObject
  <1>3. DOMAIN <<>> = {}
    OBVIOUS
  <1>4. QueueInv
    BY <1>1, <1>3 DEF QueueInv
  <1>5. \A k \in Id : pipe[k].shut = {} /\ \A s \in Side : pipe[k].to[s] = <<>>
    BY <1>1
  <1>6. FreshInv
    BY <1>1, <1>2, <1>5 DEF FreshInv, Alive, S
  <1>7. NoneInv /\ OpenInv
    BY <1>1, <1>2 DEF NoneInv, OpenInv, C, S
  <1>8. QED
    BY <1>4, <1>6, <1>7 DEF BaseInv

\* The queues, the objects and the logs that a step leaves alone.
LEMMA BaseKept ==
  ASSUME BaseInv, UNCHANGED <<conn, pipe, listed, log, last>>
  PROVE  FreshInv' /\ NoneInv' /\ OpenInv'
  <1>1. \A s \in Side, k \in Id : Alive(s, k)' <=> Alive(s, k)
    BY DEF Alive
  <1>2. FreshInv'
    BY <1>1 DEF BaseInv, FreshInv, S
  <1>3. NoneInv' /\ OpenInv'
    BY DEF BaseInv, NoneInv, OpenInv, C, S
  <1>4. QED
    BY <1>2, <1>3

LEMMA QueueKept ==
  ASSUME LinkInv, QueueInv, UNCHANGED asked, last' >= last, last' \in Nat,
         queue'["client"] = queue["client"] \/ queue'["client"] = <<>>,
         queue'["server"] = queue["server"]
  PROVE  QueueInv'
  <1>1. \A n \in DOMAIN asked : asked[n] \in Nat
    <2>1. asked \in Seq(Id)
      BY RestFacts
    <2>2. \A n \in DOMAIN asked : asked[n] \in Id
      BY <2>1, ElementOfSeq
    <2>3. QED
      BY <2>2 DEF Id
  <1>2. \A n \in DOMAIN asked : asked'[n] <= last'
    BY <1>1, TypeFacts DEF QueueInv
  <1>3. \A n \in DOMAIN asked' : asked'[n] <= last'
    BY <1>2
  <1>4. DOMAIN <<>> = {}
    OBVIOUS
  <1>5. CASE queue'["client"] = queue["client"]
    BY <1>3, <1>5 DEF QueueInv
  <1>6. CASE queue'["client"] = <<>>
    BY <1>3, <1>4, <1>6 DEF QueueInv
  <1>7. QED
    BY <1>5, <1>6

\* A post is the youngest of all.
LEMMA PostFacts ==
  ASSUME LinkInv, NEW mode \in Modes, Post(mode)
  PROVE  \E k \in Id, m \in Message :
           /\ k \in listed["client"] /\ m = [mode |-> mode, n |-> Len(asked) + 1, seq |-> 0]
           /\ queue'["client"] = Append(queue["client"], [k |-> k, m |-> m])
           /\ queue["client"] \in Seq([k : Id, m : Message])
           /\ queue'["server"] = queue["server"]
           /\ asked' = Append(asked, k) /\ asked \in Seq(Id) /\ Len(asked) \in Nat
           /\ DOMAIN asked = 1..Len(asked) /\ DOMAIN asked' = 1..(Len(asked) + 1)
           /\ asked'[Len(asked) + 1] = k /\ \A n \in DOMAIN asked : asked'[n] = asked[n]
           /\ called' = (IF mode = "call" THEN called \cup {Len(asked) + 1} ELSE called)
           /\ UNCHANGED <<conn, pipe, listed, last, greeting, log, phase, welcomed, replied, answers, faults>>
  <1> DEFINE m == [mode |-> mode, n |-> Len(asked) + 1, seq |-> 0]
  <1>1. asked \in Seq(Id) /\ Len(asked) \in Nat /\ DOMAIN asked = 1..Len(asked)
    BY TypeFacts
  <1>2. m \in Message
    BY <1>1, LinkAssumption DEF Message
  <1>3. PICK k \in listed["client"] :
           queue' = [queue EXCEPT !["client"] = Append(@, [k |-> k, m |-> m])]
           /\ asked' = Append(asked, k)
    BY DEF Post
  <1>4. k \in Id /\ "client" \in Side /\ "server" \in Side /\ "client" # "server"
        /\ queue \in [Side -> Seq([k : Id, m : Message])]
    BY TypeFacts DEF Side
  <1> HIDE DEF m
  <1>5. /\ queue'["client"] = Append(queue["client"], [k |-> k, m |-> m])
        /\ queue'["server"] = queue["server"] /\ queue["client"] \in Seq([k : Id, m : Message])
    BY <1>3, <1>4
  <1>6. /\ DOMAIN asked' = 1..(Len(asked) + 1) /\ asked'[Len(asked) + 1] = k
        /\ \A n \in DOMAIN asked : asked'[n] = asked[n]
    <2>1. /\ asked' \in Seq(Id) /\ Len(asked') = Len(asked) + 1
          /\ \A n \in 1..Len(asked) : asked'[n] = asked[n] /\ asked'[Len(asked) + 1] = k
      BY <1>1, <1>3, <1>4, AppendProperties
    <2>2. asked'[Len(asked) + 1] = k
      BY <1>1, <1>3, <1>4, AppendProperties
    <2>3. DOMAIN asked' = 1..(Len(asked) + 1)
      BY <2>1, LenProperties
    <2>4. QED
      BY <1>1, <2>1, <2>2, <2>3
  <1>7. /\ called' = (IF mode = "call" THEN called \cup {Len(asked) + 1} ELSE called)
        /\ UNCHANGED <<conn, pipe, listed, last, greeting, log, phase, welcomed, replied, answers, faults>>
    BY DEF Post
  <1>8. QED
    BY <1>1, <1>2, <1>3, <1>4, <1>5, <1>6, <1>7 DEF m

LEMMA BasePost == ASSUME LinkInv, BaseInv, NEW mode \in Modes, Post(mode) PROVE BaseInv'
  <1>1. PICK k \in Id, m \in Message :
           /\ k \in listed["client"] /\ m = [mode |-> mode, n |-> Len(asked) + 1, seq |-> 0]
           /\ queue'["client"] = Append(queue["client"], [k |-> k, m |-> m])
           /\ queue["client"] \in Seq([k : Id, m : Message])
           /\ queue'["server"] = queue["server"]
           /\ Len(asked) \in Nat
           /\ DOMAIN asked = 1..Len(asked) /\ DOMAIN asked' = 1..(Len(asked) + 1)
           /\ asked'[Len(asked) + 1] = k /\ \A n \in DOMAIN asked : asked'[n] = asked[n]
           /\ UNCHANGED <<conn, pipe, listed, last, greeting, log, phase, welcomed, replied, answers, faults>>
    BY PostFacts
  <1>2. FreshInv' /\ NoneInv' /\ OpenInv'
    BY <1>1, BaseKept
  <1> DEFINE q == queue["client"]
             n == Len(asked) + 1
             e == [k |-> k, m |-> m]
  <1>3. e \in [k : Id, m : Message] /\ e.k = k /\ e.m.n = n /\ e.m.mode # "reply" /\ e.m.seq = 0
    BY <1>1, LinkAssumption
  <1>4. k <= last
    BY <1>1, AliveMade DEF Side
  <1>5. /\ \A i \in DOMAIN q :
              /\ q[i].m.n \in DOMAIN asked /\ asked[q[i].m.n] = q[i].k
              /\ q[i].m.mode # "reply" /\ q[i].m.seq = 0
        /\ \A i, j \in DOMAIN q : i < j => q[i].m.n < q[j].m.n
        /\ \A x \in DOMAIN asked : asked[x] <= last
        /\ \A i \in DOMAIN queue["server"] : queue["server"][i].m.mode # "call"
    BY DEF BaseInv, QueueInv
  <1> DEFINE r == Append(q, e)
  <1> HIDE DEF e
  <1>6. /\ Len(q) \in Nat /\ DOMAIN q = 1..Len(q)
        /\ DOMAIN r = 1..(Len(q) + 1)
        /\ \A i \in DOMAIN q : r[i] = q[i]
        /\ r[Len(q) + 1] = e
        /\ \A i \in DOMAIN r : i \in DOMAIN q \/ i = Len(q) + 1
    BY <1>1, <1>3, AppendPlaces
  <1>7. queue'["client"] = r
    BY <1>1 DEF e
  <1> HIDE DEF r
  <1>8. \A i \in DOMAIN r :
              /\ r[i].m.n \in DOMAIN asked' /\ asked'[r[i].m.n] = r[i].k
              /\ r[i].m.mode # "reply" /\ r[i].m.seq = 0
    <2> TAKE i \in DOMAIN r
    <2>1. CASE i \in DOMAIN q
      BY <1>1, <1>5, <1>6, <2>1
    <2>2. CASE i = Len(q) + 1
      BY <1>1, <1>3, <1>6, <2>2
    <2>3. QED
      BY <1>6, <2>1, <2>2
  <1>9. \A i, j \in DOMAIN r : i < j => r[i].m.n < r[j].m.n
    <2> TAKE i, j \in DOMAIN r
    <2> HAVE i < j
    <2>1. i \in DOMAIN q
      BY <1>6
    <2>2. CASE j \in DOMAIN q
      BY <1>5, <1>6, <2>1, <2>2
    <2>3. CASE j = Len(q) + 1
      <3>1. r[i].m.n \in DOMAIN asked /\ r[j].m.n = n
        BY <1>3, <1>5, <1>6, <2>1, <2>3
      <3>2. QED
        BY <1>1, <3>1
    <2>4. QED
      BY <1>6, <2>2, <2>3
  <1>10. \A x \in DOMAIN asked' : asked'[x] <= last'
    <2> TAKE x \in DOMAIN asked'
    <2>1. x \in DOMAIN asked \/ x = n
      BY <1>1
    <2>2. QED
      BY <1>1, <1>4, <1>5, <2>1
  <1>11. QueueInv'
    BY <1>1, <1>5, <1>7, <1>8, <1>9, <1>10 DEF QueueInv
  <1>12. QED
    BY <1>2, <1>11 DEF BaseInv

\* What the launcher's main thread queues: nothing that asks for a response.
LEMMA QueueServer ==
  ASSUME LinkInv, QueueInv, UNCHANGED <<asked, last>>, queue'["client"] = queue["client"],
         NEW e \in [k : Id, m : Message], e.m.mode # "call",
         queue'["server"] = Append(queue["server"], e)
  PROVE  QueueInv'
  <1> DEFINE q == queue["server"]
             r == Append(q, e)
  <1>1. q \in Seq([k : Id, m : Message])
    BY TypeFacts DEF Side
  <1>2. \A i \in DOMAIN r : (i \in DOMAIN q /\ r[i] = q[i]) \/ r[i] = e
    BY <1>1, AppendPlaces
  <1>3. \A i \in DOMAIN r : r[i].m.mode # "call"
    BY <1>2 DEF QueueInv
  <1>4. \A i \in DOMAIN queue'["server"] : queue'["server"][i].m.mode # "call"
    BY <1>3
  <1>5. QED
    BY <1>4 DEF QueueInv

LEMMA WelcomeFacts ==
  ASSUME LinkInv, NEW k \in Id, Welcome(k)
  PROVE  LET e == [k |-> k, m |-> [mode |-> "message", n |-> k, seq |-> 0]]
         IN  /\ e \in [k : Id, m : Message] /\ e.k = k /\ e.m.mode = "message"
             /\ queue'["client"] = queue["client"]
             /\ \/ queue'["server"] = queue["server"]
                \/ k \in listed["server"] /\ queue'["server"] = Append(queue["server"], e)
             /\ UNCHANGED <<conn, pipe, listed, last, greeting, log, phase, replied, asked, called, faults, answers>>
  <1> DEFINE m == [mode |-> "message", n |-> k, seq |-> 0]
             e == [k |-> k, m |-> m]
  <1>1. m \in Message
    BY LinkAssumption DEF Message, Id
  <1>2. e \in [k : Id, m : Message] /\ e.k = k /\ e.m.mode = "message"
    BY <1>1
  <1>3. queue \in [Side -> Seq([k : Id, m : Message])] /\ "server" \in Side /\ "client" \in Side
        /\ "client" # "server"
    BY TypeFacts DEF Side
  <1>4. /\ queue' = IF k \in listed["server"] THEN [queue EXCEPT !["server"] = Append(@, e)] ELSE queue
        /\ UNCHANGED <<conn, pipe, listed, last, greeting, log, phase, replied, asked, called, faults, answers>>
    BY DEF Welcome, history
  <1> HIDE DEF e
  <1>5. /\ queue'["client"] = queue["client"]
        /\ \/ queue'["server"] = queue["server"]
           \/ k \in listed["server"] /\ queue'["server"] = Append(queue["server"], e)
    BY <1>3, <1>4
  <1>6. QED
    BY <1>2, <1>4, <1>5, Zenon DEF e

LEMMA BaseWelcome == ASSUME LinkInv, BaseInv, NEW k \in Id, Welcome(k) PROVE BaseInv'
  <1> DEFINE e == [k |-> k, m |-> [mode |-> "message", n |-> k, seq |-> 0]]
  <1>1. /\ e \in [k : Id, m : Message] /\ e.m.mode = "message"
        /\ queue'["client"] = queue["client"]
        /\ queue'["server"] = queue["server"] \/ queue'["server"] = Append(queue["server"], e)
        /\ UNCHANGED <<conn, pipe, listed, last, log, asked>>
    BY WelcomeFacts
  <1> HIDE DEF e
  <1>2. FreshInv' /\ NoneInv' /\ OpenInv'
    BY <1>1, BaseKept
  <1>3. QueueInv'
    <2>1. CASE queue'["server"] = queue["server"]
      BY <1>1, <2>1 DEF BaseInv, QueueInv
    <2>2. CASE queue'["server"] = Append(queue["server"], e)
      BY <1>1, <2>2, QueueServer DEF BaseInv
    <2>3. QED
      BY <1>1, <2>1, <2>2
  <1>4. QED
    BY <1>2, <1>3 DEF BaseInv

LEMMA ReplyFacts ==
  ASSUME LinkInv, NEW n \in DOMAIN asked, Reply(n)
  PROVE  \E k \in Id, m \in Message :
           LET e == [k |-> k, m |-> [m EXCEPT !.mode = "reply"]]
           IN  /\ e \in [k : Id, m : Message] /\ e.k = k /\ e.m.mode = "reply"
               /\ e.m.n = m.n /\ e.m.seq = m.seq
               /\ \E i \in DOMAIN log["server"][k] :
                     /\ log["server"][k][i].what = "received" /\ log["server"][k][i].m = m
                     /\ m.mode = "call" /\ m.n = n
               /\ queue'["client"] = queue["client"]
               /\ \/ queue'["server"] = queue["server"]
                  \/ Alive("server", k) /\ queue'["server"] = Append(queue["server"], e)
               /\ UNCHANGED <<conn, pipe, listed, last, greeting, log, phase, welcomed, asked, called, faults, answers>>
  <1>1. PICK k \in Id : \E i \in DOMAIN log["server"][k] :
           LET e == log["server"][k][i]
           IN  /\ e.what = "received" /\ e.m.mode = "call" /\ e.m.n = n
               /\ queue' = IF Alive("server", k)
                          THEN [queue EXCEPT !["server"] =
                                   Append(@, [k |-> k, m |-> [e.m EXCEPT !.mode = "reply"]])]
                          ELSE queue
    BY DEF Reply
  <1>2. PICK i \in DOMAIN log["server"][k] :
           LET e == log["server"][k][i]
           IN  /\ e.what = "received" /\ e.m.mode = "call" /\ e.m.n = n
               /\ queue' = IF Alive("server", k)
                          THEN [queue EXCEPT !["server"] =
                                   Append(@, [k |-> k, m |-> [e.m EXCEPT !.mode = "reply"]])]
                          ELSE queue
    BY <1>1
  <1>3. UNCHANGED <<conn, pipe, listed, last, greeting, log, phase, welcomed, asked, called, faults, answers>>
    BY DEF Reply, history
  <1>4. "server" \in Side /\ "client" \in Side /\ "client" # "server"
        /\ queue \in [Side -> Seq([k : Id, m : Message])]
    BY TypeFacts DEF Side
  <1>5. log["server"][k][i].m \in Message
    BY <1>2, <1>4, EventType
  <1>6. PICK m \in Message : m = log["server"][k][i].m
    BY <1>5
  <1> DEFINE e == [k |-> k, m |-> [m EXCEPT !.mode = "reply"]]
  <1>7. /\ e \in [k : Id, m : Message] /\ e.k = k /\ e.m.mode = "reply"
        /\ e.m.n = m.n /\ e.m.seq = m.seq
    BY DEF Message
  <1>8. (queue' = [queue EXCEPT !["server"] = Append(@, e)] /\ Alive("server", k)) \/ queue' = queue
    BY <1>2, <1>6
  <1> HIDE DEF e
  <1>9. /\ queue'["client"] = queue["client"]
        /\ \/ queue'["server"] = queue["server"]
           \/ Alive("server", k) /\ queue'["server"] = Append(queue["server"], e)
    BY <1>4, <1>8
  <1>10. /\ log["server"][k][i].what = "received" /\ log["server"][k][i].m = m
         /\ m.mode = "call" /\ m.n = n
    BY <1>2, <1>6
  <1>11. QED
    BY <1>3, <1>7, <1>9, <1>10, Zenon DEF e

LEMMA BaseReply == ASSUME LinkInv, BaseInv, NEW n \in DOMAIN asked, Reply(n) PROVE BaseInv'
  <1>1. PICK k \in Id, m \in Message :
           LET e == [k |-> k, m |-> [m EXCEPT !.mode = "reply"]]
           IN  /\ e \in [k : Id, m : Message] /\ e.m.mode = "reply"
               /\ queue'["client"] = queue["client"]
               /\ queue'["server"] = queue["server"] \/ queue'["server"] = Append(queue["server"], e)
               /\ UNCHANGED <<conn, pipe, listed, last, log, asked>>
    BY ReplyFacts, Zenon
  <1>2. FreshInv' /\ NoneInv' /\ OpenInv'
    BY <1>1, BaseKept
  <1>3. QueueInv'
    <2> DEFINE e == [k |-> k, m |-> [m EXCEPT !.mode = "reply"]]
    <2>1. /\ e \in [k : Id, m : Message] /\ e.m.mode = "reply"
          /\ queue'["server"] = queue["server"] \/ queue'["server"] = Append(queue["server"], e)
      BY <1>1
    <2> HIDE DEF e
    <2>2. CASE queue'["server"] = queue["server"]
      BY <1>1, <2>2 DEF BaseInv, QueueInv
    <2>3. CASE queue'["server"] = Append(queue["server"], e)
      BY <1>1, <2>1, <2>3, QueueServer DEF BaseInv
    <2>4. QED
      BY <2>1, <2>2, <2>3
  <1>4. QED
    BY <1>2, <1>3 DEF BaseInv

LEMMA BaseCompleteRead ==
  ASSUME LinkInv, BaseInv, NEW s \in Side, NEW k \in Id, CompleteRead(s, k) PROVE BaseInv'
  <1> DEFINE c == conn[s][k]
             m == Head(pipe[k].to[s])
  <1>1. /\ c.reading = "pending" /\ m \in Message /\ conn'[s][k] = Got(c, m)
        /\ \A t \in Side, l \in Id : t # s \/ l # k => conn'[t][l] = conn[t][l]
        /\ pipe'[k].shut = pipe[k].shut
        /\ \A l \in Id : l # k => pipe'[l] = pipe[l]
        /\ UNCHANGED <<listed, last, queue, log, asked>>
    BY CompleteReadFacts
  <1>2. k <= last /\ (s = "server" => c.state # "none")
    BY <1>1, AliveMade
  <1>3. conn'[s][k].state = c.state /\ conn'[s][k].rpc = c.rpc
    BY <1>1, GotType, TypeFacts
  <1> HIDE DEF c, m
  <1>4. \A l \in Id : l > last => l # k
    BY <1>2, TypeFacts DEF Id
  <1>5. \A t \in Side, l \in Id : l # k => (Alive(t, l)' <=> Alive(t, l))
    BY <1>1 DEF Alive
  <1>6. FreshInv'
    <2>1. "server" \in Side
      BY DEF Side
    <2>2. QED
      BY <1>1, <1>4, <1>5, <2>1 DEF BaseInv, FreshInv, S
  <1>7. NoneInv'
    BY <1>1, <1>2, <1>3 DEF BaseInv, NoneInv, S, Side, c
  <1>8. OpenInv'
    BY <1>1, <1>3 DEF BaseInv, OpenInv, C, S, Side, c
  <1>9. QueueInv'
    BY <1>1 DEF BaseInv, QueueInv
  <1>10. QED
    BY <1>6, <1>7, <1>8, <1>9 DEF BaseInv

LEMMA QueueTail ==
  ASSUME LinkInv, QueueInv, UNCHANGED <<asked, last>>, NEW s \in Side, queue[s] # <<>>,
         queue'[s] = Tail(queue[s]), \A t \in Side : t # s => queue'[t] = queue[t]
  PROVE  QueueInv'
  <1> DEFINE q == queue[s]
             r == Tail(q)
  <1>1. q \in Seq([k : Id, m : Message]) /\ "client" \in Side /\ "server" \in Side /\ "client" # "server"
    BY TypeFacts DEF Side
  <1>2. \A i \in DOMAIN r : i + 1 \in DOMAIN q /\ r[i] = q[i + 1]
    BY <1>1, TailPlaces
  <1>3. \A i, j \in DOMAIN r : i < j => i + 1 < j + 1
    <2>1. DOMAIN r = 1..(Len(q) - 1) /\ Len(q) \in Nat
      BY <1>1, TailPlaces
    <2>2. QED
      BY <2>1
  <1>4. r = queue'[s]
    OBVIOUS
  <1> HIDE DEF r
  <1>5. CASE s = "client"
    <2>1. queue'["server"] = queue["server"]
      BY <1>1, <1>5
    <2>2. \A i \in DOMAIN r :
              /\ r[i].m.n \in DOMAIN asked /\ asked[r[i].m.n] = r[i].k
              /\ r[i].m.mode # "reply" /\ r[i].m.seq = 0
      BY <1>2, <1>5 DEF QueueInv
    <2>3. \A i, j \in DOMAIN r : i < j => r[i].m.n < r[j].m.n
      <3> TAKE i, j \in DOMAIN r
      <3> HAVE i < j
      <3>1. i + 1 \in DOMAIN q /\ j + 1 \in DOMAIN q /\ i + 1 < j + 1
        BY <1>2, <1>3
      <3>2. q[i + 1].m.n < q[j + 1].m.n
        BY <1>5, <3>1 DEF QueueInv
      <3>3. QED
        BY <1>2, <3>2
    <2>4. QED
      BY <1>4, <1>5, <2>1, <2>2, <2>3 DEF QueueInv
  <1>6. CASE s = "server"
    <2>1. queue'["client"] = queue["client"]
      BY <1>1, <1>6
    <2>2. \A i \in DOMAIN r : r[i].m.mode # "call"
      BY <1>2, <1>6 DEF QueueInv
    <2>3. QED
      BY <1>4, <1>6, <2>1, <2>2 DEF QueueInv
  <1>7. QED
    BY <1>5, <1>6 DEF Side

LEMMA BaseQueuedSend == ASSUME LinkInv, BaseInv, NEW s \in Side, QueuedSend(s) PROVE BaseInv'
  <1> DEFINE k == Head(queue[s]).k
             m == Head(queue[s]).m
             c == conn[s][k]
             error(how) == IF m.mode = "call" THEN <<[n |-> m.n, how |-> how]>> ELSE <<>>
             sent == Sending(s, Numbered(c, m), pipe[k])
  <1>1. /\ queue[s] \in Seq([k : Id, m : Message]) /\ queue[s] # <<>>
        /\ k \in Id /\ m \in Message /\ ObjectInv(c) /\ pipe[k] \in Pipe
        /\ queue'[s] = Tail(queue[s]) /\ \A t \in Side : t # s => queue'[t] = queue[t]
        /\ UNCHANGED <<last, asked>>
        /\ \/ UNCHANGED <<conn, pipe, listed, log>>
           \/ /\ Alive(s, k) /\ c.state = "closed"
              /\ Settle(s, k, c, pipe[k], <<>>, error("NoConnection"), TRUE)
           \/ /\ Alive(s, k) /\ c.state = "open" /\ ObjectInv(Numbered(c, m))
              /\ Settle(s, k, sent.c, sent.p, <<>>, <<>>, sent.closing)
              /\ ObjectInv(sent.c) /\ sent.p \in Pipe /\ sent.closing \in BOOLEAN
    BY QueuedSendFacts, Zenon
  <1>2. QueueInv'
    BY <1>1, QueueTail DEF BaseInv
  <1>3. s = "server" => c.rpc = {} /\ m.mode # "call"
    <2>1. 1 \in DOMAIN queue[s] /\ queue[s][1] = Head(queue[s])
      BY <1>1, TailPlaces
    <2>2. s = "server" => m.mode # "call"
      BY <2>1 DEF BaseInv, QueueInv
    <2>3. s = "server" => c.rpc = {}
      BY <1>1 DEF BaseInv, OpenInv, S
    <2>4. QED
      BY <2>2, <2>3
  <1>4. CASE UNCHANGED <<conn, pipe, listed, log>>
    BY <1>1, <1>2, <1>4, BaseKept DEF BaseInv
  <1>5. CASE /\ Alive(s, k) /\ c.state = "closed"
             /\ Settle(s, k, c, pipe[k], <<>>, error("NoConnection"), TRUE)
    <2>1. k <= last
      BY <1>1, <1>5, AliveMade
    <2> DEFINE results == error("NoConnection")
    <2>2. /\ k \in Id /\ ObjectInv(c) /\ pipe[k] \in Pipe /\ c.state = "closed" /\ last' = last
          /\ Settle(s, k, c, pipe[k], <<>>, results, TRUE)
          /\ s = "server" => c.rpc = {}
      BY <1>1, <1>3, <1>5
    <2> DEFINE p == pipe[k]
               events == <<>>
               closing == TRUE
    <2>3. /\ k \in Id /\ ObjectInv(c) /\ p \in Pipe /\ c.state = "closed" /\ last' = last
          /\ Settle(s, k, c, p, events, results, closing) /\ k <= last
          /\ s = "server" => c.rpc = {}
          /\ closing = TRUE
      BY <2>1, <2>2, Zenon
    <2> HIDE DEF k, m, c, error, results, sent, p, events, closing
    <2>4. FreshInv' /\ NoneInv' /\ OpenInv'
      BY <2>3, SettleBase
    <2>5. QED
      BY <1>2, <2>4 DEF BaseInv
  <1>6. CASE /\ Alive(s, k) /\ c.state = "open" /\ ObjectInv(Numbered(c, m))
             /\ Settle(s, k, sent.c, sent.p, <<>>, <<>>, sent.closing)
             /\ ObjectInv(sent.c) /\ sent.p \in Pipe /\ sent.closing \in BOOLEAN
    <2>1. k <= last
      BY <1>1, <1>6, AliveMade
    <2>2. Numbered(c, m).state = "open" /\ (s = "server" => Numbered(c, m).rpc = {})
      BY <1>1, <1>3, <1>6, NumberedFacts
    <2>3. sent.c.state = "open" /\ (s = "server" => sent.c.rpc = {})
      BY <1>1, <1>6, <2>2, SendingSame
    <2>4. s = "client" => k \in listed["client"]
      BY <1>1, <1>6 DEF BaseInv, OpenInv, C
    <2> HIDE DEF k, m, c, sent
    <2>5. FreshInv' /\ NoneInv' /\ OpenInv'
      BY <1>1, <1>6, <2>1, <2>3, <2>4, SettleBase
    <2>6. QED
      BY <1>2, <2>5 DEF BaseInv
  <1>7. QED
    BY <1>1, <1>4, <1>5, <1>6

LEMMA BaseHandleReadComplete ==
  ASSUME LinkInv, BaseInv, NEW s \in Side, NEW k \in Id, HandleReadComplete(s, k) PROVE BaseInv'
  <1> DEFINE c == conn[s][k]
             m == Head(c.got)
             mine == Answered(c, m)
             h == Handled(c, mine)
             events == IF mine = {} THEN <<[what |-> "received", m |-> m]>> ELSE <<>>
             results == IF mine = {} THEN <<>> ELSE <<[n |-> m.n, how |-> "reply"]>>
  <1>1. /\ ObjectInv(c) /\ pipe[k] \in Pipe /\ h \in PipeConnection /\ c.reading = "done"
        /\ \E next \in Reading(s, h, pipe[k]) :
                   /\ ObjectInv(next.c) /\ next.closing \in BOOLEAN
                   /\ Settle(s, k, next.c, pipe[k], events, results, next.closing)
        /\ UNCHANGED <<last, queue, asked>>
    BY HandleReadCompleteFacts, Zenon
  <1>2. PICK next \in Reading(s, h, pipe[k]) :
                   /\ ObjectInv(next.c) /\ next.closing \in BOOLEAN
                   /\ Settle(s, k, next.c, pipe[k], events, results, next.closing)
    BY <1>1
  <1>3. h.state = c.state /\ h.rpc = c.rpc \ mine
    BY <1>1, HandledType
  <1>4. k <= last /\ (s = "server" => c.state # "none")
    BY <1>1, AliveMade
  <1>5. /\ s = "server" => c.rpc = {}
        /\ s = "client" /\ c.state = "open" => k \in listed["client"]
    BY DEF BaseInv, OpenInv, C, S
  <1> HIDE DEF c, mine, events, results, h
  <1>6. next.c.state = h.state /\ next.c.rpc = h.rpc
    BY <1>1, <1>2, ReadingCases
  <1>7. FreshInv' /\ NoneInv' /\ OpenInv'
    BY <1>1, <1>2, <1>3, <1>4, <1>5, <1>6, SettleBase
  <1>8. QueueInv'
    BY <1>1 DEF BaseInv, QueueInv
  <1>9. QED
    BY <1>7, <1>8 DEF BaseInv

LEMMA BaseHandleReadError ==
  ASSUME LinkInv, BaseInv, NEW s \in Side, NEW k \in Id, HandleReadError(s, k) PROVE BaseInv'
  <1> DEFINE c == conn[s][k]
             d == Unread(c)
  <1>1. /\ ObjectInv(c) /\ pipe[k] \in Pipe /\ c.reading # "done" /\ ObjectInv(d)
        /\ Settle(s, k, d, pipe[k], <<>>, <<>>, TRUE)
        /\ UNCHANGED <<last, queue, asked>>
    BY HandleReadErrorFacts
  <1>2. d.state = c.state /\ d.rpc = c.rpc
    BY <1>1, UnreadType
  <1>3. c.reading # "no"
    BY DEF HandleReadError
  <1>4. k <= last /\ (s = "server" => c.state # "none")
    BY <1>3, AliveMade
  <1>5. s = "server" => c.rpc = {}
    BY DEF BaseInv, OpenInv, S
  <1> HIDE DEF c, d
  <1>6. FreshInv' /\ NoneInv' /\ OpenInv'
    BY <1>1, <1>2, <1>4, <1>5, SettleBase
  <1>7. QueueInv'
    BY <1>1 DEF BaseInv, QueueInv
  <1>8. QED
    BY <1>6, <1>7 DEF BaseInv

LEMMA BaseHandleWriteComplete ==
  ASSUME LinkInv, BaseInv, NEW s \in Side, NEW k \in Id, HandleWriteComplete(s, k) PROVE BaseInv'
  <1> DEFINE c == Written(conn[s][k])
             next == Sending(s, c, pipe[k])
  <1>1. /\ ObjectInv(conn[s][k]) /\ pipe[k] \in Pipe /\ conn[s][k].writing /\ ObjectInv(c)
        /\ UNCHANGED <<last, queue, asked>>
        /\ \/ /\ Settle(s, k, next.c, next.p, <<>>, <<>>, next.closing)
              /\ ObjectInv(next.c) /\ next.p \in Pipe /\ next.closing \in BOOLEAN
           \/ c.state = "closed" /\ Settle(s, k, c, pipe[k], <<>>, <<>>, TRUE)
    BY HandleWriteCompleteFacts, Zenon
  <1>2. c.rpc = conn[s][k].rpc /\ c.state = conn[s][k].state
    BY <1>1, WrittenType
  <1>3. next.c.rpc = c.rpc /\ next.c.state = c.state
    BY <1>1, SendingSame
  <1>4. k <= last /\ (s = "server" => conn[s][k].state # "none")
    BY <1>1, AliveMade
  <1>5. /\ s = "server" => conn[s][k].rpc = {}
        /\ s = "client" /\ conn[s][k].state = "open" => k \in listed["client"]
    BY DEF BaseInv, OpenInv, C, S
  <1>6. QueueInv'
    BY <1>1 DEF BaseInv, QueueInv
  <1> HIDE DEF next, c
  <1>7. FreshInv' /\ NoneInv' /\ OpenInv'
    BY <1>1, <1>2, <1>3, <1>4, <1>5, SettleBase
  <1>8. QED
    BY <1>6, <1>7 DEF BaseInv

LEMMA ConnectFacts ==
  ASSUME LinkInv, Connect
  PROVE  /\ last + 1 \in Id /\ last' = last + 1 /\ last \in Nat
         /\ conn'["client"][last + 1] = Opened /\ ~greeting /\ greeting' = TRUE
         /\ \A t \in Side, l \in Id : t # "client" \/ l # last + 1 => conn'[t][l] = conn[t][l]
         /\ listed["client"] = {} /\ listed'["client"] = {last + 1}
         /\ listed'["server"] = listed["server"]
         /\ UNCHANGED <<pipe, queue, log, phase, welcomed, replied, asked, called, faults, answers>>
  <1> DEFINE k == last + 1
  <1>1. k \in Id /\ "client" \in Side /\ "server" \in Side /\ "client" # "server" /\ last \in Nat
    BY TypeFacts, LinkAssumption DEF Connect, Id, Side
  <1>2. /\ last' = k /\ conn' = [conn EXCEPT !["client"][k] = Opened]
        /\ listed' = [listed EXCEPT !["client"] = {k}] /\ greeting' = TRUE
        /\ UNCHANGED <<pipe, queue, log, phase, welcomed, replied, asked, called, faults, answers>>
        /\ listed["client"] = {} /\ ~greeting
    BY DEF Connect, history
  <1>3. conn \in [Side -> [Id -> PipeConnection]] /\ listed \in [Side -> SUBSET Id]
    BY TypeFacts
  <1> DEFINE o == Opened
  <1> HIDE DEF k, o
  <1>4. /\ conn'["client"][k] = o
        /\ \A t \in Side, l \in Id : t # "client" \/ l # k => conn'[t][l] = conn[t][l]
    <2>1. conn' = [conn EXCEPT !["client"][k] = o]
      BY <1>2 DEF o
    <2>2. QED
      BY <1>1, <1>3, <2>1
  <1>5. listed'["client"] = {k} /\ listed'["server"] = listed["server"]
    BY <1>1, <1>2, <1>3
  <1>6. QED
    BY <1>1, <1>2, <1>4, <1>5 DEF k, o

LEMMA BaseConnect == ASSUME LinkInv, BaseInv, Connect PROVE BaseInv'
  <1> DEFINE k == last + 1
  <1>1. /\ k \in Id /\ last' = k /\ last \in Nat /\ k > last
        /\ \A t \in Side, l \in Id : t # "client" \/ l # k => conn'[t][l] = conn[t][l]
        /\ listed["client"] = {} /\ listed'["client"] = {k}
        /\ listed'["server"] = listed["server"]
        /\ UNCHANGED <<pipe, queue, log, asked>>
    BY ConnectFacts
  <1>2. \A l \in Id : l > k => l > last /\ l # k
    BY <1>1 DEF Id
  <1>3. "client" \in Side /\ "server" \in Side /\ "client" # "server"
    BY DEF Side
  <1>4. QueueInv'
    <2>1. last' \in Nat /\ last' >= last
      BY <1>1
    <2> HIDE DEF k
    <2>2. QED
      BY <1>1, <2>1, QueueKept DEF BaseInv
  <1> HIDE DEF k
  <1>5. \A t \in Side, l \in Id : l # k => (Alive(t, l)' => Alive(t, l))
    BY <1>1, <1>3 DEF Alive, Side
  <1>6. FreshInv'
    BY <1>1, <1>2, <1>3, <1>5 DEF BaseInv, FreshInv, S
  <1>7. NoneInv'
    BY <1>1, <1>3 DEF BaseInv, NoneInv, S
  <1>8. OpenInv'
    <2>1. \A l \in Id : l # k => C(l).state # "open"
      BY <1>1 DEF BaseInv, OpenInv
    <2>2. QED
      BY <1>1, <1>3, <2>1 DEF BaseInv, OpenInv, C, S
  <1>9. QED
    BY <1>4, <1>6, <1>7, <1>8 DEF BaseInv

LEMMA BaseGreet == ASSUME LinkInv, BaseInv, Greet PROVE BaseInv'
  <1> DEFINE hello == [mode |-> "message", n |-> 0, seq |-> 0]
             o == conn["client"][last]
             c == Numbered(o, hello)
             sent == Sending("client", c, pipe[last])
  <1>1. /\ last \in Id /\ ObjectInv(o) /\ pipe[last] \in Pipe
        /\ hello \in Message /\ ObjectInv(c)
        /\ ObjectInv(sent.c) /\ sent.p \in Pipe /\ sent.closing \in BOOLEAN
        /\ Settle("client", last, sent.c, sent.p, <<>>, <<>>, sent.closing)
        /\ UNCHANGED <<last, queue, asked>>
    BY GreetFacts, Zenon
  <1>2. "client" \in Side /\ "client" # "server" /\ last <= last
    BY <1>1 DEF Side, Id
  <1> HIDE DEF hello
  <1>3. c.state = o.state
    BY <1>1, NumberedFacts
  <1>4. sent.c.state = c.state
    BY <1>1, <1>2, SendingSame
  <1>5. o.state = "open" => last \in listed["client"]
    BY <1>1 DEF BaseInv, OpenInv, C
  <1>6. QueueInv'
    BY <1>1 DEF BaseInv, QueueInv
  <1> HIDE DEF sent, c, o
  <1>7. FreshInv' /\ NoneInv' /\ OpenInv'
    BY <1>1, <1>2, <1>3, <1>4, <1>5, SettleBase
  <1>8. QED
    BY <1>6, <1>7 DEF BaseInv

LEMMA BaseAccept == ASSUME LinkInv, BaseInv, Accept PROVE BaseInv'
  <1>1. PICK first \in Reading("server", Opening(NoObject), pipe[last]) :
              /\ last \in Id
              /\ ObjectInv(first.c) /\ first.closing \in BOOLEAN
              /\ conn'["server"][last] = IF first.closing THEN Closed(first.c) ELSE first.c
              /\ \A l \in Id : conn'["client"][l] = conn["client"][l]
              /\ \A l \in Id : l # last => conn'["server"][l] = conn["server"][l]
              /\ \A l \in Id : l # last => pipe'[l] = pipe[l]
              /\ \A l \in Id : l # last => log'["server"][l] = log["server"][l]
              /\ listed'["client"] = listed["client"]
              /\ UNCHANGED <<last, queue, asked>>
    BY AcceptFacts
  <1>2. listed' = [listed EXCEPT !["server"] = @ \cup {last}]
    BY Zenon DEF Accept
  <1>3. "client" \in Side /\ "server" \in Side /\ "client" # "server" /\ listed \in [Side -> SUBSET Id]
    BY TypeFacts DEF Side
  <1>4. \A l \in Id : l # last => (l \in listed'["server"] <=> l \in listed["server"])
    BY <1>2, <1>3
  <1>5. Opening(NoObject) \in PipeConnection /\ Opening(NoObject).state = "open"
        /\ Opening(NoObject).rpc = {}
    BY NoObjectInv DEF ObjectInv
  <1>6. first.c.state = "open" /\ first.c.rpc = {}
    BY <1>1, <1>3, <1>5, ReadingCases
  <1>7. Closed(first.c).state = "closed" /\ Closed(first.c).rpc = {}
    BY <1>1, ClosedType
  <1>8. conn'["server"][last].state # "none" /\ conn'["server"][last].rpc = {}
    BY <1>1, <1>6, <1>7
  <1>9. \A l \in Id : l > last => l # last
    BY <1>1 DEF Id
  <1>10. \A t \in Side, l \in Id : l # last => (Alive(t, l)' <=> Alive(t, l))
    BY <1>1, <1>3, <1>4 DEF Alive, Side
  <1>11. FreshInv'
    BY <1>1, <1>9, <1>10 DEF BaseInv, FreshInv, S
  <1>12. NoneInv'
    BY <1>1, <1>8 DEF BaseInv, NoneInv, S
  <1>13. OpenInv'
    BY <1>1, <1>8 DEF BaseInv, OpenInv, C, S
  <1>14. QueueInv'
    BY <1>1 DEF BaseInv, QueueInv
  <1>15. QED
    BY <1>11, <1>12, <1>13, <1>14 DEF BaseInv

\* What a crash leaves, pointwise.
LEMMA CrashFacts ==
  ASSUME LinkInv, Crash
  PROVE  /\ \A l \in Id : conn'["client"][l] = NoObject /\ conn'["server"][l] = conn["server"][l]
         /\ \A l \in Id : pipe'[l] = ShutPipe("client", pipe[l]) \/ pipe'[l] = pipe[l]
         /\ listed'["client"] = {} /\ listed'["server"] = listed["server"]
         /\ queue'["client"] = <<>> /\ queue'["server"] = queue["server"]
         /\ greeting' = FALSE /\ called' = {} /\ answers' = <<>>
         /\ UNCHANGED <<last, log, phase, welcomed, replied, asked>>
  <1> DEFINE o == NoObject
  <1>1. /\ conn' = [conn EXCEPT !["client"] = [l \in Id |-> o]]
        /\ pipe' = [l \in Id |-> IF conn["client"][l].state = "open"
                                 THEN ShutPipe("client", pipe[l]) ELSE pipe[l]]
        /\ listed' = [listed EXCEPT !["client"] = {}]
        /\ queue' = [queue EXCEPT !["client"] = <<>>]
        /\ greeting' = FALSE /\ called' = {} /\ answers' = <<>>
        /\ UNCHANGED <<last, log, phase, welcomed, replied, asked>>
    BY DEF Crash
  <1>2. /\ conn \in [Side -> [Id -> PipeConnection]] /\ listed \in [Side -> SUBSET Id]
        /\ queue \in [Side -> Seq([k : Id, m : Message])]
        /\ "client" \in Side /\ "server" \in Side /\ "client" # "server"
    BY TypeFacts DEF Side
  <1> HIDE DEF o
  <1>3. \A l \in Id : conn'["client"][l] = o /\ conn'["server"][l] = conn["server"][l]
    BY <1>1, <1>2
  <1>4. /\ listed'["client"] = {} /\ listed'["server"] = listed["server"]
        /\ queue'["client"] = <<>> /\ queue'["server"] = queue["server"]
    BY <1>1, <1>2
  <1>5. \A l \in Id : pipe'[l] = ShutPipe("client", pipe[l]) \/ pipe'[l] = pipe[l]
    BY <1>1
  <1>6. QED
    BY <1>1, <1>3, <1>4, <1>5 DEF o

LEMMA BaseCrash == ASSUME LinkInv, BaseInv, Crash PROVE BaseInv'
  <1>1. /\ \A l \in Id : conn'["client"][l] = NoObject /\ conn'["server"][l] = conn["server"][l]
        /\ \A l \in Id : pipe'[l] = ShutPipe("client", pipe[l]) \/ pipe'[l] = pipe[l]
        /\ listed'["client"] = {} /\ listed'["server"] = listed["server"]
        /\ queue'["client"] = <<>> /\ queue'["server"] = queue["server"]
        /\ UNCHANGED <<last, log, asked>>
    BY CrashFacts
  <1>2. /\ NoObject.state = "none" /\ NoObject.reading = "no" /\ NoObject.writing = FALSE
        /\ NoObject.leaked = FALSE
    BY DEF NoObject
  <1>3. \A l \in Id : /\ ShutPipe("client", pipe[l]).shut = pipe[l].shut \cup {"client"}
                      /\ \A t \in Side : pipe[l].to[t] = <<>> => ShutPipe("client", pipe[l]).to[t] = <<>>
    BY ShutPipeType, TypeFacts DEF Side
  <1>4. \A l \in Id : /\ ("server" \in pipe'[l].shut <=> "server" \in pipe[l].shut)
                      /\ \A t \in Side : pipe[l].to[t] = <<>> => pipe'[l].to[t] = <<>>
    BY <1>1, <1>3
  <1>5. \A l \in Id : ~Alive("client", l)' /\ (Alive("server", l)' <=> Alive("server", l))
    BY <1>1, <1>2 DEF Alive
  <1>6. FreshInv'
    BY <1>1, <1>4, <1>5 DEF BaseInv, FreshInv, S, Side
  <1>7. NoneInv'
    BY <1>1 DEF BaseInv, NoneInv, S
  <1>8. OpenInv'
    BY <1>1, <1>2 DEF BaseInv, OpenInv, C, S
  <1>9. QueueInv'
    <2>1. last' >= last /\ last' \in Nat
      BY <1>1, TypeFacts
    <2>2. QED
      BY <1>1, <2>1, QueueKept DEF BaseInv
  <1>10. QED
    BY <1>6, <1>7, <1>8, <1>9 DEF BaseInv

LEMMA BaseStopClient == ASSUME LinkInv, BaseInv, StopClient PROVE BaseInv'
  <1>1. UNCHANGED <<last, queue, asked>>
    BY StopClientFacts
  <1>2. QueueInv'
    BY <1>1 DEF BaseInv, QueueInv
  <1>3. CASE UNCHANGED <<conn, pipe, listed, log, answers>>
    BY <1>1, <1>2, <1>3, BaseKept DEF BaseInv
  <1>4. ASSUME NEW k \in Id, k \in listed["client"], ObjectInv(conn["client"][k]), pipe[k] \in Pipe,
               Settle("client", k, conn["client"][k], pipe[k], <<>>, <<>>, TRUE)
        PROVE  BaseInv'
    <2>1. "client" \in Side /\ "client" # "server"
      BY DEF Side
    <2>2. k <= last
      BY <1>4, <2>1, AliveMade
    <2>3. FreshInv' /\ NoneInv' /\ OpenInv'
      BY <1>1, <1>4, <2>1, <2>2, SettleBase
    <2>4. QED
      BY <1>2, <2>3 DEF BaseInv
  <1>5. QED
    BY <1>3, <1>4, StopClientFacts

LEMMA BaseStopServer == ASSUME LinkInv, BaseInv, StopServer PROVE BaseInv'
  <1>1. /\ \A l \in Id : conn'["client"][l] = conn["client"][l]
        /\ \A l \in Id : conn'["server"][l] =
               IF l \in listed["server"] /\ conn["server"][l].state = "open"
               THEN Closed(conn["server"][l]) ELSE conn["server"][l]
        /\ \A l \in Id : l \in 1..last \/ l \in listed["server"] \/ pipe'[l] = pipe[l]
        /\ UNCHANGED <<listed, last, queue, log, asked>>
    BY StopServerFacts
  <1>2. "client" \in Side /\ "server" \in Side /\ "client" # "server" /\ last \in Nat
    BY TypeFacts DEF Side
  <1>3. \A l \in Id : l > last => l \notin listed["server"]
    BY <1>2 DEF BaseInv, FreshInv, Alive
  <1>4. \A l \in Id : l > last => pipe'[l] = pipe[l] /\ conn'["server"][l] = conn["server"][l]
    BY <1>1, <1>2, <1>3 DEF Id
  <1>5. \A l \in Id : conn["server"][l].state = "open" =>
              Closed(conn["server"][l]).state = "closed" /\ Closed(conn["server"][l]).rpc = {}
    BY <1>2, ClosedType, TypeFacts
  <1>6. \A t \in Side, l \in Id : l > last => (Alive(t, l)' <=> Alive(t, l))
    BY <1>1, <1>4 DEF Alive, Side
  <1>7. FreshInv'
    BY <1>1, <1>4, <1>6 DEF BaseInv, FreshInv, S
  <1>8. NoneInv'
    BY <1>1, <1>5 DEF BaseInv, NoneInv, S
  <1>9. OpenInv'
    BY <1>1, <1>5 DEF BaseInv, OpenInv, C, S
  <1>10. QueueInv'
    BY <1>1 DEF BaseInv, QueueInv
  <1>11. QED
    BY <1>7, <1>8, <1>9, <1>10 DEF BaseInv

LEMMA NextBase ==
  ASSUME LinkInv, BaseInv, [Next]_vars
  PROVE  BaseInv'
  <1>1. CASE UNCHANGED vars
    <2>1. UNCHANGED <<conn, pipe, listed, log, last, queue, asked>>
      BY <1>1 DEF vars
    <2>2. QueueInv'
      BY <2>1 DEF BaseInv, QueueInv
    <2>3. QED
      BY <2>1, <2>2, BaseKept DEF BaseInv
  <1>2. CASE Next
    BY <1>2, NextSplit, BasePost, BaseWelcome, BaseReply, BaseCompleteRead, BaseQueuedSend,
       BaseHandleReadComplete, BaseHandleReadError, BaseHandleWriteComplete, BaseConnect,
       BaseGreet, BaseAccept, BaseCrash, BaseStopClient, BaseStopServer
  <1>3. QED
    BY <1>1, <1>2

LEMMA AlwaysBase == Spec => []BaseInv
  <1>1. LinkInv /\ BaseInv /\ [Next]_vars => BaseInv'
    BY NextBase
  <1>2. QED
    BY <1>1, InitBase, AlwaysLink, PTL DEF Spec

-----------------------------------------------------------------------------
(* InOrder.  What the launcher receives from a connection is a beginning of *)
(* one line: its log, the read that is done, the pipe, what the client has  *)
(* still to write, and what is queued for its pipe thread.                  *)

Numbers(q) == {q[i].n : i \in DOMAIN q}
Sorted(q) == \A i, j \in DOMAIN q : i < j => q[i].n < q[j].n
Below(A, B) == \A x \in A, y \in B : x < y

\* The messages received, of a log.
Receipts(q) == {i \in DOMAIN q : q[i].what = "received"}
Seen(q) == {q[i].m.n : i \in Receipts(q)}
LogSorted(q) == \A i, j \in Receipts(q) : i < j => q[i].m.n < q[j].m.n

\* What left the client, of a log, a read and a pipe, and that it is in order.
Stream(q, g, p) == Seen(q) \cup Numbers(g) \cup Numbers(p)
InLine(q, g, p) ==
    /\ LogSorted(q) /\ Sorted(p)
    /\ Below(Seen(q), Numbers(g)) /\ Below(Seen(q), Numbers(p)) /\ Below(Numbers(g), Numbers(p))

\* D is a beginning of P.
Beginning(D, P) == D \subseteq P /\ \A x \in P, y \in D : x < y => x \in D

\* What is written but not sent; while a write is under way it is the head.
Unsent(c) == IF c.writing THEN Tail(c.writeQueue) ELSE c.writeQueue

\* P is D, then u in order, then W.
Holds(D, u, W, P) ==
    /\ Sorted(u) /\ Below(D, Numbers(u)) /\ Below(D, W) /\ Below(Numbers(u), W)
    /\ P = D \cup Numbers(u) \cup W

LEMMA NumbersType ==
  ASSUME NEW q \in Seq(Message)
  PROVE  Numbers(q) \subseteq Nat /\ \A i \in DOMAIN q : q[i] \in Message /\ q[i].n \in Nat
  <1>1. \A i \in DOMAIN q : q[i] \in Message
    BY ElementOfSeq
  <1>2. \A i \in DOMAIN q : q[i].n \in Nat
    BY <1>1 DEF Message
  <1>3. QED
    BY <1>1, <1>2 DEF Numbers

LEMMA SeenType ==
  ASSUME NEW q \in Seq(Event)
  PROVE  Seen(q) \subseteq Nat
  <1>1. \A i \in Receipts(q) : q[i] \in Event /\ q[i].what = "received"
    BY ElementOfSeq DEF Receipts
  <1>2. \A i \in Receipts(q) : q[i].m.n \in Nat
    BY <1>1 DEF Event, Notice, Arrival, Message
  <1>3. QED
    BY <1>2 DEF Seen

LEMMA NumbersSmall ==
  /\ Numbers(<<>>) = {} /\ Sorted(<<>>)
  /\ \A m \in Message : Numbers(<<m>>) = {m.n}
  <1>1. DOMAIN <<>> = {}
    OBVIOUS
  <1>2. ASSUME NEW m \in Message PROVE Numbers(<<m>>) = {m.n}
    <2> DEFINE one == <<m>>
    <2>1. DOMAIN one = {1} /\ one[1] = m
      OBVIOUS
    <2> HIDE DEF one
    <2>2. Numbers(one) = {m.n}
      BY <2>1 DEF Numbers
    <2>3. QED
      BY <2>2 DEF one
  <1>3. QED
    BY <1>1, <1>2 DEF Numbers, Sorted

LEMMA NumbersAppend ==
  ASSUME NEW q \in Seq(Message), NEW m \in Message
  PROVE  /\ Numbers(Append(q, m)) = Numbers(q) \cup {m.n}
         /\ Sorted(q) /\ Below(Numbers(q), {m.n}) => Sorted(Append(q, m))
  <1> DEFINE r == Append(q, m)
  <1>1. /\ Len(q) \in Nat /\ DOMAIN q = 1..Len(q) /\ DOMAIN r = 1..(Len(q) + 1)
        /\ \A i \in DOMAIN q : r[i] = q[i]
        /\ r[Len(q) + 1] = m
        /\ \A i \in DOMAIN r : i \in DOMAIN q \/ i = Len(q) + 1
    BY AppendPlaces
  <1> HIDE DEF r
  <1>2. \A i \in DOMAIN q : i \in DOMAIN r
    BY <1>1
  <1>3. Len(q) + 1 \in DOMAIN r
    BY <1>1
  <1>4. Numbers(r) = Numbers(q) \cup {m.n}
    BY <1>1, <1>2, <1>3 DEF Numbers
  <1>5. ASSUME Sorted(q), Below(Numbers(q), {m.n}), NEW i \in DOMAIN r, NEW j \in DOMAIN r, i < j
        PROVE  r[i].n < r[j].n
    <2>1. i \in DOMAIN q
      BY <1>1, <1>5
    <2>2. CASE j \in DOMAIN q
      BY <1>1, <1>5, <2>1, <2>2 DEF Sorted
    <2>3. CASE j = Len(q) + 1
      BY <1>1, <1>5, <2>1, <2>3 DEF Below, Numbers
    <2>4. QED
      BY <1>1, <2>2, <2>3
  <1>6. QED
    BY <1>4, <1>5 DEF Sorted, r

LEMMA NumbersTail ==
  ASSUME NEW q \in Seq(Message), q # <<>>
  PROVE  /\ Numbers(q) = Numbers(Tail(q)) \cup {Head(q).n}
         /\ Sorted(q) => Sorted(Tail(q)) /\ Below({Head(q).n}, Numbers(Tail(q)))
         /\ Tail(q) \in Seq(Message) /\ Head(q) \in Message
  <1> DEFINE r == Tail(q)
             h == Head(q)
  <1>1. /\ r \in Seq(Message) /\ 1 \in DOMAIN q /\ q[1] = h /\ h \in Message
        /\ \A i \in DOMAIN r : i + 1 \in DOMAIN q /\ r[i] = q[i + 1] /\ 1 < i + 1
        /\ \A i \in DOMAIN q : i = 1 \/ (i - 1 \in DOMAIN r /\ q[i] = r[i - 1])
    BY TailPlaces
  <1> HIDE DEF r, h
  <1>2. \A i, j \in DOMAIN r : i < j => i + 1 < j + 1
    <2>1. DOMAIN r = 1..(Len(q) - 1) /\ Len(q) \in Nat
      BY TailPlaces DEF r
    <2>2. QED
      BY <2>1
  <1>3. Numbers(q) = Numbers(r) \cup {h.n}
    <2>1. ASSUME NEW x \in Numbers(q) PROVE x \in Numbers(r) \cup {h.n}
      <3>1. PICK i \in DOMAIN q : x = q[i].n
        BY DEF Numbers
      <3>2. CASE i = 1
        BY <1>1, <3>1, <3>2
      <3>3. CASE i - 1 \in DOMAIN r /\ q[i] = r[i - 1]
        BY <3>1, <3>3 DEF Numbers
      <3>4. QED
        BY <1>1, <3>2, <3>3
    <2>2. \A x \in Numbers(r) : x \in Numbers(q)
      BY <1>1 DEF Numbers
    <2>3. h.n \in Numbers(q)
      BY <1>1 DEF Numbers
    <2>4. QED
      BY <2>1, <2>2, <2>3
  <1>4. Sorted(q) => Sorted(r)
    BY <1>1, <1>2 DEF Sorted
  <1>5. Sorted(q) => Below({h.n}, Numbers(r))
    BY <1>1 DEF Sorted, Below, Numbers
  <1>6. QED
    BY <1>1, <1>3, <1>4, <1>5 DEF r, h

\* Events other than receipts add nothing to a log.
LEMMA SeenQuiet ==
  ASSUME NEW q \in Seq(Event), NEW e \in Seq(Event), \A i \in DOMAIN e : e[i].what # "received"
  PROVE  Seen(q \o e) = Seen(q) /\ (LogSorted(q) => LogSorted(q \o e))
  <1> DEFINE r == q \o e
  <1>1. /\ r \in Seq(Event) /\ Len(r) = Len(q) + Len(e) /\ Len(q) \in Nat /\ Len(e) \in Nat
        /\ DOMAIN q = 1..Len(q) /\ DOMAIN e = 1..Len(e)
        /\ \A i \in 1..(Len(q) + Len(e)) : r[i] = IF i <= Len(q) THEN q[i] ELSE e[i - Len(q)]
    BY ConcatProperties, LenProperties
  <1>2. DOMAIN r = 1..(Len(q) + Len(e))
    BY <1>1, LenProperties
  <1> HIDE DEF r
  <1>3. \A i \in DOMAIN q : i \in DOMAIN r /\ r[i] = q[i]
    BY <1>1, <1>2
  <1>4. \A i \in DOMAIN r : i \in DOMAIN q \/ r[i].what # "received"
    <2> TAKE i \in DOMAIN r
    <2>1. CASE i <= Len(q)
      BY <1>1, <1>2, <2>1
    <2>2. CASE ~(i <= Len(q))
      <3>1. i - Len(q) \in DOMAIN e /\ r[i] = e[i - Len(q)]
        BY <1>1, <1>2, <2>2
      <3>2. QED
        BY <3>1
    <2>3. QED
      BY <2>1, <2>2
  <1>5. Receipts(r) = Receipts(q)
    BY <1>3, <1>4 DEF Receipts
  <1>6. \A i \in Receipts(q) : r[i] = q[i]
    BY <1>3 DEF Receipts
  <1>7. QED
    BY <1>5, <1>6 DEF Seen, LogSorted, r

\* A receipt adds its message.
LEMMA SeenReceived ==
  ASSUME NEW q \in Seq(Event), NEW m \in Message
  PROVE  LET r == q \o <<[what |-> "received", m |-> m]>>
         IN  /\ r \in Seq(Event) /\ Seen(r) = Seen(q) \cup {m.n}
             /\ LogSorted(q) /\ Below(Seen(q), {m.n}) => LogSorted(r)
  <1> DEFINE e == [what |-> "received", m |-> m]
             s == <<e>>
             r == q \o s
  <1>1. e \in Event /\ e.what = "received" /\ e.m = m
    BY DEF Event, Arrival
  <1> HIDE DEF e
  <1>2. s \in Seq(Event) /\ Len(s) = 1 /\ s[1] = e
    BY <1>1
  <1> HIDE DEF s
  <1>3. /\ r \in Seq(Event) /\ Len(r) = Len(q) + 1 /\ Len(q) \in Nat /\ DOMAIN q = 1..Len(q)
        /\ \A i \in 1..(Len(q) + 1) : r[i] = IF i <= Len(q) THEN q[i] ELSE s[i - Len(q)]
    <2>1. /\ r \in Seq(Event) /\ Len(r) = Len(q) + Len(s)
          /\ \A i \in 1..(Len(q) + Len(s)) : r[i] = IF i <= Len(q) THEN q[i] ELSE s[i - Len(q)]
      BY <1>2, ConcatProperties
    <2>2. Len(q) \in Nat /\ DOMAIN q = 1..Len(q)
      BY LenProperties
    <2> HIDE DEF r
    <2>3. QED
      BY <1>2, <2>1, <2>2
  <1>4. DOMAIN r = 1..(Len(q) + 1)
    BY <1>3, LenProperties
  <1> DEFINE n == Len(q) + 1
  <1>5. n \in DOMAIN r /\ r[n] = e /\ n \notin DOMAIN q /\ \A i \in DOMAIN q : i < n
    <2>1. n - Len(q) = 1 /\ ~(n <= Len(q))
      BY <1>3
    <2>2. QED
      BY <1>2, <1>3, <1>4, <2>1
  <1>6. \A i \in DOMAIN q : i \in DOMAIN r /\ r[i] = q[i]
    BY <1>3, <1>4
  <1>7. \A i \in DOMAIN r : i \in DOMAIN q \/ i = n
    BY <1>3, <1>4
  <1>8. \A i \in DOMAIN q : ~(n < i)
    BY <1>3
  <1>81. ~(n < n)
    BY <1>3
  <1> HIDE DEF r, n
  <1>9. /\ n \in Receipts(r) /\ r[n].m.n = m.n
        /\ \A i \in Receipts(q) : i \in Receipts(r) /\ r[i] = q[i] /\ i \in DOMAIN q
        /\ \A i \in Receipts(r) : i = n \/ i \in Receipts(q)
    BY <1>1, <1>5, <1>6, <1>7 DEF Receipts
  <1>10. Seen(r) = Seen(q) \cup {m.n}
    <2>1. \A x \in Seen(r) : x \in Seen(q) \cup {m.n}
      BY <1>9 DEF Seen
    <2>2. \A x \in Seen(q) : x \in Seen(r)
      BY <1>9 DEF Seen
    <2>3. m.n \in Seen(r)
      BY <1>9 DEF Seen
    <2>4. QED
      BY <2>1, <2>2, <2>3
  <1>11. ASSUME LogSorted(q), Below(Seen(q), {m.n}), NEW i \in Receipts(r), NEW j \in Receipts(r), i < j
         PROVE  r[i].m.n < r[j].m.n
    <2>1. i \in Receipts(q)
      BY <1>8, <1>81, <1>9, <1>11
    <2>2. CASE j \in Receipts(q)
      BY <1>9, <1>11, <2>1, <2>2 DEF LogSorted
    <2>3. CASE j = n
      BY <1>9, <1>11, <2>1, <2>3 DEF Below, Seen
    <2>4. QED
      BY <1>9, <2>2, <2>3
  <1>12. QED
    BY <1>3, <1>10, <1>11 DEF LogSorted, r, s, e

\* How the line moves: a read completes, is handled, the pipe is discarded,
\* a write starts.
LEMMA StreamRead ==
  ASSUME NEW q \in Seq(Event), NEW p \in Seq(Message), p # <<>>
  PROVE  /\ Stream(q, <<Head(p)>>, Tail(p)) = Stream(q, <<>>, p)
         /\ InLine(q, <<>>, p) => InLine(q, <<Head(p)>>, Tail(p))
  <1> DEFINE h == Head(p)
             g == <<h>>
             r == Tail(p)
  <1>1. /\ Numbers(p) = Numbers(r) \cup {h.n} /\ h \in Message
        /\ Sorted(p) => Sorted(r) /\ Below({h.n}, Numbers(r))
    BY NumbersTail
  <1>2. Numbers(g) = {h.n} /\ Numbers(<<>>) = {}
    BY <1>1, NumbersSmall
  <1> HIDE DEF h, g, r
  <1>3. Stream(q, g, r) = Stream(q, <<>>, p)
    BY <1>1, <1>2 DEF Stream
  <1>4. InLine(q, <<>>, p) => InLine(q, g, r)
    BY <1>1, <1>2 DEF InLine, Below
  <1>5. QED
    BY <1>3, <1>4 DEF h, g, r

LEMMA StreamReceive ==
  ASSUME NEW q \in Seq(Event), NEW m \in Message, NEW p \in Seq(Message)
  PROVE  LET r == q \o <<[what |-> "received", m |-> m]>>
         IN  /\ Stream(r, <<>>, p) = Stream(q, <<m>>, p)
             /\ InLine(q, <<m>>, p) => InLine(r, <<>>, p)
  <1> DEFINE r == q \o <<[what |-> "received", m |-> m]>>
             g == <<m>>
  <1>1. /\ Seen(r) = Seen(q) \cup {m.n}
        /\ LogSorted(q) /\ Below(Seen(q), {m.n}) => LogSorted(r)
    BY SeenReceived
  <1>2. Numbers(g) = {m.n} /\ Numbers(<<>>) = {}
    BY NumbersSmall
  <1> HIDE DEF r, g
  <1>3. Stream(r, <<>>, p) = Stream(q, g, p)
    BY <1>1, <1>2 DEF Stream
  <1>4. InLine(q, g, p) => InLine(r, <<>>, p)
    BY <1>1, <1>2 DEF InLine, Below
  <1>5. QED
    BY <1>3, <1>4 DEF r, g

LEMMA StreamQuiet ==
  ASSUME NEW q \in Seq(Event), NEW e \in Seq(Event), \A i \in DOMAIN e : e[i].what # "received",
         NEW g, NEW p
  PROVE  /\ Stream(q \o e, g, p) = Stream(q, g, p)
         /\ InLine(q, g, p) => InLine(q \o e, g, p)
  <1> DEFINE r == q \o e
  <1>1. Seen(r) = Seen(q) /\ (LogSorted(q) => LogSorted(r))
    BY SeenQuiet
  <1> HIDE DEF r
  <1>2. Stream(r, g, p) = Stream(q, g, p) /\ (InLine(q, g, p) => InLine(r, g, p))
    BY <1>1 DEF Stream, InLine
  <1>3. QED
    BY <1>2 DEF r

LEMMA StreamCut ==
  ASSUME NEW q \in Seq(Event), NEW g \in Seq(Message), NEW p \in Seq(Message), InLine(q, g, p)
  PROVE  /\ InLine(q, g, <<>>) /\ Stream(q, g, <<>>) \subseteq Stream(q, g, p)
         /\ \A P \in SUBSET Nat : Beginning(Stream(q, g, p), P) => Beginning(Stream(q, g, <<>>), P)
  <1>1. Numbers(<<>>) = {} /\ Sorted(<<>>)
    BY NumbersSmall
  <1>2. InLine(q, g, <<>>)
    BY <1>1 DEF InLine, Below
  <1>3. Seen(q) \subseteq Nat /\ Numbers(g) \subseteq Nat /\ Numbers(p) \subseteq Nat
    BY SeenType, NumbersType
  <1>4. /\ Stream(q, g, <<>>) = Seen(q) \cup Numbers(g)
        /\ Stream(q, g, p) = Seen(q) \cup Numbers(g) \cup Numbers(p)
    BY <1>1 DEF Stream
  <1>5. \A x \in Numbers(p), y \in Seen(q) \cup Numbers(g) : ~(x < y)
    BY <1>3 DEF InLine, Below
  <1>6. ASSUME NEW P \in SUBSET Nat, Beginning(Stream(q, g, p), P)
        PROVE  Beginning(Stream(q, g, <<>>), P)
    BY <1>4, <1>5, <1>6 DEF Beginning
  <1>7. QED
    BY <1>2, <1>4, <1>6

LEMMA StreamSend ==
  ASSUME NEW q \in Seq(Event), NEW g \in Seq(Message), NEW p \in Seq(Message), NEW m \in Message,
         InLine(q, g, p), Below(Stream(q, g, p), {m.n})
  PROVE  InLine(q, g, Append(p, m)) /\ Stream(q, g, Append(p, m)) = Stream(q, g, p) \cup {m.n}
  <1> DEFINE r == Append(p, m)
  <1>1. /\ Numbers(r) = Numbers(p) \cup {m.n}
        /\ Sorted(p) /\ Below(Numbers(p), {m.n}) => Sorted(r)
    BY NumbersAppend
  <1> HIDE DEF r
  <1>2. Stream(q, g, r) = Stream(q, g, p) \cup {m.n}
    BY <1>1 DEF Stream
  <1>3. InLine(q, g, r)
    BY <1>1 DEF InLine, Stream, Below
  <1>4. QED
    BY <1>2, <1>3 DEF r

LEMMA HoldsSend ==
  ASSUME NEW D \in SUBSET Nat, NEW u \in Seq(Message), u # <<>>, NEW W \in SUBSET Nat,
         NEW P \in SUBSET Nat, Holds(D, u, W, P), Beginning(D, P)
  PROVE  /\ Below(D, {Head(u).n}) /\ Beginning(D \cup {Head(u).n}, P)
         /\ Holds(D \cup {Head(u).n}, Tail(u), W, P)
  <1> DEFINE h == Head(u)
             r == Tail(u)
  <1>1. /\ Numbers(u) = Numbers(r) \cup {h.n} /\ h \in Message /\ r \in Seq(Message)
        /\ Sorted(u) => Sorted(r) /\ Below({h.n}, Numbers(r))
    BY NumbersTail
  <1>2. h.n \in Nat /\ Numbers(r) \subseteq Nat
    BY <1>1, NumbersType DEF Message
  <1> HIDE DEF h, r
  <1> DEFINE n == h.n
  <1> HIDE DEF n
  <1>3. /\ Numbers(u) = Numbers(r) \cup {n} /\ n \in Nat /\ Sorted(r) /\ Below({n}, Numbers(r))
        /\ Below(D, Numbers(u)) /\ Below(D, W) /\ Below(Numbers(u), W)
        /\ P = D \cup Numbers(u) \cup W
    BY <1>1, <1>2 DEF Holds, n
  <1>4. Below(D, {n})
    BY <1>3 DEF Below
  <1>5. Holds(D \cup {n}, r, W, P)
    BY <1>3 DEF Holds, Below
  <1>6. Beginning(D \cup {n}, P)
    <2>1. D \cup {n} \subseteq P
      BY <1>3
    <2>2. ASSUME NEW x \in P, NEW y \in D \cup {n}, x < y PROVE x \in D \cup {n}
      <3>1. CASE y \in D
        BY <2>2, <3>1 DEF Beginning
      <3>2. CASE y = n
        <4>1. x \notin Numbers(r)
          BY <1>2, <1>3, <2>2, <3>2 DEF Below
        <4>2. x \notin W
          BY <1>3, <2>2, <3>2 DEF Below
        <4>3. QED
          BY <1>3, <2>2, <4>1, <4>2
      <3>3. QED
        BY <2>2, <3>1, <3>2
    <2>3. QED
      BY <2>1, <2>2 DEF Beginning
  <1>7. QED
    BY <1>4, <1>5, <1>6 DEF n, h, r

LEMMA HoldsAppend ==
  ASSUME NEW D \in SUBSET Nat, NEW u \in Seq(Message), NEW W \in SUBSET Nat,
         NEW P \in SUBSET Nat, Holds(D, u, W, P), NEW m \in Message, m.n \in W,
         \A x \in W : x = m.n \/ m.n < x
  PROVE  Holds(D, Append(u, m), W \ {m.n}, P)
  <1> DEFINE r == Append(u, m)
             n == m.n
  <1>1. /\ Numbers(r) = Numbers(u) \cup {n}
        /\ Sorted(u) /\ Below(Numbers(u), {n}) => Sorted(r)
    BY NumbersAppend
  <1> HIDE DEF r, n
  <1>2. n \in W /\ \A x \in W : x = n \/ n < x
    BY DEF n
  <1>3. Holds(D, r, W \ {n}, P)
    BY <1>1, <1>2 DEF Holds, Below
  <1>4. QED
    BY <1>3 DEF r, n

LEMMA ClientSending ==
  ASSUME NEW c, ObjectInv(c), NEW p \in Pipe
  PROVE  LET r == Sending("client", c, p)
         IN  /\ SameRead(r.c, c) /\ r.c.writeQueue = c.writeQueue
             /\ \/ (c.writing \/ c.writeQueue = <<>>) /\ r.c = c /\ r.p = p /\ r.closing = FALSE
                \/ Broken("client", c, p) /\ r.p = p /\ r.closing = TRUE
                \/ /\ ~c.writing /\ c.writeQueue # <<>> /\ ~Broken("client", c, p) /\ r.closing = FALSE
                   /\ r.c.writing = TRUE /\ r.p.shut = p.shut
                   /\ r.p.to["server"] = Append(p.to["server"], Head(c.writeQueue))
  <1>1. "client" \in Side /\ Other("client") = "server"
    BY OtherSide DEF Side
  <1> DEFINE r == Sending("client", c, p)
  <1>2. Wrote("client", c, p, r)
    <2>1. PICK s \in Side : s = "client"
      BY <1>1
    <2>2. Wrote(s, c, p, Sending(s, c, p))
      BY SendingCases
    <2>3. QED
      BY <2>1, <2>2
  <1> HIDE DEF r
  <1>3. QED
    BY <1>1, <1>2, Zenon DEF r, Wrote

\* What a write of the client does to the line: nothing, or its next message
\* leaves, or the connection is closed.
LEMMA SendingHolds ==
  ASSUME NEW c, ObjectInv(c), NEW p \in Pipe, NEW q \in Seq(Event), NEW g \in Seq(Message),
         NEW W \in SUBSET Nat, NEW P \in SUBSET Nat, c.state # "none",
         InLine(q, g, p.to["server"]), Beginning(Stream(q, g, p.to["server"]), P),
         c.state = "open" /\ "server" \notin p.shut
            => Holds(Stream(q, g, p.to["server"]), Unsent(c), W, P)
  PROVE  LET r == Sending("client", c, p)
         IN  /\ InLine(q, g, r.p.to["server"]) /\ Beginning(Stream(q, g, r.p.to["server"]), P)
             /\ ~r.closing /\ r.c.state = "open" /\ "server" \notin r.p.shut
                => Holds(Stream(q, g, r.p.to["server"]), Unsent(r.c), W, P)
             /\ r.p.shut = p.shut
  <1> DEFINE r == Sending("client", c, p)
             d == r.c
             e == r.p
             closing == r.closing
             D == Stream(q, g, p.to["server"])
             h == Head(c.writeQueue)
  <1>1. Other("client") = "server" /\ "client" \in Side /\ "server" \in Side
    BY OtherSide DEF Side
  <1>2. /\ SameRead(d, c) /\ d.writeQueue = c.writeQueue
        /\ \/ (c.writing \/ c.writeQueue = <<>>) /\ d = c /\ e = p /\ closing = FALSE
           \/ Broken("client", c, p) /\ e = p /\ closing = TRUE
           \/ /\ ~c.writing /\ c.writeQueue # <<>> /\ ~Broken("client", c, p) /\ closing = FALSE
              /\ d.writing = TRUE /\ e.shut = p.shut
              /\ e.to["server"] = Append(p.to["server"], h)
    BY ClientSending, Zenon
  <1>3. c.writeQueue \in Seq(Message) /\ p.to["server"] \in Seq(Message) /\ c.writing \in BOOLEAN
        /\ c.state \in {"none", "open", "closed"}
    BY <1>1 DEF ObjectInv, PipeConnection, Pipe
  <1>4. D \subseteq Nat
    BY <1>3, SeenType, NumbersType DEF Stream
  <1> HIDE DEF r, d, e, closing
  <1>5. /\ InLine(q, g, e.to["server"]) /\ Beginning(Stream(q, g, e.to["server"]), P)
        /\ ~closing /\ d.state = "open" /\ "server" \notin e.shut
                => Holds(Stream(q, g, e.to["server"]), Unsent(d), W, P)
        /\ e.shut = p.shut
    <2>1. CASE d = c /\ e = p
      BY <2>1
    <2>2. CASE e = p /\ closing = TRUE
      BY <2>2
    <2>3. CASE /\ ~c.writing /\ c.writeQueue # <<>> /\ ~Broken("client", c, p)
               /\ d.writing = TRUE /\ e.shut = p.shut
               /\ e.to["server"] = Append(p.to["server"], h)
      <3>1. c.state = "open" /\ "server" \notin p.shut
        BY <1>1, <1>3, <2>3 DEF Broken
      <3>2. Unsent(c) = c.writeQueue /\ Unsent(d) = Tail(c.writeQueue)
        BY <1>2, <2>3 DEF Unsent
      <3>3. /\ h \in Message /\ Below(D, {h.n}) /\ Beginning(D \cup {h.n}, P)
            /\ Holds(D \cup {h.n}, Tail(c.writeQueue), W, P)
        <4> HIDE DEF D
        <4>1. Holds(D, c.writeQueue, W, P) /\ Beginning(D, P)
          BY <3>1, <3>2 DEF D
        <4> DEFINE u == c.writeQueue
        <4>2. h \in Message /\ u \in Seq(Message) /\ u # <<>>
          BY <1>3, <2>3, NumbersTail
        <4>3. Holds(D, u, W, P) /\ Head(u) = h
          BY <4>1
        <4> HIDE DEF u
        <4>4. /\ Below(D, {Head(u).n}) /\ Beginning(D \cup {Head(u).n}, P)
              /\ Holds(D \cup {Head(u).n}, Tail(u), W, P)
          BY <1>4, <4>1, <4>2, <4>3, HoldsSend
        <4>5. QED
          BY <4>2, <4>3, <4>4 DEF u
      <3>4. InLine(q, g, Append(p.to["server"], h))
            /\ Stream(q, g, Append(p.to["server"], h)) = D \cup {h.n}
        <4> DEFINE w == p.to["server"]
                   m == h
        <4>1. /\ w \in Seq(Message) /\ m \in Message
              /\ Below(Stream(q, g, w), {m.n}) /\ InLine(q, g, w)
          BY <1>3, <3>3
        <4> HIDE DEF w, h, m
        <4>2. InLine(q, g, Append(w, m))
              /\ Stream(q, g, Append(w, m)) = Stream(q, g, w) \cup {m.n}
          BY <4>1, StreamSend
        <4>3. QED
          BY <4>2 DEF w, m
      <3> HIDE DEF D, h
      <3>5. QED
        BY <2>3, <3>2, <3>3, <3>4
    <2>4. QED
      BY <1>2, <2>1, <2>2, <2>3
  <1>6. QED
    BY <1>5, Zenon DEF r, d, e, closing

\* What is queued joins what is written; what was written stays in order.
LEMMA NumberedUnsent ==
  ASSUME NEW c, ObjectInv(c), NEW m \in Message
  PROVE  \E named \in Message :
            named.n = m.n /\ Unsent(Numbered(c, m)) = Append(Unsent(c), named)
            /\ Unsent(c) \in Seq(Message)
  <1> DEFINE seq == IF m.seq = 0 THEN c.nextSeq ELSE m.seq
             named == [mode |-> m.mode, n |-> m.n, seq |-> seq]
             d == Numbered(c, m)
  <1>1. /\ c.writeQueue \in Seq(Message) /\ c.writing \in BOOLEAN /\ c.nextSeq \in Nat
        /\ (c.writing => c.writeQueue # <<>>)
    BY DEF ObjectInv, PipeConnection
  <1>2. named \in Message /\ named.n = m.n
    BY <1>1 DEF Message
  <1>3. d.writing = c.writing /\ d.writeQueue = Append(c.writeQueue, named)
    BY NumberedFacts
  <1> HIDE DEF d, named
  <1>4. Unsent(d) = Append(Unsent(c), named)
    <2>1. CASE c.writing
      <3>1. Tail(Append(c.writeQueue, named)) = Append(Tail(c.writeQueue), named)
        BY <1>1, <1>2, <2>1, TailAppend
      <3>2. QED
        BY <1>3, <2>1, <3>1 DEF Unsent
    <2>2. CASE ~c.writing
      BY <1>3, <2>2 DEF Unsent
    <2>3. QED
      BY <2>1, <2>2
  <1>5. Unsent(c) \in Seq(Message)
    <2>1. CASE c.writing
      BY <1>1, <2>1, NumbersTail DEF Unsent
    <2>2. CASE ~c.writing
      BY <1>1, <2>2 DEF Unsent
    <2>3. QED
      BY <2>1, <2>2
  <1>6. QED
    BY <1>2, <1>4, <1>5 DEF d

-----------------------------------------------------------------------------
(* The line of each connection.                                             *)

InQueue(k) == {queue["client"][i].m.n : i \in {i \in DOMAIN queue["client"] : queue["client"][i].k = k}}
Greets(k) == greeting /\ k = last
Hello(k) == IF Greets(k) THEN {0} ELSE {}
Streamed(k) == Stream(log["server"][k], S(k).got, pipe[k].to["server"])

\* What left the client arrives in order, from the beginning and without gaps.
Ordered(k) ==
    /\ InLine(log["server"][k], S(k).got, pipe[k].to["server"])
    /\ Beginning(Streamed(k), Posted(k))

\* While both ends are open, nothing of what was posted is lost.
Whole(k) == C(k).state = "open" /\ "server" \notin pipe[k].shut
Complete(k) == Holds(Streamed(k), Unsent(C(k)), InQueue(k), Posted(k) \ Hello(k))

\* The identification is the first of all.
Silent(k) ==
    /\ C(k).state # "none" /\ Streamed(k) = {}
    /\ C(k).writeQueue = <<>> /\ C(k).writing = FALSE

LineInv(k) ==
    /\ Ordered(k) /\ (Whole(k) => Complete(k)) /\ (Greets(k) => Silent(k))
    /\ C(k).state = "none" => C(k).writing = FALSE

OrderInv == \A k \in Id : LineInv(k)

LEMMA LineTypes ==
  ASSUME LinkInv, NEW k \in Id
  PROVE  /\ log["server"][k] \in Seq(Event) /\ S(k).got \in Seq(Message)
         /\ pipe[k].to["server"] \in Seq(Message)
         /\ C(k).writeQueue \in Seq(Message) /\ C(k).writing \in BOOLEAN
         /\ C(k).state \in {"none", "open", "closed"}
         /\ Streamed(k) \subseteq Nat /\ Posted(k) \subseteq Nat /\ InQueue(k) \subseteq Nat
         /\ asked \in Seq(Id) /\ Len(asked) \in Nat /\ DOMAIN asked = 1..Len(asked)
  <1>1. "client" \in Side /\ "server" \in Side
    BY DEF Side
  <1>2. S(k) \in PipeConnection /\ C(k) \in PipeConnection /\ pipe[k] \in Pipe
        /\ log["server"][k] \in Seq(Event)
        /\ queue["client"] \in Seq([k : Id, m : Message])
        /\ asked \in Seq(Id) /\ Len(asked) \in Nat /\ DOMAIN asked = 1..Len(asked)
    <2>1. asked \in Seq(Id) /\ Len(asked) \in Nat /\ DOMAIN asked = 1..Len(asked)
      BY TypeFacts, LenProperties
    <2>2. S(k) \in PipeConnection /\ C(k) \in PipeConnection /\ pipe[k] \in Pipe
      BY <1>1, TypeFacts DEF S, C
    <2>3. log["server"][k] \in Seq(Event) /\ queue["client"] \in Seq([k : Id, m : Message])
      BY <1>1, TypeFacts
    <2>4. QED
      BY <2>1, <2>2, <2>3
  <1>3. /\ S(k).got \in Seq(Message) /\ pipe[k].to["server"] \in Seq(Message)
        /\ C(k).writeQueue \in Seq(Message) /\ C(k).writing \in BOOLEAN
        /\ C(k).state \in {"none", "open", "closed"}
    BY <1>1, <1>2 DEF PipeConnection, Pipe
  <1>4. Streamed(k) \subseteq Nat
    BY <1>2, <1>3, SeenType, NumbersType DEF Streamed, Stream
  <1>5. Posted(k) \subseteq Nat
    <2>1. \A n \in DOMAIN asked : n \in Nat
      BY <1>2
    <2>2. QED
      BY <2>1 DEF Posted
  <1>6. InQueue(k) \subseteq Nat
    <2>1. \A i \in DOMAIN queue["client"] : queue["client"][i] \in [k : Id, m : Message]
      BY <1>2, ElementOfSeq, LenProperties
    <2>2. \A i \in DOMAIN queue["client"] : queue["client"][i].m.n \in Nat
      BY <2>1 DEF Message
    <2>3. QED
      BY <2>2 DEF InQueue
  <1>7. QED
    BY <1>2, <1>3, <1>4, <1>5, <1>6

\* What was posted and queued, of a step that posts and queues nothing.
LEMMA SamePosted ==
  /\ UNCHANGED asked => \A k \in Id : Posted(k)' = Posted(k)
  /\ queue'["client"] = queue["client"] => \A k \in Id : InQueue(k)' = InQueue(k)
  <1>1. UNCHANGED asked => \A k \in Id : Posted(k)' = Posted(k)
    BY DEF Posted
  <1>2. queue'["client"] = queue["client"] => \A k \in Id : InQueue(k)' = InQueue(k)
    BY DEF InQueue
  <1>3. QED
    BY <1>1, <1>2

\* What a line depends on, of the client's object.
SameWrites(d, c) == d.state = c.state /\ d.writing = c.writing /\ d.writeQueue = c.writeQueue

\* A connection to which the client writes nothing.
LEMMA LineKept ==
  ASSUME NEW k \in Id, LineInv(k), SameWrites(C(k)', C(k)),
         Posted(k)' = Posted(k), InQueue(k)' = InQueue(k), Greets(k)' <=> Greets(k),
         Ordered(k)', Streamed(k)' \subseteq Streamed(k),
         "server" \notin pipe'[k].shut
            => "server" \notin pipe[k].shut /\ Streamed(k)' = Streamed(k)
  PROVE  LineInv(k)'
  <1>1. /\ C(k)'.state = C(k).state /\ C(k)'.writing = C(k).writing
        /\ C(k)'.writeQueue = C(k).writeQueue
        /\ Hello(k)' = Hello(k) /\ (Greets(k)' <=> Greets(k))
    BY DEF SameWrites, Hello
  <1>2. Whole(k)' => Complete(k)'
    <2>1. SUFFICES ASSUME Whole(k)' PROVE Complete(k)'
      OBVIOUS
    <2>2. Whole(k) /\ Streamed(k)' = Streamed(k)
      BY <1>1, <2>1 DEF Whole
    <2>3. Complete(k)
      BY <2>2 DEF LineInv
    <2>4. Unsent(C(k))' = Unsent(C(k))
      BY <1>1 DEF Unsent
    <2>5. QED
      BY <1>1, <2>2, <2>3, <2>4 DEF Complete, Holds
  <1>3. Greets(k)' => Silent(k)'
    <2>1. Greets(k)' => Silent(k)
      BY <1>1 DEF LineInv
    <2>2. QED
      BY <1>1, <2>1 DEF Silent
  <1>4. C(k)'.state = "none" => C(k)'.writing = FALSE
    BY <1>1 DEF LineInv
  <1>5. QED
    BY <1>2, <1>3, <1>4 DEF LineInv

\* A connection that the step leaves alone altogether.
LEMMA LineSame ==
  ASSUME NEW k \in Id, LineInv(k), SameWrites(C(k)', C(k)),
         conn'["server"][k].got = conn["server"][k].got, log'["server"][k] = log["server"][k],
         pipe'[k].to["server"] = pipe[k].to["server"],
         "server" \in pipe'[k].shut <=> "server" \in pipe[k].shut,
         Posted(k)' = Posted(k), InQueue(k)' = InQueue(k), Greets(k)' <=> Greets(k)
  PROVE  LineInv(k)'
  <1>1. Streamed(k)' = Streamed(k)
    BY DEF Streamed, S
  <1>2. Ordered(k)'
    <2>1. Ordered(k)
      BY DEF LineInv
    <2>2. QED
      BY <1>1, <2>1 DEF Ordered, S
  <1>3. QED
    BY <1>1, <1>2, LineKept

\* A step of the launcher's pipe thread receives what was read, or nothing,
\* and discards the pipe if it closes the connection.
LEMMA ServerStep ==
  ASSUME LinkInv, OrderInv, NEW k \in Id, NEW c, ObjectInv(c), NEW p \in Pipe,
         NEW events \in Seq(Event), NEW results, NEW closing \in BOOLEAN,
         Settle("server", k, c, p, events, results, closing),
         p.to["server"] = pipe[k].to["server"], p.shut = pipe[k].shut,
         UNCHANGED <<asked, last, greeting>>, queue'["client"] = queue["client"],
         \/ events = <<>> /\ c.got = S(k).got
         \/ \E m \in Message : /\ S(k).got = <<m>> /\ c.got = <<>>
                               /\ events = <<[what |-> "received", m |-> m]>>
  PROVE  OrderInv'
  <1> DEFINE after == IF closing THEN Closed(c) ELSE c
             destroyed == /\ k \notin Listed("server", k, c, closing)
                          /\ after.reading = "no" /\ ~after.writing /\ ~after.leaked
             notices == ClosedNotices("server", c, closing, destroyed)
             q == log["server"][k]
             w == pipe[k].to["server"]
  <1>1. "server" \in Side /\ "client" \in Side /\ "client" # "server"
    BY DEF Side
  <1>2. PICK ended : SettledTo("server", k, c, p, events, results, closing, ended)
    BY <1>1, SettleFacts
  <1>3. /\ conn'["server"][k] = (IF destroyed THEN Closed(NoObject) ELSE after)
        /\ \A t \in Side, l \in Id : t # "server" \/ l # k => conn'[t][l] = conn[t][l]
        /\ pipe'[k] = (IF closing THEN ShutPipe("server", p) ELSE p)
        /\ \A l \in Id : l # k => pipe'[l] = pipe[l]
        /\ log'["server"][k] = q \o events \o notices
        /\ \A t \in Side, l \in Id : t # "server" \/ l # k => log'[t][l] = log[t][l]
    BY <1>2 DEF SettledTo
  <1>4. notices \in Seq(Event) /\ \A i \in DOMAIN notices : notices[i].what # "received"
    <2>1. destroyed \in BOOLEAN
      OBVIOUS
    <2> HIDE DEF destroyed
    <2>2. QED
      BY <1>1, <2>1, ClosedNoticesType, ClosedNoticesFacts
  <1>5. conn'["server"][k].got = c.got
    <2>1. after.got = c.got /\ ObjectInv(after)
      BY ClosedType
    <2>2. Closed(NoObject).got = <<>>
      BY NoObjectInv, ClosedType DEF NoObject
    <2>3. destroyed => after.got = <<>>
      BY <2>1 DEF ObjectInv
    <2> HIDE DEF destroyed, after
    <2>4. QED
      BY <1>3, <2>1, <2>2, <2>3
  <1>6. /\ pipe'[k].to["server"] = (IF closing THEN <<>> ELSE w)
        /\ closing => "server" \in pipe'[k].shut
        /\ ~closing => pipe'[k].shut = pipe[k].shut
    BY <1>1, <1>3, ShutPipeType
  <1>7. \A l \in Id : Posted(l)' = Posted(l) /\ InQueue(l)' = InQueue(l) /\ (Greets(l)' <=> Greets(l))
    BY SamePosted DEF Greets
  <1> HIDE DEF notices, after, destroyed
  <1>8. ASSUME NEW l \in Id, l # k PROVE LineInv(l)'
    BY <1>1, <1>3, <1>7, <1>8, LineSame DEF OrderInv, SameWrites, C
  <1>9. LineInv(k)'
    <2>1. /\ q \in Seq(Event) /\ S(k).got \in Seq(Message) /\ w \in Seq(Message)
          /\ Posted(k) \in SUBSET Nat
      BY LineTypes
    <2>2. InLine(q, S(k).got, w) /\ Beginning(Stream(q, S(k).got, w), Posted(k)) /\ LineInv(k)
      BY DEF OrderInv, LineInv, Ordered, Streamed
    <2> DEFINE q1 == q \o events
               g == c.got
    <2>3. /\ q1 \in Seq(Event) /\ InLine(q1, g, w)
          /\ Stream(q1, g, w) = Stream(q, S(k).got, w)
      <3>1. CASE events = <<>> /\ c.got = S(k).got
        BY <2>1, <2>2, <3>1, ConcatEmptySeq
      <3>2. ASSUME NEW m \in Message, S(k).got = <<m>>, c.got = <<>>,
                   events = <<[what |-> "received", m |-> m]>>
            PROVE  /\ q1 \in Seq(Event) /\ InLine(q1, g, w)
                   /\ Stream(q1, g, w) = Stream(q, S(k).got, w)
        <4> DEFINE q2 == q \o <<[what |-> "received", m |-> m]>>
        <4>1. q2 \in Seq(Event) /\ Stream(q2, <<>>, w) = Stream(q, <<m>>, w)
              /\ (InLine(q, <<m>>, w) => InLine(q2, <<>>, w))
          BY <2>1, SeenReceived, StreamReceive
        <4>2. q1 = q2
          BY <3>2
        <4> HIDE DEF q2, q1
        <4>3. QED
          BY <2>2, <3>2, <4>1, <4>2
      <3>3. QED
        BY <3>1, <3>2
    <2> DEFINE q3 == q1 \o notices
    <2> HIDE DEF q1
    <2>4. InLine(q3, g, w) /\ Stream(q3, g, w) = Stream(q1, g, w)
      BY <1>4, <2>3, StreamQuiet
    <2>5. q3 \in Seq(Event) /\ g \in Seq(Message)
      BY <1>4, <2>3, ConcatProperties DEF ObjectInv, PipeConnection
    <2>6. log'["server"][k] = q3 /\ S(k)'.got = g
      BY <1>3, <1>5 DEF q1, S
    <2> HIDE DEF q3, g
    <2>7. CASE closing
      <3>1. InLine(q3, g, <<>>) /\ Stream(q3, g, <<>>) \subseteq Stream(q3, g, w)
            /\ Beginning(Stream(q3, g, <<>>), Posted(k))
        BY <2>1, <2>2, <2>3, <2>4, <2>5, StreamCut
      <3>2. Ordered(k)' /\ Streamed(k)' \subseteq Streamed(k)
        <4>1. Streamed(k)' = Stream(q3, g, <<>>)
          BY <1>6, <2>6, <2>7 DEF Streamed
        <4>2. Streamed(k) = Stream(q3, g, w)
          BY <2>3, <2>4 DEF Streamed
        <4>3. InLine(log["server"][k], S(k).got, pipe[k].to["server"])'
          BY <1>6, <2>6, <2>7, <3>1
        <4>4. QED
          BY <1>7, <3>1, <4>1, <4>2, <4>3 DEF Ordered
      <3>3. QED
        BY <1>1, <1>3, <1>6, <1>7, <2>2, <2>7, <3>2, LineKept DEF SameWrites, C
    <2>8. CASE ~closing
      <3>1. Streamed(k)' = Streamed(k)
        BY <1>6, <2>3, <2>4, <2>6, <2>8 DEF Streamed
      <3>2. Ordered(k)'
        <4>1. InLine(log["server"][k], S(k).got, pipe[k].to["server"])'
          BY <1>6, <2>4, <2>6, <2>8
        <4>2. Beginning(Streamed(k)', Posted(k)')
          BY <1>7, <2>2, <3>1 DEF Streamed
        <4>3. QED
          BY <4>1, <4>2 DEF Ordered
      <3>3. QED
        BY <1>1, <1>3, <1>6, <1>7, <2>2, <2>8, <3>1, <3>2, LineKept DEF SameWrites, C
    <2>9. QED
      BY <2>7, <2>8
  <1>10. QED
    BY <1>8, <1>9 DEF OrderInv

-----------------------------------------------------------------------------
(* Each action keeps the lines.                                             *)

\* A step of the client's pipe thread on connection k, which has greeted.
LEMMA ClientStep ==
  ASSUME LinkInv, OrderInv, NEW k \in Id, NEW c, ObjectInv(c), NEW p \in Pipe,
         NEW events, NEW results, NEW closing \in BOOLEAN,
         Settle("client", k, c, p, events, results, closing),
         UNCHANGED <<asked, last>>, greeting' = FALSE, greeting => k = last,
         \A l \in Id : l # k => InQueue(l)' = InQueue(l), p.shut = pipe[k].shut,
         InLine(log["server"][k], S(k).got, p.to["server"]),
         Beginning(Stream(log["server"][k], S(k).got, p.to["server"]), Posted(k)),
         c.state = "none" => c.writing = FALSE,
         ~closing /\ c.state = "open" /\ "server" \notin p.shut
            => Holds(Stream(log["server"][k], S(k).got, p.to["server"]),
                     Unsent(c), InQueue(k)', Posted(k))
  PROVE  OrderInv'
  <1> DEFINE after == IF closing THEN Closed(c) ELSE c
             destroyed == /\ k \notin Listed("client", k, c, closing)
                          /\ after.reading = "no" /\ ~after.writing /\ ~after.leaked
             D == Stream(log["server"][k], S(k).got, p.to["server"])
  <1>1. "server" \in Side /\ "client" \in Side /\ "client" # "server"
    BY DEF Side
  <1>2. PICK ended : SettledTo("client", k, c, p, events, results, closing, ended)
    BY <1>1, SettleFacts
  <1>3. /\ conn'["client"][k] = (IF destroyed THEN Closed(NoObject) ELSE after)
        /\ \A t \in Side, l \in Id : t # "client" \/ l # k => conn'[t][l] = conn[t][l]
        /\ pipe'[k] = (IF closing THEN ShutPipe("client", p) ELSE p)
        /\ \A l \in Id : l # k => pipe'[l] = pipe[l]
        /\ \A t \in Side, l \in Id : t # "client" \/ l # k => log'[t][l] = log[t][l]
    BY <1>2 DEF SettledTo
  <1>4. /\ Closed(NoObject).state = "closed" /\ Closed(NoObject).writing = FALSE
        /\ Closed(c).state = "closed"
    <2>1. Closed(NoObject).writing = NoObject.writing /\ Closed(NoObject).state = "closed"
      BY NoObjectInv, ClosedType
    <2>2. NoObject.writing = FALSE
      BY DEF NoObject
    <2>3. QED
      BY <2>1, <2>2, ClosedType
  <1> HIDE DEF destroyed, after
  <1>5. /\ C(k)'.state = "none" => C(k)'.writing = FALSE
        /\ C(k)'.state = "open" => C(k)' = c /\ ~closing
    BY <1>3, <1>4 DEF C, after
  <1>6. \A l \in Id : Posted(l)' = Posted(l)
    BY SamePosted
  <1>7. \A l \in Id : ~Greets(l)' /\ (l # k => ~Greets(l))
    BY DEF Greets
  <1>8. ASSUME NEW l \in Id, l # k PROVE LineInv(l)'
    BY <1>1, <1>3, <1>6, <1>7, <1>8, LineSame DEF OrderInv, SameWrites, C
  <1>9. LineInv(k)'
    <2>1. /\ pipe'[k].to["server"] = p.to["server"]
          /\ "server" \in pipe'[k].shut <=> "server" \in p.shut
      BY <1>1, <1>3, ShutPipeType
    <2>2. Streamed(k)' = D
      BY <1>1, <1>3, <2>1 DEF Streamed, S
    <2>3. InLine(log["server"][k], S(k).got, pipe[k].to["server"])'
      BY <1>1, <1>3, <2>1 DEF S
    <2>4. Beginning(D, Posted(k))
      OBVIOUS
    <2>5. Hello(k)' = {}
      BY <1>7 DEF Hello
    <2>6. ~closing /\ c.state = "open" /\ "server" \notin p.shut
            => Holds(D, Unsent(c), InQueue(k)', Posted(k))
      OBVIOUS
    <2> HIDE DEF D
    <2>7. Ordered(k)'
      BY <1>6, <2>2, <2>3, <2>4 DEF Ordered
    <2>8. Whole(k)' => Complete(k)'
      <3>1. SUFFICES ASSUME Whole(k)' PROVE Complete(k)'
        OBVIOUS
      <3>2. C(k)' = c /\ ~closing /\ c.state = "open" /\ "server" \notin p.shut
        BY <1>5, <2>1, <3>1 DEF Whole
      <3>3. Unsent(C(k))' = Unsent(c)
        BY <3>2 DEF Unsent
      <3>4. (Posted(k) \ Hello(k))' = Posted(k)
        BY <1>6, <2>5
      <3>5. Holds(D, Unsent(c), InQueue(k)', Posted(k))
        BY <2>6, <3>2
      <3> DEFINE u == Unsent(c)
                 v == Unsent(C(k))'
      <3>6. u = v
        BY <3>3
      <3> HIDE DEF u, v
      <3>7. Holds(Streamed(k)', v, InQueue(k)', (Posted(k) \ Hello(k))')
        BY <2>2, <3>4, <3>5, <3>6 DEF u
      <3>8. QED
        BY <3>7 DEF Complete, v, Holds
    <2>9. QED
      BY <1>5, <1>7, <2>7, <2>8 DEF LineInv
  <1>10. QED
    BY <1>8, <1>9 DEF OrderInv

LEMMA OrderQuiet ==
  ASSUME OrderInv, UNCHANGED <<conn, pipe, log, greeting, last, asked>>,
         queue'["client"] = queue["client"]
  PROVE  OrderInv'
  <1>1. \A k \in Id : Posted(k)' = Posted(k) /\ InQueue(k)' = InQueue(k) /\ (Greets(k)' <=> Greets(k))
    BY SamePosted DEF Greets
  <1>2. ASSUME NEW k \in Id PROVE LineInv(k)'
    BY <1>1, LineSame DEF OrderInv, SameWrites, C
  <1>3. QED
    BY <1>2 DEF OrderInv

\* What was posted is numbered from one on.
LEMMA PostedBound ==
  ASSUME LinkInv, NEW k \in Id
  PROVE  Len(asked) \in Nat /\ \A n \in Posted(k) : n \in Nat /\ n <= Len(asked)
  <1>1. asked \in Seq(Id) /\ Len(asked) \in Nat /\ DOMAIN asked = 1..Len(asked)
    BY LineTypes
  <1>2. ASSUME NEW n \in Posted(k) PROVE n \in Nat /\ n <= Len(asked)
    BY <1>1 DEF Posted
  <1>3. QED
    BY <1>1, <1>2

LEMMA OrderPost ==
  ASSUME LinkInv, BaseInv, OrderInv, NEW mode \in Modes, Post(mode) PROVE OrderInv'
  <1>1. PICK k \in Id, m \in Message :
            /\ k \in listed["client"] /\ m = [mode |-> mode, n |-> Len(asked) + 1, seq |-> 0]
            /\ queue'["client"] = Append(queue["client"], [k |-> k, m |-> m])
            /\ queue["client"] \in Seq([k : Id, m : Message])
            /\ asked' = Append(asked, k) /\ asked \in Seq(Id) /\ Len(asked) \in Nat
            /\ DOMAIN asked = 1..Len(asked) /\ DOMAIN asked' = 1..(Len(asked) + 1)
            /\ asked'[Len(asked) + 1] = k /\ \A n \in DOMAIN asked : asked'[n] = asked[n]
            /\ UNCHANGED <<conn, pipe, listed, last, greeting, log>>
    BY PostFacts, Zenon
  <1> DEFINE q == queue["client"]
             e == [k |-> k, m |-> m]
             r == Append(q, e)
             n == Len(asked) + 1
  <1>2. /\ Len(q) \in Nat /\ DOMAIN q = 1..Len(q) /\ DOMAIN r = 1..(Len(q) + 1)
        /\ \A i \in DOMAIN q : r[i] = q[i]
        /\ r[Len(q) + 1] = e
        /\ \A i \in DOMAIN r : i \in DOMAIN q \/ i = Len(q) + 1
    BY <1>1, AppendPlaces
  <1>3. e.k = k /\ e.m.n = n /\ queue'["client"] = r /\ n \in Nat
    BY <1>1
  <1> HIDE DEF q, e, r
  <1>4. \A l \in Id : InQueue(l)' = IF l = k THEN InQueue(l) \cup {n} ELSE InQueue(l)
    <2> TAKE l \in Id
    <2>1. InQueue(l) = {q[i].m.n : i \in {i \in DOMAIN q : q[i].k = l}}
      BY DEF InQueue, q
    <2>2. InQueue(l)' = {r[i].m.n : i \in {i \in DOMAIN r : r[i].k = l}}
      BY <1>3 DEF InQueue
    <2>3. \A i \in DOMAIN q : i \in DOMAIN r
      BY <1>2
    <2>4. Len(q) + 1 \in DOMAIN r
      BY <1>2
    <2>5. ASSUME NEW x \in InQueue(l)' PROVE x \in InQueue(l) \/ (l = k /\ x = n)
      <3>1. PICK i \in DOMAIN r : r[i].k = l /\ x = r[i].m.n
        BY <2>2
      <3>2. CASE i \in DOMAIN q
        BY <1>2, <2>1, <3>1, <3>2
      <3>3. CASE i = Len(q) + 1
        BY <1>2, <1>3, <3>1, <3>3
      <3>4. QED
        BY <1>2, <3>2, <3>3
    <2>6. ASSUME NEW x \in InQueue(l) PROVE x \in InQueue(l)'
      <3>1. PICK i \in DOMAIN q : q[i].k = l /\ x = q[i].m.n
        BY <2>1
      <3>2. i \in DOMAIN r /\ r[i] = q[i]
        BY <1>2, <2>3
      <3>3. QED
        BY <2>2, <3>1, <3>2
    <2>7. l = k => n \in InQueue(l)'
      BY <1>2, <1>3, <2>2, <2>4
    <2>8. QED
      BY <2>5, <2>6, <2>7
  <1>5. \A l \in Id : Posted(l)' = IF l = k THEN Posted(l) \cup {n} ELSE Posted(l)
    BY <1>1 DEF Posted
  <1>6. \A l \in Id : Greets(l)' <=> Greets(l)
    BY <1>1 DEF Greets
  <1>7. ASSUME NEW l \in Id, l # k PROVE LineInv(l)'
    BY <1>1, <1>4, <1>5, <1>6, <1>7, LineSame DEF OrderInv, SameWrites, C
  <1>8. LineInv(k)'
    <2>1. LineInv(k)
      BY DEF OrderInv
    <2>2. /\ C(k)' = C(k) /\ Streamed(k)' = Streamed(k) /\ (Whole(k)' <=> Whole(k))
          /\ Hello(k)' = Hello(k)
      BY <1>1, <1>6 DEF C, S, Streamed, Whole, Hello
    <2> DEFINE D == Streamed(k)
               P == Posted(k)
               W == InQueue(k)
               u == Unsent(C(k))
    <2>3. \A x \in P : x \in Nat /\ x < n
      BY PostedBound
    <2>4. D \subseteq P
      BY <2>1 DEF LineInv, Ordered, Beginning
    <2>5. Ordered(k)'
      <3>1. Beginning(D, P)
        BY <2>1 DEF LineInv, Ordered
      <3>2. Beginning(D, P \cup {n})
        <4> HIDE DEF D, P, n
        <4>1. n \in Nat
          BY <1>3
        <4>2. QED
          BY <2>3, <2>4, <3>1, <4>1 DEF Beginning
      <3>3. InLine(log["server"][k], S(k).got, pipe[k].to["server"])'
        BY <1>1, <2>1 DEF LineInv, Ordered, S
      <3>4. QED
        BY <1>5, <2>2, <3>2, <3>3 DEF Ordered
    <2>6. Whole(k)' => Complete(k)'
      <3>1. SUFFICES ASSUME Whole(k)' PROVE Complete(k)'
        OBVIOUS
      <3>2. Holds(D, u, W, P \ Hello(k))
        BY <2>1, <2>2, <3>1 DEF LineInv, Complete
      <3>3. Holds(D, u, W \cup {n}, (P \cup {n}) \ Hello(k))
        <4>1. n \notin Hello(k)
          BY <1>1 DEF Hello
        <4>2. Numbers(u) \subseteq P
          BY <3>2 DEF Holds
        <4>3. n \in Nat
          BY <1>3
        <4> HIDE DEF D, P, W, u, n
        <4>4. QED
          BY <2>3, <2>4, <3>2, <4>1, <4>2, <4>3 DEF Holds, Below
      <3>4. Unsent(C(k))' = u
        BY <2>2 DEF Unsent
      <3>5. InQueue(k)' = W \cup {n} /\ Posted(k)' = P \cup {n}
        BY <1>4, <1>5
      <3> HIDE DEF D, P, W, u, n
      <3>6. Streamed(k)' = D
        BY <2>2 DEF D
      <3> DEFINE v == Unsent(C(k))'
      <3>7. v = u
        BY <3>4
      <3> HIDE DEF v
      <3>8. Holds(Streamed(k)', v, InQueue(k)', (Posted(k) \ Hello(k))')
        BY <2>2, <3>3, <3>5, <3>6, <3>7
      <3>9. QED
        BY <3>8 DEF Complete, v, Holds
    <2>7. Greets(k)' => Silent(k)'
      <3>1. Greets(k)' => Silent(k)
        BY <1>6, <2>1 DEF LineInv
      <3>2. QED
        BY <2>2, <3>1 DEF Silent
    <2>8. C(k)'.state = "none" => C(k)'.writing = FALSE
      BY <2>1, <2>2 DEF LineInv
    <2>9. QED
      BY <2>5, <2>6, <2>7, <2>8 DEF LineInv
  <1>9. QED
    BY <1>7, <1>8 DEF OrderInv

LEMMA OrderCompleteRead ==
  ASSUME LinkInv, OrderInv, NEW s \in Side, NEW k \in Id, CompleteRead(s, k) PROVE OrderInv'
  <1>1. /\ conn[s][k].reading = "pending" /\ pipe[k].to[s] # <<>>
        /\ pipe[k].to[s] \in Seq(Message) /\ Head(pipe[k].to[s]) \in Message
        /\ conn'[s][k] = Got(conn[s][k], Head(pipe[k].to[s]))
        /\ \A t \in Side, l \in Id : t # s \/ l # k => conn'[t][l] = conn[t][l]
        /\ pipe'[k].to[s] = Tail(pipe[k].to[s]) /\ pipe'[k].to[Other(s)] = pipe[k].to[Other(s)]
        /\ pipe'[k].shut = pipe[k].shut
        /\ \A l \in Id : l # k => pipe'[l] = pipe[l]
        /\ UNCHANGED <<last, greeting, queue, log, asked>>
    BY CompleteReadFacts
  <1>2. "client" \in Side /\ "server" \in Side /\ "client" # "server" /\ Other("client") = "server"
    BY OtherSide DEF Side
  <1>3. ObjectInv(conn[s][k])
    BY TypeFacts
  <1>4. \A l \in Id : Posted(l)' = Posted(l) /\ InQueue(l)' = InQueue(l) /\ (Greets(l)' <=> Greets(l))
    BY <1>1, SamePosted DEF Greets
  <1>5. \A l \in Id : SameWrites(C(l)', C(l))
    <2>1. SameWrites(Got(conn[s][k], Head(pipe[k].to[s])), conn[s][k])
      BY <1>1, <1>3, GotType DEF SameWrites
    <2>2. QED
      BY <1>1, <1>2, <2>1 DEF SameWrites, C
  <1>6. ASSUME NEW l \in Id, l # k PROVE LineInv(l)'
    BY <1>1, <1>2, <1>4, <1>5, <1>6, LineSame DEF OrderInv
  <1>7. CASE s = "client"
    <2>1. LineInv(k)'
      BY <1>1, <1>2, <1>4, <1>5, <1>7, LineSame DEF OrderInv
    <2>2. QED
      BY <1>6, <2>1 DEF OrderInv
  <1>8. CASE s = "server"
    <2> DEFINE q == log["server"][k]
               w == pipe[k].to["server"]
               h == Head(w)
               g == <<h>>
               r == Tail(w)
    <2>1. S(k).got = <<>>
      BY <1>1, <1>3, <1>8 DEF ObjectInv, S
    <2>2. S(k)'.got = g
      BY <1>1, <1>3, <1>8, GotType DEF S
    <2>3. Stream(q, g, r) = Stream(q, <<>>, w) /\ (InLine(q, <<>>, w) => InLine(q, g, r))
      <3>1. q \in Seq(Event) /\ w \in Seq(Message) /\ w # <<>>
        BY <1>1, <1>8, LineTypes
      <3> HIDE DEF q, w
      <3>2. QED
        BY <3>1, StreamRead
    <2>4. LineInv(k)
      BY DEF OrderInv
    <2>5. pipe'[k].to["server"] = r /\ log'["server"][k] = q
      BY <1>1, <1>8
    <2> HIDE DEF q, g, r, h
    <2>6. Streamed(k)' = Streamed(k)
      BY <2>1, <2>2, <2>3, <2>5 DEF Streamed, q
    <2>7. InLine(log["server"][k], S(k).got, pipe[k].to["server"])'
      <3>1. InLine(q, <<>>, w)
        BY <2>1, <2>4 DEF LineInv, Ordered, q
      <3>2. QED
        BY <2>2, <2>3, <2>5, <3>1
    <2>8. Ordered(k)'
      BY <1>4, <2>4, <2>6, <2>7 DEF LineInv, Ordered
    <2>9. LineInv(k)'
      BY <1>1, <1>4, <1>5, <2>4, <2>6, <2>8, LineKept
    <2>10. QED
      BY <1>6, <2>9 DEF OrderInv
  <1>9. QED
    BY <1>7, <1>8 DEF Side

\* Taking the head of the client's queue: the smallest number of its connection.
LEMMA HeadOfQueue ==
  ASSUME LinkInv, QueueInv, queue["client"] # <<>>, queue'["client"] = Tail(queue["client"]),
         NEW k \in Id, k = Head(queue["client"]).k, NEW n, n = Head(queue["client"]).m.n
  PROVE  /\ n \in InQueue(k) /\ InQueue(k)' = InQueue(k) \ {n}
         /\ \A x \in InQueue(k) : x = n \/ n < x
         /\ \A l \in Id : l # k => InQueue(l)' = InQueue(l)
  <1> DEFINE q == queue["client"]
             r == Tail(q)
  <1>1. q \in Seq([k : Id, m : Message])
    BY TypeFacts DEF Side
  <1>2. /\ 1 \in DOMAIN q /\ q[1] = Head(q)
        /\ \A i \in DOMAIN r : i + 1 \in DOMAIN q /\ r[i] = q[i + 1] /\ 1 < i + 1
        /\ \A i \in DOMAIN q : i = 1 \/ (i - 1 \in DOMAIN r /\ q[i] = r[i - 1])
    BY <1>1, TailPlaces
  <1>3. \A i, j \in DOMAIN q : i < j => q[i].m.n < q[j].m.n
    BY DEF QueueInv
  <1>4. /\ \A l \in Id : InQueue(l) = {q[i].m.n : i \in {i \in DOMAIN q : q[i].k = l}}
        /\ \A l \in Id : InQueue(l)' = {r[i].m.n : i \in {i \in DOMAIN r : r[i].k = l}}
    BY DEF InQueue
  <1>5. q[1].k = k /\ q[1].m.n = n
    BY <1>2
  <1>6. n \in Nat
    BY <1>2, <1>5, LineTypes, <1>4
  <1> HIDE DEF q, r
  <1>7. \A i \in DOMAIN r : n < r[i].m.n
    BY <1>2, <1>3, <1>5
  <1>8. n \in InQueue(k)
    BY <1>2, <1>4, <1>5
  <1>9. ASSUME NEW l \in Id, NEW x \in InQueue(l) PROVE (l = k /\ x = n) \/ (x \in InQueue(l)' /\ n < x)
    <2>1. PICK i \in DOMAIN q : q[i].k = l /\ x = q[i].m.n
      BY <1>4
    <2>2. CASE i = 1
      BY <1>5, <2>1, <2>2
    <2>3. CASE i - 1 \in DOMAIN r /\ q[i] = r[i - 1]
      BY <1>4, <1>7, <2>1, <2>3
    <2>4. QED
      BY <1>2, <2>2, <2>3
  <1>10. ASSUME NEW l \in Id, NEW x \in InQueue(l)' PROVE x \in InQueue(l) /\ n < x
    <2>1. PICK i \in DOMAIN r : r[i].k = l /\ x = r[i].m.n
      BY <1>4
    <2>2. QED
      BY <1>2, <1>4, <1>7, <2>1
  <1>11. InQueue(k)' = InQueue(k) \ {n}
    <2>1. n \notin InQueue(k)'
      BY <1>6, <1>10
    <2>2. QED
      BY <1>9, <1>10, <2>1
  <1>12. \A x \in InQueue(k) : x = n \/ n < x
    BY <1>9
  <1>13. \A l \in Id : l # k => InQueue(l)' = InQueue(l)
    BY <1>9, <1>10
  <1>14. QED
    BY <1>8, <1>11, <1>12, <1>13

\* What the launcher writes goes to the client.
LEMMA ServerSending ==
  ASSUME NEW c, ObjectInv(c), NEW p \in Pipe
  PROVE  LET r == Sending("server", c, p)
         IN  r.c.got = c.got /\ r.p.to["server"] = p.to["server"] /\ r.p.shut = p.shut
  <1>1. "server" \in Side
    BY DEF Side
  <1> DEFINE r == Sending("server", c, p)
  <1>2. Wrote("server", c, p, r)
    <2>1. PICK s \in Side : s = "server"
      BY <1>1
    <2>2. Wrote(s, c, p, Sending(s, c, p))
      BY SendingCases
    <2>3. QED
      BY <2>1, <2>2
  <1> HIDE DEF r
  <1>3. r.c.got = c.got /\ r.p.to["server"] = p.to["server"] /\ r.p.shut = p.shut
    BY <1>2, Zenon DEF Wrote, SameRead
  <1>4. QED
    BY <1>3 DEF r

\* A callback of the queue: message m on connection k, its object c, which is d
\* once m is numbered, and r what the write does.
Sends(s, k, m, c, d, r) ==
    /\ queue[s] # <<>> /\ k = Head(queue[s]).k /\ m = Head(queue[s]).m
    /\ c = conn[s][k] /\ d = Numbered(c, m) /\ r = Sending(s, d, pipe[k])
    /\ ObjectInv(c) /\ pipe[k] \in Pipe

SendsOnly(s) ==
    /\ (s = "client" => ~greeting)
    /\ queue'[s] = Tail(queue[s]) /\ \A t \in Side : t # s => queue'[t] = queue[t]
    /\ UNCHANGED <<last, greeting, asked, called>>

\* The connection is gone, or closed, or the message is written.
Error(m, how) == IF m.mode = "call" THEN <<[n |-> m.n, how |-> how]>> ELSE <<>>
SendLost(s, k, m) ==
    /\ ~Alive(s, k) /\ answers' = answers \o Error(m, "ConnectionClosed")
    /\ UNCHANGED <<conn, pipe, listed, log>>
SendRefused(s, k, c, results) ==
    c.state = "closed" /\ Settle(s, k, c, pipe[k], <<>>, results, TRUE)
SendMade(s, k, c, d, r) ==
    /\ c.state = "open" /\ ObjectInv(d) /\ Settle(s, k, r.c, r.p, <<>>, <<>>, r.closing)
    /\ ObjectInv(r.c) /\ r.p \in Pipe /\ r.closing \in BOOLEAN

LEMMA QueuedSendSplit ==
  ASSUME LinkInv, NEW s \in Side, QueuedSend(s)
  PROVE  \E k \in Id, m \in Message : \E c, d, r, results :
            /\ Sends(s, k, m, c, d, r) /\ SendsOnly(s) /\ results = Error(m, "NoConnection")
            /\ SendLost(s, k, m) \/ SendRefused(s, k, c, results) \/ SendMade(s, k, c, d, r)
  <1> DEFINE k == Head(queue[s]).k
             m == Head(queue[s]).m
             c == conn[s][k]
             d == Numbered(c, m)
             error(how) == IF m.mode = "call" THEN <<[n |-> m.n, how |-> how]>> ELSE <<>>
             results == error("NoConnection")
             r == Sending(s, d, pipe[k])
  <1>1. k \in Id /\ m \in Message
    BY QueuedSendFacts, Zenon
  <1>2. Sends(s, k, m, c, d, r)
    BY QueuedSendFacts, Zenon DEF Sends
  <1>3. SendsOnly(s)
    BY QueuedSendFacts, Zenon DEF SendsOnly
  <1>4. SendLost(s, k, m) \/ SendRefused(s, k, c, results) \/ SendMade(s, k, c, d, r)
    BY QueuedSendFacts, Zenon DEF SendLost, SendRefused, SendMade, Error
  <1>5. results = Error(m, "NoConnection")
    BY DEF Error
  <1> HIDE DEF k, m, c, d, error, results, r
  <1>6. QED
    BY <1>1, <1>2, <1>3, <1>4, <1>5

LEMMA OrderQueuedSendServer ==
  ASSUME LinkInv, BaseInv, OrderInv, QueuedSend("server") PROVE OrderInv'
  <1>1. "server" \in Side /\ "client" \in Side /\ "client" # "server"
    BY DEF Side
  <1>2. PICK k \in Id, m \in Message : \E c, d, r, results :
            /\ Sends("server", k, m, c, d, r) /\ SendsOnly("server") /\ results = Error(m, "NoConnection")
            /\ SendLost("server", k, m) \/ SendRefused("server", k, c, results) \/ SendMade("server", k, c, d, r)
    BY <1>1, QueuedSendSplit
  <1>3. PICK c, d, r, results :
            /\ Sends("server", k, m, c, d, r) /\ SendsOnly("server") /\ results = Error(m, "NoConnection")
            /\ SendLost("server", k, m) \/ SendRefused("server", k, c, results) \/ SendMade("server", k, c, d, r)
    BY <1>2
  <1>4. queue'["client"] = queue["client"] /\ UNCHANGED <<last, greeting, asked>>
    BY <1>1, <1>3 DEF SendsOnly
  <1>5. c = conn["server"][k] /\ d = Numbered(c, m) /\ ObjectInv(c)
    BY <1>3 DEF Sends
  <1>6. r = Sending("server", d, pipe[k]) /\ pipe[k] \in Pipe
    BY <1>3 DEF Sends
  <1>7. CASE SendLost("server", k, m)
    <2>1. UNCHANGED <<conn, pipe, log>>
      BY <1>7 DEF SendLost
    <2>2. QED
      BY <1>4, <2>1, OrderQuiet
  <1> DEFINE events == <<>>
             closing == TRUE
             p == pipe[k]
             e == r.c
             o == r.p
             broken == r.closing
  <1>8. events \in Seq(Event) /\ events = <<>> /\ closing \in BOOLEAN
    BY EmptySeq
  <1>9. p \in Pipe /\ p.to["server"] = pipe[k].to["server"] /\ p.shut = pipe[k].shut
    BY <1>6
  <1>10. CASE SendRefused("server", k, c, results)
    <2>1. Settle("server", k, c, p, events, results, closing)
      BY <1>10 DEF SendRefused
    <2>2. c.got = S(k).got
      BY <1>5 DEF S
    <2> HIDE DEF events, closing, p
    <2>3. QED
      BY <1>4, <1>5, <1>8, <1>9, <2>1, <2>2, ServerStep
  <1>11. CASE SendMade("server", k, c, d, r)
    <2>1. /\ ObjectInv(d) /\ Settle("server", k, e, o, events, events, broken)
          /\ ObjectInv(e) /\ o \in Pipe /\ broken \in BOOLEAN
      BY <1>11 DEF SendMade
    <2>2. d.got = S(k).got
      BY <1>5, NumberedFacts DEF S
    <2>3. e.got = d.got /\ o.to["server"] = p.to["server"] /\ o.shut = p.shut
      BY <1>6, <2>1, ServerSending
    <2> HIDE DEF events, e, o, broken
    <2>4. o.to["server"] = pipe[k].to["server"] /\ o.shut = pipe[k].shut /\ e.got = S(k).got
      BY <2>2, <2>3
    <2>5. QED
      BY <1>4, <1>8, <2>1, <2>4, ServerStep
  <1>12. QED
    BY <1>3, <1>7, <1>10, <1>11

LEMMA OrderQueuedSendClient ==
  ASSUME LinkInv, BaseInv, OrderInv, QueuedSend("client") PROVE OrderInv'
  <1>1. "server" \in Side /\ "client" \in Side /\ "client" # "server"
    BY DEF Side
  <1>2. PICK k \in Id, m \in Message : \E c, d, r, results :
            /\ Sends("client", k, m, c, d, r) /\ SendsOnly("client") /\ results = Error(m, "NoConnection")
            /\ SendLost("client", k, m) \/ SendRefused("client", k, c, results) \/ SendMade("client", k, c, d, r)
    BY <1>1, QueuedSendSplit
  <1>3. PICK c, d, r, results :
            /\ Sends("client", k, m, c, d, r) /\ SendsOnly("client") /\ results = Error(m, "NoConnection")
            /\ SendLost("client", k, m) \/ SendRefused("client", k, c, results) \/ SendMade("client", k, c, d, r)
    BY <1>2
  <1> DEFINE q == log["server"][k]
             g == S(k).got
             b == pipe[k]
             D == Stream(q, g, b.to["server"])
             n == m.n
             W == InQueue(k) \ {n}
             P == Posted(k)
             events == <<>>
             closing == TRUE
             e == r.c
             o == r.p
             broken == r.closing
  <1>4. /\ queue'["client"] = Tail(queue["client"]) /\ UNCHANGED <<last, greeting, asked>>
        /\ greeting' = FALSE /\ ~greeting
    <2>1. greeting \in BOOLEAN
      BY RestFacts
    <2>2. QED
      BY <1>1, <1>3, <2>1 DEF SendsOnly
  <1>5. c = conn["client"][k] /\ d = Numbered(c, m) /\ ObjectInv(c)
    BY <1>3 DEF Sends
  <1>6. r = Sending("client", d, b) /\ b \in Pipe
    BY <1>3 DEF Sends
  <1>7. queue["client"] # <<>> /\ k = Head(queue["client"]).k /\ n = Head(queue["client"]).m.n
    BY <1>3 DEF Sends
  <1>8. /\ n \in InQueue(k) /\ InQueue(k)' = W
        /\ \A x \in InQueue(k) : x = n \/ n < x
        /\ \A l \in Id : l # k => InQueue(l)' = InQueue(l)
    <2> HIDE DEF n
    <2>1. QueueInv
      BY DEF BaseInv
    <2>2. QED
      BY <1>4, <1>7, <2>1, HeadOfQueue
  <1>9. LineInv(k)
    BY DEF OrderInv
  <1>10. InLine(q, g, b.to["server"]) /\ Beginning(D, P)
    BY <1>9 DEF LineInv, Ordered, Streamed
  <1>11. \A l \in Id : Posted(l)' = Posted(l) /\ ~Greets(l) /\ ~Greets(l)'
    BY <1>4, SamePosted DEF Greets
  <1>12. /\ D \in SUBSET Nat /\ InQueue(k) \in SUBSET Nat /\ P \in SUBSET Nat
         /\ q \in Seq(Event) /\ g \in Seq(Message)
    BY LineTypes DEF Streamed
  <1>13. CASE SendLost("client", k, m)
    <2>1. ~Alive("client", k) /\ UNCHANGED <<conn, pipe, listed, log>>
      BY <1>13 DEF SendLost
    <2>2. ASSUME NEW l \in Id, l # k PROVE LineInv(l)'
      BY <1>8, <1>11, <2>1, <2>2, LineSame DEF OrderInv, SameWrites, C
    <2>3. C(k).state # "open"
      BY <2>1 DEF BaseInv, OpenInv, Alive
    <2>4. Ordered(k)'
      BY <1>9, <1>11, <2>1 DEF LineInv, Ordered, Streamed, S
    <2>5. ~Whole(k)'
      BY <2>1, <2>3 DEF Whole, C
    <2>6. C(k)'.state = "none" => C(k)'.writing = FALSE
      BY <1>9, <2>1 DEF LineInv, C
    <2>7. LineInv(k)'
      BY <1>11, <2>4, <2>5, <2>6 DEF LineInv
    <2>8. QED
      BY <2>2, <2>7 DEF OrderInv
  <1>14. CASE SendRefused("client", k, c, results)
    <2>1. Settle("client", k, c, b, events, results, closing) /\ c.state = "closed"
      BY <1>14 DEF SendRefused
    <2>2. b.shut = pipe[k].shut /\ closing = TRUE
      OBVIOUS
    <2> HIDE DEF events, closing, W, n
    <2>3. QED
      BY <1>4, <1>5, <1>6, <1>8, <1>10, <2>1, <2>2, ClientStep
  <1>15. CASE SendMade("client", k, c, d, r)
    <2>1. /\ ObjectInv(d) /\ Settle("client", k, e, o, events, events, broken)
          /\ ObjectInv(e) /\ o \in Pipe /\ broken \in BOOLEAN /\ c.state = "open"
      BY <1>15 DEF SendMade
    <2>2. PICK named \in Message :
             named.n = n /\ Unsent(d) = Append(Unsent(c), named) /\ Unsent(c) \in Seq(Message)
      BY <1>5, NumberedUnsent
    <2>3. d.state = "open"
      BY <1>5, <2>1, NumberedFacts
    <2>4. "server" \notin b.shut => Holds(D, Unsent(d), W, P)
      <3>1. SUFFICES ASSUME "server" \notin b.shut PROVE Holds(D, Unsent(d), W, P)
        OBVIOUS
      <3>2. Hello(k) = {}
        BY <1>11 DEF Hello
      <3>3. C(k) = c
        BY <1>5 DEF C
      <3>4. Whole(k)
        BY <2>1, <3>1, <3>3 DEF Whole
      <3> DEFINE u == Unsent(c)
      <3>5. Holds(D, u, InQueue(k), P)
        <4>1. Holds(Streamed(k), Unsent(C(k)), InQueue(k), Posted(k) \ Hello(k))
          BY <1>9, <3>4 DEF LineInv, Complete
        <4>2. Unsent(C(k)) = u /\ Streamed(k) = D /\ Posted(k) \ Hello(k) = P
          BY <3>2, <3>3 DEF Streamed
        <4> HIDE DEF u, D, P
        <4>3. QED
          BY <4>1, <4>2 DEF Holds
      <3>6. u \in Seq(Message) /\ Unsent(d) = Append(u, named)
        BY <2>2
      <3>7. W = InQueue(k) \ {named.n} /\ named.n \in InQueue(k)
            /\ \A x \in InQueue(k) : x = named.n \/ named.n < x
        BY <1>8, <2>2
      <3> HIDE DEF u, D, P, W
      <3>8. Holds(D, Append(u, named), InQueue(k) \ {named.n}, P)
        BY <1>12, <2>2, <3>5, <3>6, <3>7, HoldsAppend
      <3>9. QED
        BY <3>6, <3>7, <3>8
    <2>5. e.state = "open"
      BY <1>1, <1>6, <2>1, <2>3, SendingSame
    <2>6. W \in SUBSET Nat
      BY <1>12
    <2> HIDE DEF W
    <2>7. /\ InLine(q, g, o.to["server"]) /\ Beginning(Stream(q, g, o.to["server"]), P)
          /\ ~broken /\ e.state = "open" /\ "server" \notin o.shut
                => Holds(Stream(q, g, o.to["server"]), Unsent(e), W, P)
          /\ o.shut = b.shut
      <3>1. /\ d.state # "none"
            /\ d.state = "open" /\ "server" \notin b.shut
                => Holds(Stream(q, g, b.to["server"]), Unsent(d), W, P)
        BY <2>3, <2>4
      <3> HIDE DEF q, g, P, b
      <3>2. QED
        BY <1>6, <1>10, <1>12, <2>1, <2>6, <3>1, SendingHolds
    <2>8. o.shut = pipe[k].shut /\ e.state # "none"
      BY <2>5, <2>7
    <2> HIDE DEF events, e, o, broken
    <2>9. QED
      BY <1>4, <1>8, <2>1, <2>7, <2>8, ClientStep
  <1>16. QED
    BY <1>3, <1>13, <1>14, <1>15

\* A read that is done: message m, of which the requests mine were waiting for a
\* reply; the object is c before and e after the next read was started.
Receives(s, k, c, m, mine) ==
    /\ c = conn[s][k] /\ ObjectInv(c) /\ m \in Message /\ c.got = <<m>> /\ mine = Answered(c, m)
    /\ pipe[k] \in Pipe /\ Alertable(s)

ReceivesTo(c, m, mine, e, events, results) ==
    /\ ObjectInv(e) /\ e.got = <<>> /\ e.rpc = c.rpc \ mine /\ e.state = c.state
    /\ e.writing = c.writing /\ e.writeQueue = c.writeQueue /\ e.nextSeq = c.nextSeq
    /\ mine = {} => events = <<[what |-> "received", m |-> m]>> /\ results = <<>>
    /\ mine # {} => events = <<>> /\ results = <<[n |-> m.n, how |-> "reply"]>>
    /\ events \in Seq(Event) /\ results \in Seq(Answer)

LEMMA HandleReadCompleteSplit ==
  ASSUME LinkInv, NEW s \in Side, NEW k \in Id, HandleReadComplete(s, k)
  PROVE  \E c, m, mine, e, events, results : \E closing \in BOOLEAN :
            /\ Receives(s, k, c, m, mine) /\ ReceivesTo(c, m, mine, e, events, results)
            /\ Settle(s, k, e, pipe[k], events, results, closing)
            /\ UNCHANGED <<last, greeting, queue, asked, called>>
  <1> DEFINE c == conn[s][k]
             m == Head(c.got)
             mine == Answered(c, m)
             h == Handled(c, mine)
             events == IF mine = {} THEN <<[what |-> "received", m |-> m]>> ELSE <<>>
             results == IF mine = {} THEN <<>> ELSE <<[n |-> m.n, how |-> "reply"]>>
  <1>1. /\ ObjectInv(c) /\ pipe[k] \in Pipe /\ m \in Message /\ c.got = <<m>>
        /\ h \in PipeConnection /\ events \in Seq(Event) /\ results \in Seq(Answer)
        /\ \E next \in Reading(s, h, pipe[k]) :
                   /\ ObjectInv(next.c) /\ next.closing \in BOOLEAN
                   /\ Settle(s, k, next.c, pipe[k], events, results, next.closing)
        /\ UNCHANGED <<last, greeting, queue, asked, called>>
    BY HandleReadCompleteFacts, Zenon
  <1>2. PICK next \in Reading(s, h, pipe[k]) :
                   /\ ObjectInv(next.c) /\ next.closing \in BOOLEAN
                   /\ Settle(s, k, next.c, pipe[k], events, results, next.closing)
    BY <1>1
  <1> DEFINE e == next.c
             closing == next.closing
  <1>3. Receives(s, k, c, m, mine)
    <2>1. Alertable(s)
      BY DEF HandleReadComplete
    <2>2. QED
      BY <1>1, <2>1, Zenon DEF Receives
  <1>4. /\ mine = {} => events = <<[what |-> "received", m |-> m]>> /\ results = <<>>
        /\ mine # {} => events = <<>> /\ results = <<[n |-> m.n, how |-> "reply"]>>
    OBVIOUS
  <1>5. /\ h.state = c.state /\ h.rpc = c.rpc \ mine /\ h.got = <<>> /\ h.nextSeq = c.nextSeq
        /\ h.writing = c.writing /\ h.writeQueue = c.writeQueue
    BY <1>1, HandledType, SMTT(30)
  <1> HIDE DEF c, m, mine, h, events, results
  <1>6. /\ e.state = h.state /\ e.rpc = h.rpc /\ e.got = h.got /\ e.nextSeq = h.nextSeq
        /\ e.writing = h.writing /\ e.writeQueue = h.writeQueue
    BY <1>1, <1>2, ReadingCases
  <1>7. ObjectInv(e) /\ Settle(s, k, e, pipe[k], events, results, closing) /\ closing \in BOOLEAN
    BY <1>2
  <1> HIDE DEF e, closing
  <1>8. ReceivesTo(c, m, mine, e, events, results)
    BY <1>1, <1>4, <1>5, <1>6, <1>7, Zenon DEF ReceivesTo
  <1>9. UNCHANGED <<last, greeting, queue, asked, called>>
    BY <1>1
  <1>10. QED
    BY <1>3, <1>7, <1>8, <1>9

LEMMA OrderHandleReadComplete ==
  ASSUME LinkInv, BaseInv, OrderInv, NEW s \in Side, NEW k \in Id, HandleReadComplete(s, k)
  PROVE  OrderInv'
  <1>1. PICK c, m, mine, e, events, results : \E closing \in BOOLEAN :
            /\ Receives(s, k, c, m, mine) /\ ReceivesTo(c, m, mine, e, events, results)
            /\ Settle(s, k, e, pipe[k], events, results, closing)
            /\ UNCHANGED <<last, greeting, queue, asked, called>>
    BY HandleReadCompleteSplit
  <1>2. PICK closing \in BOOLEAN :
            /\ Receives(s, k, c, m, mine) /\ ReceivesTo(c, m, mine, e, events, results)
            /\ Settle(s, k, e, pipe[k], events, results, closing)
            /\ UNCHANGED <<last, greeting, queue, asked, called>>
    BY <1>1
  <1> DEFINE p == pipe[k]
             q == log["server"][k]
             g == S(k).got
             D == Stream(q, g, p.to["server"])
  <1>3. c = conn[s][k] /\ m \in Message /\ c.got = <<m>> /\ p \in Pipe
    BY <1>2 DEF Receives
  <1>4. queue'["client"] = queue["client"] /\ UNCHANGED <<last, greeting, asked>>
    BY <1>2
  <1>5. /\ ObjectInv(e) /\ e.got = <<>> /\ e.state = c.state /\ events \in Seq(Event)
        /\ e.writing = c.writing /\ e.writeQueue = c.writeQueue
    BY <1>2 DEF ReceivesTo
  <1>6. LineInv(k)
    BY DEF OrderInv
  <1>7. InLine(q, g, p.to["server"]) /\ Beginning(D, Posted(k))
    BY <1>6 DEF LineInv, Ordered, Streamed
  <1>8. p.to["server"] = pipe[k].to["server"] /\ p.shut = pipe[k].shut
    OBVIOUS
  <1>9. Settle(s, k, e, p, events, results, closing)
    BY <1>2
  <1>10. CASE s = "server"
    <2>1. mine = {}
      <3>1. c.rpc = {}
        BY <1>3, <1>10 DEF BaseInv, OpenInv, S
      <3>2. mine = Answered(c, m)
        BY <1>2 DEF Receives
      <3>3. QED
        BY <3>1, <3>2 DEF Answered
    <2>2. events = <<[what |-> "received", m |-> m]>>
      BY <1>2, <2>1 DEF ReceivesTo
    <2>3. S(k).got = <<m>>
      BY <1>3, <1>10 DEF S
    <2> HIDE DEF p
    <2>4. QED
      BY <1>3, <1>4, <1>5, <1>8, <1>9, <1>10, <2>2, <2>3, ServerStep
  <1>11. CASE s = "client"
    <2>1. ~greeting
      BY <1>2, <1>11 DEF Receives, Alertable
    <2>2. C(k) = c
      BY <1>3, <1>11 DEF C
    <2>3. c.state = "none" => c.writing = FALSE
      BY <1>6, <2>2 DEF LineInv
    <2>4. e.state = "open" /\ "server" \notin p.shut => Holds(D, Unsent(e), InQueue(k), Posted(k))
      <3>1. SUFFICES ASSUME e.state = "open", "server" \notin p.shut
                     PROVE  Holds(D, Unsent(e), InQueue(k), Posted(k))
        OBVIOUS
      <3>2. Whole(k)
        BY <1>5, <2>2, <3>1 DEF Whole
      <3>3. Complete(k)
        BY <1>6, <3>2 DEF LineInv
      <3>4. Hello(k) = {} /\ Unsent(e) = Unsent(C(k))
        BY <1>5, <2>1, <2>2 DEF Hello, Greets, Unsent
      <3>5. Posted(k) \ Hello(k) = Posted(k) /\ D = Streamed(k)
        BY <3>4 DEF Streamed
      <3> HIDE DEF D
      <3>6. QED
        BY <3>3, <3>4, <3>5 DEF Complete
    <2>5. \A l \in Id : InQueue(l)' = InQueue(l)
      BY <1>4, SamePosted
    <2>6. greeting' = FALSE
      <3>1. greeting \in BOOLEAN
        BY RestFacts
      <3>2. QED
        BY <1>4, <2>1, <3>1
    <2>7. ~closing /\ e.state = "open" /\ "server" \notin p.shut
            => Holds(D, Unsent(e), InQueue(k)', Posted(k))
      <3>1. InQueue(k)' = InQueue(k)
        BY <2>5
      <3>2. QED
        BY <2>4, <3>1
    <2>8. e.state = "none" => e.writing = FALSE
      BY <1>5, <2>3
    <2>9. Settle("client", k, e, p, events, results, closing)
      BY <1>9, <1>11
    <2> HIDE DEF p
    <2>10. QED
      BY <1>3, <1>4, <1>5, <1>7, <1>8, <2>1, <2>5, <2>6, <2>7, <2>8, <2>9, ClientStep
  <1>12. QED
    BY <1>10, <1>11 DEF Side

LEMMA OrderHandleReadError ==
  ASSUME LinkInv, BaseInv, OrderInv, NEW s \in Side, NEW k \in Id, HandleReadError(s, k)
  PROVE  OrderInv'
  <1> DEFINE c == conn[s][k]
             d == Unread(c)
             p == pipe[k]
             events == <<>>
             closing == TRUE
  <1>1. /\ ObjectInv(c) /\ p \in Pipe /\ c.reading # "done" /\ ObjectInv(d)
        /\ Settle(s, k, d, p, events, events, closing)
        /\ UNCHANGED <<last, greeting, queue, asked>>
    BY HandleReadErrorFacts
  <1>2. d.got = c.got /\ d.state = c.state /\ d.writing = c.writing
    BY <1>1, UnreadType
  <1>3. p.to["server"] = pipe[k].to["server"] /\ p.shut = pipe[k].shut /\ closing = TRUE
    OBVIOUS
  <1>4. events \in Seq(Event) /\ events = <<>>
    BY EmptySeq
  <1>5. LineInv(k)
    BY DEF OrderInv
  <1>6. CASE s = "server"
    <2>1. d.got = S(k).got
      BY <1>2, <1>6 DEF S
    <2> HIDE DEF d, p, events, closing
    <2>2. QED
      BY <1>1, <1>3, <1>4, <1>6, <2>1, ServerStep
  <1>7. CASE s = "client"
    <2>1. d.state = "none" => d.writing = FALSE
      BY <1>2, <1>5, <1>7 DEF LineInv, C
    <2>2. ~greeting /\ greeting \in BOOLEAN
      BY <1>7, RestFacts DEF HandleReadError, Alertable
    <2>3. \A l \in Id : InQueue(l)' = InQueue(l)
      BY <1>1, SamePosted
    <2>4. InLine(log["server"][k], S(k).got, p.to["server"])
          /\ Beginning(Stream(log["server"][k], S(k).got, p.to["server"]), Posted(k))
      BY <1>5 DEF LineInv, Ordered, Streamed
    <2> HIDE DEF d, p, events, closing
    <2>5. greeting' = FALSE
      BY <1>1, <2>2
    <2>6. QED
      BY <1>1, <1>3, <1>7, <2>1, <2>2, <2>3, <2>4, <2>5, ClientStep
  <1>8. QED
    BY <1>6, <1>7 DEF Side

LEMMA OrderHandleWriteComplete ==
  ASSUME LinkInv, BaseInv, OrderInv, NEW s \in Side, NEW k \in Id, HandleWriteComplete(s, k)
  PROVE  OrderInv'
  <1> DEFINE b == conn[s][k]
             c == Written(b)
             p == pipe[k]
             next == Sending(s, c, p)
             e == next.c
             o == next.p
             broken == next.closing
             events == <<>>
             closing == TRUE
  <1>1. /\ ObjectInv(b) /\ p \in Pipe /\ b.writing /\ ObjectInv(c)
        /\ UNCHANGED <<last, greeting, queue, asked>>
        /\ \/ /\ Settle(s, k, e, o, events, events, broken)
              /\ ObjectInv(e) /\ o \in Pipe /\ broken \in BOOLEAN
           \/ c.state = "closed" /\ Settle(s, k, c, p, events, events, closing)
    BY HandleWriteCompleteFacts, Zenon
  <1>2. /\ c.got = b.got /\ c.state = b.state /\ c.writing = FALSE
        /\ c.writeQueue = Tail(b.writeQueue)
    BY <1>1, WrittenType
  <1>3. p.to["server"] = pipe[k].to["server"] /\ p.shut = pipe[k].shut /\ closing = TRUE
    OBVIOUS
  <1>4. events \in Seq(Event) /\ events = <<>>
    BY EmptySeq
  <1>5. LineInv(k)
    BY DEF OrderInv
  <1>6. CASE s = "server"
    <2>1. c.got = S(k).got
      BY <1>2, <1>6 DEF S
    <2>2. e.got = c.got /\ o.to["server"] = p.to["server"] /\ o.shut = p.shut
      BY <1>1, <1>6, ServerSending
    <2> HIDE DEF b, c, p, next, e, o, broken, events, closing
    <2>3. CASE /\ Settle(s, k, e, o, events, events, broken)
               /\ ObjectInv(e) /\ o \in Pipe /\ broken \in BOOLEAN
      BY <1>1, <1>3, <1>4, <1>6, <2>1, <2>2, <2>3, ServerStep
    <2>4. CASE c.state = "closed" /\ Settle(s, k, c, p, events, events, closing)
      BY <1>1, <1>3, <1>4, <1>6, <2>1, <2>4, ServerStep
    <2>5. QED
      BY <1>1, <2>3, <2>4
  <1>7. CASE s = "client"
    <2> DEFINE q == log["server"][k]
               g == S(k).got
               D == Stream(q, g, p.to["server"])
    <2>1. b = C(k)
      BY <1>7 DEF C
    <2>2. c.state # "none"
      BY <1>1, <1>2, <1>5, <2>1 DEF LineInv
    <2>3. ~greeting /\ greeting \in BOOLEAN
      BY <1>7, RestFacts DEF HandleWriteComplete, Alertable
    <2>4. \A l \in Id : InQueue(l)' = InQueue(l)
      BY <1>1, SamePosted
    <2>5. InLine(q, g, p.to["server"]) /\ Beginning(D, Posted(k))
      BY <1>5 DEF LineInv, Ordered, Streamed
    <2>6. c.state = "open" /\ "server" \notin p.shut => Holds(D, Unsent(c), InQueue(k), Posted(k))
      <3>1. SUFFICES ASSUME c.state = "open", "server" \notin p.shut
                     PROVE  Holds(D, Unsent(c), InQueue(k), Posted(k))
        OBVIOUS
      <3>2. Whole(k)
        BY <1>2, <2>1, <3>1 DEF Whole
      <3>3. Complete(k)
        BY <1>5, <3>2 DEF LineInv
      <3>4. Hello(k) = {}
        BY <2>3 DEF Hello, Greets
      <3>5. Unsent(c) = Unsent(C(k))
        <4> HIDE DEF c, b
        <4>1. QED
          BY <1>1, <1>2, <2>1 DEF Unsent
      <3>6. Posted(k) \ Hello(k) = Posted(k) /\ D = Streamed(k)
        BY <3>4 DEF Streamed
      <3> HIDE DEF D, c
      <3>7. QED
        BY <3>3, <3>5, <3>6 DEF Complete
    <2>7. greeting' = FALSE
      BY <1>1, <2>3
    <2>8. /\ q \in Seq(Event) /\ g \in Seq(Message)
          /\ InQueue(k) \in SUBSET Nat /\ Posted(k) \in SUBSET Nat
      BY LineTypes
    <2>9. next = Sending("client", c, p)
      BY <1>7
    <2>10. e.state = c.state
      BY <1>1, SendingSame
    <2> HIDE DEF b, c, p, q, g
    <2>11. /\ InLine(q, g, o.to["server"]) /\ Beginning(Stream(q, g, o.to["server"]), Posted(k))
           /\ ~broken /\ e.state = "open" /\ "server" \notin o.shut
                => Holds(Stream(q, g, o.to["server"]), Unsent(e), InQueue(k), Posted(k))
           /\ o.shut = p.shut
      <3> DEFINE W == InQueue(k)
                 P == Posted(k)
      <3> HIDE DEF W, P, next
      <3>1. /\ c.state = "open" /\ "server" \notin p.shut
                 => Holds(Stream(q, g, p.to["server"]), Unsent(c), W, P)
            /\ Beginning(Stream(q, g, p.to["server"]), P)
            /\ q \in Seq(Event) /\ g \in Seq(Message) /\ W \in SUBSET Nat /\ P \in SUBSET Nat
        BY <2>5, <2>6, <2>8 DEF W, P
      <3> DEFINE r == Sending("client", c, p)
      <3>2. /\ InLine(q, g, r.p.to["server"]) /\ Beginning(Stream(q, g, r.p.to["server"]), P)
            /\ ~r.closing /\ r.c.state = "open" /\ "server" \notin r.p.shut
                => Holds(Stream(q, g, r.p.to["server"]), Unsent(r.c), W, P)
            /\ r.p.shut = p.shut
        BY <1>1, <2>2, <2>5, <3>1, SendingHolds
      <3>3. r = next
        BY <2>9
      <3> HIDE DEF r
      <3>4. QED
        BY <3>2, <3>3 DEF W, P
    <2> HIDE DEF next, e, o, broken, events, closing
    <2>12. CASE /\ Settle(s, k, e, o, events, events, broken)
                /\ ObjectInv(e) /\ o \in Pipe /\ broken \in BOOLEAN
      <3>1. o.shut = pipe[k].shut /\ (e.state = "none" => e.writing = FALSE)
        BY <1>3, <2>2, <2>10, <2>11
      <3>2. ~broken /\ e.state = "open" /\ "server" \notin o.shut
                => Holds(Stream(q, g, o.to["server"]), Unsent(e), InQueue(k)', Posted(k))
        <4>1. InQueue(k)' = InQueue(k)
          BY <2>4
        <4>2. QED
          BY <2>11, <4>1
      <3>3. Settle("client", k, e, o, events, events, broken)
        BY <1>7, <2>12
      <3>4. QED
        BY <1>1, <2>3, <2>4, <2>7, <2>11, <2>12, <3>1, <3>2, <3>3, ClientStep DEF q, g
    <2>13. CASE c.state = "closed" /\ Settle(s, k, c, p, events, events, closing)
      <3>1. Settle("client", k, c, p, events, events, closing)
        BY <1>7, <2>13
      <3>2. QED
        BY <1>1, <1>3, <2>3, <2>4, <2>5, <2>7, <2>13, <3>1, ClientStep DEF q, g
    <2>14. QED
      BY <1>1, <2>12, <2>13
  <1>8. QED
    BY <1>6, <1>7 DEF Side

\* Nothing of a connection that is about to be made has been written or posted.
LEMMA FreshLine ==
  ASSUME LinkInv, BaseInv, NEW k \in Id, k > last
  PROVE  /\ log["server"][k] = <<>> /\ S(k).got = <<>> /\ pipe[k].to["server"] = <<>>
         /\ Streamed(k) = {} /\ Posted(k) = {0} /\ InQueue(k) = {}
  <1>1. "server" \in Side /\ "client" \in Side
    BY DEF Side
  <1>2. pipe[k].to["server"] = <<>> /\ S(k).state = "none"
    BY <1>1 DEF BaseInv, FreshInv
  <1>3. S(k) = NoObject /\ log["server"][k] = <<>>
    BY <1>2 DEF BaseInv, NoneInv
  <1>4. S(k).got = <<>>
    BY <1>3 DEF NoObject
  <1>5. Streamed(k) = {}
    <2>1. Seen(<<>>) = {}
      BY DEF Seen, Receipts
    <2>2. QED
      BY <1>2, <1>3, <1>4, <2>1, NumbersSmall DEF Streamed, Stream
  <1>6. last \in Nat /\ k \in Nat
    BY TypeFacts DEF Id
  <1>7. \A n \in DOMAIN asked : asked[n] # k
    <2>1. asked \in Seq(Id) /\ DOMAIN asked = 1..Len(asked)
      BY LineTypes
    <2>2. \A n \in DOMAIN asked : asked[n] \in Id
      BY <2>1, ElementOfSeq
    <2>3. \A n \in DOMAIN asked : asked[n] \in Nat /\ asked[n] <= last
      BY <2>2 DEF BaseInv, QueueInv, Id
    <2>4. QED
      BY <1>6, <2>3
  <1>8. Posted(k) = {0}
    BY <1>7 DEF Posted
  <1>9. \A i \in DOMAIN queue["client"] : queue["client"][i].k # k
    BY <1>7 DEF BaseInv, QueueInv
  <1>10. InQueue(k) = {}
    BY <1>9 DEF InQueue
  <1>11. QED
    BY <1>2, <1>3, <1>4, <1>5, <1>8, <1>10

LEMMA EmptyLine ==
  /\ InLine(<<>>, <<>>, <<>>) /\ \A P \in SUBSET Nat : Beginning({}, P)
  /\ Stream(<<>>, <<>>, <<>>) = {} /\ Holds({}, <<>>, {}, {})
  <1>1. Seen(<<>>) = {} /\ LogSorted(<<>>)
    BY DEF Seen, Receipts, LogSorted
  <1>2. QED
    BY <1>1, NumbersSmall DEF InLine, Beginning, Below, Stream, Holds

LEMMA OrderConnect == ASSUME LinkInv, BaseInv, OrderInv, Connect PROVE OrderInv'
  <1>0. PICK k \in Id : k = last + 1
    BY ConnectFacts
  <1>1. /\ last' = k /\ last \in Nat /\ k > last
        /\ conn'["client"][k] = Opened /\ ~greeting /\ greeting' = TRUE
        /\ \A t \in Side, l \in Id : t # "client" \/ l # k => conn'[t][l] = conn[t][l]
        /\ UNCHANGED <<pipe, queue, log, asked>>
    BY <1>0, ConnectFacts
  <1>2. "server" \in Side /\ "client" \in Side /\ "client" # "server"
    BY DEF Side
  <1>3. \A l \in Id : Posted(l)' = Posted(l) /\ InQueue(l)' = InQueue(l)
    BY <1>1, SamePosted
  <1>4. \A l \in Id : ~Greets(l) /\ (l # k => ~Greets(l)') /\ Greets(k)'
    BY <1>1 DEF Greets
  <1>5. /\ log["server"][k] = <<>> /\ S(k).got = <<>> /\ pipe[k].to["server"] = <<>>
        /\ Streamed(k) = {} /\ Posted(k) = {0} /\ InQueue(k) = {}
    BY <1>1, FreshLine
  <1>6. /\ C(k)'.state = "open" /\ C(k)'.writing = FALSE /\ C(k)'.writeQueue = <<>>
    BY <1>1, NoObjectInv DEF C
  <1>7. ASSUME NEW l \in Id, l # k PROVE LineInv(l)'
    BY <1>1, <1>2, <1>3, <1>4, <1>7, LineSame DEF OrderInv, SameWrites, C
  <1>8. LineInv(k)'
    <2>1. Streamed(k)' = {} /\ S(k)' = S(k)
      BY <1>1, <1>2, <1>5 DEF Streamed, S
    <2>2. Ordered(k)'
      <3>1. InLine(log["server"][k], S(k).got, pipe[k].to["server"])'
        BY <1>1, <1>5, <2>1, EmptyLine
      <3>2. Beginning(Streamed(k)', Posted(k)')
        BY <1>3, <1>5, <2>1, EmptyLine
      <3>3. QED
        BY <3>1, <3>2 DEF Ordered
    <2>3. Complete(k)'
      <3>1. Hello(k)' = {0} /\ InQueue(k)' = {} /\ Posted(k)' = {0} /\ Unsent(C(k))' = <<>>
        BY <1>3, <1>4, <1>5, <1>6 DEF Hello, Unsent
      <3>2. (Posted(k) \ Hello(k))' = {}
        BY <3>1
      <3>3. Holds(Streamed(k)', Unsent(C(k))', InQueue(k)', (Posted(k) \ Hello(k))')
        BY <2>1, <3>1, <3>2, EmptyLine
      <3> DEFINE v == Unsent(C(k))'
      <3>4. v = Unsent(C(k))'
        OBVIOUS
      <3> HIDE DEF v
      <3>5. QED
        BY <3>3 DEF Complete, Holds
    <2>4. Silent(k)'
      BY <1>6, <2>1 DEF Silent
    <2>5. QED
      BY <1>6, <2>2, <2>3, <2>4 DEF LineInv
  <1>9. QED
    BY <1>7, <1>8 DEF OrderInv

LEMMA OrderGreet == ASSUME LinkInv, BaseInv, OrderInv, Greet PROVE OrderInv'
  <1> DEFINE hello == [mode |-> "message", n |-> 0, seq |-> 0]
             b == conn["client"][last]
             c == Numbered(b, hello)
             p == pipe[last]
             sent == Sending("client", c, p)
             e == sent.c
             o == sent.p
             broken == sent.closing
             events == <<>>
             q == log["server"][last]
             g == S(last).got
             D == Stream(q, g, p.to["server"])
             W == InQueue(last)
             P == Posted(last)
  <1>1. /\ last \in Id /\ ObjectInv(b) /\ p \in Pipe
        /\ hello \in Message /\ ObjectInv(c) /\ greeting /\ greeting' = FALSE
        /\ ObjectInv(e) /\ o \in Pipe /\ broken \in BOOLEAN
        /\ Settle("client", last, e, o, events, events, broken)
        /\ UNCHANGED <<last, queue, asked>>
    BY GreetFacts, Zenon
  <1>2. "client" \in Side
    BY DEF Side
  <1>3. c.state = b.state /\ c.writing = b.writing
    BY <1>1, NumberedFacts
  <1>4. PICK named \in Message :
           named.n = hello.n /\ Unsent(c) = Append(Unsent(b), named) /\ Unsent(b) \in Seq(Message)
    BY <1>1, NumberedUnsent
  <1>5. LineInv(last) /\ Greets(last)
    BY <1>1 DEF OrderInv, Greets
  <1>6. b.state # "none" /\ Streamed(last) = {} /\ b.writeQueue = <<>> /\ b.writing = FALSE
    BY <1>5 DEF LineInv, Silent, C
  <1>7. Unsent(b) = <<>> /\ named.n = 0
    BY <1>4, <1>6 DEF Unsent
  <1>8. Unsent(c) = <<named>>
    <2>1. Unsent(c) = Append(<<>>, named)
      BY <1>4, <1>7
    <2> HIDE DEF c
    <2>2. QED
      BY <2>1
  <1>9. /\ q \in Seq(Event) /\ g \in Seq(Message) /\ W \in SUBSET Nat /\ P \in SUBSET Nat
    BY <1>1, LineTypes
  <1>10. InLine(q, g, p.to["server"]) /\ Beginning(D, P) /\ D = {}
    BY <1>5, <1>6 DEF LineInv, Ordered, Streamed
  <1>11. c.state = "open" /\ "server" \notin p.shut => Holds(D, Unsent(c), W, P)
    <2>1. SUFFICES ASSUME c.state = "open", "server" \notin p.shut PROVE Holds(D, Unsent(c), W, P)
      OBVIOUS
    <2>2. Whole(last)
      BY <1>3, <2>1 DEF Whole, C
    <2>3. Complete(last)
      BY <1>5, <2>2 DEF LineInv
    <2>4. Hello(last) = {0} /\ Unsent(C(last)) = <<>>
      BY <1>5, <1>7 DEF Hello, C
    <2>5. P \ {0} = W
      <3>1. Holds({}, <<>>, W, P \ {0})
        BY <1>6, <2>3, <2>4 DEF Complete, Holds
      <3>2. QED
        BY <3>1, NumbersSmall DEF Holds
    <2>6. 0 \in P
      BY DEF Posted
    <2> DEFINE u == <<named>>
    <2>7. Numbers(u) = {0}
      BY <1>7, NumbersSmall
    <2>8. Sorted(u)
      <3>1. DOMAIN u = {1}
        OBVIOUS
      <3> HIDE DEF u
      <3>2. QED
        BY <3>1 DEF Sorted
    <2> HIDE DEF u, P, W, D
    <2>9. Holds(D, u, W, P)
      BY <1>9, <1>10, <2>5, <2>6, <2>7, <2>8 DEF Holds, Below
    <2>10. QED
      BY <1>8, <2>9 DEF u
  <1>12. \A l \in Id : InQueue(l)' = InQueue(l)
    BY <1>1, SamePosted
  <1>13. e.state = c.state
    BY <1>1, <1>2, SendingSame
  <1>14. sent = Sending("client", c, p) /\ c.state # "none"
    BY <1>3, <1>6
  <1> HIDE DEF hello, b, c, p, q, g, W, P
  <1>15. /\ InLine(q, g, o.to["server"]) /\ Beginning(Stream(q, g, o.to["server"]), P)
         /\ ~broken /\ e.state = "open" /\ "server" \notin o.shut
                => Holds(Stream(q, g, o.to["server"]), Unsent(e), W, P)
         /\ o.shut = p.shut
    <2> HIDE DEF sent
    <2> DEFINE r == Sending("client", c, p)
    <2>1. /\ InLine(q, g, r.p.to["server"]) /\ Beginning(Stream(q, g, r.p.to["server"]), P)
          /\ ~r.closing /\ r.c.state = "open" /\ "server" \notin r.p.shut
                => Holds(Stream(q, g, r.p.to["server"]), Unsent(r.c), W, P)
          /\ r.p.shut = p.shut
      BY <1>1, <1>9, <1>10, <1>11, <1>14, SendingHolds
    <2>2. r = sent
      BY <1>14
    <2> HIDE DEF r
    <2>3. QED
      BY <2>1, <2>2
  <1> HIDE DEF sent, e, o, broken, events
  <1>16. PICK k \in Id : k = last
    BY <1>1
  <1>17. /\ ObjectInv(e) /\ o \in Pipe /\ broken \in BOOLEAN
         /\ Settle("client", k, e, o, events, events, broken)
    BY <1>1, <1>16
  <1>18. /\ UNCHANGED <<asked, last>> /\ greeting' = FALSE /\ (greeting => k = last)
         /\ \A l \in Id : l # k => InQueue(l)' = InQueue(l)
         /\ o.shut = pipe[k].shut
    BY <1>1, <1>12, <1>15, <1>16 DEF p
  <1>19. /\ InLine(log["server"][k], S(k).got, o.to["server"])
         /\ Beginning(Stream(log["server"][k], S(k).got, o.to["server"]), Posted(k))
    BY <1>15, <1>16 DEF q, g, P
  <1>20. ~broken /\ e.state = "open" /\ "server" \notin o.shut
            => Holds(Stream(log["server"][k], S(k).got, o.to["server"]),
                     Unsent(e), InQueue(k)', Posted(k))
    BY <1>12, <1>15, <1>16 DEF q, g, P, W
  <1>21. e.state = "none" => e.writing = FALSE
    BY <1>13, <1>14
  <1>22. QED
    BY <1>17, <1>18, <1>19, <1>20, <1>21, ClientStep

LEMMA OrderAccept == ASSUME LinkInv, BaseInv, OrderInv, Accept PROVE OrderInv'
  <1>1. PICK first \in Reading("server", Opening(NoObject), pipe[last]) :
           LET notices == ClosedNotices("server", first.c, first.closing, FALSE)
           IN  /\ last \in Id /\ conn["server"][last].state = "none"
               /\ ObjectInv(first.c) /\ first.closing \in BOOLEAN /\ notices \in Seq(Event)
               /\ conn'["server"][last] = IF first.closing THEN Closed(first.c) ELSE first.c
               /\ \A l \in Id : conn'["client"][l] = conn["client"][l]
               /\ \A l \in Id : l # last => conn'["server"][l] = conn["server"][l]
               /\ pipe'[last] = IF first.closing THEN ShutPipe("server", pipe[last]) ELSE pipe[last]
               /\ \A l \in Id : l # last => pipe'[l] = pipe[l]
               /\ log'["server"][last] = notices \o <<[what |-> "incoming"]>>
               /\ \A l \in Id : l # last => log'["server"][l] = log["server"][l]
               /\ UNCHANGED <<last, greeting, queue, asked>>
    BY AcceptFacts, Zenon
  <1>2. PICK k \in Id : k = last
    BY <1>1
  <1> DEFINE notices == ClosedNotices("server", first.c, first.closing, FALSE)
             q == notices \o <<[what |-> "incoming"]>>
             w == pipe[k].to["server"]
  <1>3. "server" \in Side /\ "client" \in Side
    BY DEF Side
  <1>4. S(k) = NoObject /\ log["server"][k] = <<>>
    BY <1>1, <1>2 DEF BaseInv, NoneInv, S
  <1>5. S(k).got = <<>>
    BY <1>4 DEF NoObject
  <1>6. S(k)'.got = <<>>
    <2>1. Opening(NoObject) \in PipeConnection /\ Opening(NoObject).got = <<>>
      BY NoObjectInv DEF ObjectInv
    <2> DEFINE d == Opening(NoObject)
    <2>2. /\ first.c.state = d.state /\ first.c.got = d.got /\ first.c.rpc = d.rpc
          /\ first.c.nextSeq = d.nextSeq /\ first.c.writing = d.writing
          /\ first.c.writeQueue = d.writeQueue
          /\ \/ first.closing = FALSE /\ first.c.reading = "pending" /\ d.state # "closed"
             \/ first.closing = TRUE /\ first.c.reading = "no"
      BY <1>1, <1>3, <2>1, ReadingCases
    <2>3. first.c.got = <<>>
      BY <2>1, <2>2
    <2>4. Closed(first.c).got = first.c.got
      BY <1>1, ClosedType
    <2>5. QED
      BY <1>1, <1>2, <2>3, <2>4 DEF S
  <1>7. /\ log'["server"][k] = q /\ \A j \in DOMAIN q : q[j].what # "received"
    BY <1>1, <1>2, AcceptLog
  <1>8. Seen(q) = {} /\ LogSorted(q)
    <2>1. \A j \in DOMAIN q : q[j].what # "received"
      BY <1>7
    <2> HIDE DEF q
    <2>2. Receipts(q) = {}
      BY <2>1 DEF Receipts
    <2>3. QED
      BY <2>2 DEF Seen, LogSorted
  <1> HIDE DEF q
  <1>9. LineInv(k) /\ w \in Seq(Message) /\ Posted(k) \in SUBSET Nat
    BY LineTypes DEF OrderInv
  <1>10. InLine(<<>>, <<>>, w) /\ Beginning(Numbers(w), Posted(k)) /\ Streamed(k) = Numbers(w)
    <2>1. Seen(<<>>) = {}
      BY DEF Seen, Receipts
    <2>2. Streamed(k) = Numbers(w)
      BY <1>4, <1>5, <2>1, NumbersSmall DEF Streamed, Stream
    <2>3. Ordered(k)
      BY <1>9 DEF LineInv
    <2>4. QED
      BY <1>4, <1>5, <2>2, <2>3 DEF Ordered
  <1>11. \A l \in Id : Posted(l)' = Posted(l) /\ InQueue(l)' = InQueue(l) /\ (Greets(l)' <=> Greets(l))
    BY <1>1, SamePosted DEF Greets
  <1>12. \A l \in Id : SameWrites(C(l)', C(l))
    BY <1>1 DEF SameWrites, C
  <1>13. ASSUME NEW l \in Id, l # k PROVE LineInv(l)'
    BY <1>1, <1>2, <1>11, <1>12, <1>13, LineSame DEF OrderInv
  <1>14. LineInv(k)'
    <2>1. CASE first.closing
      <3>1. pipe'[k].to["server"] = <<>> /\ "server" \in pipe'[k].shut
        <4>1. pipe[k] \in Pipe
          BY TypeFacts
        <4>2. QED
          BY <1>1, <1>2, <1>3, <2>1, <4>1, ShutPipeType
      <3>2. Streamed(k)' = {}
        BY <1>6, <1>7, <1>8, <3>1, NumbersSmall DEF Streamed, Stream
      <3>3. InLine(q, <<>>, <<>>)
        BY <1>8, NumbersSmall DEF InLine, Below
      <3>4. Ordered(k)'
        <4>1. InLine(log["server"][k], S(k).got, pipe[k].to["server"])'
          BY <1>6, <1>7, <3>1, <3>3
        <4>2. Beginning(Streamed(k)', Posted(k)')
          BY <1>9, <1>11, <3>2, EmptyLine
        <4>3. QED
          BY <4>1, <4>2 DEF Ordered
      <3>5. QED
        BY <1>9, <1>11, <1>12, <3>1, <3>2, <3>4, LineKept
    <2>2. CASE ~first.closing
      <3>1. pipe'[k] = pipe[k]
        BY <1>1, <1>2, <2>2
      <3>2. Streamed(k)' = Streamed(k)
        BY <1>6, <1>7, <1>8, <1>10, <3>1, NumbersSmall DEF Streamed, Stream
      <3>3. InLine(q, <<>>, w)
        BY <1>8, <1>10, NumbersSmall DEF InLine, Below
      <3>4. Ordered(k)'
        <4>1. InLine(log["server"][k], S(k).got, pipe[k].to["server"])'
          BY <1>6, <1>7, <3>1, <3>3
        <4>2. Beginning(Streamed(k)', Posted(k)')
          BY <1>10, <1>11, <3>2
        <4>3. QED
          BY <4>1, <4>2 DEF Ordered
      <3>5. QED
        BY <1>9, <1>11, <1>12, <3>1, <3>2, <3>4, LineKept
    <2>3. QED
      BY <2>1, <2>2
  <1>15. QED
    BY <1>13, <1>14 DEF OrderInv

\* The launcher discards what was not read, of some pipes.
LEMMA LineCut ==
  ASSUME LinkInv, OrderInv, NEW k \in Id, SameWrites(C(k)', C(k)),
         S(k)'.got = S(k).got, log'["server"][k] = log["server"][k],
         Posted(k)' = Posted(k), InQueue(k)' = InQueue(k), Greets(k)' <=> Greets(k),
         pipe'[k].to["server"] = <<>>, "server" \in pipe'[k].shut
  PROVE  LineInv(k)'
  <1> DEFINE q == log["server"][k]
             g == S(k).got
             w == pipe[k].to["server"]
             P == Posted(k)
  <1>1. LineInv(k)
    BY DEF OrderInv
  <1>2. /\ q \in Seq(Event) /\ g \in Seq(Message) /\ w \in Seq(Message) /\ P \in SUBSET Nat
        /\ InLine(q, g, w) /\ Beginning(Stream(q, g, w), P)
    BY <1>1, LineTypes DEF LineInv, Ordered, Streamed
  <1>3. Streamed(k) = Stream(q, g, w) /\ Streamed(k)' = Stream(q, g, <<>>)
    BY DEF Streamed
  <1> HIDE DEF q, g, w, P
  <1>4. /\ InLine(q, g, <<>>) /\ Stream(q, g, <<>>) \subseteq Stream(q, g, w)
        /\ Beginning(Stream(q, g, <<>>), P)
    BY <1>2, StreamCut
  <1>5. InLine(log["server"][k], S(k).got, pipe[k].to["server"])'
    BY <1>4 DEF q, g
  <1>6. Beginning(Streamed(k)', Posted(k)')
    BY <1>3, <1>4 DEF P
  <1>7. Ordered(k)' /\ Streamed(k)' \subseteq Streamed(k)
    BY <1>3, <1>4, <1>5, <1>6 DEF Ordered
  <1>8. QED
    BY <1>1, <1>7, LineKept

LEMMA OrderCrash == ASSUME LinkInv, OrderInv, Crash PROVE OrderInv'
  <1>1. /\ \A l \in Id : conn'["client"][l] = NoObject /\ conn'["server"][l] = conn["server"][l]
        /\ \A l \in Id : pipe'[l] = ShutPipe("client", pipe[l]) \/ pipe'[l] = pipe[l]
        /\ greeting' = FALSE
        /\ UNCHANGED <<last, log, asked>>
    BY CrashFacts
  <1>2. "client" \in Side /\ "server" \in Side /\ "server" # "client"
    BY DEF Side
  <1>3. \A l \in Id : pipe'[l].to["server"] = pipe[l].to["server"]
    <2> TAKE l \in Id
    <2>1. pipe[l] \in Pipe
      BY TypeFacts
    <2>2. QED
      BY <1>1, <1>2, <2>1, ShutPipeType
  <1>4. NoObject.state = "none" /\ NoObject.writing = FALSE
    BY DEF NoObject
  <1>5. \A l \in Id : Posted(l)' = Posted(l)
    BY <1>1, SamePosted
  <1>6. ASSUME NEW l \in Id PROVE LineInv(l)'
    <2>1. LineInv(l)
      BY DEF OrderInv
    <2>2. Streamed(l)' = Streamed(l)
      BY <1>1, <1>3 DEF Streamed, S
    <2>3. Ordered(l)'
      <3>1. InLine(log["server"][l], S(l).got, pipe[l].to["server"])'
        BY <1>1, <1>3, <2>1 DEF LineInv, Ordered, S
      <3>2. Beginning(Streamed(l)', Posted(l)')
        BY <1>5, <2>1, <2>2 DEF LineInv, Ordered
      <3>3. QED
        BY <3>1, <3>2 DEF Ordered
    <2>4. ~Whole(l)' /\ ~Greets(l)' /\ C(l)'.writing = FALSE
      BY <1>1, <1>4 DEF Whole, Greets, C
    <2>5. QED
      BY <2>3, <2>4 DEF LineInv
  <1>7. QED
    BY <1>6 DEF OrderInv

LEMMA OrderStopClient == ASSUME LinkInv, BaseInv, OrderInv, StopClient PROVE OrderInv'
  <1>1. /\ UNCHANGED <<last, greeting, queue, asked>> /\ ~greeting
        /\ \/ UNCHANGED <<conn, pipe, listed, log, answers>>
           \/ \E k \in Id :
                 /\ ObjectInv(conn["client"][k]) /\ pipe[k] \in Pipe
                 /\ Settle("client", k, conn["client"][k], pipe[k], <<>>, <<>>, TRUE)
    BY StopClientFacts
  <1>2. CASE UNCHANGED <<conn, pipe, listed, log, answers>>
    BY <1>1, <1>2, OrderQuiet
  <1>3. ASSUME NEW k \in Id, ObjectInv(conn["client"][k]), pipe[k] \in Pipe,
               Settle("client", k, conn["client"][k], pipe[k], <<>>, <<>>, TRUE)
        PROVE  OrderInv'
    <2> DEFINE c == conn["client"][k]
               p == pipe[k]
               events == <<>>
               closing == TRUE
    <2>1. /\ ObjectInv(c) /\ p \in Pipe /\ p.shut = pipe[k].shut /\ closing = TRUE
          /\ Settle("client", k, c, p, events, events, closing)
      BY <1>3
    <2>2. LineInv(k)
      BY DEF OrderInv
    <2>3. c.state = "none" => c.writing = FALSE
      BY <2>2 DEF LineInv, C
    <2>4. InLine(log["server"][k], S(k).got, p.to["server"])
          /\ Beginning(Stream(log["server"][k], S(k).got, p.to["server"]), Posted(k))
      BY <2>2 DEF LineInv, Ordered, Streamed
    <2>5. \A l \in Id : InQueue(l)' = InQueue(l)
      BY <1>1, SamePosted
    <2>6. greeting' = FALSE
      <3>1. greeting \in BOOLEAN
        BY RestFacts
      <3>2. QED
        BY <1>1, <3>1
    <2> HIDE DEF c, p, events, closing
    <2>7. QED
      BY <1>1, <2>1, <2>3, <2>4, <2>5, <2>6, ClientStep
  <1>4. QED
    BY <1>1, <1>2, <1>3

LEMMA OrderStopServer == ASSUME LinkInv, OrderInv, StopServer PROVE OrderInv'
  <1>1. /\ \A l \in Id : conn'["client"][l] = conn["client"][l]
        /\ \A l \in Id : conn'["server"][l] =
              IF l \in listed["server"] /\ conn["server"][l].state = "open"
              THEN Closed(conn["server"][l]) ELSE conn["server"][l]
        /\ \A l \in Id : \/ pipe'[l] = ShutPipe("server", pipe[l])
                         \/ pipe'[l] = pipe[l]
        /\ UNCHANGED <<last, greeting, queue, log, asked>>
    BY StopServerFacts
  <1>2. "client" \in Side /\ "server" \in Side
    BY DEF Side
  <1>3. \A l \in Id : conn'["server"][l].got = conn["server"][l].got
    <2> TAKE l \in Id
    <2>1. ObjectInv(conn["server"][l])
      BY <1>2, TypeFacts
    <2>2. Closed(conn["server"][l]).got = conn["server"][l].got
      BY <2>1, ClosedType
    <2>3. QED
      BY <1>1, <2>2
  <1>4. \A l \in Id : Posted(l)' = Posted(l) /\ InQueue(l)' = InQueue(l) /\ (Greets(l)' <=> Greets(l))
    BY <1>1, SamePosted DEF Greets
  <1>5. \A l \in Id : SameWrites(C(l)', C(l))
    BY <1>1 DEF SameWrites, C
  <1>6. ASSUME NEW l \in Id PROVE LineInv(l)'
    <2>1. CASE pipe'[l] = pipe[l]
      BY <1>1, <1>3, <1>4, <1>5, <2>1, LineSame DEF OrderInv
    <2>2. CASE pipe'[l] = ShutPipe("server", pipe[l])
      <3>1. pipe[l] \in Pipe
        BY TypeFacts
      <3>2. pipe'[l].to["server"] = <<>> /\ "server" \in pipe'[l].shut
        BY <1>2, <2>2, <3>1, ShutPipeType
      <3>3. S(l)'.got = S(l).got /\ log'["server"][l] = log["server"][l]
        BY <1>1, <1>3 DEF S
      <3>4. QED
        BY <1>4, <1>5, <3>2, <3>3, LineCut
    <2>3. QED
      BY <1>1, <2>1, <2>2
  <1>7. QED
    BY <1>6 DEF OrderInv

LEMMA InitOrder == Init => OrderInv
  <1> SUFFICES ASSUME Init PROVE OrderInv
    OBVIOUS
  <1>1. /\ \A s \in Side, k \in Id : conn[s][k] = NoObject /\ log[s][k] = <<>>
        /\ \A s \in Side, k \in Id : pipe[k].to[s] = <<>>
        /\ greeting = FALSE
    BY DEF Init
  <1>2. "client" \in Side /\ "server" \in Side
    BY DEF Side
  <1>3. NoObject.state = "none" /\ NoObject.writing = FALSE /\ NoObject.got = <<>>
    BY DEF NoObject
  <1>4. ASSUME NEW k \in Id PROVE LineInv(k)
    <2>1. S(k).got = <<>> /\ log["server"][k] = <<>> /\ pipe[k].to["server"] = <<>>
      BY <1>1, <1>2, <1>3 DEF S
    <2>2. Streamed(k) = {} /\ InLine(log["server"][k], S(k).got, pipe[k].to["server"])
      BY <2>1, EmptyLine DEF Streamed
    <2>3. Posted(k) \in SUBSET Nat
      <3>1. DOMAIN asked = {}
        BY DEF Init
      <3>2. QED
        BY <3>1 DEF Posted
    <2>4. Ordered(k)
      BY <2>2, <2>3, EmptyLine DEF Ordered
    <2>5. ~Whole(k) /\ ~Greets(k) /\ C(k).writing = FALSE
      BY <1>1, <1>2, <1>3 DEF Whole, Greets, C
    <2>6. QED
      BY <2>4, <2>5 DEF LineInv
  <1>5. QED
    BY <1>4 DEF OrderInv

LEMMA NextOrder ==
  ASSUME LinkInv, BaseInv, OrderInv, [Next]_vars
  PROVE  OrderInv'
  <1>1. CASE UNCHANGED vars
    BY <1>1, OrderQuiet DEF vars
  <1>2. ASSUME NEW k \in Id, Welcome(k) PROVE OrderInv'
    BY <1>2, WelcomeFacts, OrderQuiet
  <1>3. ASSUME NEW n \in DOMAIN asked, Reply(n) PROVE OrderInv'
    BY <1>3, ReplyFacts, OrderQuiet
  <1>4. ASSUME NEW s \in Side, QueuedSend(s) PROVE OrderInv'
    BY <1>4, OrderQueuedSendServer, OrderQueuedSendClient DEF Side
  <1>5. CASE Next
    BY <1>2, <1>3, <1>4, <1>5, NextSplit, OrderPost, OrderCompleteRead,
       OrderHandleReadComplete, OrderHandleReadError, OrderHandleWriteComplete, OrderConnect,
       OrderGreet, OrderAccept, OrderCrash, OrderStopClient, OrderStopServer
  <1>6. QED
    BY <1>1, <1>5

\* The lines say what InOrder says of the logs.
LEMMA LinesOrdered ==
  ASSUME LinkInv, OrderInv
  PROVE  InOrder
  <1> SUFFICES ASSUME NEW k \in Id, NEW i \in DOMAIN log["server"][k],
                      log["server"][k][i].what = "received"
               PROVE  LET n == log["server"][k][i].m.n
                      IN  /\ n \in Posted(k)
                          /\ ReceivedBefore(k, i) = {x \in Posted(k) : x < n}
    BY DEF InOrder
  <1> DEFINE q == log["server"][k]
             n == q[i].m.n
             g == S(k).got
             w == pipe[k].to["server"]
  <1>1. /\ q \in Seq(Event) /\ Len(q) \in Nat /\ DOMAIN q = 1..Len(q)
        /\ Streamed(k) \subseteq Nat /\ Posted(k) \subseteq Nat
    BY LineTypes, LenProperties
  <1>2. /\ LogSorted(q) /\ Below(Seen(q), Numbers(g)) /\ Below(Seen(q), Numbers(w))
        /\ Beginning(Streamed(k), Posted(k)) /\ Streamed(k) = Seen(q) \cup Numbers(g) \cup Numbers(w)
    BY DEF OrderInv, LineInv, Ordered, InLine, Streamed, Stream
  <1>3. \A j \in 1 .. i - 1 : j \in DOMAIN q /\ j < i
    BY <1>1
  <1>4. ReceivedBefore(k, i) = {q[j].m.n : j \in {j \in 1 .. i - 1 : q[j].what = "received"}}
    BY DEF ReceivedBefore
  <1>5. i \in Receipts(q)
    BY DEF Receipts
  <1>6. n \in Seen(q) /\ n \in Nat /\ n \in Posted(k)
    <2>1. n \in Seen(q)
      BY <1>5 DEF Seen
    <2> HIDE DEF n, q
    <2>2. QED
      BY <1>1, <1>2, <2>1 DEF Beginning
  <1>7. \A j, l \in Receipts(q) : j < l => q[j].m.n < q[l].m.n
    BY <1>2 DEF LogSorted
  <1> HIDE DEF q
  <1>8. ASSUME NEW x \in ReceivedBefore(k, i) PROVE x \in Posted(k) /\ x < n
    <2>1. PICK j \in 1 .. i - 1 : q[j].what = "received" /\ x = q[j].m.n
      BY <1>4
    <2>2. j \in Receipts(q) /\ j < i
      BY <1>3, <2>1 DEF Receipts
    <2>3. x < n
      BY <1>5, <1>7, <2>1, <2>2
    <2>4. x \in Seen(q)
      BY <2>1, <2>2 DEF Seen
    <2>5. QED
      BY <1>2, <2>3, <2>4 DEF Beginning
  <1>9. ASSUME NEW x \in Posted(k), x < n PROVE x \in ReceivedBefore(k, i)
    <2> HIDE DEF n
    <2>1. x \in Nat
      BY <1>1
    <2>2. x \in Streamed(k)
      BY <1>2, <1>6, <1>9 DEF Beginning
    <2>3. x \notin Numbers(g) /\ x \notin Numbers(w)
      BY <1>2, <1>6, <1>9, <2>1 DEF Below
    <2>4. x \in Seen(q)
      BY <1>2, <2>2, <2>3
    <2>5. PICK j \in Receipts(q) : x = q[j].m.n
      BY <2>4 DEF Seen
    <2>6. j \in DOMAIN q /\ q[j].what = "received"
      BY <2>5 DEF Receipts
    <2>7. j < i
      <3>1. j \in Nat /\ i \in Nat
        BY <1>1, <1>5, <2>6 DEF Receipts
      <3>2. j # i
        BY <1>6, <1>9, <2>1, <2>5 DEF n
      <3>3. ~(i < j)
        <4>1. i < j => n < x
          BY <1>5, <1>7, <2>5 DEF n
        <4>2. QED
          BY <1>6, <1>9, <2>1, <4>1
      <3>4. QED
        BY <3>1, <3>2, <3>3
    <2>8. j \in 1 .. i - 1
      BY <1>1, <1>5, <2>6, <2>7 DEF Receipts
    <2>9. QED
      BY <1>4, <2>5, <2>6, <2>8
  <1>10. ReceivedBefore(k, i) = {x \in Posted(k) : x < n}
    BY <1>8, <1>9
  <1>11. QED
    BY <1>6, <1>10 DEF q

LEMMA AlwaysOrder == Spec => []OrderInv
  <1>1. LinkInv /\ BaseInv /\ OrderInv /\ [Next]_vars => OrderInv'
    BY NextOrder
  <1>2. QED
    BY <1>1, InitOrder, AlwaysLink, AlwaysBase, PTL DEF Spec

\* On every connection the launcher's main thread receives the identification and
\* then a beginning of what the client posted to it, in order and without gaps:
\* one queue for the pipe thread, one write at a time, one read at a time, and the
\* notifications of one connection posted by one thread (InternalBeginSend,
\* InternalBeginRead, NamedPipeServer's callbacks).
THEOREM InOrderCorrect == Spec => []InOrder
  <1>1. LinkInv /\ OrderInv => InOrder
    BY LinesOrdered
  <1>2. QED
    BY <1>1, AlwaysOrder, AlwaysLink, PTL

-----------------------------------------------------------------------------
(* CallAccounted.  A call is in the queue of the pipe thread, registered in *)
(* one object, or answered.  Its request is found by the sequence of the    *)
(* reply, so what travels with that sequence must carry the same call.      *)

\* What may travel over a connection whose client's object is c: a call or a
\* reply has the sequence of the request it belongs to, if that is registered.
Matches(c, m) ==
    m.mode # "message" =>
        /\ m.seq > 0
        /\ c.state = "open" => m.seq < c.nextSeq /\ \A r \in c.rpc : r.seq = m.seq => r.n = m.n
Matching(c) == {m \in Message : Matches(c, m)}

\* Requests are of an open connection, and told apart by sequence and by call.
Requests(c) ==
    /\ c.nextSeq > 0
    /\ c.state # "open" => c.rpc = {}
    /\ \A r \in c.rpc : r.seq < c.nextSeq
    /\ \A r, t \in c.rpc : r.seq = t.seq \/ r.n = t.n => r = t

\* Everything under way on connection k is in M.
Buffers(c, M) == c.got \in Seq(M) /\ c.writeQueue \in Seq(M)
Heard(q, M) == \A i \in Receipts(q) : q[i].m \in M
Carried(k, M) ==
    /\ \A s \in Side : Buffers(conn[s][k], M) /\ pipe[k].to[s] \in Seq(M)
    /\ Heard(log["server"][k], M)
Replies(k, M) ==
    \A i \in DOMAIN queue["server"] : queue["server"][i].k = k => queue["server"][i].m \in M

MatchInv ==
    /\ \A i \in DOMAIN queue["server"] : queue["server"][i].k <= last
    /\ \A k \in Id : Requests(C(k)) /\ Carried(k, Matching(C(k))) /\ Replies(k, Matching(C(k)))

LEMMA MatchingType == ASSUME NEW c PROVE Matching(c) \subseteq Message
  BY DEF Matching

\* A request that is dropped, a new sequence, and the end of the connection
\* leave what matches.
LEMMA MatchingGrows ==
  ASSUME NEW c, NEW d, c.nextSeq \in Nat, d.nextSeq \in Nat,
         d.state = "open" =>
            /\ c.state = "open" /\ c.nextSeq <= d.nextSeq
            /\ \A r \in d.rpc : r \in c.rpc \/ r.seq = c.nextSeq
  PROVE  Matching(c) \subseteq Matching(d)
  <1> SUFFICES ASSUME NEW m \in Message, Matches(c, m) PROVE Matches(d, m)
    BY DEF Matching
  <1>1. m.seq \in Nat
    BY DEF Message
  <1>2. CASE m.mode = "message"
    BY <1>2 DEF Matches
  <1>3. CASE m.mode # "message" /\ d.state # "open"
    BY <1>3 DEF Matches
  <1>4. CASE m.mode # "message" /\ d.state = "open"
    <2>1. /\ m.seq > 0 /\ m.seq < c.nextSeq
          /\ \A r \in c.rpc : r.seq = m.seq => r.n = m.n
      BY <1>4 DEF Matches
    <2>2. m.seq < d.nextSeq
      BY <1>1, <1>4, <2>1
    <2>3. m.seq # c.nextSeq
      BY <1>1, <2>1
    <2>4. \A r \in d.rpc : r.seq = m.seq => r.n = m.n
      BY <1>4, <2>1, <2>3
    <2>5. QED
      BY <2>1, <2>2, <2>4 DEF Matches
  <1>5. QED
    BY <1>2, <1>3, <1>4

LEMMA HeardConcat ==
  ASSUME NEW q \in Seq(Event), NEW e \in Seq(Event), NEW M, Heard(q, M), Heard(e, M)
  PROVE  Heard(q \o e, M)
  <1> DEFINE r == q \o e
  <1>1. \A i \in DOMAIN r : \/ i \in DOMAIN q /\ r[i] = q[i]
                            \/ i \notin DOMAIN q /\ i - Len(q) \in DOMAIN e /\ r[i] = e[i - Len(q)]
    BY ConcatElements
  <1> HIDE DEF r
  <1>2. Heard(r, M)
    BY <1>1 DEF Heard, Receipts
  <1>3. QED
    BY <1>2 DEF r

LEMMA CarriedGrows ==
  ASSUME NEW k, NEW M, NEW N, M \subseteq N
  PROVE  /\ Carried(k, M) => Carried(k, N)
         /\ Replies(k, M) => Replies(k, N)
         /\ \A c : Buffers(c, M) => Buffers(c, N)
         /\ Seq(M) \subseteq Seq(N)
  <1>1. Seq(M) \subseteq Seq(N)
    OBVIOUS
  <1>2. \A c : Buffers(c, M) => Buffers(c, N)
    BY <1>1 DEF Buffers
  <1>3. Carried(k, M) => Carried(k, N)
    BY <1>1, <1>2 DEF Carried, Heard
  <1>4. Replies(k, M) => Replies(k, N)
    BY DEF Replies
  <1>5. QED
    BY <1>1, <1>2, <1>3, <1>4

\* A step of a pipe thread on k, with what it writes and reports in M.
LEMMA SettleCarried ==
  ASSUME LinkInv, NEW s \in Side, NEW k \in Id, NEW c, ObjectInv(c), NEW p \in Pipe,
         NEW events \in Seq(Event), NEW results, NEW closing \in BOOLEAN,
         Settle(s, k, c, p, events, results, closing),
         NEW M, Carried(k, M), Buffers(c, M),
         \A t \in Side : p.to[t] \in Seq(M), Heard(events, M)
  PROVE  /\ Carried(k, M)'
         /\ \A l \in Id, N \in SUBSET Message : l # k /\ Carried(l, N) => Carried(l, N)'
  <1> DEFINE after == IF closing THEN Closed(c) ELSE c
             destroyed == /\ k \notin Listed(s, k, c, closing)
                          /\ after.reading = "no" /\ ~after.writing /\ ~after.leaked
             notices == ClosedNotices(s, c, closing, destroyed)
             object == IF destroyed THEN Closed(NoObject) ELSE after
             q == log[s][k]
  <1>1. "server" \in Side /\ "client" \in Side /\ "client" # "server"
    BY DEF Side
  <1>2. PICK ended : SettledTo(s, k, c, p, events, results, closing, ended)
    BY SettleFacts
  <1>3. /\ conn'[s][k] = object
        /\ \A t \in Side, l \in Id : t # s \/ l # k => conn'[t][l] = conn[t][l]
        /\ pipe'[k] = (IF closing THEN ShutPipe(s, p) ELSE p)
        /\ \A l \in Id : l # k => pipe'[l] = pipe[l]
        /\ log'[s][k] = q \o events \o notices
        /\ \A t \in Side, l \in Id : t # s \/ l # k => log'[t][l] = log[t][l]
    BY <1>2 DEF SettledTo
  <1>4. notices \in Seq(Event) /\ Heard(notices, M)
    <2>1. destroyed \in BOOLEAN
      OBVIOUS
    <2> HIDE DEF destroyed
    <2>2. notices \in Seq(Event)
      BY <2>1, ClosedNoticesType
    <2>3. CASE s = "server"
      <3>1. \A i \in DOMAIN notices : notices[i].what = "closed"
        BY <2>1, <2>3, ClosedNoticesFacts
      <3>2. QED
        BY <2>2, <3>1 DEF Heard, Receipts
    <2>4. CASE s = "client"
      <3>1. notices = <<>>
        BY <2>1, <2>4, ClosedNoticesFacts
      <3>2. DOMAIN <<>> = {}
        OBVIOUS
      <3>3. QED
        BY <2>2, <3>1, <3>2 DEF Heard, Receipts
    <2>5. QED
      BY <2>3, <2>4 DEF Side
  <1>5. Buffers(object, M)
    <2>1. /\ after.got = c.got /\ after.writeQueue = c.writeQueue
      BY ClosedType
    <2>2. Closed(NoObject).got = <<>> /\ Closed(NoObject).writeQueue = <<>>
      BY NoObjectInv, ClosedType DEF NoObject
    <2>3. <<>> \in Seq(M)
      BY EmptySeq
    <2> HIDE DEF destroyed, after
    <2>4. QED
      BY <2>1, <2>2, <2>3 DEF Buffers
  <1>6. \A t \in Side : pipe'[k].to[t] \in Seq(M)
    <2> TAKE t \in Side
    <2>1. ShutPipe(s, p).to[t] = <<>> \/ ShutPipe(s, p).to[t] = p.to[t]
      BY DEF ShutPipe
    <2>2. <<>> \in Seq(M) /\ p.to[t] \in Seq(M)
      BY EmptySeq
    <2> DEFINE shut == ShutPipe(s, p)
    <2> HIDE DEF shut
    <2>3. CASE closing
      <3>1. pipe'[k] = shut
        BY <1>3, <2>3 DEF shut
      <3>2. shut.to[t] = <<>> \/ shut.to[t] = p.to[t]
        BY <2>1, Zenon DEF shut
      <3>3. QED
        BY <2>2, <3>1, <3>2
    <2>4. CASE ~closing
      BY <1>3, <2>2, <2>4
    <2>5. QED
      BY <2>3, <2>4
  <1>7. s = "server" => Heard(log'["server"][k], M)
    <2>1. log["server"][k] \in Seq(Event) /\ Heard(log["server"][k], M)
      BY <1>1, TypeFacts DEF Carried
    <2>2. Heard(log["server"][k] \o events, M) /\ log["server"][k] \o events \in Seq(Event)
      BY <2>1, HeardConcat, ConcatElements
    <2> HIDE DEF notices
    <2>3. Heard((log["server"][k] \o events) \o notices, M)
      BY <1>4, <2>2, HeardConcat
    <2>4. QED
      BY <1>3, <2>3
  <1> HIDE DEF object, notices, q
  <1>8. Heard(log'["server"][k], M)
    BY <1>1, <1>3, <1>7 DEF Carried
  <1>9. \A t \in Side : Buffers(conn'[t][k], M)
    BY <1>3, <1>5 DEF Carried
  <1>10. Carried(k, M)'
    BY <1>6, <1>8, <1>9 DEF Carried
  <1>11. ASSUME NEW l \in Id, NEW N \in SUBSET Message, l # k, Carried(l, N)
         PROVE  Carried(l, N)'
    <2>1. /\ \A t \in Side : conn'[t][l] = conn[t][l] /\ log'["server"][l] = log["server"][l]
          /\ pipe'[l] = pipe[l]
      BY <1>1, <1>3, <1>11
    <2>2. QED
      BY <1>11, <2>1 DEF Carried
  <1>12. QED
    BY <1>10, <1>11

\* Each call is in one place.
Names(R) == {r.n : r \in R}
Queued == {queue["client"][i].m.n : i \in DOMAIN queue["client"]}
DistinctNumbers(a) == \A i, j \in DOMAIN a : a[i].n = a[j].n => i = j

CallInv ==
    /\ called \subseteq DOMAIN asked
    /\ \A i \in DOMAIN queue["client"] :
          queue["client"][i].m.mode = "call" <=> queue["client"][i].m.n \in called
    /\ DistinctNumbers(answers) /\ Numbers(answers) \subseteq called
    /\ \A k \in Id : Names(C(k).rpc) \subseteq called
    /\ \A n \in called : n \in Queued \/ n \in Numbers(answers) \/ \E k \in Id : n \in Names(C(k).rpc)
    /\ Queued \cap Numbers(answers) = {}
    /\ \A k \in Id : Names(C(k).rpc) \cap (Queued \cup Numbers(answers)) = {}
    /\ \A k, l \in Id : k # l => Names(C(k).rpc) \cap Names(C(l).rpc) = {}

LEMMA DistinctConcat ==
  ASSUME NEW T, NEW q \in Seq(T), NEW e \in Seq(T)
  PROVE  /\ Numbers(q \o e) = Numbers(q) \cup Numbers(e)
         /\ DistinctNumbers(q) /\ DistinctNumbers(e) /\ Numbers(q) \cap Numbers(e) = {} => DistinctNumbers(q \o e)
  <1> DEFINE r == q \o e
  <1>1. /\ \A i \in DOMAIN r :
               \/ i \in DOMAIN q /\ r[i] = q[i]
               \/ i \notin DOMAIN q /\ i - Len(q) \in DOMAIN e /\ r[i] = e[i - Len(q)]
        /\ \A i \in DOMAIN q : i \in DOMAIN r /\ r[i] = q[i]
        /\ \A j \in DOMAIN e : j + Len(q) \in DOMAIN r /\ r[j + Len(q)] = e[j]
        /\ Len(q) \in Nat /\ DOMAIN r \subseteq Nat
    BY ConcatElements
  <1> HIDE DEF r
  <1>2. Numbers(r) = Numbers(q) \cup Numbers(e)
    <2>1. \A x \in Numbers(r) : x \in Numbers(q) \cup Numbers(e)
      BY <1>1 DEF Numbers
    <2>2. \A x \in Numbers(q) : x \in Numbers(r)
      BY <1>1 DEF Numbers
    <2>3. \A x \in Numbers(e) : x \in Numbers(r)
      BY <1>1 DEF Numbers
    <2>4. QED
      BY <2>1, <2>2, <2>3
  <1>3. ASSUME DistinctNumbers(q), DistinctNumbers(e), Numbers(q) \cap Numbers(e) = {},
               NEW i \in DOMAIN r, NEW j \in DOMAIN r, r[i].n = r[j].n
        PROVE  i = j
    <2>1. CASE i \in DOMAIN q /\ j \in DOMAIN q
      BY <1>1, <1>3, <2>1 DEF DistinctNumbers
    <2>2. CASE i \notin DOMAIN q /\ j \notin DOMAIN q
      <3>1. i - Len(q) = j - Len(q)
        BY <1>1, <1>3, <2>2 DEF DistinctNumbers
      <3>2. QED
        BY <1>1, <3>1
    <2>3. CASE i \in DOMAIN q /\ j \notin DOMAIN q
      <3>1. r[i].n \in Numbers(q) /\ r[j].n \in Numbers(e)
        BY <1>1, <2>3 DEF Numbers
      <3>2. QED
        BY <1>3, <3>1
    <2>4. CASE i \notin DOMAIN q /\ j \in DOMAIN q
      <3>1. r[j].n \in Numbers(q) /\ r[i].n \in Numbers(e)
        BY <1>1, <2>4 DEF Numbers
      <3>2. QED
        BY <1>3, <3>1
    <2>5. QED
      BY <2>1, <2>2, <2>3, <2>4
  <1>4. QED
    BY <1>2, <1>3 DEF DistinctNumbers, r

LEMMA EndedFacts ==
  ASSUME NEW c, ObjectInv(c), \A r, t \in c.rpc : r.n = t.n => r = t, NEW closing \in BOOLEAN,
         NEW ended \in (IF closing THEN ClosedAnswers(c) ELSE {<<>>})
  PROVE  /\ ended \in Seq(Answer) /\ DistinctNumbers(ended)
         /\ Numbers(ended) = IF closing THEN Names(c.rpc) ELSE {}
  <1>1. CASE closing
    <2>1. /\ ended \in Seq(Answer)
          /\ \A i \in DOMAIN ended : \E r \in c.rpc : r.n = ended[i].n
          /\ \A r \in c.rpc : \E i \in DOMAIN ended : ended[i].n = r.n
          /\ \A i, j \in DOMAIN ended : ended[i].n = ended[j].n => i = j
      BY <1>1, ClosedAnswersType
    <2>2. Numbers(ended) = Names(c.rpc)
      BY <2>1 DEF Numbers, Names
    <2>3. QED
      BY <1>1, <2>1, <2>2 DEF DistinctNumbers
  <1>2. CASE ~closing
    <2>1. ended = <<>> /\ DOMAIN <<>> = {}
      BY <1>2
    <2>2. QED
      BY <1>2, <2>1, EmptySeq DEF Numbers, DistinctNumbers
  <1>3. QED
    BY <1>1, <1>2

\* The calls in T leave the queue or the object of k, and are registered there
\* or answered.
LEMMA CallsMoved ==
  ASSUME LinkInv, CallInv, NEW k \in Id, UNCHANGED <<asked, called>>,
         \A l \in Id : l # k => C(l)'.rpc = C(l).rpc,
         NEW new \in Seq(Answer), DistinctNumbers(new), answers' = answers \o new,
         Queued' \subseteq Queued,
         \A i \in DOMAIN queue'["client"] :
            queue'["client"][i].m.mode = "call" <=> queue'["client"][i].m.n \in called,
         NEW T, T \subseteq called, Names(C(k).rpc) \subseteq T,
         T \subseteq Names(C(k).rpc) \cup (Queued \ Queued'),
         (Queued \ Queued') \cap called \subseteq T,
         T = Names(C(k)'.rpc) \cup Numbers(new), Names(C(k)'.rpc) \cap Numbers(new) = {}
  PROVE  CallInv'
  <1> DEFINE R == Names(C(k)'.rpc)
             N == Numbers(new)
             A == Numbers(answers)
  <1>1. answers \in Seq(Answer)
    BY TypeFacts
  <1>2. /\ Numbers(answers') = A \cup N
        /\ DistinctNumbers(answers) /\ A \cap N = {} => DistinctNumbers(answers')
    BY <1>1, DistinctConcat
  <1>3. A \cap T = {} /\ T \cap Queued' = {}
    BY DEF CallInv
  <1>4. \A l \in Id : l # k => Names(C(l)'.rpc) = Names(C(l).rpc) /\ Names(C(l).rpc) \cap T = {}
    BY DEF CallInv
  <1> HIDE DEF R, N, A
  <1>5. DistinctNumbers(answers') /\ Numbers(answers') \subseteq called
    BY <1>2, <1>3 DEF CallInv, A, N
  <1>6. ASSUME NEW n \in called
        PROVE  n \in Queued' \/ n \in Numbers(answers') \/ \E l \in Id : n \in Names(C(l)'.rpc)
    <2>1. CASE n \in T
      BY <1>2, <2>1 DEF R, N
    <2>2. CASE n \notin T
      <3>1. n \in Queued \/ n \in A \/ \E l \in Id : n \in Names(C(l).rpc)
        BY DEF CallInv, A
      <3>2. CASE n \in Queued
        BY <2>2, <3>2
      <3>3. CASE n \in A
        BY <1>2, <3>3
      <3>4. CASE \E l \in Id : n \in Names(C(l).rpc)
        BY <1>4, <2>2, <3>4
      <3>5. QED
        BY <3>1, <3>2, <3>3, <3>4
    <2>3. QED
      BY <2>1, <2>2
  <1>7. Queued' \cap Numbers(answers') = {}
    BY <1>2, <1>3 DEF CallInv, A, N
  <1>8. \A l \in Id : Names(C(l)'.rpc) \subseteq called /\ Names(C(l)'.rpc) \cap (Queued' \cup Numbers(answers')) = {}
    <2>1. R \subseteq called /\ R \cap (Queued' \cup Numbers(answers')) = {}
      BY <1>2, <1>3 DEF R, N
    <2>2. \A l \in Id : l # k => Names(C(l).rpc) \subseteq called
                                 /\ Names(C(l).rpc) \cap (Queued' \cup Numbers(answers')) = {}
      BY <1>2, <1>4 DEF CallInv, A, N
    <2>3. QED
      BY <1>4, <2>1, <2>2 DEF R
  <1>9. \A l, j \in Id : l # j => Names(C(l)'.rpc) \cap Names(C(j)'.rpc) = {}
    <2> TAKE l, j \in Id
    <2> HAVE l # j
    <2>1. R \subseteq T
      BY DEF R
    <2>2. CASE l = k
      BY <1>4, <2>1, <2>2 DEF R
    <2>3. CASE j = k
      BY <1>4, <2>1, <2>3 DEF R
    <2>4. CASE l # k /\ j # k
      BY <1>4, <2>4 DEF CallInv
    <2>5. QED
      BY <2>2, <2>3, <2>4
  <1>10. called' \subseteq DOMAIN asked'
    BY DEF CallInv
  <1>11. QED
    BY <1>5, <1>6, <1>7, <1>8, <1>9, <1>10 DEF CallInv

\* Steps that touch no call.
LEMMA CallsKept ==
  ASSUME CallInv, UNCHANGED <<asked, called, answers>>, queue'["client"] = queue["client"],
         \A l \in Id : C(l)'.rpc = C(l).rpc
  PROVE  CallInv'
  <1>1. Queued' = Queued
    BY DEF Queued
  <1>2. \A l \in Id : Names(C(l)'.rpc) = Names(C(l).rpc)
    OBVIOUS
  <1>3. DistinctNumbers(answers)' /\ Numbers(answers)' \subseteq called
    BY DEF CallInv
  <1>4. \A n \in called : n \in Queued' \/ n \in Numbers(answers)' \/ \E k \in Id : n \in Names(C(k)'.rpc)
    BY <1>1, <1>2 DEF CallInv
  <1>5. QED
    BY <1>1, <1>2, <1>3, <1>4 DEF CallInv

\* A step of the client's pipe thread in which the calls in T leave the queue or
\* the object of k, and are registered in c or answered with results.
CallStep(k, c, results, closing, T) ==
    /\ UNCHANGED <<asked, called>>
    /\ \A r, t \in c.rpc : r.n = t.n => r = t
    /\ c.rpc # {} /\ ~closing => k \in listed["client"]
    /\ results \in Seq(Answer) /\ DistinctNumbers(results) /\ Numbers(results) \cap Names(c.rpc) = {}
    /\ Queued' \subseteq Queued
    /\ \A i \in DOMAIN queue'["client"] :
          queue'["client"][i].m.mode = "call" <=> queue'["client"][i].m.n \in called
    /\ T \subseteq called /\ Names(C(k).rpc) \subseteq T
    /\ T \subseteq Names(C(k).rpc) \cup (Queued \ Queued')
    /\ (Queued \ Queued') \cap called \subseteq T
    /\ T = Names(c.rpc) \cup Numbers(results)

LEMMA SettleCalls ==
  ASSUME LinkInv, CallInv, NEW k \in Id, NEW c, ObjectInv(c), NEW p, NEW events,
         NEW results, NEW closing \in BOOLEAN, NEW T,
         Settle("client", k, c, p, events, results, closing),
         CallStep(k, c, results, closing, T)
  PROVE  CallInv'
  <1> /\ UNCHANGED <<asked, called>>
      /\ \A r, t \in c.rpc : r.n = t.n => r = t
      /\ c.rpc # {} /\ ~closing => k \in listed["client"]
      /\ results \in Seq(Answer) /\ DistinctNumbers(results) /\ Numbers(results) \cap Names(c.rpc) = {}
      /\ Queued' \subseteq Queued
      /\ \A i \in DOMAIN queue'["client"] :
            queue'["client"][i].m.mode = "call" <=> queue'["client"][i].m.n \in called
      /\ T \subseteq called /\ Names(C(k).rpc) \subseteq T
      /\ T \subseteq Names(C(k).rpc) \cup (Queued \ Queued')
      /\ (Queued \ Queued') \cap called \subseteq T
      /\ T = Names(c.rpc) \cup Numbers(results)
    BY Zenon DEF CallStep
  <1> DEFINE after == IF closing THEN Closed(c) ELSE c
             destroyed == /\ k \notin Listed("client", k, c, closing)
                          /\ after.reading = "no" /\ ~after.writing /\ ~after.leaked
             object == IF destroyed THEN Closed(NoObject) ELSE after
  <1>1. "server" \in Side /\ "client" \in Side /\ "client" # "server"
    BY DEF Side
  <1>2. PICK ended : SettledTo("client", k, c, p, events, results, closing, ended)
    BY <1>1, SettleFacts
  <1>3. /\ conn'["client"][k] = object
        /\ \A t \in Side, l \in Id : t # "client" \/ l # k => conn'[t][l] = conn[t][l]
        /\ ended \in (IF closing THEN ClosedAnswers(c) ELSE {<<>>})
        /\ answers' = answers \o results \o ended
    BY <1>2 DEF SettledTo
  <1>4. /\ ended \in Seq(Answer) /\ DistinctNumbers(ended)
        /\ Numbers(ended) = IF closing THEN Names(c.rpc) ELSE {}
    BY <1>3, EndedFacts
  <1>5. object.rpc = IF closing THEN {} ELSE c.rpc
    <2>1. Closed(NoObject).rpc = {} /\ Closed(c).rpc = {}
      BY NoObjectInv, ClosedType
    <2>2. destroyed /\ ~closing => c.rpc = {}
      BY DEF Listed
    <2> HIDE DEF destroyed
    <2>3. QED
      BY <2>1, <2>2
  <1> DEFINE new == results \o ended
  <1>6. /\ new \in Seq(Answer) /\ Numbers(new) = Numbers(results) \cup Numbers(ended)
        /\ DistinctNumbers(new)
    BY <1>4, DistinctConcat, ConcatElements
  <1>7. answers' = answers \o new
    <2>1. answers \in Seq(Answer)
      BY TypeFacts
    <2>2. QED
      BY <1>3, <1>4, <2>1, ConcatAssociative
  <1>8. \A l \in Id : l # k => C(l)'.rpc = C(l).rpc
    BY <1>1, <1>3 DEF C
  <1>9. C(k)'.rpc = IF closing THEN {} ELSE c.rpc
    BY <1>3, <1>5 DEF C
  <1> HIDE DEF new, object
  <1>10. /\ Names(C(k)'.rpc) = IF closing THEN {} ELSE Names(c.rpc)
         /\ Numbers(new) = IF closing THEN T ELSE Numbers(results)
    BY <1>4, <1>6, <1>9 DEF Names
  <1>11. T = Names(C(k)'.rpc) \cup Numbers(new) /\ Names(C(k)'.rpc) \cap Numbers(new) = {}
    BY <1>10
  <1>12. QED
    BY <1>6, <1>7, <1>8, <1>11, CallsMoved

-----------------------------------------------------------------------------
(* What matches keeps matching.                                             *)

LEMMA SettleMatchClient ==
  ASSUME LinkInv, MatchInv, NEW k \in Id, NEW c, ObjectInv(c), NEW p \in Pipe,
         NEW events \in Seq(Event), NEW results, NEW closing \in BOOLEAN,
         Settle("client", k, c, p, events, results, closing),
         queue'["server"] = queue["server"], last' = last, Requests(c),
         c.state = "open" =>
            /\ C(k).state = "open" /\ C(k).nextSeq <= c.nextSeq
            /\ \A r \in c.rpc : r \in C(k).rpc \/ r.seq = C(k).nextSeq,
         Buffers(c, Matching(c)), \A t \in Side : p.to[t] \in Seq(Matching(c)),
         Heard(events, Matching(c))
  PROVE  MatchInv'
  <1> DEFINE after == IF closing THEN Closed(c) ELSE c
             destroyed == /\ k \notin Listed("client", k, c, closing)
                          /\ after.reading = "no" /\ ~after.writing /\ ~after.leaked
             o == IF destroyed THEN Closed(NoObject) ELSE after
  <1>1. "server" \in Side /\ "client" \in Side /\ "client" # "server"
    BY DEF Side
  <1>2. PICK ended : SettledTo("client", k, c, p, events, results, closing, ended)
    BY <1>1, SettleFacts
  <1>3. /\ conn'["client"][k] = o
        /\ \A t \in Side, l \in Id : t # "client" \/ l # k => conn'[t][l] = conn[t][l]
    BY <1>2 DEF SettledTo
  <1>31. PICK object : object = o
    OBVIOUS
  <1>32. PICK M : M = Matching(c)
    OBVIOUS
  <1>33. PICK N : N = Matching(object)
    OBVIOUS
  <1>4. /\ c.nextSeq \in Nat /\ C(k).nextSeq \in Nat /\ object.nextSeq \in Nat
        /\ object.state = "open" => c.state = "open" /\ object = c
        /\ Requests(object)
    <2>1. /\ Closed(NoObject).state = "closed" /\ Closed(NoObject).nextSeq = 1 /\ Closed(NoObject).rpc = {}
          /\ Closed(c).state = "closed" /\ Closed(c).rpc = {} /\ Closed(c).nextSeq = c.nextSeq
      BY NoObjectInv, ClosedType DEF NoObject
    <2>2. c.nextSeq \in Nat /\ C(k).nextSeq \in Nat
      BY <1>1, TypeFacts DEF ObjectInv, PipeConnection, C
    <2> HIDE DEF destroyed
    <2>3. Requests(Closed(NoObject)) /\ Requests(Closed(c))
      BY <2>1 DEF Requests
    <2>4. QED
      BY <1>31, <2>1, <2>2, <2>3
  <1>34. conn'["client"][k] = object
    BY <1>3, <1>31
  <1> HIDE DEF o
  <1>5. Matching(C(k)) \subseteq M /\ M \subseteq N
    <2>1. Matching(C(k)) \subseteq M
      BY <1>4, <1>32, MatchingGrows
    <2>2. object.state = "open" => c.state = "open" /\ c.nextSeq <= object.nextSeq
                                   /\ \A r \in object.rpc : r \in c.rpc
      BY <1>4
    <2>3. QED
      BY <1>4, <1>32, <1>33, <2>1, <2>2, MatchingGrows
  <1>6. C(k)' = object /\ \A l \in Id : l # k => C(l)' = C(l)
    BY <1>1, <1>3, <1>34 DEF C
  <1>7. Carried(k, M)
    BY <1>5, CarriedGrows DEF MatchInv
  <1>8. /\ Carried(k, M)'
        /\ \A l \in Id, X \in SUBSET Message : l # k /\ Carried(l, X) => Carried(l, X)'
    <2>1. Buffers(c, M) /\ (\A t \in Side : p.to[t] \in Seq(M)) /\ Heard(events, M)
      BY <1>32
    <2>2. QED
      BY <1>1, <1>7, <2>1, SettleCarried
  <1>9. Carried(k, N)' /\ Replies(k, N)'
    <2>1. Matching(C(k)) \subseteq N
      BY <1>5
    <2>2. Carried(k, N)'
      BY <1>5, <1>8 DEF Carried, Buffers, Heard
    <2>3. Replies(k, N)
      BY <2>1 DEF MatchInv, Replies
    <2>4. Replies(k, N)'
      BY <2>3 DEF Replies
    <2>5. QED
      BY <2>2, <2>4
  <1>91. Matching(C(k))' = N /\ Requests(C(k))'
    BY <1>4, <1>6, <1>33
  <1>10. ASSUME NEW l \in Id, l # k
         PROVE  Requests(C(l))' /\ Carried(l, Matching(C(l)))' /\ Replies(l, Matching(C(l)))'
    <2>1. PICK X \in SUBSET Message : X = Matching(C(l))
      BY MatchingType
    <2>2. Carried(l, X) /\ Replies(l, X) /\ Requests(C(l))
      BY <2>1 DEF MatchInv
    <2>3. Matching(C(l))' = X /\ Requests(C(l))'
      BY <1>6, <1>10, <2>1, <2>2
    <2>4. Carried(l, X)'
      BY <1>8, <1>10, <2>2
    <2>5. Replies(l, X)'
      BY <2>2 DEF Replies
    <2>6. QED
      BY <2>3, <2>4, <2>5
  <1>11. \A i \in DOMAIN queue'["server"] : queue'["server"][i].k <= last'
    BY DEF MatchInv
  <1>12. Carried(k, Matching(C(k)))' /\ Replies(k, Matching(C(k)))'
    BY <1>9, <1>91
  <1>13. QED
    BY <1>10, <1>11, <1>12, <1>91 DEF MatchInv

\* A step that leaves the client's objects alone and adds nothing that does not
\* match.
LEMMA MatchKept ==
  ASSUME LinkInv, MatchInv, last' = last, \A l \in Id : C(l)' = C(l),
         \A l \in Id, X \in SUBSET Message : X = Matching(C(l)) /\ Carried(l, X) => Carried(l, X)',
         \A i \in DOMAIN queue'["server"] :
            \/ \E j \in DOMAIN queue["server"] : queue'["server"][i] = queue["server"][j]
            \/ \E l \in Id : /\ queue'["server"][i].k = l /\ l <= last
                             /\ queue'["server"][i].m \in Matching(C(l))
  PROVE  MatchInv'
  <1>1. ASSUME NEW l \in Id
        PROVE  Requests(C(l))' /\ Carried(l, Matching(C(l)))' /\ Replies(l, Matching(C(l)))'
    <2>1. PICK X \in SUBSET Message : X = Matching(C(l))
      BY MatchingType
    <2>2. Carried(l, X) /\ Replies(l, X) /\ Requests(C(l))
      BY <2>1 DEF MatchInv
    <2>3. Matching(C(l))' = X /\ Requests(C(l))'
      BY <2>1, <2>2
    <2>4. Carried(l, X)'
      BY <2>1, <2>2
    <2>5. Replies(l, X)'
      BY <2>1, <2>2 DEF Replies
    <2>6. QED
      BY <2>3, <2>4, <2>5
  <1>2. \A i \in DOMAIN queue'["server"] : queue'["server"][i].k <= last'
    BY DEF MatchInv
  <1>3. QED
    BY <1>1, <1>2 DEF MatchInv

LEMMA SettleMatchServer ==
  ASSUME LinkInv, MatchInv, NEW k \in Id, NEW c, ObjectInv(c), NEW p \in Pipe,
         NEW events \in Seq(Event), NEW results, NEW closing \in BOOLEAN,
         Settle("server", k, c, p, events, results, closing), last' = last,
         \A i \in DOMAIN queue'["server"] :
            \E j \in DOMAIN queue["server"] : queue'["server"][i] = queue["server"][j],
         Buffers(c, Matching(C(k))), \A t \in Side : p.to[t] \in Seq(Matching(C(k))),
         Heard(events, Matching(C(k)))
  PROVE  MatchInv'
  <1>1. "server" \in Side /\ "client" \in Side /\ "client" # "server"
    BY DEF Side
  <1>2. PICK ended : SettledTo("server", k, c, p, events, results, closing, ended)
    BY <1>1, SettleFacts
  <1>3. \A l \in Id : C(l)' = C(l)
    BY <1>1, <1>2 DEF SettledTo, C
  <1>4. PICK M : M = Matching(C(k))
    OBVIOUS
  <1>5. Carried(k, M) /\ Buffers(c, M) /\ (\A t \in Side : p.to[t] \in Seq(M)) /\ Heard(events, M)
    BY <1>4 DEF MatchInv
  <1>6. /\ Carried(k, M)'
        /\ \A l \in Id, X \in SUBSET Message : l # k /\ Carried(l, X) => Carried(l, X)'
    BY <1>1, <1>5, SettleCarried
  <1>7. \A l \in Id, X \in SUBSET Message : X = Matching(C(l)) /\ Carried(l, X) => Carried(l, X)'
    <2> TAKE l \in Id, X \in SUBSET Message
    <2> HAVE X = Matching(C(l)) /\ Carried(l, X)
    <2>1. CASE l = k
      BY <1>4, <1>6, <2>1
    <2>2. CASE l # k
      BY <1>6, <2>2
    <2>3. QED
      BY <2>1, <2>2
  <1>8. QED
    BY <1>3, <1>7, MatchKept

LEMMA MatchQuiet ==
  ASSUME LinkInv, MatchInv, UNCHANGED <<conn, pipe, log, last>>,
         \A i \in DOMAIN queue'["server"] :
            \/ \E j \in DOMAIN queue["server"] : queue'["server"][i] = queue["server"][j]
            \/ \E l \in Id : /\ queue'["server"][i].k = l /\ l <= last
                             /\ queue'["server"][i].m \in Matching(C(l))
  PROVE  MatchInv'
  <1>1. \A l \in Id : C(l)' = C(l)
    BY DEF C
  <1>2. \A l \in Id, X \in SUBSET Message : X = Matching(C(l)) /\ Carried(l, X) => Carried(l, X)'
    BY DEF Carried
  <1>3. QED
    BY <1>1, <1>2, MatchKept

LEMMA MatchQueued ==
  ASSUME LinkInv, MatchInv, UNCHANGED <<conn, pipe, log, last>>,
         NEW e \in [k : Id, m : Message], e.k <= last, e.m \in Matching(C(e.k)),
         queue'["server"] = queue["server"] \/ queue'["server"] = Append(queue["server"], e)
  PROVE  MatchInv'
  <1>1. queue["server"] \in Seq([k : Id, m : Message])
    BY TypeFacts DEF Side
  <1>2. PICK q : q = queue["server"]
    OBVIOUS
  <1>3. \A i \in DOMAIN Append(q, e) : (i \in DOMAIN q /\ Append(q, e)[i] = q[i]) \/ Append(q, e)[i] = e
    BY <1>1, <1>2, AppendPlaces
  <1>4. \A i \in DOMAIN queue'["server"] :
            (i \in DOMAIN q /\ queue'["server"][i] = q[i]) \/ queue'["server"][i] = e
    BY <1>2, <1>3
  <1>5. \A i \in DOMAIN queue'["server"] :
            \/ \E j \in DOMAIN queue["server"] : queue'["server"][i] = queue["server"][j]
            \/ \E l \in Id : /\ queue'["server"][i].k = l /\ l <= last
                             /\ queue'["server"][i].m \in Matching(C(l))
    BY <1>2, <1>4
  <1>6. QED
    BY <1>5, MatchQuiet

LEMMA MatchPost == ASSUME LinkInv, MatchInv, NEW mode \in Modes, Post(mode) PROVE MatchInv'
  <1>1. UNCHANGED <<conn, pipe, log, last>> /\ queue'["server"] = queue["server"]
    BY PostFacts
  <1>2. QED
    BY <1>1, MatchQuiet

LEMMA MatchWelcome == ASSUME LinkInv, BaseInv, MatchInv, NEW k \in Id, Welcome(k) PROVE MatchInv'
  <1>1. PICK e : e = [k |-> k, m |-> [mode |-> "message", n |-> k, seq |-> 0]]
    OBVIOUS
  <1>2. /\ e \in [k : Id, m : Message] /\ e.k = k /\ e.m.mode = "message"
        /\ \/ queue'["server"] = queue["server"]
           \/ k \in listed["server"] /\ queue'["server"] = Append(queue["server"], e)
        /\ UNCHANGED <<conn, pipe, last, log>>
    BY <1>1, WelcomeFacts
  <1>3. e.m \in Matching(C(k))
    BY <1>2 DEF Matching, Matches
  <1>4. k \in listed["server"] => k <= last
    BY AliveMade DEF Side
  <1>5. CASE queue'["server"] = queue["server"]
    BY <1>2, <1>5, MatchQuiet
  <1>6. CASE k \in listed["server"] /\ queue'["server"] = Append(queue["server"], e)
    BY <1>2, <1>3, <1>4, <1>6, MatchQueued
  <1>7. QED
    BY <1>2, <1>5, <1>6

LEMMA MatchReply ==
  ASSUME LinkInv, BaseInv, MatchInv, NEW n \in DOMAIN asked, Reply(n) PROVE MatchInv'
  <1>1. PICK k \in Id, m \in Message :
           LET e == [k |-> k, m |-> [m EXCEPT !.mode = "reply"]]
           IN  /\ e \in [k : Id, m : Message] /\ e.k = k /\ e.m.mode = "reply"
               /\ e.m.n = m.n /\ e.m.seq = m.seq
               /\ \E i \in DOMAIN log["server"][k] :
                     /\ log["server"][k][i].what = "received" /\ log["server"][k][i].m = m
                     /\ m.mode = "call" /\ m.n = n
               /\ queue'["client"] = queue["client"]
               /\ \/ queue'["server"] = queue["server"]
                  \/ Alive("server", k) /\ queue'["server"] = Append(queue["server"], e)
               /\ UNCHANGED <<conn, pipe, listed, last, greeting, log, phase, welcomed, asked, called, faults, answers>>
    BY ReplyFacts
  <1>2. PICK e : e = [k |-> k, m |-> [m EXCEPT !.mode = "reply"]]
    OBVIOUS
  <1>3. /\ e \in [k : Id, m : Message] /\ e.k = k /\ e.m.mode = "reply"
        /\ e.m.n = m.n /\ e.m.seq = m.seq /\ m.mode = "call"
        /\ \E i \in DOMAIN log["server"][k] :
              log["server"][k][i].what = "received" /\ log["server"][k][i].m = m
        /\ \/ queue'["server"] = queue["server"]
           \/ Alive("server", k) /\ queue'["server"] = Append(queue["server"], e)
        /\ UNCHANGED <<conn, pipe, last, log>>
    BY <1>1, <1>2
  <1>4. m \in Matching(C(k))
    <2>1. Heard(log["server"][k], Matching(C(k)))
      BY DEF MatchInv, Carried
    <2>2. QED
      BY <1>3, <2>1 DEF Heard, Receipts
  <1>5. e.m \in Matching(C(k))
    <2>1. e.m \in Message
      BY <1>3
    <2>2. QED
      BY <1>3, <1>4, <2>1 DEF Matching, Matches
  <1>6. Alive("server", k) => k <= last
    BY AliveMade DEF Side
  <1>7. CASE queue'["server"] = queue["server"]
    BY <1>3, <1>7, MatchQuiet
  <1>8. CASE Alive("server", k) /\ queue'["server"] = Append(queue["server"], e)
    BY <1>3, <1>5, <1>6, <1>8, MatchQueued
  <1>9. QED
    BY <1>3, <1>7, <1>8

\* A read that completes moves a message from the pipe to the object.
LEMMA CompleteReadCarried ==
  ASSUME LinkInv, NEW s \in Side, NEW k \in Id, CompleteRead(s, k)
  PROVE  \A l \in Id, X \in SUBSET Message : Carried(l, X) => Carried(l, X)'
  <1>1. /\ pipe[k].to[s] # <<>> /\ Head(pipe[k].to[s]) \in Message
        /\ conn'[s][k] = Got(conn[s][k], Head(pipe[k].to[s]))
        /\ \A t \in Side, l \in Id : t # s \/ l # k => conn'[t][l] = conn[t][l]
        /\ pipe'[k].to[s] = Tail(pipe[k].to[s]) /\ pipe'[k].to[Other(s)] = pipe[k].to[Other(s)]
        /\ \A l \in Id : l # k => pipe'[l] = pipe[l]
        /\ UNCHANGED <<last, queue, log>>
    BY CompleteReadFacts
  <1>2. PICK h : h = Head(pipe[k].to[s])
    OBVIOUS
  <1>3. PICK d : d = conn'[s][k]
    OBVIOUS
  <1>4. /\ d.got = <<h>> /\ d.writeQueue = conn[s][k].writeQueue /\ d.rpc = conn[s][k].rpc
        /\ d.nextSeq = conn[s][k].nextSeq /\ d.state = conn[s][k].state
    BY <1>1, <1>2, <1>3, GotType, TypeFacts
  <1>5. \A t \in Side : t = s \/ t = Other(s)
    BY OtherSide DEF Side
  <1>6. ASSUME NEW l \in Id, NEW X \in SUBSET Message, Carried(l, X)
        PROVE  Carried(l, X)'
    <2>1. CASE l = k
      <3>1. pipe[k].to[s] \in Seq(X) /\ Buffers(conn[s][k], X)
        BY <1>6, <2>1 DEF Carried
      <3>2. h \in X /\ Tail(pipe[k].to[s]) \in Seq(X)
        BY <1>1, <1>2, <3>1, HeadTailProperties
      <3>3. \A t \in Side : pipe'[k].to[t] \in Seq(X)
        BY <1>1, <1>5, <1>6, <2>1, <3>2 DEF Carried
      <3>4. <<h>> \in Seq(X)
        BY <3>2
      <3>5. Buffers(d, X)
        BY <1>4, <3>1, <3>4 DEF Buffers
      <3>6. \A t \in Side : Buffers(conn'[t][k], X)
        BY <1>1, <1>3, <1>6, <2>1, <3>5 DEF Carried
      <3>7. QED
        BY <1>1, <1>6, <2>1, <3>3, <3>6 DEF Carried
    <2>2. CASE l # k
      BY <1>1, <1>6, <2>2 DEF Carried
    <2>3. QED
      BY <2>1, <2>2
  <1>7. QED
    BY <1>6

LEMMA MatchCompleteRead ==
  ASSUME LinkInv, MatchInv, NEW s \in Side, NEW k \in Id, CompleteRead(s, k) PROVE MatchInv'
  <1>1. /\ Head(pipe[k].to[s]) \in Message
        /\ conn'[s][k] = Got(conn[s][k], Head(pipe[k].to[s]))
        /\ \A t \in Side, l \in Id : t # s \/ l # k => conn'[t][l] = conn[t][l]
        /\ UNCHANGED <<last, queue>>
    BY CompleteReadFacts
  <1>2. PICK h : h = Head(pipe[k].to[s])
    OBVIOUS
  <1>3. PICK d : d = conn'[s][k]
    OBVIOUS
  <1>4. /\ d.rpc = conn[s][k].rpc /\ d.nextSeq = conn[s][k].nextSeq /\ d.state = conn[s][k].state
    BY <1>1, <1>2, <1>3, GotType, TypeFacts
  <1>6. \A l \in Id, X \in SUBSET Message : Carried(l, X) => Carried(l, X)'
    BY CompleteReadCarried
  <1>7. ASSUME NEW l \in Id
        PROVE  /\ C(l)'.state = C(l).state /\ C(l)'.rpc = C(l).rpc /\ C(l)'.nextSeq = C(l).nextSeq
    <2>1. "client" \in Side
      BY DEF Side
    <2>2. QED
      BY <1>1, <1>3, <1>4, <2>1 DEF C
  <1>8. ASSUME NEW l \in Id
        PROVE  Requests(C(l))' /\ Carried(l, Matching(C(l)))' /\ Replies(l, Matching(C(l)))'
    <2>1. PICK X \in SUBSET Message : X = Matching(C(l))
      BY MatchingType
    <2>2. Carried(l, X) /\ Replies(l, X) /\ Requests(C(l))
      BY <2>1 DEF MatchInv
    <2>3. Matching(C(l))' = X /\ Requests(C(l))'
      BY <1>7, <2>1, <2>2 DEF Matching, Matches, Requests
    <2>4. Carried(l, X)' /\ Replies(l, X)'
      BY <1>1, <1>6, <2>2 DEF Replies
    <2>5. QED
      BY <2>3, <2>4
  <1>9. QED
    BY <1>1, <1>8 DEF MatchInv

LEMMA SendingCarried ==
  ASSUME NEW s \in Side, NEW c, ObjectInv(c), NEW p \in Pipe, NEW M,
         Buffers(c, M), \A t \in Side : p.to[t] \in Seq(M)
  PROVE  /\ Buffers(Sending(s, c, p).c, M)
         /\ \A t \in Side : Sending(s, c, p).p.to[t] \in Seq(M)
  <1> DEFINE r == Sending(s, c, p)
  <1>1. Wrote(s, c, p, r)
    BY SendingCases
  <1> HIDE DEF r
  <1>2. r.c.got = c.got /\ r.c.writeQueue = c.writeQueue
    BY <1>1, Zenon DEF Wrote, SameRead
  <1>3. \/ r.p = p
        \/ /\ c.writeQueue # <<>> /\ r.p.to[Other(s)] = Append(p.to[Other(s)], Head(c.writeQueue))
           /\ r.p.to[s] = p.to[s]
    BY <1>1, Zenon DEF Wrote
  <1>4. ASSUME NEW t \in Side PROVE r.p.to[t] \in Seq(M)
    <2>1. CASE r.p = p
      BY <2>1
    <2>2. CASE /\ c.writeQueue # <<>> /\ r.p.to[Other(s)] = Append(p.to[Other(s)], Head(c.writeQueue))
               /\ r.p.to[s] = p.to[s]
      <3>1. c.writeQueue \in Seq(M)
        BY DEF Buffers
      <3>2. Head(c.writeQueue) \in M
        BY <2>2, <3>1, HeadTailProperties
      <3>3. Other(s) \in Side /\ p.to[Other(s)] \in Seq(M)
        BY SideSplit
      <3>4. Append(p.to[Other(s)], Head(c.writeQueue)) \in Seq(M)
        BY <3>2, <3>3, AppendProperties
      <3>5. t = s \/ t = Other(s)
        BY OtherSide DEF Side
      <3>6. CASE t = s
        BY <2>2, <3>6
      <3>7. CASE t = Other(s)
        BY <2>2, <3>4, <3>7
      <3>8. QED
        BY <3>5, <3>6, <3>7
    <2>3. QED
      BY <1>3, <2>1, <2>2
  <1>5. Buffers(r.c, M)
    BY <1>2 DEF Buffers
  <1>6. QED
    BY <1>4, <1>5 DEF r

\* What the client sends gets a number of its own.
LEMMA NumberedMatches ==
  ASSUME NEW c, ObjectInv(c), Requests(c), NEW m \in Message, m.seq = 0, m.mode # "reply",
         m.mode = "call" => c.state = "open" /\ m.n \notin Names(c.rpc),
         Buffers(c, Matching(c))
  PROVE  LET d == Numbered(c, m)
         IN  /\ Requests(d) /\ d.state = c.state
             /\ c.nextSeq <= d.nextSeq
             /\ \A r \in d.rpc : r \in c.rpc \/ r.seq = c.nextSeq
             /\ Buffers(d, Matching(d)) /\ Matching(c) \subseteq Matching(d)
             /\ Names(d.rpc) = Names(c.rpc) \cup (IF m.mode = "call" THEN {m.n} ELSE {})
             /\ d.rpc # {} => c.state = "open"
  <1> DEFINE named == [mode |-> m.mode, n |-> m.n, seq |-> c.nextSeq]
             r0 == [seq |-> c.nextSeq, n |-> m.n]
  <1>1. PICK d : d = Numbered(c, m)
    OBVIOUS
  <1>2. /\ d.state = c.state /\ d.got = c.got /\ d.nextSeq = c.nextSeq + 1
        /\ d.rpc = (IF m.mode = "call" THEN c.rpc \cup {r0} ELSE c.rpc)
        /\ d.writeQueue = Append(c.writeQueue, named)
    BY <1>1, NumberedFacts
  <1>3. /\ c.nextSeq \in Nat /\ d.nextSeq \in Nat /\ c.nextSeq > 0 /\ m.n \in Nat
        /\ r0.seq = c.nextSeq /\ r0.n = m.n
        /\ named.mode = m.mode /\ named.n = m.n /\ named.seq = c.nextSeq
        /\ \A r \in c.rpc : r.seq \in Nat /\ r.seq < c.nextSeq
    BY <1>2 DEF ObjectInv, PipeConnection, Requests, Request, Message
  <1>4. named \in Message
    BY <1>3 DEF Message
  <1> HIDE DEF named, r0
  <1>5. \A r \in d.rpc : r \in c.rpc \/ (r = r0 /\ m.mode = "call")
    BY <1>2
  <1>6. Names(d.rpc) = Names(c.rpc) \cup (IF m.mode = "call" THEN {m.n} ELSE {})
    BY <1>2, <1>3 DEF Names
  <1>7. Requests(d)
    <2>1. \A r \in d.rpc : r.seq < d.nextSeq
      BY <1>2, <1>3, <1>5
    <2>2. \A r \in c.rpc : r.seq # r0.seq /\ (m.mode = "call" => r.n # r0.n)
      BY <1>3 DEF Names
    <2>3. \A r, t \in d.rpc : r.seq = t.seq \/ r.n = t.n => r = t
      BY <1>5, <2>2 DEF Requests
    <2>4. d.state # "open" => d.rpc = {}
      BY <1>2 DEF Requests
    <2>5. QED
      BY <1>2, <1>3, <2>1, <2>3, <2>4 DEF Requests
  <1>8. c.nextSeq <= d.nextSeq /\ \A r \in d.rpc : r \in c.rpc \/ r.seq = c.nextSeq
    BY <1>2, <1>3, <1>5
  <1>9. Matching(c) \subseteq Matching(d)
    BY <1>2, <1>3, <1>8, MatchingGrows
  <1>10. named \in Matching(d)
    <2>1. CASE m.mode # "call"
      BY <1>3, <1>4, <2>1 DEF Matching, Matches, Message
    <2>2. CASE m.mode = "call"
      <3>1. named.seq > 0 /\ named.seq < d.nextSeq
        BY <1>2, <1>3
      <3>2. \A r \in d.rpc : r.seq = named.seq => r.n = named.n
        BY <1>3, <1>5
      <3>3. QED
        BY <1>4, <3>1, <3>2 DEF Matching, Matches
    <2>3. QED
      BY <2>1, <2>2
  <1>11. Buffers(d, Matching(d))
    <2> DEFINE M == Matching(d)
    <2>1. c.got \in Seq(M) /\ c.writeQueue \in Seq(M) /\ named \in M
      BY <1>9, <1>10, CarriedGrows DEF Buffers
    <2> HIDE DEF M
    <2>2. Append(c.writeQueue, named) \in Seq(M)
      BY <2>1, AppendProperties
    <2>3. Buffers(d, M)
      BY <1>2, <2>1, <2>2 DEF Buffers
    <2>4. QED
      BY <2>3 DEF M
  <1>12. d.rpc # {} => c.state = "open"
    BY <1>2, <1>7 DEF Requests
  <1>13. QED
    BY <1>1, <1>2, <1>6, <1>7, <1>8, <1>9, <1>11, <1>12

\* What matches keeps its sequence, unless it is a plain message.
LEMMA NumberedKeeps ==
  ASSUME NEW c, ObjectInv(c), NEW a, NEW m \in Matching(a), Buffers(c, Matching(a))
  PROVE  Buffers(Numbered(c, m), Matching(a))
  <1>1. PICK d : d = Numbered(c, m)
    OBVIOUS
  <1>2. PICK seq : seq = IF m.seq = 0 THEN c.nextSeq ELSE m.seq
    OBVIOUS
  <1>3. PICK named : named = [mode |-> m.mode, n |-> m.n, seq |-> seq]
    OBVIOUS
  <1>4. m \in Message /\ Matches(a, m)
    BY DEF Matching
  <1>5. d.got = c.got /\ d.writeQueue = Append(c.writeQueue, named)
    BY <1>1, <1>2, <1>3, <1>4, NumberedFacts
  <1>6. c.nextSeq \in Nat
    BY DEF ObjectInv, PipeConnection
  <1>7. seq \in Nat
    BY <1>2, <1>4, <1>6 DEF Message
  <1>8. named \in Message /\ named.mode = m.mode /\ named.n = m.n /\ named.seq = seq
    BY <1>3, <1>4, <1>7 DEF Message
  <1>9. m.mode # "message" => seq = m.seq
    BY <1>2, <1>4 DEF Matches, Message
  <1>10. Matches(a, named)
    BY <1>4, <1>8, <1>9 DEF Matches
  <1>11. named \in Matching(a)
    BY <1>8, <1>10 DEF Matching
  <1>12. PICK M : M = Matching(a)
    OBVIOUS
  <1>13. c.got \in Seq(M) /\ c.writeQueue \in Seq(M) /\ named \in M
    BY <1>11, <1>12 DEF Buffers
  <1>14. Append(c.writeQueue, named) \in Seq(M)
    BY <1>13, AppendProperties
  <1>15. Buffers(d, M)
    BY <1>5, <1>13, <1>14 DEF Buffers
  <1>16. QED
    BY <1>1, <1>12, <1>15

\* What the server sends has the number of the call it replies to.
LEMMA MatchQueuedSendServer ==
  ASSUME LinkInv, BaseInv, MatchInv, QueuedSend("server") PROVE MatchInv'
  <1>1. "server" \in Side /\ "client" \in Side /\ "client" # "server"
    BY DEF Side
  <1>2. PICK k \in Id, m \in Message : \E c, d, r, results :
            /\ Sends("server", k, m, c, d, r) /\ SendsOnly("server") /\ results = Error(m, "NoConnection")
            /\ SendLost("server", k, m) \/ SendRefused("server", k, c, results) \/ SendMade("server", k, c, d, r)
    BY <1>1, QueuedSendSplit
  <1>3. PICK c, d, r, results :
            /\ Sends("server", k, m, c, d, r) /\ SendsOnly("server") /\ results = Error(m, "NoConnection")
            /\ SendLost("server", k, m) \/ SendRefused("server", k, c, results) \/ SendMade("server", k, c, d, r)
    BY <1>2
  <1>4. last' = last /\ queue'["server"] = Tail(queue["server"])
    BY <1>1, <1>3 DEF SendsOnly
  <1>5. /\ c = conn["server"][k] /\ d = Numbered(c, m) /\ ObjectInv(c) /\ pipe[k] \in Pipe
        /\ r = Sending("server", d, pipe[k])
        /\ queue["server"] # <<>> /\ k = Head(queue["server"]).k /\ m = Head(queue["server"]).m
    BY <1>3, Zenon DEF Sends
  <1>6. /\ 1 \in DOMAIN queue["server"] /\ queue["server"][1] = Head(queue["server"])
        /\ \A i \in DOMAIN queue'["server"] :
              \E j \in DOMAIN queue["server"] : queue'["server"][i] = queue["server"][j]
    <2>1. queue["server"] \in Seq([k : Id, m : Message])
      BY <1>1, TypeFacts
    <2>2. QED
      BY <1>4, <1>5, <2>1, TailPlaces
  <1>7. PICK M : M = Matching(C(k))
    OBVIOUS
  <1>8. m \in M /\ Carried(k, M)
    BY <1>5, <1>6, <1>7 DEF MatchInv, Replies
  <1>9. Buffers(c, M) /\ \A t \in Side : pipe[k].to[t] \in Seq(M)
    BY <1>1, <1>5, <1>8 DEF Carried
  <1>10. PICK none : none = <<>>
    OBVIOUS
  <1>11. none \in Seq(Event) /\ Heard(none, M)
    <2>1. DOMAIN <<>> = {}
      OBVIOUS
    <2>2. QED
      BY <1>10, <2>1, EmptySeq DEF Heard, Receipts
  <1>12. CASE SendLost("server", k, m)
    <2>1. UNCHANGED <<conn, pipe, log>>
      BY <1>12 DEF SendLost
    <2>2. QED
      BY <1>4, <1>6, <2>1, MatchQuiet
  <1>13. CASE SendRefused("server", k, c, results)
    <2>1. PICK closing \in BOOLEAN : closing = TRUE
      OBVIOUS
    <2>2. PICK p \in Pipe : p = pipe[k]
      BY <1>5
    <2>3. Settle("server", k, c, p, none, results, closing)
      BY <1>10, <1>13, <2>1, <2>2 DEF SendRefused
    <2>4. \A t \in Side : p.to[t] \in Seq(M)
      BY <1>9, <2>2
    <2>5. QED
      <3>1. Buffers(c, Matching(C(k))) /\ Heard(none, Matching(C(k)))
        BY <1>7, <1>9, <1>11
      <3>2. \A t \in Side : p.to[t] \in Seq(Matching(C(k)))
        BY <1>7, <2>4
      <3>3. ObjectInv(c) /\ none \in Seq(Event)
        BY <1>5, <1>11
      <3>4. QED
        BY <1>4, <1>6, <2>3, <3>1, <3>2, <3>3, SettleMatchServer
  <1>14. CASE SendMade("server", k, c, d, r)
    <2>1. /\ ObjectInv(d) /\ Settle("server", k, r.c, r.p, none, none, r.closing)
          /\ ObjectInv(r.c) /\ r.p \in Pipe /\ r.closing \in BOOLEAN
      BY <1>10, <1>14 DEF SendMade
    <2>2. PICK e : e = r.c
      OBVIOUS
    <2>3. PICK o \in Pipe : o = r.p
      BY <2>1
    <2>4. PICK closing \in BOOLEAN : closing = r.closing
      BY <2>1
    <2>5. Settle("server", k, e, o, none, none, closing) /\ ObjectInv(e)
      BY <2>1, <2>2, <2>3, <2>4
    <2>6. Buffers(d, M)
      BY <1>5, <1>7, <1>8, <1>9, NumberedKeeps
    <2>7. Buffers(e, M) /\ \A t \in Side : o.to[t] \in Seq(M)
      <3>1. PICK p \in Pipe : p = pipe[k]
        BY <1>5
      <3>2. r = Sending("server", d, p) /\ ObjectInv(d)
        BY <1>5, <2>1, <3>1, Zenon
      <3>5. \A t \in Side : p.to[t] \in Seq(M)
        BY <1>9, <3>1
      <3>3. Buffers(r.c, M) /\ \A t \in Side : r.p.to[t] \in Seq(M)
        BY <1>1, <2>6, <3>2, <3>5, SendingCarried
      <3>4. QED
        BY <2>2, <2>3, <3>3
    <2>8. QED
      BY <1>4, <1>6, <1>7, <1>11, <2>5, <2>7, SettleMatchServer
  <1>15. QED
    BY <1>3, <1>12, <1>13, <1>14
-----------------------------------------------------------------------------
(* The client's steps.                                                      *)

\* The answer to a call that could not be sent.
LEMMA ErrorFacts ==
  ASSUME NEW m \in Message, NEW how \in {"reply", "ConnectionClosed", "NoConnection"}
  PROVE  /\ Error(m, how) \in Seq(Answer) /\ DistinctNumbers(Error(m, how))
         /\ Numbers(Error(m, how)) = IF m.mode = "call" THEN {m.n} ELSE {}
  <1> DEFINE a == [n |-> m.n, how |-> how]
  <1>1. a \in Answer /\ a.n = m.n
    BY DEF Answer, Message
  <1> HIDE DEF a
  <1>2. <<a>> \in Seq(Answer) /\ DOMAIN <<a>> = {1} /\ <<a>>[1] = a
    BY <1>1
  <1>3. <<>> \in Seq(Answer) /\ DOMAIN <<>> = {}
    BY EmptySeq
  <1>4. Numbers(<<a>>) = {m.n} /\ DistinctNumbers(<<a>>)
    BY <1>1, <1>2 DEF Numbers, DistinctNumbers
  <1>5. Numbers(<<>>) = {} /\ DistinctNumbers(<<>>)
    BY <1>3 DEF Numbers, DistinctNumbers
  <1>6. Error(m, how) = IF m.mode = "call" THEN <<a>> ELSE <<>>
    BY DEF Error, a
  <1>7. QED
    BY <1>2, <1>3, <1>4, <1>5, <1>6

\* The head leaves the queue of the client.
LEMMA HeadLeaves ==
  ASSUME LinkInv, BaseInv, CallInv, queue["client"] # <<>>,
         queue'["client"] = Tail(queue["client"]), called' = called,
         NEW m, m = Head(queue["client"]).m
  PROVE  /\ m.n \in Queued /\ Queued' = Queued \ {m.n}
         /\ m.mode = "call" <=> m.n \in called
         /\ m.seq = 0 /\ m.mode # "reply"
         /\ \A i \in DOMAIN queue'["client"] :
               queue'["client"][i].m.mode = "call" <=> queue'["client"][i].m.n \in called
  <1>1. PICK q : q = queue["client"]
    OBVIOUS
  <1>2. PICK t : t = queue'["client"]
    OBVIOUS
  <1>3. q \in Seq([k : Id, m : Message]) /\ q # <<>> /\ t = Tail(q)
    BY <1>1, <1>2, TypeFacts DEF Side
  <1>4. /\ 1 \in DOMAIN q /\ q[1] = Head(q) /\ Len(q) \in Nat /\ DOMAIN q = 1..Len(q)
        /\ \A i \in DOMAIN t : i + 1 \in DOMAIN q /\ t[i] = q[i + 1] /\ 1 < i + 1
        /\ \A i \in DOMAIN q : i = 1 \/ (i - 1 \in DOMAIN t /\ q[i] = t[i - 1])
    BY <1>3, TailPlaces
  <1>5. /\ \A i \in DOMAIN q : /\ q[i].m.mode # "reply" /\ q[i].m.seq = 0
                               /\ q[i].m.mode = "call" <=> q[i].m.n \in called
                               /\ q[i].m.n \in DOMAIN asked
        /\ \A i, j \in DOMAIN q : i < j => q[i].m.n < q[j].m.n
    BY <1>1 DEF BaseInv, QueueInv, CallInv
  <1>6. Queued = {q[i].m.n : i \in DOMAIN q} /\ Queued' = {t[i].m.n : i \in DOMAIN t}
    BY <1>1, <1>2 DEF Queued
  <1>7. m = q[1].m
    BY <1>1, <1>4
  <1>8. \A i \in DOMAIN t : t[i].m.n # m.n
    <2> TAKE i \in DOMAIN t
    <2>1. m.n < t[i].m.n
      BY <1>4, <1>5, <1>7
    <2>2. q[1] \in [k : Id, m : Message] /\ q[i + 1] \in [k : Id, m : Message]
      <3>1. PICK E : E = [k : Id, m : Message]
        OBVIOUS
      <3>2. q \in Seq(E)
        BY <1>3, <3>1
      <3>3. \A j \in DOMAIN q : q[j] \in E
        BY <1>4, <3>2, ElementOfSeq
      <3>4. QED
        BY <1>4, <3>1, <3>3
    <2>4. m.n \in Nat /\ t[i].m.n \in Nat
      BY <1>4, <1>7, <2>2 DEF Message
    <2>3. QED
      BY <2>1, <2>4
  <1>9. Queued' = Queued \ {m.n}
    <2>1. \A x \in Queued' : x \in Queued \ {m.n}
      BY <1>4, <1>6, <1>8
    <2>2. \A x \in Queued \ {m.n} : x \in Queued'
      BY <1>4, <1>6, <1>7
    <2>3. QED
      BY <2>1, <2>2
  <1>10. m.n \in Queued
    BY <1>4, <1>6, <1>7
  <1>11. QED
    BY <1>2, <1>4, <1>5, <1>7, <1>9, <1>10

LEMMA CallsQueuedSendClient ==
  ASSUME LinkInv, BaseInv, MatchInv, CallInv, QueuedSend("client") PROVE CallInv'
  <1>1. "server" \in Side /\ "client" \in Side /\ "client" # "server"
    BY DEF Side
  <1>2. PICK k \in Id, m \in Message : \E c, d, r, results :
            /\ Sends("client", k, m, c, d, r) /\ SendsOnly("client") /\ results = Error(m, "NoConnection")
            /\ SendLost("client", k, m) \/ SendRefused("client", k, c, results) \/ SendMade("client", k, c, d, r)
    BY <1>1, QueuedSendSplit
  <1>3. PICK c, d, r, results :
            /\ Sends("client", k, m, c, d, r) /\ SendsOnly("client") /\ results = Error(m, "NoConnection")
            /\ SendLost("client", k, m) \/ SendRefused("client", k, c, results) \/ SendMade("client", k, c, d, r)
    BY <1>2
  <1>4. queue'["client"] = Tail(queue["client"]) /\ UNCHANGED <<asked, called>>
    BY <1>1, <1>3 DEF SendsOnly
  <1>5. /\ c = C(k) /\ d = Numbered(c, m) /\ ObjectInv(c) /\ pipe[k] \in Pipe
        /\ r = Sending("client", d, pipe[k])
        /\ queue["client"] # <<>> /\ m = Head(queue["client"]).m
    BY <1>3, Zenon DEF Sends, C
  <1>6. /\ m.n \in Queued /\ Queued' = Queued \ {m.n}
        /\ m.mode = "call" <=> m.n \in called
        /\ m.seq = 0 /\ m.mode # "reply"
        /\ \A i \in DOMAIN queue'["client"] :
              queue'["client"][i].m.mode = "call" <=> queue'["client"][i].m.n \in called
    BY <1>4, <1>5, HeadLeaves
  <1>7. PICK N : N = IF m.mode = "call" THEN {m.n} ELSE {}
    OBVIOUS
  <1>8. PICK T : T = Names(c.rpc) \cup N
    OBVIOUS
  <1>9. /\ Names(c.rpc) \subseteq called /\ Names(c.rpc) \cap Queued = {}
        /\ Requests(c)
    BY <1>5 DEF CallInv, MatchInv
  <1>10. /\ T \subseteq called /\ Names(C(k).rpc) \subseteq T /\ Names(c.rpc) \cap N = {}
         /\ T \subseteq Names(C(k).rpc) \cup (Queued \ Queued')
         /\ (Queued \ Queued') \cap called \subseteq T /\ Queued' \subseteq Queued
    BY <1>5, <1>6, <1>7, <1>8, <1>9
  <1>11. CASE SendLost("client", k, m)
    <2>1. PICK new : new = Error(m, "ConnectionClosed")
      OBVIOUS
    <2>2. new \in Seq(Answer) /\ DistinctNumbers(new) /\ Numbers(new) = N
      BY <1>7, <2>1, ErrorFacts
    <2>3. answers' = answers \o new /\ \A l \in Id : C(l)'.rpc = C(l).rpc
      BY <1>11, <2>1 DEF SendLost, C
    <2>4. Names(C(k)'.rpc) = Names(c.rpc)
      BY <1>5, <2>3
    <2>5. QED
      BY <1>4, <1>6, <1>8, <1>10, <2>2, <2>3, <2>4, CallsMoved
  <1>12. CASE SendRefused("client", k, c, results)
    <2>1. PICK closing \in BOOLEAN : closing = TRUE
      OBVIOUS
    <2>2. PICK events : events = <<>>
      OBVIOUS
    <2>3. PICK p : p = pipe[k]
      OBVIOUS
    <2>4. Settle("client", k, c, p, events, results, closing) /\ c.rpc = {}
      BY <1>9, <1>12, <2>1, <2>2, <2>3 DEF SendRefused, Requests
    <2>5. results \in Seq(Answer) /\ DistinctNumbers(results) /\ Numbers(results) = N
      BY <1>3, <1>7, ErrorFacts
    <2>6. T = Names(c.rpc) \cup Numbers(results) /\ Numbers(results) \cap Names(c.rpc) = {}
      BY <1>8, <1>10, <2>5
    <2>7. QED
      <3>1. /\ \A x, y \in c.rpc : x.n = y.n => x = y
            /\ c.rpc # {} /\ ~closing => k \in listed["client"]
        BY <2>4
      <3>2. UNCHANGED <<asked, called>>
        BY <1>4
      <3>3. Settle("client", k, c, p, events, results, closing)
        BY <2>4
      <3>4. CallStep(k, c, results, closing, T)
        BY <1>6, <1>10, <2>5, <2>6, <3>1, <3>2, Zenon DEF CallStep
      <3>5. QED
        BY <1>5, <3>3, <3>4, SettleCalls
  <1>13. CASE SendMade("client", k, c, d, r)
    <2>1. /\ c.state = "open" /\ ObjectInv(d)
          /\ Settle("client", k, r.c, r.p, <<>>, <<>>, r.closing)
          /\ ObjectInv(r.c) /\ r.closing \in BOOLEAN
      BY <1>13 DEF SendMade
    <2>2. PICK e : e = r.c
      OBVIOUS
    <2>3. PICK o : o = r.p
      OBVIOUS
    <2>4. PICK closing \in BOOLEAN : closing = r.closing
      BY <2>1
    <2>5. PICK none : none = <<>>
      OBVIOUS
    <2>6. Settle("client", k, e, o, none, none, closing) /\ ObjectInv(e)
      BY <2>1, <2>2, <2>3, <2>4, <2>5
    <2>7. none \in Seq(Answer) /\ DistinctNumbers(none) /\ Numbers(none) = {}
      BY <2>5, EmptySeq DEF DistinctNumbers, Numbers
    <2>8. e.rpc = d.rpc
      BY <1>1, <1>5, <2>1, <2>2, SendingSame
    <2>9. Requests(d) /\ Names(d.rpc) = T
      <3>1. m.mode = "call" => m.n \notin Names(c.rpc)
        BY <1>6, <1>9
      <3>2. Buffers(c, Matching(c))
        BY <1>1, <1>5 DEF MatchInv, Carried, C
      <3>3. /\ Requests(d)
            /\ Names(d.rpc) = Names(c.rpc) \cup (IF m.mode = "call" THEN {m.n} ELSE {})
        BY <1>5, <1>6, <1>9, <2>1, <3>1, <3>2, NumberedMatches
      <3>4. QED
        BY <1>7, <1>8, <3>3
    <2>10. k \in listed["client"]
      BY <1>5, <2>1 DEF BaseInv, OpenInv
    <2>11. \A x, y \in e.rpc : x.n = y.n => x = y
      BY <2>8, <2>9 DEF Requests
    <2>12. T = Names(e.rpc) \cup Numbers(none) /\ Numbers(none) \cap Names(e.rpc) = {}
      BY <2>7, <2>8, <2>9
    <2>13. QED
      <3>1. e.rpc # {} /\ ~closing => k \in listed["client"]
        BY <2>10
      <3>2. UNCHANGED <<asked, called>>
        BY <1>4
      <3>3. CallStep(k, e, none, closing, T)
        BY <1>6, <1>10, <2>7, <2>11, <2>12, <3>1, <3>2, Zenon DEF CallStep
      <3>4. QED
        BY <2>6, <3>3, SettleCalls
  <1>14. QED
    BY <1>3, <1>11, <1>12, <1>13

LEMMA MatchQueuedSendClient ==
  ASSUME LinkInv, BaseInv, MatchInv, CallInv, QueuedSend("client") PROVE MatchInv'
  <1>1. "server" \in Side /\ "client" \in Side /\ "client" # "server"
    BY DEF Side
  <1>2. PICK k \in Id, m \in Message : \E c, d, r, results :
            /\ Sends("client", k, m, c, d, r) /\ SendsOnly("client") /\ results = Error(m, "NoConnection")
            /\ SendLost("client", k, m) \/ SendRefused("client", k, c, results) \/ SendMade("client", k, c, d, r)
    BY <1>1, QueuedSendSplit
  <1>3. PICK c, d, r, results :
            /\ Sends("client", k, m, c, d, r) /\ SendsOnly("client") /\ results = Error(m, "NoConnection")
            /\ SendLost("client", k, m) \/ SendRefused("client", k, c, results) \/ SendMade("client", k, c, d, r)
    BY <1>2
  <1>4. /\ queue'["client"] = Tail(queue["client"]) /\ called' = called /\ last' = last
        /\ queue'["server"] = queue["server"]
    BY <1>1, <1>3 DEF SendsOnly
  <1>5. /\ c = C(k) /\ d = Numbered(c, m) /\ ObjectInv(c) /\ pipe[k] \in Pipe
        /\ r = Sending("client", d, pipe[k])
        /\ queue["client"] # <<>> /\ m = Head(queue["client"]).m
    BY <1>3, Zenon DEF Sends, C
  <1>6. m.n \in Queued /\ m.seq = 0 /\ m.mode # "reply"
    BY <1>4, <1>5, HeadLeaves
  <1>7. PICK p \in Pipe : p = pipe[k]
    BY <1>5
  <1>8. /\ Requests(c) /\ m.n \notin Names(c.rpc) /\ Buffers(c, Matching(c))
        /\ \A t \in Side : p.to[t] \in Seq(Matching(c))
    BY <1>1, <1>5, <1>6, <1>7 DEF CallInv, MatchInv, Carried, C
  <1>9. PICK none : none = <<>>
    OBVIOUS
  <1>10. none \in Seq(Event) /\ \A M : Heard(none, M)
    <2>1. DOMAIN <<>> = {}
      OBVIOUS
    <2>2. QED
      BY <1>9, <2>1, EmptySeq DEF Heard, Receipts
  <1>11. CASE SendLost("client", k, m)
    <2>1. UNCHANGED <<conn, pipe, log, last>>
      BY <1>4, <1>11 DEF SendLost
    <2>2. QED
      BY <1>4, <2>1, MatchQuiet
  <1>12. CASE SendRefused("client", k, c, results)
    <2>1. PICK closing \in BOOLEAN : closing = TRUE
      OBVIOUS
    <2>2. Settle("client", k, c, p, none, results, closing) /\ c.state = "closed"
      BY <1>7, <1>9, <1>12, <2>1 DEF SendRefused
    <2>3. Heard(none, Matching(c))
      BY <1>10
    <2>4. QED
      BY <1>4, <1>5, <1>8, <1>10, <2>2, <2>3, SettleMatchClient
  <1>13. CASE SendMade("client", k, c, d, r)
    <2>1. /\ c.state = "open" /\ ObjectInv(d)
          /\ Settle("client", k, r.c, r.p, <<>>, <<>>, r.closing)
          /\ ObjectInv(r.c) /\ r.p \in Pipe /\ r.closing \in BOOLEAN
      BY <1>13 DEF SendMade
    <2>2. PICK e : e = r.c
      OBVIOUS
    <2>3. PICK o \in Pipe : o = r.p
      BY <2>1
    <2>4. PICK closing \in BOOLEAN : closing = r.closing
      BY <2>1
    <2>5. Settle("client", k, e, o, none, none, closing) /\ ObjectInv(e)
      BY <1>9, <2>1, <2>2, <2>3, <2>4
    <2>6. /\ Requests(d) /\ d.state = c.state /\ c.nextSeq <= d.nextSeq
          /\ \A x \in d.rpc : x \in c.rpc \/ x.seq = c.nextSeq
          /\ Buffers(d, Matching(d)) /\ Matching(c) \subseteq Matching(d)
      BY <1>5, <1>6, <1>8, <2>1, NumberedMatches
    <2>7. e.rpc = d.rpc /\ e.nextSeq = d.nextSeq /\ e.state = d.state
      BY <1>1, <1>5, <2>1, <2>2, SendingSame
    <2>8. PICK M : M = Matching(d)
      OBVIOUS
    <2>9. Matching(e) = M /\ Requests(e)
      BY <2>6, <2>7, <2>8 DEF Matching, Matches, Requests
    <2>10. Buffers(d, M) /\ \A t \in Side : p.to[t] \in Seq(M)
      BY <1>8, <2>6, <2>8, CarriedGrows
    <2>11. Buffers(e, M) /\ \A t \in Side : o.to[t] \in Seq(M)
      <3>1. r = Sending("client", d, p)
        BY <1>5, <1>7
      <3>2. Buffers(r.c, M) /\ \A t \in Side : r.p.to[t] \in Seq(M)
        BY <1>1, <2>1, <2>10, <3>1, SendingCarried
      <3>3. QED
        BY <2>2, <2>3, <3>2
    <2>12. /\ Buffers(e, Matching(e)) /\ Heard(none, Matching(e))
           /\ \A t \in Side : o.to[t] \in Seq(Matching(e))
      BY <1>10, <2>9, <2>11
    <2>13. e.state = "open" => /\ C(k).state = "open" /\ C(k).nextSeq <= e.nextSeq
                               /\ \A x \in e.rpc : x \in C(k).rpc \/ x.seq = C(k).nextSeq
      BY <1>5, <2>1, <2>6, <2>7
    <2>14. QED
      BY <1>4, <1>10, <2>5, <2>9, <2>12, <2>13, SettleMatchClient
  <1>14. QED
    BY <1>3, <1>11, <1>12, <1>13

\* A step of the launcher runs no callback of the client.
LEMMA ServerAnswers ==
  ASSUME LinkInv, NEW c, ObjectInv(c), c.rpc = {}, NEW none, none = <<>>, NEW closing \in BOOLEAN,
         NEW ended \in (IF closing THEN ClosedAnswers(c) ELSE {<<>>}),
         answers' = answers \o none \o ended
  PROVE  answers' = answers
  <1>1. ended \in Seq(Answer) /\ Numbers(ended) = {}
    BY EndedFacts DEF Names
  <1>2. DOMAIN ended = {}
    BY <1>1 DEF Numbers
  <1>3. DOMAIN ended = 1..Len(ended) /\ Len(ended) \in Nat
    BY <1>1
  <1>4. Len(ended) = 0
    BY <1>2, <1>3
  <1>5. ended = <<>>
    BY <1>1, <1>4, EmptySeq
  <1>6. answers \in Seq(Answer)
    BY TypeFacts
  <1>7. answers \o <<>> = answers
    BY <1>6, ConcatEmptySeq
  <1>8. QED
    BY <1>5, <1>7

\* The launcher's end has no requests, so its pipe thread answers no call.
LEMMA ServerCalls ==
  ASSUME LinkInv, CallInv, NEW k \in Id, NEW c, ObjectInv(c), c.rpc = {}, NEW p, NEW events,
         NEW none, none = <<>>, NEW closing \in BOOLEAN,
         Settle("server", k, c, p, events, none, closing),
         UNCHANGED <<asked, called>>, queue'["client"] = queue["client"]
  PROVE  CallInv'
  <1>1. "server" \in Side /\ "client" \in Side /\ "client" # "server"
    BY DEF Side
  <1>2. PICK ended : SettledTo("server", k, c, p, events, none, closing, ended)
    BY <1>1, SettleFacts
  <1>3. /\ \A t \in Side, l \in Id : t # "server" \/ l # k => conn'[t][l] = conn[t][l]
        /\ ended \in (IF closing THEN ClosedAnswers(c) ELSE {<<>>})
        /\ answers' = answers \o none \o ended
    BY <1>2 DEF SettledTo
  <1>4. \A l \in Id : C(l)'.rpc = C(l).rpc
    BY <1>1, <1>3 DEF C
  <1>5. answers' = answers
    BY <1>3, ServerAnswers
  <1>6. QED
    BY <1>4, <1>5, CallsKept

LEMMA CallsQueuedSendServer ==
  ASSUME LinkInv, BaseInv, CallInv, QueuedSend("server") PROVE CallInv'
  <1>1. "server" \in Side /\ "client" \in Side /\ "client" # "server"
    BY DEF Side
  <1>2. PICK k \in Id, m \in Message : \E c, d, r, results :
            /\ Sends("server", k, m, c, d, r) /\ SendsOnly("server") /\ results = Error(m, "NoConnection")
            /\ SendLost("server", k, m) \/ SendRefused("server", k, c, results) \/ SendMade("server", k, c, d, r)
    BY <1>1, QueuedSendSplit
  <1>3. PICK c, d, r, results :
            /\ Sends("server", k, m, c, d, r) /\ SendsOnly("server") /\ results = Error(m, "NoConnection")
            /\ SendLost("server", k, m) \/ SendRefused("server", k, c, results) \/ SendMade("server", k, c, d, r)
    BY <1>2
  <1>4. queue'["client"] = queue["client"] /\ UNCHANGED <<asked, called>>
    BY <1>1, <1>3 DEF SendsOnly
  <1>5. /\ c = S(k) /\ d = Numbered(c, m) /\ ObjectInv(c) /\ pipe[k] \in Pipe
        /\ r = Sending("server", d, pipe[k])
        /\ queue["server"] # <<>> /\ m = Head(queue["server"]).m
    BY <1>3, Zenon DEF Sends, S
  <1>6. m.mode # "call" /\ c.rpc = {}
    <2>1. queue["server"] \in Seq([k : Id, m : Message])
      BY <1>1, TypeFacts
    <2>2. 1 \in DOMAIN queue["server"] /\ queue["server"][1] = Head(queue["server"])
      BY <1>5, <2>1, TailPlaces
    <2>3. QED
      BY <1>5, <2>2 DEF BaseInv, QueueInv, OpenInv
  <1>7. PICK none : none = <<>>
    OBVIOUS
  <1>8. Error(m, "ConnectionClosed") = <<>> /\ results = none
    BY <1>3, <1>6, <1>7 DEF Error
  <1>9. CASE SendLost("server", k, m)
    <2>1. answers \in Seq(Answer)
      BY TypeFacts
    <2>2. answers' = answers
      BY <1>8, <1>9, <2>1, ConcatEmptySeq DEF SendLost
    <2>3. \A l \in Id : C(l)'.rpc = C(l).rpc
      BY <1>9 DEF SendLost, C
    <2>4. QED
      BY <1>4, <2>2, <2>3, CallsKept
  <1>10. CASE SendRefused("server", k, c, results)
    <2>1. PICK closing \in BOOLEAN : closing = TRUE
      OBVIOUS
    <2>2. PICK p : p = pipe[k]
      OBVIOUS
    <2>3. Settle("server", k, c, p, none, none, closing)
      BY <1>7, <1>8, <1>10, <2>1, <2>2 DEF SendRefused
    <2>4. QED
      BY <1>4, <1>5, <1>6, <1>7, <2>3, ServerCalls
  <1>11. CASE SendMade("server", k, c, d, r)
    <2>1. /\ ObjectInv(d) /\ Settle("server", k, r.c, r.p, <<>>, <<>>, r.closing)
          /\ ObjectInv(r.c) /\ r.closing \in BOOLEAN
      BY <1>11 DEF SendMade
    <2>2. PICK e : e = r.c
      OBVIOUS
    <2>3. PICK o : o = r.p
      OBVIOUS
    <2>4. PICK closing \in BOOLEAN : closing = r.closing
      BY <2>1
    <2>5. Settle("server", k, e, o, none, none, closing) /\ ObjectInv(e)
      BY <1>7, <2>1, <2>2, <2>3, <2>4
    <2>6. e.rpc = {}
      <3>1. e.rpc = d.rpc
        BY <1>1, <1>5, <2>1, <2>2, SendingSame
      <3>2. d.rpc = c.rpc
        BY <1>5, <1>6, NumberedFacts
      <3>3. QED
        BY <1>6, <3>1, <3>2
    <2>7. QED
      BY <1>4, <1>7, <2>5, <2>6, ServerCalls
  <1>12. QED
    BY <1>3, <1>9, <1>10, <1>11

\* A reply finds the request of the call it answers, and only that one.
LEMMA AnsweredOne ==
  ASSUME NEW c, ObjectInv(c), Requests(c), NEW m \in Matching(c)
  PROVE  /\ Answered(c, m) \subseteq c.rpc
         /\ Answered(c, m) # {} => m.n \in Names(c.rpc)
                                   /\ Names(c.rpc \ Answered(c, m)) = Names(c.rpc) \ {m.n}
  <1>1. m \in Message /\ Matches(c, m)
    BY DEF Matching
  <1>2. Answered(c, m) \subseteq c.rpc
    BY DEF Answered
  <1>3. ASSUME NEW r \in Answered(c, m)
        PROVE  m.n \in Names(c.rpc) /\ Names(c.rpc \ Answered(c, m)) = Names(c.rpc) \ {m.n}
    <2>1. r \in c.rpc /\ m.mode = "reply" /\ r.seq = m.seq
      BY <1>3 DEF Answered
    <2>2. r.n = m.n
      BY <1>1, <2>1 DEF Matches, Requests
    <2>3. \A t \in c.rpc : t.n = m.n => t = r
      BY <2>1, <2>2 DEF Requests
    <2>4. \A t \in Answered(c, m) : t = r
      BY <2>1 DEF Answered, Requests
    <2>5. c.rpc \ Answered(c, m) = {t \in c.rpc : t.n # m.n}
      BY <1>3, <2>2, <2>3, <2>4
    <2>6. QED
      BY <2>1, <2>2, <2>5 DEF Names
  <1>4. QED
    BY <1>2, <1>3

\* A step of the client's pipe thread on k that takes no call from the queue.
LEMMA ClientCalls ==
  ASSUME LinkInv, BaseInv, CallInv, NEW k \in Id, NEW c, ObjectInv(c), NEW p, NEW events,
         NEW results, NEW closing \in BOOLEAN,
         Settle("client", k, c, p, events, results, closing),
         UNCHANGED <<asked, called>>, queue'["client"] = queue["client"],
         c.state = C(k).state, Requests(c), results \in Seq(Answer), DistinctNumbers(results),
         Numbers(results) \cap Names(c.rpc) = {},
         Names(C(k).rpc) = Names(c.rpc) \cup Numbers(results)
  PROVE  CallInv'
  <1>1. PICK T : T = Names(C(k).rpc)
    OBVIOUS
  <1>2. Queued' = Queued
    BY DEF Queued
  <1>3. \A i \in DOMAIN queue'["client"] :
          queue'["client"][i].m.mode = "call" <=> queue'["client"][i].m.n \in called
    BY DEF CallInv
  <1>4. T \subseteq called
    BY <1>1 DEF CallInv
  <1>5. c.rpc # {} /\ ~closing => k \in listed["client"]
    BY DEF Requests, BaseInv, OpenInv
  <1>6. \A r, t \in c.rpc : r.n = t.n => r = t
    BY DEF Requests
  <1>7. /\ T \subseteq Names(C(k).rpc) \cup (Queued \ Queued') /\ Names(C(k).rpc) \subseteq T
        /\ (Queued \ Queued') \cap called \subseteq T /\ Queued' \subseteq Queued
        /\ T = Names(c.rpc) \cup Numbers(results)
    BY <1>1, <1>2
  <1>8. CallStep(k, c, results, closing, T)
    BY <1>3, <1>4, <1>5, <1>6, <1>7, Zenon DEF CallStep
  <1>9. QED
    BY <1>8, SettleCalls

LEMMA NoAnswers ==
  ASSUME NEW none, none = <<>>
  PROVE  /\ none \in Seq(Answer) /\ DistinctNumbers(none) /\ Numbers(none) = {}
         /\ none \in Seq(Event) /\ \A M : Heard(none, M)
  <1>1. DOMAIN <<>> = {}
    OBVIOUS
  <1>2. QED
    BY <1>1, EmptySeq DEF Heard, Receipts, DistinctNumbers, Numbers

\* What a read that is done adds to the log.
LEMMA HeardReceived ==
  ASSUME NEW M, NEW m \in M, NEW events,
         events = <<>> \/ events = <<[what |-> "received", m |-> m]>>
  PROVE  Heard(events, M)
  <1>1. CASE events = <<>>
    BY <1>1, NoAnswers
  <1>2. CASE events = <<[what |-> "received", m |-> m]>>
    <2>1. PICK x : x = [what |-> "received", m |-> m]
      OBVIOUS
    <2>2. x.m = m /\ events = <<x>>
      BY <1>2, <2>1
    <2>3. DOMAIN <<x>> = {1} /\ <<x>>[1] = x
      OBVIOUS
    <2>4. QED
      BY <2>2, <2>3 DEF Heard, Receipts
  <1>3. QED
    BY <1>1, <1>2

LEMMA CallsHandleReadComplete ==
  ASSUME LinkInv, BaseInv, MatchInv, CallInv, NEW s \in Side, NEW k \in Id, HandleReadComplete(s, k)
  PROVE  MatchInv' /\ CallInv'
  <1>1. "server" \in Side /\ "client" \in Side /\ "client" # "server"
    BY DEF Side
  <1>2. PICK c, m, mine, e, events, results : \E closing \in BOOLEAN :
            /\ Receives(s, k, c, m, mine) /\ ReceivesTo(c, m, mine, e, events, results)
            /\ Settle(s, k, e, pipe[k], events, results, closing)
            /\ UNCHANGED <<last, greeting, queue, asked, called>>
    BY HandleReadCompleteSplit
  <1>3. PICK closing \in BOOLEAN :
            /\ Receives(s, k, c, m, mine) /\ ReceivesTo(c, m, mine, e, events, results)
            /\ Settle(s, k, e, pipe[k], events, results, closing)
            /\ UNCHANGED <<last, greeting, queue, asked, called>>
    BY <1>2
  <1>4. /\ c = conn[s][k] /\ ObjectInv(c) /\ m \in Message /\ c.got = <<m>>
        /\ mine = Answered(c, m) /\ pipe[k] \in Pipe
    BY <1>3, Zenon DEF Receives
  <1>5. /\ ObjectInv(e) /\ e.got = <<>> /\ e.rpc = c.rpc \ mine /\ e.state = c.state
        /\ e.writeQueue = c.writeQueue /\ e.nextSeq = c.nextSeq
        /\ events \in Seq(Event) /\ results \in Seq(Answer)
    BY <1>3, Zenon DEF ReceivesTo
  <1>6. /\ mine = {} => events = <<[what |-> "received", m |-> m]>> /\ results = <<>>
        /\ mine # {} => events = <<>> /\ results = <<[n |-> m.n, how |-> "reply"]>>
    BY <1>3, Zenon DEF ReceivesTo
  <1>7. PICK p \in Pipe : p = pipe[k]
    BY <1>4
  <1>8. Settle(s, k, e, p, events, results, closing) /\ UNCHANGED <<last, queue, asked, called>>
    BY <1>3, <1>7
  <1>9. PICK M : M = Matching(C(k))
    OBVIOUS
  <1>10. /\ Buffers(c, M) /\ Requests(C(k)) /\ \A t \in Side : p.to[t] \in Seq(M)
    BY <1>4, <1>7, <1>9 DEF MatchInv, Carried
  <1>11. m \in M
    <2>1. c.got \in Seq(M) /\ c.got # <<>> /\ Head(c.got) = m
      BY <1>4, <1>10 DEF Buffers
    <2>2. QED
      BY <2>1, HeadType
  <1>12. Heard(events, M)
    BY <1>6, <1>11, HeardReceived
  <1>13. Buffers(e, M)
    <2>1. <<>> \in Seq(M)
      BY EmptySeq
    <2>2. QED
      BY <1>5, <1>10, <2>1 DEF Buffers
  <1>14. CASE s = "server"
    <2>1. c.rpc = {}
      BY <1>4, <1>14 DEF BaseInv, OpenInv, S
    <2>2. mine = {} /\ results = <<>> /\ e.rpc = {}
      BY <1>4, <1>5, <1>6, <2>1 DEF Answered
    <2>3. Settle("server", k, e, p, events, results, closing) /\ queue'["client"] = queue["client"]
      BY <1>8, <1>14
    <2>4. CallInv'
      BY <1>5, <1>8, <2>2, <2>3, ServerCalls
    <2>5. MatchInv'
      BY <1>5, <1>8, <1>9, <1>10, <1>12, <1>13, <2>3, SettleMatchServer
    <2>6. QED
      BY <2>4, <2>5
  <1>15. CASE s = "client"
    <2>1. c = C(k)
      BY <1>4, <1>15 DEF C
    <2>2. /\ mine \subseteq c.rpc
          /\ mine # {} => m.n \in Names(c.rpc) /\ Names(c.rpc \ mine) = Names(c.rpc) \ {m.n}
      BY <1>4, <1>9, <1>10, <1>11, <2>1, AnsweredOne
    <2>3. Requests(e)
      BY <1>5, <1>10, <2>1, <2>2 DEF Requests
    <2>4. /\ DistinctNumbers(results) /\ Numbers(results) \cap Names(e.rpc) = {}
          /\ Names(C(k).rpc) = Names(e.rpc) \cup Numbers(results)
      <3>1. CASE mine = {}
        BY <1>5, <1>6, <2>1, <3>1, NoAnswers
      <3>2. CASE mine # {}
        <4>1. PICK x : x = [n |-> m.n, how |-> "reply"]
          OBVIOUS
        <4>2. x.n = m.n /\ results = <<x>>
          BY <1>6, <3>2, <4>1
        <4>3. DOMAIN <<x>> = {1} /\ <<x>>[1] = x
          OBVIOUS
        <4>4. Numbers(results) = {m.n} /\ DistinctNumbers(results)
          BY <4>2, <4>3 DEF Numbers, DistinctNumbers
        <4>5. QED
          BY <1>5, <2>1, <2>2, <3>2, <4>4
      <3>3. QED
        BY <3>1, <3>2
    <2>5. Settle("client", k, e, p, events, results, closing) /\ queue'["client"] = queue["client"]
      BY <1>8, <1>15
    <2>6. CallInv'
      BY <1>5, <1>8, <2>1, <2>3, <2>4, <2>5, ClientCalls
    <2>7. M \subseteq Matching(e)
      <3>1. c.nextSeq \in Nat
        BY <1>4 DEF ObjectInv, PipeConnection
      <3>2. QED
        BY <1>5, <1>9, <2>1, <2>2, <3>1, MatchingGrows
    <2>8. PICK N : N = Matching(e)
      OBVIOUS
    <2>9. Buffers(e, N) /\ (\A t \in Side : p.to[t] \in Seq(N)) /\ Heard(events, N)
      <3>1. M \subseteq N
        BY <2>7, <2>8
      <3>2. QED
        BY <1>10, <1>12, <1>13, <3>1, CarriedGrows DEF Heard
    <2>10. e.state = "open" => /\ C(k).state = "open" /\ C(k).nextSeq <= e.nextSeq
                               /\ \A x \in e.rpc : x \in C(k).rpc \/ x.seq = C(k).nextSeq
      BY <1>4, <1>5, <2>1 DEF ObjectInv, PipeConnection
    <2>11. MatchInv'
      BY <1>5, <1>8, <2>3, <2>5, <2>8, <2>9, <2>10, SettleMatchClient
    <2>12. QED
      BY <2>6, <2>11
  <1>16. QED
    BY <1>14, <1>15 DEF Side

\* A step of a pipe thread that neither registers nor answers a call.
LEMMA CallsSettled ==
  ASSUME LinkInv, BaseInv, MatchInv, CallInv, NEW s \in Side, NEW k \in Id, NEW c, ObjectInv(c),
         NEW p \in Pipe, NEW closing \in BOOLEAN, NEW none, none = <<>>,
         Settle(s, k, c, p, none, none, closing), UNCHANGED <<last, queue, asked, called>>,
         c.state = conn[s][k].state, c.rpc = conn[s][k].rpc, c.nextSeq = conn[s][k].nextSeq,
         Buffers(c, Matching(C(k))), \A t \in Side : p.to[t] \in Seq(Matching(C(k)))
  PROVE  MatchInv' /\ CallInv'
  <1>1. PICK M : M = Matching(C(k))
    OBVIOUS
  <1>2. Buffers(c, M) /\ (\A t \in Side : p.to[t] \in Seq(M)) /\ Requests(C(k))
    BY <1>1 DEF MatchInv
  <1>3. /\ none \in Seq(Event) /\ Heard(none, M)
        /\ none \in Seq(Answer) /\ DistinctNumbers(none) /\ Numbers(none) = {}
    BY NoAnswers
  <1>4. CASE s = "server"
    <2>1. c.rpc = {}
      BY <1>4 DEF BaseInv, OpenInv, S
    <2>2. Settle("server", k, c, p, none, none, closing) /\ queue'["client"] = queue["client"]
      BY <1>4
    <2>3. CallInv'
      BY <2>1, <2>2, ServerCalls
    <2>4. MatchInv'
      BY <1>1, <1>2, <1>3, <2>2, SettleMatchServer
    <2>5. QED
      BY <2>3, <2>4
  <1>5. CASE s = "client"
    <2>1. Settle("client", k, c, p, none, none, closing) /\ queue'["client"] = queue["client"]
          /\ c.state = C(k).state /\ c.rpc = C(k).rpc /\ c.nextSeq = C(k).nextSeq
      BY <1>5 DEF C
    <2>2. Requests(c) /\ Matching(c) = M
      BY <1>1, <1>2, <2>1 DEF Requests, Matching, Matches
    <2>3. CallInv'
      BY <1>3, <2>1, <2>2, ClientCalls
    <2>4. Buffers(c, Matching(c)) /\ Heard(none, Matching(c)) /\ \A t \in Side : p.to[t] \in Seq(Matching(c))
      BY <1>2, <1>3, <2>2
    <2>5. c.state = "open" => /\ C(k).state = "open" /\ C(k).nextSeq <= c.nextSeq
                              /\ \A x \in c.rpc : x \in C(k).rpc \/ x.seq = C(k).nextSeq
      BY <2>1 DEF ObjectInv, PipeConnection
    <2>6. MatchInv'
      BY <1>3, <2>1, <2>2, <2>4, <2>5, SettleMatchClient
    <2>7. QED
      BY <2>3, <2>6
  <1>6. QED
    BY <1>4, <1>5 DEF Side

LEMMA CallsHandleReadError ==
  ASSUME LinkInv, BaseInv, MatchInv, CallInv, NEW s \in Side, NEW k \in Id, HandleReadError(s, k)
  PROVE  MatchInv' /\ CallInv'
  <1>1. /\ ObjectInv(conn[s][k]) /\ pipe[k] \in Pipe /\ conn[s][k].reading # "done"
        /\ ObjectInv(Unread(conn[s][k]))
        /\ Settle(s, k, Unread(conn[s][k]), pipe[k], <<>>, <<>>, TRUE)
        /\ UNCHANGED <<last, queue, asked, called>>
    BY HandleReadErrorFacts
  <1>2. PICK c : c = Unread(conn[s][k])
    OBVIOUS
  <1>3. PICK p \in Pipe : p = pipe[k]
    BY <1>1
  <1>4. PICK none : none = <<>>
    OBVIOUS
  <1>5. PICK closing \in BOOLEAN : closing = TRUE
    OBVIOUS
  <1>6. Settle(s, k, c, p, none, none, closing) /\ ObjectInv(c)
    BY <1>1, <1>2, <1>3, <1>4, <1>5
  <1>7. /\ c.state = conn[s][k].state /\ c.rpc = conn[s][k].rpc /\ c.nextSeq = conn[s][k].nextSeq
        /\ c.got = conn[s][k].got /\ c.writeQueue = conn[s][k].writeQueue
    BY <1>1, <1>2, UnreadType
  <1>8. Buffers(c, Matching(C(k))) /\ \A t \in Side : p.to[t] \in Seq(Matching(C(k)))
    BY <1>3, <1>7 DEF MatchInv, Carried, Buffers
  <1>9. QED
    BY <1>1, <1>4, <1>6, <1>7, <1>8, CallsSettled

LEMMA CallsHandleWriteComplete ==
  ASSUME LinkInv, BaseInv, MatchInv, CallInv, NEW s \in Side, NEW k \in Id, HandleWriteComplete(s, k)
  PROVE  MatchInv' /\ CallInv'
  <1>1. PICK c : c = Written(conn[s][k])
    OBVIOUS
  <1>2. PICK r : r = Sending(s, c, pipe[k])
    OBVIOUS
  <1>3. /\ ObjectInv(conn[s][k]) /\ pipe[k] \in Pipe /\ conn[s][k].writing /\ ObjectInv(c)
        /\ UNCHANGED <<last, queue, asked, called>>
        /\ \/ /\ Settle(s, k, r.c, r.p, <<>>, <<>>, r.closing)
              /\ ObjectInv(r.c) /\ r.p \in Pipe /\ r.closing \in BOOLEAN
           \/ c.state = "closed" /\ Settle(s, k, c, pipe[k], <<>>, <<>>, TRUE)
    BY <1>1, <1>2, HandleWriteCompleteFacts
  <1>4. /\ c.state = conn[s][k].state /\ c.rpc = conn[s][k].rpc /\ c.nextSeq = conn[s][k].nextSeq
        /\ c.got = conn[s][k].got /\ c.writeQueue = Tail(conn[s][k].writeQueue)
        /\ conn[s][k].writeQueue # <<>>
    BY <1>1, <1>3, WrittenType DEF ObjectInv
  <1>5. PICK p \in Pipe : p = pipe[k]
    BY <1>3
  <1>6. PICK none : none = <<>>
    OBVIOUS
  <1>7. PICK M : M = Matching(C(k))
    OBVIOUS
  <1>8. Buffers(c, M) /\ \A t \in Side : p.to[t] \in Seq(M)
    <2>1. Buffers(conn[s][k], M) /\ \A t \in Side : p.to[t] \in Seq(M)
      BY <1>5, <1>7 DEF MatchInv, Carried
    <2>2. PICK q : q = conn[s][k].writeQueue
      OBVIOUS
    <2>3. q \in Seq(M) /\ q # <<>>
      BY <1>4, <2>1, <2>2 DEF Buffers
    <2>4. Tail(q) \in Seq(M)
      BY <2>3, HeadType
    <2>5. QED
      BY <1>4, <2>1, <2>2, <2>4 DEF Buffers
  <1>9. CASE Settle(s, k, r.c, r.p, <<>>, <<>>, r.closing)
             /\ ObjectInv(r.c) /\ r.p \in Pipe /\ r.closing \in BOOLEAN
    <2>1. PICK e : e = r.c
      OBVIOUS
    <2>2. PICK o \in Pipe : o = r.p
      BY <1>9
    <2>3. PICK closing \in BOOLEAN : closing = r.closing
      BY <1>9
    <2>4. Settle(s, k, e, o, none, none, closing) /\ ObjectInv(e)
      BY <1>6, <1>9, <2>1, <2>2, <2>3
    <2>5. r = Sending(s, c, p)
      BY <1>2, <1>5
    <2>6. e.state = c.state /\ e.rpc = c.rpc /\ e.nextSeq = c.nextSeq
      BY <1>3, <2>1, <2>5, SendingSame
    <2>7. Buffers(r.c, M) /\ \A t \in Side : r.p.to[t] \in Seq(M)
      BY <1>3, <1>8, <2>5, SendingCarried
    <2>8. Buffers(e, Matching(C(k))) /\ \A t \in Side : o.to[t] \in Seq(Matching(C(k)))
      BY <1>7, <2>1, <2>2, <2>7
    <2>9. e.state = conn[s][k].state /\ e.rpc = conn[s][k].rpc /\ e.nextSeq = conn[s][k].nextSeq
      BY <1>4, <2>6
    <2>10. QED
      BY <1>3, <1>6, <2>4, <2>8, <2>9, CallsSettled
  <1>10. CASE Settle(s, k, c, pipe[k], <<>>, <<>>, TRUE)
    <2>1. PICK closing \in BOOLEAN : closing = TRUE
      OBVIOUS
    <2>2. Settle(s, k, c, p, none, none, closing)
      BY <1>5, <1>6, <1>10, <2>1
    <2>3. Buffers(c, Matching(C(k))) /\ \A t \in Side : p.to[t] \in Seq(Matching(C(k)))
      BY <1>7, <1>8
    <2>4. QED
      BY <1>3, <1>4, <1>6, <2>2, <2>3, CallsSettled
  <1>11. QED
    BY <1>3, <1>9, <1>10

LEMMA CallsStopClient ==
  ASSUME LinkInv, BaseInv, MatchInv, CallInv, StopClient PROVE MatchInv' /\ CallInv'
  <1>1. "server" \in Side /\ "client" \in Side /\ "client" # "server"
    BY DEF Side
  <1>2. /\ UNCHANGED <<last, queue, asked, called>>
        /\ \/ listed["client"] = {} /\ UNCHANGED <<conn, pipe, listed, log, answers>>
           \/ \E k \in Id : /\ k \in listed["client"]
                 /\ ObjectInv(conn["client"][k]) /\ pipe[k] \in Pipe
                 /\ Settle("client", k, conn["client"][k], pipe[k], <<>>, <<>>, TRUE)
    BY StopClientFacts
  <1>3. CASE UNCHANGED <<conn, pipe, listed, log, answers>>
    <2>1. CallInv'
      BY <1>2, <1>3, CallsKept DEF C
    <2>2. MatchInv'
      BY <1>2, <1>3, MatchQuiet
    <2>3. QED
      BY <2>1, <2>2
  <1>4. ASSUME NEW k \in Id, ObjectInv(conn["client"][k]), pipe[k] \in Pipe,
               Settle("client", k, conn["client"][k], pipe[k], <<>>, <<>>, TRUE)
        PROVE  MatchInv' /\ CallInv'
    <2>1. PICK c : c = conn["client"][k]
      OBVIOUS
    <2>2. PICK p \in Pipe : p = pipe[k]
      BY <1>4
    <2>3. PICK none : none = <<>>
      OBVIOUS
    <2>4. PICK closing \in BOOLEAN : closing = TRUE
      OBVIOUS
    <2>5. Settle("client", k, c, p, none, none, closing) /\ ObjectInv(c)
      BY <1>4, <2>1, <2>2, <2>3, <2>4
    <2>6. Buffers(c, Matching(C(k))) /\ \A t \in Side : p.to[t] \in Seq(Matching(C(k)))
      BY <1>1, <2>1, <2>2 DEF MatchInv, Carried
    <2>7. c.state = conn["client"][k].state /\ c.rpc = conn["client"][k].rpc
          /\ c.nextSeq = conn["client"][k].nextSeq
      BY <2>1
    <2>8. QED
      BY <1>1, <1>2, <2>3, <2>5, <2>6, <2>7, CallsSettled
  <1>5. QED
    BY <1>2, <1>3, <1>4

\* Something of what is under way is discarded, and nothing is added.
LEMMA CarriedCut ==
  ASSUME LinkInv, NEW k \in Id, NEW M, Carried(k, M),
         \A s \in Side : Buffers(conn'[s][k], M),
         pipe'[k] = pipe[k] \/ \E s \in Side : pipe'[k] = ShutPipe(s, pipe[k]),
         log'["server"][k] = log["server"][k] \/ Receipts(log'["server"][k]) = {}
  PROVE  Carried(k, M)'
  <1>1. PICK p \in Pipe : p = pipe[k]
    BY TypeFacts
  <1>2. ASSUME NEW t \in Side PROVE pipe'[k].to[t] \in Seq(M)
    <2>1. p.to[t] \in Seq(M) /\ <<>> \in Seq(M)
      BY <1>1, EmptySeq DEF Carried
    <2>2. CASE pipe'[k] = pipe[k]
      BY <1>1, <2>1, <2>2
    <2>3. ASSUME NEW s \in Side, pipe'[k] = ShutPipe(s, pipe[k]) PROVE pipe'[k].to[t] \in Seq(M)
      <3>1. ShutPipe(s, p).to[t] = <<>> \/ ShutPipe(s, p).to[t] = p.to[t]
        BY ShutPipeType
      <3>2. PICK o : o = ShutPipe(s, p)
        OBVIOUS
      <3>3. pipe'[k] = o /\ (o.to[t] = <<>> \/ o.to[t] = p.to[t])
        BY <1>1, <2>3, <3>1, <3>2
      <3>4. QED
        BY <2>1, <3>3
    <2>4. QED
      BY <2>2, <2>3
  <1>3. Heard(log'["server"][k], M)
    BY DEF Heard, Carried
  <1>4. QED
    BY <1>2, <1>3 DEF Carried

LEMMA MatchCut ==
  ASSUME LinkInv, MatchInv, last' = last, queue'["server"] = queue["server"],
         \A l \in Id : C(l)' = C(l),
         \A l \in Id : S(l)'.got = S(l).got /\ S(l)'.writeQueue = S(l).writeQueue,
         \A l \in Id : pipe'[l] = pipe[l] \/ \E s \in Side : pipe'[l] = ShutPipe(s, pipe[l]),
         \A l \in Id : log'["server"][l] = log["server"][l] \/ Receipts(log'["server"][l]) = {}
  PROVE  MatchInv'
  <1>1. "server" \in Side /\ "client" \in Side /\ \A t \in Side : t = "client" \/ t = "server"
    BY DEF Side
  <1>2. ASSUME NEW l \in Id, NEW X \in SUBSET Message, Carried(l, X) PROVE Carried(l, X)'
    <2>1. \A t \in Side : Buffers(conn[t][l], X)
      BY <1>2 DEF Carried
    <2>2. Buffers(conn'["client"][l], X)
      BY <1>1, <2>1 DEF C
    <2>3. Buffers(conn'["server"][l], X)
      BY <1>1, <2>1 DEF S, Buffers
    <2>4. \A t \in Side : Buffers(conn'[t][l], X)
      BY <1>1, <2>2, <2>3
    <2>5. QED
      BY <1>2, <2>4, CarriedCut
  <1>3. \A l \in Id, X \in SUBSET Message : X = Matching(C(l)) /\ Carried(l, X) => Carried(l, X)'
    BY <1>2
  <1>4. QED
    BY <1>3, MatchKept

LEMMA CallsStopServer ==
  ASSUME LinkInv, MatchInv, CallInv, StopServer PROVE MatchInv' /\ CallInv'
  <1>1. "server" \in Side /\ "client" \in Side
    BY DEF Side
  <1>2. /\ \A l \in Id : conn'["client"][l] = conn["client"][l]
        /\ \A l \in Id : conn'["server"][l] =
               IF l \in listed["server"] /\ conn["server"][l].state = "open"
               THEN Closed(conn["server"][l]) ELSE conn["server"][l]
        /\ \A l \in Id : pipe'[l] = ShutPipe("server", pipe[l]) \/ pipe'[l] = pipe[l]
        /\ UNCHANGED <<last, queue, log, asked, called, answers>>
    BY StopServerFacts
  <1>3. \A l \in Id : C(l)' = C(l)
    BY <1>2 DEF C
  <1>4. ASSUME NEW l \in Id PROVE S(l)'.got = S(l).got /\ S(l)'.writeQueue = S(l).writeQueue
    <2>1. ObjectInv(S(l))
      BY <1>1, TypeFacts DEF S
    <2>2. Closed(S(l)).got = S(l).got /\ Closed(S(l)).writeQueue = S(l).writeQueue
      BY <2>1, ClosedType
    <2>3. S(l)' = S(l) \/ S(l)' = Closed(S(l))
      BY <1>2 DEF S
    <2>4. QED
      BY <2>2, <2>3
  <1>5. MatchInv'
    BY <1>1, <1>2, <1>3, <1>4, MatchCut
  <1>6. CallInv'
    BY <1>2, <1>3, CallsKept
  <1>7. QED
    BY <1>5, <1>6

\* What Accept changes discards at most what was in the pipe.
LEMMA AcceptCuts ==
  ASSUME LinkInv, BaseInv, Accept
  PROVE  /\ \A l \in Id : C(l)' = C(l)
         /\ \A l \in Id : S(l)'.got = S(l).got /\ S(l)'.writeQueue = S(l).writeQueue
         /\ \A l \in Id : log'["server"][l] = log["server"][l] \/ Receipts(log'["server"][l]) = {}
         /\ \A l \in Id : pipe'[l] = pipe[l] \/ \E s \in Side : pipe'[l] = ShutPipe(s, pipe[l])
         /\ UNCHANGED <<last, queue, asked, called, answers>>
  <1>1. PICK first \in Reading("server", Opening(NoObject), pipe[last]) :
           LET notices == ClosedNotices("server", first.c, first.closing, FALSE)
           IN  /\ last \in Id /\ conn["server"][last].state = "none"
               /\ ObjectInv(first.c) /\ first.closing \in BOOLEAN /\ notices \in Seq(Event)
               /\ conn'["server"][last] = IF first.closing THEN Closed(first.c) ELSE first.c
               /\ \A l \in Id : conn'["client"][l] = conn["client"][l]
               /\ \A l \in Id : l # last => conn'["server"][l] = conn["server"][l]
               /\ pipe'[last] = IF first.closing THEN ShutPipe("server", pipe[last]) ELSE pipe[last]
               /\ \A l \in Id : l # last => pipe'[l] = pipe[l]
               /\ log'["server"][last] = notices \o <<[what |-> "incoming"]>>
               /\ \A l \in Id : l # last => log'["server"][l] = log["server"][l]
               /\ UNCHANGED <<last, queue, asked, called, answers>>
    BY AcceptFacts, Zenon
  <1>2. PICK k \in Id : k = last
    BY <1>1
  <1>3. "server" \in Side /\ "client" \in Side
    BY DEF Side
  <1>4. S(k).got = <<>> /\ S(k).writeQueue = <<>>
    BY <1>1, <1>2 DEF BaseInv, NoneInv, S, NoObject
  <1>5. S(k)'.got = <<>> /\ S(k)'.writeQueue = <<>>
    <2>1. /\ Opening(NoObject) \in PipeConnection /\ Opening(NoObject).got = <<>>
          /\ Opening(NoObject).writeQueue = <<>>
      BY NoObjectInv DEF ObjectInv
    <2> DEFINE d == Opening(NoObject)
    <2>2. /\ first.c.state = d.state /\ first.c.got = d.got /\ first.c.rpc = d.rpc
          /\ first.c.nextSeq = d.nextSeq /\ first.c.writing = d.writing
          /\ first.c.writeQueue = d.writeQueue
          /\ \/ first.closing = FALSE /\ first.c.reading = "pending" /\ d.state # "closed"
             \/ first.closing = TRUE /\ first.c.reading = "no"
      BY <1>1, <1>3, <2>1, ReadingCases
    <2>3. first.c.got = <<>> /\ first.c.writeQueue = <<>>
      BY <2>1, <2>2
    <2>4. Closed(first.c).got = first.c.got /\ Closed(first.c).writeQueue = first.c.writeQueue
      BY <1>1, ClosedType
    <2>5. QED
      BY <1>1, <1>2, <2>3, <2>4 DEF S
  <1> DEFINE q == ClosedNotices("server", first.c, first.closing, FALSE) \o <<[what |-> "incoming"]>>
  <1>6. log'["server"][k] = q /\ \A j \in DOMAIN q : q[j].what # "received"
    BY <1>1, <1>2, AcceptLog
  <1> HIDE DEF q
  <1>7. Receipts(log'["server"][k]) = {}
    BY <1>6 DEF Receipts
  <1>8. \A l \in Id : C(l)' = C(l)
    BY <1>1 DEF C
  <1>9. \A l \in Id : S(l)'.got = S(l).got /\ S(l)'.writeQueue = S(l).writeQueue
    BY <1>1, <1>2, <1>4, <1>5 DEF S
  <1>10. \A l \in Id : log'["server"][l] = log["server"][l] \/ Receipts(log'["server"][l]) = {}
    BY <1>1, <1>2, <1>7
  <1>11. \A l \in Id : pipe'[l] = pipe[l] \/ \E s \in Side : pipe'[l] = ShutPipe(s, pipe[l])
    BY <1>1, <1>3
  <1>12. UNCHANGED <<last, queue, asked, called, answers>>
    BY <1>1
  <1>13. QED
    BY <1>8, <1>9, <1>10, <1>11, <1>12

LEMMA CallsAccept ==
  ASSUME LinkInv, BaseInv, MatchInv, CallInv, Accept PROVE MatchInv' /\ CallInv'
  <1>1. /\ \A l \in Id : C(l)' = C(l)
        /\ \A l \in Id : S(l)'.got = S(l).got /\ S(l)'.writeQueue = S(l).writeQueue
        /\ \A l \in Id : log'["server"][l] = log["server"][l] \/ Receipts(log'["server"][l]) = {}
        /\ \A l \in Id : pipe'[l] = pipe[l] \/ \E s \in Side : pipe'[l] = ShutPipe(s, pipe[l])
        /\ UNCHANGED <<last, queue, asked, called, answers>>
    BY AcceptCuts
  <1>2. MatchInv'
    BY <1>1, MatchCut
  <1>3. CallInv'
    BY <1>1, CallsKept
  <1>4. QED
    BY <1>2, <1>3

LEMMA CallsCrash ==
  ASSUME LinkInv, MatchInv, CallInv, Crash PROVE MatchInv' /\ CallInv'
  <1>1. "server" \in Side /\ "client" \in Side /\ \A t \in Side : t = "client" \/ t = "server"
    BY DEF Side
  <1>2. /\ \A l \in Id : conn'["client"][l] = NoObject /\ conn'["server"][l] = conn["server"][l]
        /\ \A l \in Id : pipe'[l] = ShutPipe("client", pipe[l]) \/ pipe'[l] = pipe[l]
        /\ queue'["client"] = <<>> /\ queue'["server"] = queue["server"]
        /\ called' = {} /\ answers' = <<>> /\ UNCHANGED <<last, log, asked>>
    BY CrashFacts
  <1>3. PICK d : d = NoObject
    OBVIOUS
  <1>4. d.state = "none" /\ d.rpc = {} /\ d.nextSeq = 1 /\ d.got = <<>> /\ d.writeQueue = <<>>
    BY <1>3 DEF NoObject
  <1>5. \A l \in Id : C(l)' = d
    BY <1>2, <1>3 DEF C
  <1>6. ASSUME NEW l \in Id
        PROVE  Requests(C(l))' /\ Carried(l, Matching(C(l)))' /\ Replies(l, Matching(C(l)))'
    <2>1. C(l).nextSeq \in Nat
      BY <1>1, TypeFacts DEF C, ObjectInv, PipeConnection
    <2>2. PICK N : N = Matching(d)
      OBVIOUS
    <2>3. Matching(C(l)) \subseteq N
      BY <1>4, <2>1, <2>2, MatchingGrows
    <2>4. Carried(l, N) /\ Replies(l, N)
      BY <2>3, CarriedGrows DEF MatchInv
    <2>5. Buffers(d, N)
      BY <1>4, EmptySeq DEF Buffers
    <2>6. \A t \in Side : Buffers(conn'[t][l], N)
      BY <1>1, <1>2, <1>3, <2>4, <2>5 DEF Carried
    <2>7. Carried(l, N)'
      BY <1>1, <1>2, <2>4, <2>6, CarriedCut
    <2>8. Replies(l, N)'
      BY <1>2, <2>4 DEF Replies
    <2>9. Requests(d)
      BY <1>4 DEF Requests
    <2>10. QED
      BY <1>5, <2>2, <2>7, <2>8, <2>9
  <1>7. MatchInv'
    BY <1>2, <1>6 DEF MatchInv
  <1>8. DOMAIN <<>> = {}
    OBVIOUS
  <1>9. Queued' = {} /\ Numbers(answers') = {} /\ DistinctNumbers(answers')
    BY <1>2, <1>8 DEF Queued, Numbers, DistinctNumbers
  <1>10. \A l \in Id : Names(C(l)'.rpc) = {}
    BY <1>4, <1>5 DEF Names
  <1>11. CallInv'
    BY <1>2, <1>8, <1>9, <1>10 DEF CallInv
  <1>12. QED
    BY <1>7, <1>11

LEMMA CallsConnect ==
  ASSUME LinkInv, BaseInv, MatchInv, CallInv, Connect PROVE MatchInv' /\ CallInv'
  <1>1. "server" \in Side /\ "client" \in Side /\ "client" # "server"
        /\ \A t \in Side : t = "client" \/ t = "server"
    BY DEF Side
  <1>2. /\ last + 1 \in Id /\ last' = last + 1 /\ last \in Nat
        /\ conn'["client"][last + 1] = Opened
        /\ \A t \in Side, l \in Id : t # "client" \/ l # last + 1 => conn'[t][l] = conn[t][l]
        /\ UNCHANGED <<pipe, queue, log, asked, called, answers>>
    BY ConnectFacts
  <1>3. PICK k \in Id : k = last + 1
    BY <1>2
  <1>4. k > last
    BY <1>2, <1>3
  <1>5. PICK d : d = Opened
    OBVIOUS
  <1>6. /\ d.state = "open" /\ d.rpc = {} /\ d.nextSeq = 1 /\ d.got = <<>> /\ d.writeQueue = <<>>
    BY <1>5, NoObjectInv
  <1>7. C(k)' = d /\ \A l \in Id : l # k => C(l)' = C(l)
    BY <1>1, <1>2, <1>3, <1>5 DEF C
  <1>8. /\ \A s \in Side : ~Alive(s, k) /\ pipe[k].to[s] = <<>>
        /\ S(k) = NoObject /\ log["server"][k] = <<>>
    BY <1>4 DEF BaseInv, FreshInv, NoneInv
  <1>9. C(k).rpc = {}
    <2>1. C(k).state # "open"
      BY <1>1, <1>8 DEF BaseInv, OpenInv, Alive
    <2>2. QED
      BY <2>1 DEF MatchInv, Requests
  <1>10. \A l \in Id : C(l)'.rpc = C(l).rpc
    BY <1>6, <1>7, <1>9
  <1>11. CallInv'
    BY <1>2, <1>10, CallsKept
  <1>12. Requests(C(k))' /\ Carried(k, Matching(C(k)))' /\ Replies(k, Matching(C(k)))'
    <2>1. PICK N : N = Matching(d)
      OBVIOUS
    <2>2. Requests(d)
      BY <1>6 DEF Requests
    <2>3. Buffers(d, N)
      BY <1>6, EmptySeq DEF Buffers
    <2>4. Buffers(NoObject, N)
      BY EmptySeq DEF Buffers, NoObject
    <2>5. conn'["client"][k] = d /\ conn'["server"][k] = NoObject
      BY <1>1, <1>2, <1>7, <1>8 DEF C, S
    <2>6. \A t \in Side : Buffers(conn'[t][k], N)
      BY <1>1, <2>3, <2>4, <2>5
    <2>7. \A t \in Side : pipe'[k].to[t] \in Seq(N)
      BY <1>2, <1>8, EmptySeq
    <2>8. Heard(log'["server"][k], N)
      BY <1>2, <1>8, NoAnswers
    <2>9. Carried(k, N)'
      BY <2>6, <2>7, <2>8 DEF Carried
    <2>10. ~(k <= last)
      BY <1>2, <1>3
    <2>11. Replies(k, N)'
      BY <1>2, <2>10 DEF Replies, MatchInv
    <2>12. QED
      BY <1>7, <2>1, <2>2, <2>9, <2>11
  <1>13. ASSUME NEW l \in Id, l # k
         PROVE  Requests(C(l))' /\ Carried(l, Matching(C(l)))' /\ Replies(l, Matching(C(l)))'
    <2>1. PICK X \in SUBSET Message : X = Matching(C(l))
      BY MatchingType
    <2>2. Carried(l, X) /\ Replies(l, X) /\ Requests(C(l))
      BY <2>1 DEF MatchInv
    <2>3. Matching(C(l))' = X /\ Requests(C(l))'
      BY <1>7, <1>13, <2>1, <2>2
    <2>4. \A t \in Side : conn'[t][l] = conn[t][l]
      BY <1>2, <1>3, <1>13
    <2>5. Carried(l, X)' /\ Replies(l, X)'
      BY <1>2, <2>2, <2>4 DEF Carried, Replies
    <2>6. QED
      BY <2>3, <2>5
  <1>14. \A i \in DOMAIN queue'["server"] : queue'["server"][i].k <= last'
    <2>1. queue["server"] \in Seq([k : Id, m : Message])
      BY <1>1, TypeFacts
    <2>2. PICK E : E = [k : Id, m : Message]
      OBVIOUS
    <2>3. PICK q : q = queue["server"]
      OBVIOUS
    <2>4. q \in Seq(E)
      BY <2>1, <2>2, <2>3
    <2>5. \A i \in DOMAIN q : q[i] \in E
      <3>1. DOMAIN q = 1..Len(q)
        BY <2>4
      <3>2. QED
        BY <2>4, <3>1, ElementOfSeq
    <2>6. \A i \in DOMAIN q : q[i].k \in Nat /\ q[i].k <= last
      BY <2>2, <2>3, <2>5 DEF MatchInv, Id
    <2>7. \A i \in DOMAIN q : q[i].k <= last + 1
      BY <1>2, <2>6
    <2>8. QED
      BY <1>2, <2>3, <2>7
  <1>15. MatchInv'
    BY <1>12, <1>13, <1>14 DEF MatchInv
  <1>16. QED
    BY <1>11, <1>15

LEMMA CallsGreet ==
  ASSUME LinkInv, BaseInv, MatchInv, CallInv, Greet PROVE MatchInv' /\ CallInv'
  <1>1. "server" \in Side /\ "client" \in Side /\ "client" # "server"
    BY DEF Side
  <1>2. PICK m : m = [mode |-> "message", n |-> 0, seq |-> 0]
    OBVIOUS
  <1>3. PICK d : d = Numbered(conn["client"][last], m)
    OBVIOUS
  <1>4. PICK r : r = Sending("client", d, pipe[last])
    OBVIOUS
  <1>5. /\ last \in Id /\ ObjectInv(conn["client"][last]) /\ pipe[last] \in Pipe
        /\ m \in Message /\ ObjectInv(d)
        /\ ObjectInv(r.c) /\ r.p \in Pipe /\ r.closing \in BOOLEAN
        /\ Settle("client", last, r.c, r.p, <<>>, <<>>, r.closing)
        /\ UNCHANGED <<last, queue, asked, called>>
    BY <1>2, <1>3, <1>4, GreetFacts
  <1>6. PICK k \in Id : k = last
    BY <1>5
  <1>7. PICK c : c = C(k)
    OBVIOUS
  <1>8. PICK p \in Pipe : p = pipe[k]
    BY <1>5, <1>6
  <1>9. /\ ObjectInv(c) /\ d = Numbered(c, m) /\ r = Sending("client", d, p)
    BY <1>3, <1>4, <1>5, <1>6, <1>7, <1>8 DEF C
  <1>10. Requests(c) /\ Buffers(c, Matching(c)) /\ \A t \in Side : p.to[t] \in Seq(Matching(c))
    BY <1>1, <1>7, <1>8 DEF MatchInv, Carried, C
  <1>11. m.mode = "message" /\ m.seq = 0
    BY <1>2
  <1>12. /\ Requests(d) /\ d.state = c.state /\ c.nextSeq <= d.nextSeq
         /\ \A x \in d.rpc : x \in c.rpc \/ x.seq = c.nextSeq
         /\ Buffers(d, Matching(d)) /\ Matching(c) \subseteq Matching(d)
         /\ Names(d.rpc) = Names(c.rpc)
    <2>1. m.mode = "call" => c.state = "open" /\ m.n \notin Names(c.rpc)
      BY <1>11
    <2>2. /\ Requests(d) /\ d.state = c.state /\ c.nextSeq <= d.nextSeq
          /\ \A x \in d.rpc : x \in c.rpc \/ x.seq = c.nextSeq
          /\ Buffers(d, Matching(d)) /\ Matching(c) \subseteq Matching(d)
          /\ Names(d.rpc) = Names(c.rpc) \cup (IF m.mode = "call" THEN {m.n} ELSE {})
      BY <1>5, <1>9, <1>10, <1>11, <2>1, NumberedMatches
    <2>3. QED
      BY <1>11, <2>2
  <1>13. PICK e : e = r.c
    OBVIOUS
  <1>14. PICK o \in Pipe : o = r.p
    BY <1>5
  <1>15. PICK closing \in BOOLEAN : closing = r.closing
    BY <1>5
  <1>16. PICK none : none = <<>>
    OBVIOUS
  <1>17. Settle("client", k, e, o, none, none, closing) /\ ObjectInv(e)
    BY <1>5, <1>6, <1>13, <1>14, <1>15, <1>16
  <1>18. e.rpc = d.rpc /\ e.nextSeq = d.nextSeq /\ e.state = d.state
    BY <1>1, <1>5, <1>9, <1>13, SendingSame
  <1>19. PICK M : M = Matching(d)
    OBVIOUS
  <1>20. Matching(e) = M /\ Requests(e)
    BY <1>12, <1>18, <1>19 DEF Matching, Matches, Requests
  <1>21. Buffers(d, M) /\ \A t \in Side : p.to[t] \in Seq(M)
    BY <1>10, <1>12, <1>19, CarriedGrows
  <1>22. Buffers(e, M) /\ \A t \in Side : o.to[t] \in Seq(M)
    <2>1. Buffers(r.c, M) /\ \A t \in Side : r.p.to[t] \in Seq(M)
      BY <1>1, <1>5, <1>9, <1>21, SendingCarried
    <2>2. QED
      BY <1>13, <1>14, <2>1
  <1>23. /\ none \in Seq(Event) /\ Heard(none, M)
         /\ none \in Seq(Answer) /\ DistinctNumbers(none) /\ Numbers(none) = {}
    BY <1>16, NoAnswers
  <1>24. /\ Buffers(e, Matching(e)) /\ Heard(none, Matching(e))
         /\ \A t \in Side : o.to[t] \in Seq(Matching(e))
    BY <1>20, <1>22, <1>23
  <1>25. e.state = "open" => /\ C(k).state = "open" /\ C(k).nextSeq <= e.nextSeq
                             /\ \A x \in e.rpc : x \in C(k).rpc \/ x.seq = C(k).nextSeq
    BY <1>7, <1>12, <1>18
  <1>26. queue'["server"] = queue["server"] /\ queue'["client"] = queue["client"] /\ last' = last
    BY <1>5
  <1>27. MatchInv'
    BY <1>17, <1>20, <1>23, <1>24, <1>25, <1>26, SettleMatchClient
  <1>28. e.state = C(k).state /\ Names(C(k).rpc) = Names(e.rpc) \cup Numbers(none)
         /\ Numbers(none) \cap Names(e.rpc) = {}
    BY <1>7, <1>12, <1>18, <1>23
  <1>29. CallInv'
    BY <1>5, <1>17, <1>20, <1>23, <1>26, <1>28, ClientCalls
  <1>30. QED
    BY <1>27, <1>29

\* A call that is posted gets a number of its own.
LEMMA CallsPost ==
  ASSUME LinkInv, BaseInv, CallInv, NEW mode \in Modes, Post(mode) PROVE CallInv'
  <1>1. PICK k \in Id, m \in Message :
           /\ k \in listed["client"] /\ m = [mode |-> mode, n |-> Len(asked) + 1, seq |-> 0]
           /\ queue'["client"] = Append(queue["client"], [k |-> k, m |-> m])
           /\ queue["client"] \in Seq([k : Id, m : Message])
           /\ queue'["server"] = queue["server"]
           /\ asked' = Append(asked, k) /\ asked \in Seq(Id) /\ Len(asked) \in Nat
           /\ DOMAIN asked = 1..Len(asked) /\ DOMAIN asked' = 1..(Len(asked) + 1)
           /\ asked'[Len(asked) + 1] = k /\ \A n \in DOMAIN asked : asked'[n] = asked[n]
           /\ called' = (IF mode = "call" THEN called \cup {Len(asked) + 1} ELSE called)
           /\ UNCHANGED <<conn, pipe, listed, last, greeting, log, phase, welcomed, replied, answers, faults>>
    BY PostFacts
  <1>2. PICK e : e = [k |-> k, m |-> m]
    OBVIOUS
  <1>3. PICK q : q = queue["client"]
    OBVIOUS
  <1>4. PICK t : t = queue'["client"]
    OBVIOUS
  <1>5. PICK new : new = Len(asked) + 1
    OBVIOUS
  <1>6. /\ new \notin DOMAIN asked /\ m.n = new /\ (m.mode = "call" <=> mode = "call") /\ e.m = m
        /\ DOMAIN asked \subseteq DOMAIN asked' /\ new \in DOMAIN asked'
        /\ called' = (IF mode = "call" THEN called \cup {new} ELSE called)
    BY <1>1, <1>2, <1>5
  <1>7. /\ q \in Seq([k : Id, m : Message]) /\ e \in [k : Id, m : Message] /\ t = Append(q, e)
    BY <1>1, <1>2, <1>3, <1>4
  <1>8. /\ Len(q) \in Nat /\ DOMAIN q = 1..Len(q) /\ DOMAIN t = 1..(Len(q) + 1)
        /\ \A i \in DOMAIN q : t[i] = q[i]
        /\ t[Len(q) + 1] = e
        /\ \A i \in DOMAIN t : i \in DOMAIN q \/ i = Len(q) + 1
    BY <1>7, AppendPlaces
  <1>9. Queued = {q[i].m.n : i \in DOMAIN q} /\ Queued' = {t[i].m.n : i \in DOMAIN t}
    BY <1>3, <1>4 DEF Queued
  <1>10. Queued' = Queued \cup {new}
    <2>1. Len(q) + 1 \in DOMAIN t /\ \A i \in DOMAIN q : i \in DOMAIN t
      BY <1>8
    <2>2. \A x \in Queued' : x \in Queued \cup {new}
      BY <1>6, <1>8, <1>9
    <2>3. \A x \in Queued : x \in Queued'
      BY <1>8, <1>9, <2>1
    <2>4. new \in Queued'
      BY <1>6, <1>8, <1>9, <2>1
    <2>5. QED
      BY <2>2, <2>3, <2>4
  <1>11. /\ called \subseteq DOMAIN asked /\ Queued \subseteq DOMAIN asked
         /\ \A i \in DOMAIN q : q[i].m.n \in DOMAIN asked /\ (q[i].m.mode = "call" <=> q[i].m.n \in called)
    BY <1>3, <1>9 DEF BaseInv, QueueInv, CallInv
  <1>12. /\ new \notin called /\ called \subseteq called' /\ called' \subseteq called \cup {new}
         /\ (new \in called' <=> mode = "call")
    BY <1>6, <1>11
  <1>13. \A i \in DOMAIN t : t[i].m.mode = "call" <=> t[i].m.n \in called'
    <2> TAKE i \in DOMAIN t
    <2>1. CASE i \in DOMAIN q
      BY <1>6, <1>8, <1>11, <1>12, <2>1
    <2>2. CASE i = Len(q) + 1
      BY <1>6, <1>8, <1>12, <2>2
    <2>3. QED
      BY <1>8, <2>1, <2>2
  <1>14. answers' = answers /\ \A l \in Id : Names(C(l)'.rpc) = Names(C(l).rpc)
    BY <1>1 DEF C
  <1>15. DistinctNumbers(answers)' /\ Numbers(answers)' = Numbers(answers)
    BY <1>14 DEF CallInv
  <1>16. /\ Numbers(answers) \subseteq called /\ \A l \in Id : Names(C(l).rpc) \subseteq called
    BY DEF CallInv
  <1>17. called' \subseteq DOMAIN asked'
    BY <1>6, <1>11, <1>12
  <1>18. \A n \in called' : n \in Queued' \/ n \in Numbers(answers)' \/ \E l \in Id : n \in Names(C(l)'.rpc)
    BY <1>10, <1>12, <1>14, <1>15 DEF CallInv
  <1>19. Queued' \cap Numbers(answers)' = {}
    BY <1>10, <1>12, <1>15, <1>16 DEF CallInv
  <1>20. \A l \in Id : Names(C(l)'.rpc) \cap (Queued' \cup Numbers(answers)') = {}
    BY <1>10, <1>12, <1>14, <1>15, <1>16 DEF CallInv
  <1>21. \A l, j \in Id : l # j => Names(C(l)'.rpc) \cap Names(C(j)'.rpc) = {}
    BY <1>14 DEF CallInv
  <1>22. QED
    BY <1>4, <1>12, <1>13, <1>14, <1>15, <1>16, <1>17, <1>18, <1>19, <1>20, <1>21 DEF CallInv

LEMMA InitCalls == Init => MatchInv /\ CallInv
  <1> SUFFICES ASSUME Init PROVE MatchInv /\ CallInv
    OBVIOUS
  <1>1. "client" \in Side /\ "server" \in Side /\ DOMAIN <<>> = {}
    BY DEF Side
  <1>2. /\ \A s \in Side, k \in Id : conn[s][k] = NoObject /\ log[s][k] = <<>> /\ pipe[k].to[s] = <<>>
        /\ queue["client"] = <<>> /\ queue["server"] = <<>>
        /\ called = {} /\ answers = <<>>
    BY <1>1 DEF Init
  <1>3. PICK d : d = NoObject
    OBVIOUS
  <1>4. d.state = "none" /\ d.rpc = {} /\ d.nextSeq = 1 /\ d.got = <<>> /\ d.writeQueue = <<>>
    BY <1>3 DEF NoObject
  <1>5. \A k \in Id : C(k) = d
    BY <1>1, <1>2, <1>3 DEF C
  <1>6. ASSUME NEW k \in Id
        PROVE  Requests(C(k)) /\ Carried(k, Matching(C(k))) /\ Replies(k, Matching(C(k)))
    <2>1. PICK N : N = Matching(d)
      OBVIOUS
    <2>2. Requests(d) /\ Buffers(d, N)
      BY <1>4, EmptySeq DEF Requests, Buffers
    <2>3. Heard(log["server"][k], N) /\ \A s \in Side : pipe[k].to[s] \in Seq(N)
      BY <1>1, <1>2, NoAnswers, EmptySeq
    <2>4. Carried(k, N)
      BY <1>2, <1>3, <2>2, <2>3 DEF Carried
    <2>5. Replies(k, N)
      BY <1>1, <1>2 DEF Replies
    <2>6. QED
      BY <1>5, <2>1, <2>2, <2>4, <2>5
  <1>7. MatchInv
    BY <1>1, <1>2, <1>6 DEF MatchInv
  <1>8. Queued = {} /\ Numbers(answers) = {} /\ DistinctNumbers(answers)
    BY <1>1, <1>2 DEF Queued, Numbers, DistinctNumbers
  <1>9. \A k \in Id : Names(C(k).rpc) = {}
    BY <1>4, <1>5 DEF Names
  <1>10. CallInv
    BY <1>1, <1>2, <1>8, <1>9 DEF CallInv
  <1>11. QED
    BY <1>7, <1>10

LEMMA NextCalls ==
  ASSUME LinkInv, BaseInv, MatchInv, CallInv, [Next]_vars
  PROVE  MatchInv' /\ CallInv'
  <1>1. CASE UNCHANGED vars
    <2>1. UNCHANGED <<conn, pipe, log, last, queue, asked, called, answers>>
      BY <1>1 DEF vars
    <2>2. \A l \in Id : C(l)'.rpc = C(l).rpc
      BY <2>1 DEF C
    <2>3. QED
      BY <2>1, <2>2, MatchQuiet, CallsKept
  <1>2. ASSUME NEW k \in Id, Welcome(k) PROVE MatchInv' /\ CallInv'
    <2>1. UNCHANGED <<conn, asked, called, answers>> /\ queue'["client"] = queue["client"]
      BY <1>2, WelcomeFacts
    <2>2. \A l \in Id : C(l)'.rpc = C(l).rpc
      BY <2>1 DEF C
    <2>3. QED
      BY <1>2, <2>1, <2>2, MatchWelcome, CallsKept
  <1>3. ASSUME NEW n \in DOMAIN asked, Reply(n) PROVE MatchInv' /\ CallInv'
    <2>1. UNCHANGED <<conn, asked, called, answers>> /\ queue'["client"] = queue["client"]
      BY <1>3, ReplyFacts
    <2>2. \A l \in Id : C(l)'.rpc = C(l).rpc
      BY <2>1 DEF C
    <2>3. QED
      BY <1>3, <2>1, <2>2, MatchReply, CallsKept
  <1>4. ASSUME NEW s \in Side, NEW k \in Id, CompleteRead(s, k) PROVE MatchInv' /\ CallInv'
    <2>1. UNCHANGED <<queue, asked, called, answers>>
      BY <1>4 DEF CompleteRead, history
    <2>2. \A l \in Id : C(l)'.rpc = C(l).rpc
      <3>1. /\ conn'[s][k] = Got(conn[s][k], Head(pipe[k].to[s])) /\ Head(pipe[k].to[s]) \in Message
            /\ \A t \in Side, l \in Id : t # s \/ l # k => conn'[t][l] = conn[t][l]
        BY <1>4, CompleteReadFacts
      <3>2. conn'[s][k].rpc = conn[s][k].rpc
        BY <3>1, GotType, TypeFacts
      <3>3. "client" \in Side
        BY DEF Side
      <3>4. QED
        BY <3>1, <3>2, <3>3 DEF C
    <2>3. QED
      BY <1>4, <2>1, <2>2, MatchCompleteRead, CallsKept
  <1>5. ASSUME NEW s \in Side, QueuedSend(s) PROVE MatchInv' /\ CallInv'
    BY <1>5, MatchQueuedSendServer, MatchQueuedSendClient, CallsQueuedSendServer,
       CallsQueuedSendClient DEF Side
  <1>6. ASSUME NEW mode \in Modes, Post(mode) PROVE MatchInv' /\ CallInv'
    BY <1>6, MatchPost, CallsPost
  <1>7. CASE Next
    BY <1>2, <1>3, <1>4, <1>5, <1>6, <1>7, NextSplit, CallsHandleReadComplete,
       CallsHandleReadError, CallsHandleWriteComplete, CallsConnect, CallsGreet, CallsAccept,
       CallsCrash, CallsStopClient, CallsStopServer
  <1>8. QED
    BY <1>1, <1>7

\* A set with at most one element, of the three that may hold a call.
LEMMA AtMostOne ==
  ASSUME NEW A, \A x, y \in A : x = y
  PROVE  Cardinality(A) = IF A = {} THEN 0 ELSE 1
  <1>1. CASE A = {}
    BY <1>1, FS_EmptySet
  <1>2. ASSUME NEW x \in A PROVE Cardinality(A) = 1
    <2>1. A = {x}
      BY <1>2
    <2>2. QED
      BY <2>1, FS_Singleton
  <1>3. QED
    BY <1>1, <1>2

LEMMA CallsAccounted ==
  ASSUME LinkInv, BaseInv, MatchInv, CallInv
  PROVE  CallAccounted
  <1> SUFFICES ASSUME NEW n \in called
               PROVE  LET waiting == {i \in DOMAIN queue["client"] : queue["client"][i].m.n = n}
                          registered == {k \in Id : conn["client"][k].state = "open"
                                                    /\ \E r \in conn["client"][k].rpc : r.n = n}
                          had == {i \in DOMAIN answers : answers[i].n = n}
                      IN  Cardinality(waiting) + Cardinality(registered) + Cardinality(had) = 1
    BY DEF CallAccounted
  <1>1. PICK W : W = {i \in DOMAIN queue["client"] : queue["client"][i].m.n = n}
    OBVIOUS
  <1>2. PICK R : R = {k \in Id : conn["client"][k].state = "open"
                                 /\ \E r \in conn["client"][k].rpc : r.n = n}
    OBVIOUS
  <1>3. PICK H : H = {i \in DOMAIN answers : answers[i].n = n}
    OBVIOUS
  <1>4. /\ W # {} <=> n \in Queued
        /\ H # {} <=> n \in Numbers(answers)
        /\ \A k \in Id : k \in R <=> n \in Names(C(k).rpc)
    <2>1. W # {} <=> n \in Queued
      BY <1>1 DEF Queued
    <2>2. H # {} <=> n \in Numbers(answers)
      BY <1>3 DEF Numbers
    <2>3. \A k \in Id : C(k).rpc # {} => C(k).state = "open"
      BY DEF MatchInv, Requests
    <2>4. ASSUME NEW k \in Id PROVE k \in R <=> n \in Names(C(k).rpc)
      BY <1>2, <2>3 DEF Names, C
    <2>5. QED
      BY <2>1, <2>2, <2>4
  <1>5. Cardinality(W) = IF W = {} THEN 0 ELSE 1
    <2>1. queue["client"] \in Seq([k : Id, m : Message])
      BY TypeFacts DEF Side
    <2>2. DOMAIN queue["client"] = 1..Len(queue["client"]) /\ Len(queue["client"]) \in Nat
      BY <2>1
    <2>3. n \in Nat
      BY TypeFacts
    <2>4. ASSUME NEW x \in W, NEW y \in W PROVE x = y
      <3>1. x \in Nat /\ y \in Nat /\ x \in DOMAIN queue["client"] /\ y \in DOMAIN queue["client"]
        BY <1>1, <2>2
      <3>2. queue["client"][x].m.n = n /\ queue["client"][y].m.n = n
        BY <1>1
      <3>3. ~(x < y) /\ ~(y < x)
        BY <2>3, <3>1, <3>2 DEF BaseInv, QueueInv
      <3>4. QED
        BY <3>1, <3>3
    <2>5. QED
      BY <2>4, AtMostOne
  <1>6. Cardinality(R) = IF R = {} THEN 0 ELSE 1
    <2>1. ASSUME NEW x \in R, NEW y \in R PROVE x = y
      <3>1. x \in Id /\ y \in Id
        BY <1>2
      <3>2. n \in Names(C(x).rpc) /\ n \in Names(C(y).rpc)
        BY <1>4, <3>1
      <3>3. QED
        BY <3>1, <3>2 DEF CallInv
    <2>2. QED
      BY <2>1, AtMostOne
  <1>7. Cardinality(H) = IF H = {} THEN 0 ELSE 1
    <2>1. \A x, y \in H : x = y
      BY <1>3 DEF CallInv, DistinctNumbers
    <2>2. QED
      BY <2>1, AtMostOne
  <1>8. R # {} <=> \E k \in Id : n \in Names(C(k).rpc)
    BY <1>2, <1>4
  <1>9. /\ W # {} \/ R # {} \/ H # {}
        /\ ~(W # {} /\ H # {}) /\ ~(W # {} /\ R # {}) /\ ~(R # {} /\ H # {})
    BY <1>4, <1>8 DEF CallInv
  <1>10. Cardinality(W) + Cardinality(R) + Cardinality(H) = 1
    BY <1>5, <1>6, <1>7, <1>9
  <1>11. QED
    BY <1>1, <1>2, <1>3, <1>10

LEMMA AlwaysCalls == Spec => [](MatchInv /\ CallInv)
  <1>1. LinkInv /\ BaseInv /\ (MatchInv /\ CallInv) /\ [Next]_vars => (MatchInv /\ CallInv)'
    BY NextCalls
  <1>2. QED
    BY <1>1, InitCalls, AlwaysLink, AlwaysBase, PTL DEF Spec

\* No call of a client that lives is lost or answered twice: it waits in the
\* queue of NamedPipeClient, is registered in the m_rpcRequests of one
\* connection that is open, or has had its callback, once.
THEOREM CallAccountedCorrect == Spec => []CallAccounted
  <1>1. LinkInv /\ BaseInv /\ (MatchInv /\ CallInv) => CallAccounted
    BY CallsAccounted
  <1>2. QED
    BY <1>1, AlwaysCalls, AlwaysLink, AlwaysBase, PTL

-----------------------------------------------------------------------------
(* LinkKeepsPromise.  A callback hears of a reply because one arrived, so   *)
(* what is under way as a reply must be to a call that was replied to.      *)

Real == {m \in Message : m.mode = "reply" => m.n \in replied}
RealInv == \A k \in Id : Carried(k, Real) /\ Replies(k, Real)

\* A step that carries on what is real, and queues nothing else.
LEMMA RealKept ==
  ASSUME RealInv, replied \subseteq replied',
         \A l \in Id, X \in SUBSET Message : X = Real /\ Carried(l, X) => Carried(l, X)',
         \A i \in DOMAIN queue'["server"] :
            \/ \E j \in DOMAIN queue["server"] : queue'["server"][i] = queue["server"][j]
            \/ queue'["server"][i].m \in Real'
  PROVE  RealInv'
  <1>1. PICK X \in SUBSET Message : X = Real
    BY DEF Real
  <1>2. PICK N : N = Real'
    OBVIOUS
  <1>3. X \subseteq N
    BY <1>1, <1>2 DEF Real
  <1>4. ASSUME NEW l \in Id PROVE Carried(l, N)' /\ Replies(l, N)'
    <2>1. Carried(l, X) /\ Replies(l, X)
      BY <1>1 DEF RealInv
    <2>2. Carried(l, X)'
      BY <1>1, <2>1
    <2>3. Seq(X) \subseteq Seq(N)
      BY <1>3
    <2>4. Carried(l, N)'
      BY <1>3, <2>2, <2>3 DEF Carried, Buffers, Heard
    <2>5. Replies(l, N)'
      BY <1>2, <1>3, <2>1 DEF Replies
    <2>6. QED
      BY <2>4, <2>5
  <1>5. QED
    BY <1>2, <1>4 DEF RealInv

\* A step of a pipe thread that writes and reports what is real.
LEMMA SettleReal ==
  ASSUME LinkInv, RealInv, NEW s \in Side, NEW k \in Id, NEW c, ObjectInv(c), NEW p \in Pipe,
         NEW events \in Seq(Event), NEW results, NEW closing \in BOOLEAN,
         Settle(s, k, c, p, events, results, closing), replied' = replied,
         \A i \in DOMAIN queue'["server"] :
            \E j \in DOMAIN queue["server"] : queue'["server"][i] = queue["server"][j],
         Buffers(c, Real), \A t \in Side : p.to[t] \in Seq(Real), Heard(events, Real)
  PROVE  RealInv'
  <1>1. PICK M : M = Real
    OBVIOUS
  <1>2. Carried(k, M) /\ Buffers(c, M) /\ (\A t \in Side : p.to[t] \in Seq(M)) /\ Heard(events, M)
    BY <1>1 DEF RealInv
  <1>3. /\ Carried(k, M)'
        /\ \A l \in Id, X \in SUBSET Message : l # k /\ Carried(l, X) => Carried(l, X)'
    BY <1>2, SettleCarried
  <1>4. \A l \in Id, X \in SUBSET Message : X = Real /\ Carried(l, X) => Carried(l, X)'
    BY <1>1, <1>3
  <1>5. QED
    BY <1>4, RealKept

LEMMA RealQuiet ==
  ASSUME RealInv, UNCHANGED <<conn, pipe, log>>, replied \subseteq replied',
         \A i \in DOMAIN queue'["server"] :
            \/ \E j \in DOMAIN queue["server"] : queue'["server"][i] = queue["server"][j]
            \/ queue'["server"][i].m \in Real'
  PROVE  RealInv'
  <1>1. \A l \in Id, X \in SUBSET Message : X = Real /\ Carried(l, X) => Carried(l, X)'
    BY DEF Carried
  <1>2. QED
    BY <1>1, RealKept

LEMMA RealQueued ==
  ASSUME LinkInv, RealInv, UNCHANGED <<conn, pipe, log>>, replied \subseteq replied',
         NEW e \in [k : Id, m : Message], e.m \in Real',
         queue'["server"] = queue["server"] \/ queue'["server"] = Append(queue["server"], e)
  PROVE  RealInv'
  <1>1. queue["server"] \in Seq([k : Id, m : Message])
    BY TypeFacts DEF Side
  <1>2. PICK q : q = queue["server"]
    OBVIOUS
  <1>3. \A i \in DOMAIN Append(q, e) : (i \in DOMAIN q /\ Append(q, e)[i] = q[i]) \/ Append(q, e)[i] = e
    BY <1>1, <1>2, AppendPlaces
  <1>4. \A i \in DOMAIN queue'["server"] :
            (i \in DOMAIN q /\ queue'["server"][i] = q[i]) \/ queue'["server"][i] = e
    BY <1>2, <1>3
  <1>5. QED
    BY <1>2, <1>4, RealQuiet

LEMMA RealWelcome == ASSUME LinkInv, RealInv, NEW k \in Id, Welcome(k) PROVE RealInv'
  <1>1. PICK e : e = [k |-> k, m |-> [mode |-> "message", n |-> k, seq |-> 0]]
    OBVIOUS
  <1>2. /\ e \in [k : Id, m : Message] /\ e.m.mode = "message"
        /\ queue'["server"] = queue["server"] \/ queue'["server"] = Append(queue["server"], e)
        /\ UNCHANGED <<conn, pipe, log, replied>>
    BY <1>1, WelcomeFacts
  <1>3. e.m \in Real'
    BY <1>2 DEF Real
  <1>4. QED
    BY <1>2, <1>3, RealQueued

LEMMA RealReply ==
  ASSUME LinkInv, RealInv, NEW n \in DOMAIN asked, Reply(n) PROVE RealInv'
  <1>1. PICK k \in Id, m \in Message :
           LET e == [k |-> k, m |-> [m EXCEPT !.mode = "reply"]]
           IN  /\ e \in [k : Id, m : Message] /\ e.k = k /\ e.m.mode = "reply"
               /\ e.m.n = m.n /\ e.m.seq = m.seq
               /\ \E i \in DOMAIN log["server"][k] :
                     /\ log["server"][k][i].what = "received" /\ log["server"][k][i].m = m
                     /\ m.mode = "call" /\ m.n = n
               /\ queue'["client"] = queue["client"]
               /\ \/ queue'["server"] = queue["server"]
                  \/ Alive("server", k) /\ queue'["server"] = Append(queue["server"], e)
               /\ UNCHANGED <<conn, pipe, listed, last, greeting, log, phase, welcomed, asked, called, faults, answers>>
    BY ReplyFacts
  <1>2. PICK e : e = [k |-> k, m |-> [m EXCEPT !.mode = "reply"]]
    OBVIOUS
  <1>3. /\ e \in [k : Id, m : Message] /\ e.m.n = n
        /\ queue'["server"] = queue["server"] \/ queue'["server"] = Append(queue["server"], e)
        /\ UNCHANGED <<conn, pipe, log>>
    BY <1>1, <1>2
  <1>4. replied' = replied \cup {n}
    BY DEF Reply
  <1>5. e.m \in Real'
    BY <1>3, <1>4 DEF Real
  <1>6. QED
    BY <1>3, <1>4, <1>5, RealQueued

\* A message that is real is real when it has its number.
LEMMA NumberedReal ==
  ASSUME NEW c, ObjectInv(c), NEW m \in Real, Buffers(c, Real)
  PROVE  Buffers(Numbered(c, m), Real)
  <1>1. PICK d : d = Numbered(c, m)
    OBVIOUS
  <1>2. PICK seq : seq = IF m.seq = 0 THEN c.nextSeq ELSE m.seq
    OBVIOUS
  <1>3. PICK named : named = [mode |-> m.mode, n |-> m.n, seq |-> seq]
    OBVIOUS
  <1>4. m \in Message /\ (m.mode = "reply" => m.n \in replied)
    BY DEF Real
  <1>5. d.got = c.got /\ d.writeQueue = Append(c.writeQueue, named)
    BY <1>1, <1>2, <1>3, <1>4, NumberedFacts
  <1>6. c.nextSeq \in Nat
    BY DEF ObjectInv, PipeConnection
  <1>7. seq \in Nat
    BY <1>2, <1>4, <1>6 DEF Message
  <1>8. named \in Message /\ named.mode = m.mode /\ named.n = m.n
    BY <1>3, <1>4, <1>7 DEF Message
  <1>9. named \in Real
    BY <1>4, <1>8 DEF Real
  <1>10. PICK M : M = Real
    OBVIOUS
  <1>11. c.got \in Seq(M) /\ c.writeQueue \in Seq(M) /\ named \in M
    BY <1>9, <1>10 DEF Buffers
  <1>12. Append(c.writeQueue, named) \in Seq(M)
    BY <1>11, AppendProperties
  <1>13. Buffers(d, M)
    BY <1>5, <1>11, <1>12 DEF Buffers
  <1>14. QED
    BY <1>1, <1>10, <1>13

\* What a write puts in the pipe is real if it was.
LEMMA SendingReal ==
  ASSUME LinkInv, RealInv, NEW s \in Side, NEW k \in Id, NEW d, ObjectInv(d), Buffers(d, Real),
         NEW r, r = Sending(s, d, pipe[k]), ObjectInv(r.c), r.p \in Pipe, r.closing \in BOOLEAN,
         Settle(s, k, r.c, r.p, <<>>, <<>>, r.closing), replied' = replied,
         \A i \in DOMAIN queue'["server"] :
            \E j \in DOMAIN queue["server"] : queue'["server"][i] = queue["server"][j]
  PROVE  RealInv'
  <1>1. PICK M : M = Real
    OBVIOUS
  <1>2. PICK p \in Pipe : p = pipe[k]
    BY TypeFacts
  <1>3. r = Sending(s, d, p) /\ Buffers(d, M) /\ \A t \in Side : p.to[t] \in Seq(M)
    BY <1>1, <1>2 DEF RealInv, Carried
  <1>4. Buffers(r.c, M) /\ \A t \in Side : r.p.to[t] \in Seq(M)
    BY <1>3, SendingCarried
  <1>5. PICK e : e = r.c
    OBVIOUS
  <1>6. PICK o \in Pipe : o = r.p
    OBVIOUS
  <1>7. PICK closing \in BOOLEAN : closing = r.closing
    OBVIOUS
  <1>8. PICK none : none = <<>>
    OBVIOUS
  <1>9. Settle(s, k, e, o, none, none, closing) /\ ObjectInv(e)
    BY <1>5, <1>6, <1>7, <1>8
  <1>10. none \in Seq(Event) /\ Heard(none, Real)
    BY <1>8, NoAnswers
  <1>11. Buffers(e, Real) /\ \A t \in Side : o.to[t] \in Seq(Real)
    BY <1>1, <1>4, <1>5, <1>6
  <1>12. QED
    BY <1>9, <1>10, <1>11, SettleReal

\* A step that writes nothing.
LEMMA UnwrittenReal ==
  ASSUME LinkInv, RealInv, NEW s \in Side, NEW k \in Id, NEW c, ObjectInv(c), Buffers(c, Real),
         NEW events \in Seq(Event), Heard(events, Real), NEW results, NEW closing \in BOOLEAN,
         Settle(s, k, c, pipe[k], events, results, closing), replied' = replied,
         \A i \in DOMAIN queue'["server"] :
            \E j \in DOMAIN queue["server"] : queue'["server"][i] = queue["server"][j]
  PROVE  RealInv'
  <1>1. PICK p \in Pipe : p = pipe[k]
    BY TypeFacts
  <1>2. \A t \in Side : p.to[t] \in Seq(Real)
    BY <1>1 DEF RealInv, Carried
  <1>3. Settle(s, k, c, p, events, results, closing)
    BY <1>1
  <1>4. QED
    BY <1>2, <1>3, SettleReal

LEMMA RealQueuedSend ==
  ASSUME LinkInv, BaseInv, RealInv, NEW s \in Side, QueuedSend(s) PROVE RealInv'
  <1>1. "server" \in Side /\ "client" \in Side /\ "client" # "server"
    BY DEF Side
  <1>2. PICK k \in Id, m \in Message : \E c, d, r, results :
            /\ Sends(s, k, m, c, d, r) /\ SendsOnly(s) /\ results = Error(m, "NoConnection")
            /\ SendLost(s, k, m) \/ SendRefused(s, k, c, results) \/ SendMade(s, k, c, d, r)
    BY QueuedSendSplit
  <1>3. PICK c, d, r, results :
            /\ Sends(s, k, m, c, d, r) /\ SendsOnly(s) /\ results = Error(m, "NoConnection")
            /\ SendLost(s, k, m) \/ SendRefused(s, k, c, results) \/ SendMade(s, k, c, d, r)
    BY <1>2
  <1>4. queue'[s] = Tail(queue[s]) /\ \A t \in Side : t # s => queue'[t] = queue[t]
    BY <1>3 DEF SendsOnly
  <1>5. /\ c = conn[s][k] /\ d = Numbered(c, m) /\ ObjectInv(c) /\ r = Sending(s, d, pipe[k])
        /\ queue[s] # <<>> /\ k = Head(queue[s]).k /\ m = Head(queue[s]).m
    BY <1>3, Zenon DEF Sends
  <1>6. replied' = replied
    BY QueuedSendFacts
  <1>7. /\ 1 \in DOMAIN queue[s] /\ queue[s][1] = Head(queue[s])
        /\ \A i \in DOMAIN queue'[s] : \E j \in DOMAIN queue[s] : queue'[s][i] = queue[s][j]
    <2>1. queue[s] \in Seq([k : Id, m : Message])
      BY TypeFacts
    <2>2. QED
      BY <1>4, <1>5, <2>1, TailPlaces
  <1>8. \A i \in DOMAIN queue'["server"] :
            \E j \in DOMAIN queue["server"] : queue'["server"][i] = queue["server"][j]
    BY <1>1, <1>4, <1>7
  <1>9. m \in Real
    <2>1. CASE s = "server"
      BY <1>5, <1>7, <2>1 DEF RealInv, Replies
    <2>2. CASE s = "client"
      BY <1>5, <1>7, <2>2 DEF BaseInv, QueueInv, Real
    <2>3. QED
      BY <2>1, <2>2 DEF Side
  <1>10. Buffers(c, Real)
    BY <1>5 DEF RealInv, Carried
  <1>11. CASE SendLost(s, k, m)
    BY <1>6, <1>8, <1>11, RealQuiet DEF SendLost
  <1>12. CASE SendRefused(s, k, c, results)
    <2>1. PICK closing \in BOOLEAN : closing = TRUE
      OBVIOUS
    <2>2. PICK none : none = <<>>
      OBVIOUS
    <2>3. Settle(s, k, c, pipe[k], none, results, closing)
      BY <1>12, <2>1, <2>2 DEF SendRefused
    <2>4. none \in Seq(Event) /\ Heard(none, Real)
      BY <2>2, NoAnswers
    <2>5. QED
      BY <1>5, <1>6, <1>8, <1>10, <2>3, <2>4, UnwrittenReal
  <1>13. CASE SendMade(s, k, c, d, r)
    <2>1. /\ ObjectInv(d) /\ Settle(s, k, r.c, r.p, <<>>, <<>>, r.closing)
          /\ ObjectInv(r.c) /\ r.p \in Pipe /\ r.closing \in BOOLEAN
      BY <1>13 DEF SendMade
    <2>2. Buffers(d, Real)
      BY <1>5, <1>9, <1>10, NumberedReal
    <2>3. QED
      BY <1>5, <1>6, <1>8, <2>1, <2>2, SendingReal
  <1>14. QED
    BY <1>3, <1>11, <1>12, <1>13

LEMMA RealCompleteRead ==
  ASSUME LinkInv, RealInv, NEW s \in Side, NEW k \in Id, CompleteRead(s, k) PROVE RealInv'
  <1>1. UNCHANGED <<queue, replied>>
    BY CompleteReadFacts
  <1>2. \A l \in Id, X \in SUBSET Message : X = Real /\ Carried(l, X) => Carried(l, X)'
    BY CompleteReadCarried
  <1>3. QED
    BY <1>1, <1>2, RealKept

LEMMA RealHandleReadComplete ==
  ASSUME LinkInv, RealInv, NEW s \in Side, NEW k \in Id, HandleReadComplete(s, k) PROVE RealInv'
  <1>1. PICK c, m, mine, e, events, results : \E closing \in BOOLEAN :
            /\ Receives(s, k, c, m, mine) /\ ReceivesTo(c, m, mine, e, events, results)
            /\ Settle(s, k, e, pipe[k], events, results, closing)
            /\ UNCHANGED <<last, greeting, queue, asked, called>>
    BY HandleReadCompleteSplit
  <1>2. PICK closing \in BOOLEAN :
            /\ Receives(s, k, c, m, mine) /\ ReceivesTo(c, m, mine, e, events, results)
            /\ Settle(s, k, e, pipe[k], events, results, closing)
            /\ UNCHANGED <<last, greeting, queue, asked, called>>
    BY <1>1
  <1>3. c = conn[s][k] /\ m \in Message /\ c.got = <<m>>
    BY <1>2, Zenon DEF Receives
  <1>4. /\ ObjectInv(e) /\ e.got = <<>> /\ e.writeQueue = c.writeQueue /\ events \in Seq(Event)
        /\ mine = {} => events = <<[what |-> "received", m |-> m]>>
        /\ mine # {} => events = <<>>
    BY <1>2, Zenon DEF ReceivesTo
  <1>5. replied' = replied
    BY HandleReadCompleteFacts
  <1>6. PICK M : M = Real
    OBVIOUS
  <1>7. Buffers(c, M)
    BY <1>3, <1>6 DEF RealInv, Carried
  <1>8. m \in M
    <2>1. c.got \in Seq(M) /\ c.got # <<>> /\ Head(c.got) = m
      BY <1>3, <1>7 DEF Buffers
    <2>2. QED
      BY <2>1, HeadType
  <1>9. Heard(events, M)
    BY <1>4, <1>8, HeardReceived
  <1>10. Buffers(e, M)
    BY <1>4, <1>7, EmptySeq DEF Buffers
  <1>11. QED
    BY <1>2, <1>4, <1>5, <1>6, <1>9, <1>10, UnwrittenReal

LEMMA RealHandleReadError ==
  ASSUME LinkInv, RealInv, NEW s \in Side, NEW k \in Id, HandleReadError(s, k) PROVE RealInv'
  <1>1. PICK c : c = Unread(conn[s][k])
    OBVIOUS
  <1>2. PICK none : none = <<>>
    OBVIOUS
  <1>3. PICK closing \in BOOLEAN : closing = TRUE
    OBVIOUS
  <1>4. /\ ObjectInv(c) /\ Settle(s, k, c, pipe[k], none, none, closing)
        /\ UNCHANGED <<queue, replied>> /\ ObjectInv(conn[s][k]) /\ conn[s][k].reading # "done"
    BY <1>1, <1>2, <1>3, HandleReadErrorFacts
  <1>5. c.got = conn[s][k].got /\ c.writeQueue = conn[s][k].writeQueue
    BY <1>1, <1>4, UnreadType
  <1>6. Buffers(c, Real)
    BY <1>5 DEF RealInv, Carried, Buffers
  <1>7. none \in Seq(Event) /\ Heard(none, Real)
    BY <1>2, NoAnswers
  <1>8. QED
    BY <1>4, <1>6, <1>7, UnwrittenReal

LEMMA RealHandleWriteComplete ==
  ASSUME LinkInv, RealInv, NEW s \in Side, NEW k \in Id, HandleWriteComplete(s, k) PROVE RealInv'
  <1>1. PICK c : c = Written(conn[s][k])
    OBVIOUS
  <1>2. PICK r : r = Sending(s, c, pipe[k])
    OBVIOUS
  <1>3. /\ ObjectInv(conn[s][k]) /\ conn[s][k].writing /\ ObjectInv(c)
        /\ UNCHANGED <<queue, replied>>
        /\ \/ /\ Settle(s, k, r.c, r.p, <<>>, <<>>, r.closing)
              /\ ObjectInv(r.c) /\ r.p \in Pipe /\ r.closing \in BOOLEAN
           \/ Settle(s, k, c, pipe[k], <<>>, <<>>, TRUE)
    BY <1>1, <1>2, HandleWriteCompleteFacts
  <1>4. /\ c.got = conn[s][k].got /\ c.writeQueue = Tail(conn[s][k].writeQueue)
        /\ conn[s][k].writeQueue # <<>>
    BY <1>1, <1>3, WrittenType DEF ObjectInv
  <1>5. PICK M : M = Real
    OBVIOUS
  <1>6. Buffers(c, M)
    <2>1. Buffers(conn[s][k], M)
      BY <1>5 DEF RealInv, Carried
    <2>2. PICK q : q = conn[s][k].writeQueue
      OBVIOUS
    <2>3. Tail(q) \in Seq(M)
      BY <1>4, <2>1, <2>2, HeadType DEF Buffers
    <2>4. QED
      BY <1>4, <2>1, <2>2, <2>3 DEF Buffers
  <1>7. CASE /\ Settle(s, k, r.c, r.p, <<>>, <<>>, r.closing)
             /\ ObjectInv(r.c) /\ r.p \in Pipe /\ r.closing \in BOOLEAN
    BY <1>2, <1>3, <1>5, <1>6, <1>7, SendingReal
  <1>8. CASE Settle(s, k, c, pipe[k], <<>>, <<>>, TRUE)
    <2>1. PICK closing \in BOOLEAN : closing = TRUE
      OBVIOUS
    <2>2. PICK none : none = <<>>
      OBVIOUS
    <2>3. Settle(s, k, c, pipe[k], none, none, closing)
      BY <1>8, <2>1, <2>2
    <2>4. none \in Seq(Event) /\ Heard(none, Real)
      BY <2>2, NoAnswers
    <2>5. QED
      BY <1>3, <1>5, <1>6, <2>3, <2>4, UnwrittenReal
  <1>9. QED
    BY <1>3, <1>7, <1>8

LEMMA RealGreet == ASSUME LinkInv, RealInv, Greet PROVE RealInv'
  <1>1. PICK m : m = [mode |-> "message", n |-> 0, seq |-> 0]
    OBVIOUS
  <1>2. PICK d : d = Numbered(conn["client"][last], m)
    OBVIOUS
  <1>3. PICK r : r = Sending("client", d, pipe[last])
    OBVIOUS
  <1>4. /\ last \in Id /\ ObjectInv(conn["client"][last]) /\ m \in Message /\ ObjectInv(d)
        /\ ObjectInv(r.c) /\ r.p \in Pipe /\ r.closing \in BOOLEAN
        /\ Settle("client", last, r.c, r.p, <<>>, <<>>, r.closing)
        /\ UNCHANGED <<queue, replied>>
    BY <1>1, <1>2, <1>3, GreetFacts
  <1>5. PICK s \in Side : s = "client"
    BY DEF Side
  <1>6. PICK k \in Id : k = last
    BY <1>4
  <1>7. m \in Real
    BY <1>1, <1>4 DEF Real
  <1>8. Buffers(conn[s][k], Real)
    BY DEF RealInv, Carried
  <1>9. d = Numbered(conn[s][k], m) /\ ObjectInv(conn[s][k]) /\ r = Sending(s, d, pipe[k])
    BY <1>2, <1>3, <1>4, <1>5, <1>6
  <1>10. Buffers(d, Real)
    BY <1>7, <1>8, <1>9, NumberedReal
  <1>11. Settle(s, k, r.c, r.p, <<>>, <<>>, r.closing)
    BY <1>4, <1>5, <1>6
  <1>12. QED
    BY <1>4, <1>9, <1>10, <1>11, SendingReal

LEMMA RealStopClient == ASSUME LinkInv, RealInv, StopClient PROVE RealInv'
  <1>1. /\ UNCHANGED <<queue, replied>>
        /\ \/ UNCHANGED <<conn, pipe, log>>
           \/ \E k \in Id : /\ ObjectInv(conn["client"][k])
                            /\ Settle("client", k, conn["client"][k], pipe[k], <<>>, <<>>, TRUE)
    BY StopClientFacts
  <1>2. CASE UNCHANGED <<conn, pipe, log>>
    BY <1>1, <1>2, RealQuiet
  <1>3. ASSUME NEW k \in Id, ObjectInv(conn["client"][k]),
               Settle("client", k, conn["client"][k], pipe[k], <<>>, <<>>, TRUE)
        PROVE  RealInv'
    <2>1. PICK s \in Side : s = "client"
      BY DEF Side
    <2>2. PICK c : c = conn[s][k]
      OBVIOUS
    <2>3. PICK none : none = <<>>
      OBVIOUS
    <2>4. PICK closing \in BOOLEAN : closing = TRUE
      OBVIOUS
    <2>5. Settle(s, k, c, pipe[k], none, none, closing) /\ ObjectInv(c)
      BY <1>3, <2>1, <2>2, <2>3, <2>4
    <2>6. Buffers(c, Real)
      BY <2>2 DEF RealInv, Carried
    <2>7. none \in Seq(Event) /\ Heard(none, Real)
      BY <2>3, NoAnswers
    <2>8. QED
      BY <1>1, <2>5, <2>6, <2>7, UnwrittenReal
  <1>4. QED
    BY <1>1, <1>2, <1>3

\* Steps that discard something of what is under way.
LEMMA RealCut ==
  ASSUME LinkInv, RealInv, UNCHANGED <<replied>>, queue'["server"] = queue["server"],
         \A s \in Side, l \in Id :
            \/ conn'[s][l].got = conn[s][l].got /\ conn'[s][l].writeQueue = conn[s][l].writeQueue
            \/ conn'[s][l].got = <<>> /\ conn'[s][l].writeQueue = <<>>,
         \A l \in Id : pipe'[l] = pipe[l] \/ \E s \in Side : pipe'[l] = ShutPipe(s, pipe[l]),
         \A l \in Id : log'["server"][l] = log["server"][l] \/ Receipts(log'["server"][l]) = {}
  PROVE  RealInv'
  <1>1. ASSUME NEW l \in Id, NEW X \in SUBSET Message, Carried(l, X) PROVE Carried(l, X)'
    <2>1. \A s \in Side : Buffers(conn'[s][l], X)
      BY <1>1, EmptySeq DEF Carried, Buffers
    <2>2. QED
      BY <1>1, <2>1, CarriedCut
  <1>2. QED
    BY <1>1, RealKept

LEMMA RealConnect == ASSUME LinkInv, RealInv, Connect PROVE RealInv'
  <1>1. /\ last + 1 \in Id /\ conn'["client"][last + 1] = Opened
        /\ \A t \in Side, l \in Id : t # "client" \/ l # last + 1 => conn'[t][l] = conn[t][l]
        /\ UNCHANGED <<pipe, queue, log, replied>>
    BY ConnectFacts
  <1>2. PICK d : d = Opened
    OBVIOUS
  <1>3. d.got = <<>> /\ d.writeQueue = <<>>
    BY <1>2, NoObjectInv
  <1>4. \A s \in Side, l \in Id : conn'[s][l] = conn[s][l] \/ conn'[s][l] = d
    BY <1>1, <1>2
  <1>5. \A s \in Side, l \in Id :
            \/ conn'[s][l].got = conn[s][l].got /\ conn'[s][l].writeQueue = conn[s][l].writeQueue
            \/ conn'[s][l].got = <<>> /\ conn'[s][l].writeQueue = <<>>
    BY <1>3, <1>4
  <1>6. QED
    BY <1>1, <1>5, RealCut

LEMMA RealCrash == ASSUME LinkInv, RealInv, Crash PROVE RealInv'
  <1>1. /\ \A l \in Id : conn'["client"][l] = NoObject /\ conn'["server"][l] = conn["server"][l]
        /\ \A l \in Id : pipe'[l] = ShutPipe("client", pipe[l]) \/ pipe'[l] = pipe[l]
        /\ queue'["server"] = queue["server"] /\ UNCHANGED <<log, replied>>
    BY CrashFacts
  <1>2. "client" \in Side /\ \A s \in Side : s = "client" \/ s = "server"
    BY DEF Side
  <1>3. NoObject.got = <<>> /\ NoObject.writeQueue = <<>>
    BY DEF NoObject
  <1>4. \A s \in Side, l \in Id :
            \/ conn'[s][l].got = conn[s][l].got /\ conn'[s][l].writeQueue = conn[s][l].writeQueue
            \/ conn'[s][l].got = <<>> /\ conn'[s][l].writeQueue = <<>>
    BY <1>1, <1>2, <1>3
  <1>5. QED
    BY <1>1, <1>2, <1>4, RealCut

LEMMA RealStopServer == ASSUME LinkInv, RealInv, StopServer PROVE RealInv'
  <1>1. /\ \A l \in Id : conn'["client"][l] = conn["client"][l]
        /\ \A l \in Id : conn'["server"][l] =
               IF l \in listed["server"] /\ conn["server"][l].state = "open"
               THEN Closed(conn["server"][l]) ELSE conn["server"][l]
        /\ \A l \in Id : pipe'[l] = ShutPipe("server", pipe[l]) \/ pipe'[l] = pipe[l]
        /\ UNCHANGED <<queue, log, replied>>
    BY StopServerFacts DEF StopServer
  <1>2. "server" \in Side /\ \A s \in Side : s = "client" \/ s = "server"
    BY DEF Side
  <1>3. ASSUME NEW s \in Side, NEW l \in Id
        PROVE  conn'[s][l].got = conn[s][l].got /\ conn'[s][l].writeQueue = conn[s][l].writeQueue
    <2>1. PICK c : c = conn[s][l]
      OBVIOUS
    <2>2. Closed(c).got = c.got /\ Closed(c).writeQueue = c.writeQueue
      BY <2>1, TypeFacts, ClosedType
    <2>3. conn'[s][l] = c \/ conn'[s][l] = Closed(c)
      BY <1>1, <1>2, <2>1
    <2>4. QED
      BY <2>1, <2>2, <2>3
  <1>4. QED
    BY <1>1, <1>2, <1>3, RealCut

LEMMA RealAccept == ASSUME LinkInv, BaseInv, RealInv, Accept PROVE RealInv'
  <1>1. /\ \A l \in Id : C(l)' = C(l)
        /\ \A l \in Id : S(l)'.got = S(l).got /\ S(l)'.writeQueue = S(l).writeQueue
        /\ \A l \in Id : log'["server"][l] = log["server"][l] \/ Receipts(log'["server"][l]) = {}
        /\ \A l \in Id : pipe'[l] = pipe[l] \/ \E s \in Side : pipe'[l] = ShutPipe(s, pipe[l])
        /\ UNCHANGED <<last, queue, asked, called, answers>>
    BY AcceptCuts
  <1>2. replied' = replied
    BY DEF Accept
  <1>3. \A s \in Side : s = "client" \/ s = "server"
    BY DEF Side
  <1>4. \A s \in Side, l \in Id :
            conn'[s][l].got = conn[s][l].got /\ conn'[s][l].writeQueue = conn[s][l].writeQueue
    BY <1>1, <1>3 DEF C, S
  <1>5. QED
    BY <1>1, <1>2, <1>4, RealCut

LEMMA InitReal == Init => RealInv
  <1> SUFFICES ASSUME Init PROVE RealInv
    OBVIOUS
  <1>1. "client" \in Side /\ "server" \in Side /\ DOMAIN <<>> = {}
    BY DEF Side
  <1>2. /\ \A s \in Side, k \in Id : conn[s][k] = NoObject /\ log[s][k] = <<>> /\ pipe[k].to[s] = <<>>
        /\ queue["server"] = <<>>
    BY <1>1 DEF Init
  <1>3. Buffers(NoObject, Real)
    BY EmptySeq DEF Buffers, NoObject
  <1>4. \A k \in Id : Heard(log["server"][k], Real)
    BY <1>1, <1>2, NoAnswers
  <1>5. \A k \in Id : Carried(k, Real) /\ Replies(k, Real)
    BY <1>1, <1>2, <1>3, <1>4, EmptySeq DEF Carried, Replies
  <1>6. QED
    BY <1>5 DEF RealInv

LEMMA NextReal ==
  ASSUME LinkInv, BaseInv, RealInv, [Next]_vars
  PROVE  RealInv'
  <1>1. CASE UNCHANGED vars
    BY <1>1, RealQuiet DEF vars
  <1>2. ASSUME NEW mode \in Modes, Post(mode) PROVE RealInv'
    <2>1. UNCHANGED <<conn, pipe, log, replied>> /\ queue'["server"] = queue["server"]
      BY <1>2, PostFacts
    <2>2. QED
      BY <2>1, RealQuiet
  <1>3. CASE Next
    BY <1>2, <1>3, NextSplit, RealWelcome, RealReply, RealCompleteRead, RealQueuedSend,
       RealHandleReadComplete, RealHandleReadError, RealHandleWriteComplete, RealConnect,
       RealGreet, RealAccept, RealCrash, RealStopClient, RealStopServer
  <1>4. QED
    BY <1>1, <1>3

LEMMA AlwaysReal == Spec => []RealInv
  <1>1. LinkInv /\ BaseInv /\ RealInv /\ [Next]_vars => RealInv'
    BY NextReal
  <1>2. QED
    BY <1>1, InitReal, AlwaysLink, AlwaysBase, PTL DEF Spec

-----------------------------------------------------------------------------
(* Every step is a step of PipePromise, or none.                            *)

Promised == Promise!Next \/ UNCHANGED Promise!vars

LEMMA ReceivedSeen ==
  /\ Received = [l \in Id |-> Seen(log["server"][l])]
  /\ Received' = [l \in Id |-> Seen(log'["server"][l])]
  BY DEF Received, Seen, Receipts

\* A step that leaves what the launcher knows of its connections.
LEMMA ServerSame ==
  ASSUME \A l \in Id : /\ log'["server"][l] = log["server"][l]
                       /\ S(l)'.state = S(l).state
                       /\ S(l)'.reading = "no" <=> S(l).reading = "no"
  PROVE  Received' = Received /\ Over' = Over
  BY DEF Received, Over, S

\* Some callbacks of the client run.
LEMMA PromisedAnswers ==
  ASSUME LinkInv, CallInv, CallInv', UNCHANGED <<asked, called, replied>>,
         NEW new \in Seq(Answer), answers' = answers \o new,
         \A i \in DOMAIN new : new[i].how = "reply" => new[i].n \in replied,
         Received' = Received, Over' = Over
  PROVE  Promised
  <1> DEFINE K == Numbers(new)
             at == [n \in K |-> CHOOSE i \in DOMAIN new : new[i].n = n]
             how == [n \in K |-> new[at[n]].how]
             added == {[n |-> n, how |-> how[n]] : n \in K}
  <1>1. answers \in Seq(Answer)
    BY TypeFacts
  <1>2. /\ \A i \in DOMAIN answers' :
              \/ i \in DOMAIN answers /\ answers'[i] = answers[i]
              \/ i - Len(answers) \in DOMAIN new /\ answers'[i] = new[i - Len(answers)]
        /\ \A i \in DOMAIN answers : i \in DOMAIN answers' /\ answers'[i] = answers[i]
        /\ \A j \in DOMAIN new : j + Len(answers) \in DOMAIN answers' /\ answers'[j + Len(answers)] = new[j]
        /\ Len(answers) \in Nat /\ Numbers(answers') = Numbers(answers) \cup K
    BY <1>1, ConcatElements, DistinctConcat
  <1>3. DOMAIN answers = 1..Len(answers) /\ DOMAIN new = 1..Len(new) /\ Len(new) \in Nat
    BY <1>1, LenProperties
  <1>4. DistinctNumbers(answers') /\ Numbers(answers') \subseteq called
    BY DEF CallInv
  <1>5. \A i, j \in DOMAIN new : new[i].n = new[j].n => i = j
    <2> TAKE i, j \in DOMAIN new
    <2>1. HAVE new[i].n = new[j].n
    <2>2. i + Len(answers) = j + Len(answers)
      BY <1>2, <1>4, <2>1 DEF DistinctNumbers
    <2>3. QED
      BY <1>2, <1>3, <2>2
  <1>6. K \cap Numbers(answers) = {}
    <2>1. SUFFICES ASSUME NEW i \in DOMAIN new, NEW j \in DOMAIN answers, new[i].n = answers[j].n
                   PROVE  FALSE
      BY DEF Numbers
    <2>2. i + Len(answers) = j
      BY <1>2, <1>4, <2>1 DEF DistinctNumbers
    <2>3. QED
      BY <1>2, <1>3, <2>2
  <1>7. \A i \in DOMAIN new : new[i] \in Answer /\ new[i].n \in K
    BY ElementOfSeq DEF Numbers
  <1>8. \A n \in K : at[n] \in DOMAIN new /\ new[at[n]].n = n
    BY DEF Numbers
  <1>9. \A i \in DOMAIN new : at[new[i].n] = i
    BY <1>5, <1>7, <1>8
  <1> HIDE DEF K, at
  <1>10. how \in [K -> {"reply", "ConnectionClosed", "NoConnection"}]
    BY <1>7, <1>8 DEF Answer
  <1>11. \A n \in K : how[n] = "reply" => n \in replied
    BY <1>8
  <1>12. added = {new[i] : i \in DOMAIN new}
    <2>1. \A n \in K : [n |-> n, how |-> how[n]] = new[at[n]]
      BY <1>7, <1>8 DEF Answer
    <2>2. \A i \in DOMAIN new : new[i] = [n |-> new[i].n, how |-> how[new[i].n]]
      BY <1>7, <1>9 DEF Answer
    <2> DEFINE told == {new[i] : i \in DOMAIN new}
    <2>3. \A n \in K : new[at[n]] \in told
      BY <1>8
    <2>4. added \subseteq told
      BY <2>1, <2>3
    <2>5. told \subseteq added
      <3>1. \A i \in DOMAIN new : [n |-> new[i].n, how |-> how[new[i].n]] \in added
        BY <1>7
      <3>2. \A i \in DOMAIN new : new[i] \in added
        BY <2>2, <3>1
      <3>3. QED
        BY <3>2
    <2>6. QED
      BY <2>4, <2>5
  <1>13. Told' = Told \cup added
    <2>1. PICK a : a = answers'
      OBVIOUS
    <2>2. Told' = {a[i] : i \in DOMAIN a}
      BY <2>1 DEF Told
    <2>3. ASSUME NEW i \in DOMAIN a PROVE a[i] \in Told \/ a[i] \in added
      <3>1. CASE i \in DOMAIN answers /\ a[i] = answers[i]
        BY <3>1 DEF Told
      <3>2. CASE i - Len(answers) \in DOMAIN new /\ a[i] = new[i - Len(answers)]
        BY <1>12, <3>2
      <3>3. QED
        BY <1>2, <2>1, <2>3, <3>1, <3>2
    <2>4. \A i \in DOMAIN answers : answers[i] \in Told'
      BY <1>2, <2>1, <2>2
    <2>5. \A j \in DOMAIN new : new[j] \in Told'
      BY <1>2, <2>1, <2>2
    <2>6. Told \subseteq Told' /\ added \subseteq Told'
      BY <1>12, <2>4, <2>5 DEF Told
    <2>7. Told' \subseteq Told \cup added
      BY <2>2, <2>3
    <2>8. QED
      BY <2>6, <2>7
  <1> HIDE DEF how, added
  <1>14. Told' = Told \cup {[n |-> n, how |-> how[n]] : n \in K}
    BY <1>13 DEF added
  <1>15. Waiting = called \ Numbers(answers) /\ Waiting' = called' \ Numbers(answers')
    BY DEF Waiting, Numbers
  <1>16. Waiting' = Waiting \ K /\ K \in SUBSET Waiting
    BY <1>2, <1>4, <1>6, <1>15
  <1>17. Promise!Answer(K)
    BY <1>10, <1>11, <1>14, <1>16 DEF Promise!Answer
  <1>18. QED
    BY <1>16, <1>17 DEF Promised, Promise!Next

\* A step of the client's pipe thread.
LEMMA PromisedClient ==
  ASSUME LinkInv, CallInv, CallInv', UNCHANGED <<asked, called, replied>>,
         NEW k \in Id, NEW c, ObjectInv(c), NEW p, NEW events, NEW closing \in BOOLEAN,
         NEW results \in Seq(Answer), Settle("client", k, c, p, events, results, closing),
         \A i \in DOMAIN results : results[i].how = "reply" => results[i].n \in replied
  PROVE  Promised
  <1>1. "server" \in Side /\ "client" \in Side /\ "client" # "server"
    BY DEF Side
  <1>2. PICK ended : SettledTo("client", k, c, p, events, results, closing, ended)
    BY <1>1, SettleFacts
  <1>3. /\ \A t \in Side, l \in Id : t # "client" \/ l # k => conn'[t][l] = conn[t][l]
        /\ \A t \in Side, l \in Id : t # "client" \/ l # k => log'[t][l] = log[t][l]
        /\ ended \in (IF closing THEN ClosedAnswers(c) ELSE {<<>>})
        /\ answers' = answers \o results \o ended
    BY <1>2 DEF SettledTo
  <1>4. Received' = Received /\ Over' = Over
    BY <1>1, <1>3, ServerSame DEF S
  <1>5. ended \in Seq(Answer) /\ \A i \in DOMAIN ended : ended[i].how # "reply"
    <2>1. CASE closing
      BY <1>3, <2>1, ClosedAnswersType
    <2>2. CASE ~closing
      <3>1. DOMAIN <<>> = {}
        OBVIOUS
      <3>2. QED
        BY <1>3, <2>2, <3>1, EmptySeq
    <2>3. QED
      BY <2>1, <2>2
  <1>6. PICK new : new = results \o ended
    OBVIOUS
  <1>7. new \in Seq(Answer) /\ \A i \in DOMAIN new : new[i].how = "reply" => new[i].n \in replied
    BY <1>5, <1>6, ConcatElements
  <1>8. answers' = answers \o new
    <2>1. answers \in Seq(Answer)
      BY TypeFacts
    <2>2. QED
      BY <1>3, <1>5, <1>6, <2>1, ConcatAssociative
  <1>9. QED
    BY <1>4, <1>7, <1>8, PromisedAnswers

\* The launcher ends some connections and receives nothing.
LEMMA PromisedEnd ==
  ASSUME UNCHANGED <<asked, called, answers, replied>>, Received' = Received, Over \subseteq Over'
  PROVE  Promised
  <1>1. Waiting' = Waiting /\ Told' = Told
    BY DEF Waiting, Told
  <1>2. Over' \in SUBSET Id /\ Over' = Over \cup Over'
    BY DEF Over
  <1>3. Promise!End
    BY <1>1, <1>2 DEF Promise!End
  <1>4. QED
    BY <1>3 DEF Promised, Promise!Next

\* What a step of the launcher's pipe thread on k does, as far as it matters here.
ServerSettled(k, events) ==
    /\ answers' = answers /\ Over' \in {Over, Over \cup {k}}
    /\ \E notices \in Seq(Event) :
          /\ log'["server"][k] = log["server"][k] \o events \o notices
          /\ \A i \in DOMAIN notices : notices[i].what # "received"
    /\ \A l \in Id : l # k => log'["server"][l] = log["server"][l]

LEMMA SettledServer ==
  ASSUME LinkInv, NEW k \in Id, NEW c, ObjectInv(c), c.rpc = {}, NEW p,
         NEW events, NEW none, none = <<>>, NEW closing \in BOOLEAN,
         Settle("server", k, c, p, events, none, closing),
         k \in Over => c.state = "closed" /\ c.reading = "no"
  PROVE  ServerSettled(k, events)
  <1> DEFINE after == IF closing THEN Closed(c) ELSE c
             destroyed == /\ k \notin Listed("server", k, c, closing)
                          /\ after.reading = "no" /\ ~after.writing /\ ~after.leaked
             notices == ClosedNotices("server", c, closing, destroyed)
             object == IF destroyed THEN Closed(NoObject) ELSE after
  <1>1. "server" \in Side
    BY DEF Side
  <1>2. PICK ended : SettledTo("server", k, c, p, events, none, closing, ended)
    BY <1>1, SettleFacts
  <1>3. /\ conn'["server"][k] = object
        /\ \A t \in Side, l \in Id : t # "server" \/ l # k => conn'[t][l] = conn[t][l]
        /\ log'["server"][k] = log["server"][k] \o events \o notices
        /\ \A t \in Side, l \in Id : t # "server" \/ l # k => log'[t][l] = log[t][l]
        /\ ended \in (IF closing THEN ClosedAnswers(c) ELSE {<<>>})
        /\ answers' = answers \o none \o ended
    BY <1>2 DEF SettledTo
  <1>4. destroyed \in BOOLEAN
    OBVIOUS
  <1>5. /\ after.state = "closed" \/ after.state = c.state
        /\ c.reading = "no" => after.reading = "no"
    BY ClosedType
  <1>6. Closed(NoObject).state = "closed" /\ Closed(NoObject).reading = "no"
    BY NoObjectInv, ClosedType DEF NoObject
  <1> HIDE DEF after, destroyed
  <1>7. notices \in Seq(Event) /\ \A i \in DOMAIN notices : notices[i].what # "received"
    BY <1>1, <1>4, ClosedNoticesType, ClosedNoticesFacts
  <1>8. k \in Over => object.state = "closed" /\ object.reading = "no"
    BY <1>5, <1>6
  <1> HIDE DEF notices, object
  <1>9. Over' \in {Over, Over \cup {k}}
    <2>1. \A l \in Id : l # k => (l \in Over' <=> l \in Over)
      BY <1>1, <1>3 DEF Over
    <2>2. k \in Over => k \in Over'
      BY <1>3, <1>8 DEF Over
    <2>3. Over \subseteq Id /\ Over' \subseteq Id
      BY DEF Over
    <2>4. PICK A : A = Over
      OBVIOUS
    <2>5. PICK B : B = Over'
      OBVIOUS
    <2>6. /\ \A l \in Id : l # k => (l \in B <=> l \in A)
          /\ k \in A => k \in B
          /\ A \subseteq Id /\ B \subseteq Id
      BY <2>1, <2>2, <2>3, <2>4, <2>5
    <2>7. \A l : l \in B <=> l \in A \/ (l = k /\ k \in B)
      BY <2>6
    <2>8. B = A \/ B = A \cup {k}
      BY <2>7, Zenon
    <2>9. QED
      BY <2>4, <2>5, <2>8
  <1>10. answers' = answers
    BY <1>3, ServerAnswers
  <1>11. QED
    BY <1>1, <1>3, <1>7, <1>9, <1>10 DEF ServerSettled

\* A step of the launcher's pipe thread that receives nothing.
LEMMA PromisedQuiet ==
  ASSUME LinkInv, NEW k \in Id, NEW c, ObjectInv(c), c.rpc = {}, NEW p,
         NEW none, none = <<>>, NEW closing \in BOOLEAN,
         Settle("server", k, c, p, none, none, closing),
         k \in Over => c.state = "closed" /\ c.reading = "no",
         UNCHANGED <<asked, called, replied>>
  PROVE  Promised
  <1>1. /\ answers' = answers /\ Over' \in {Over, Over \cup {k}}
        /\ \E notices \in Seq(Event) :
              /\ log'["server"][k] = log["server"][k] \o none \o notices
              /\ \A i \in DOMAIN notices : notices[i].what # "received"
        /\ \A l \in Id : l # k => log'["server"][l] = log["server"][l]
    <2>1. ServerSettled(k, none)
      BY SettledServer
    <2>2. QED
      BY <2>1 DEF ServerSettled
  <1>2. PICK q \in Seq(Event) : q = log["server"][k]
    BY LineTypes
  <1>3. q \o none = q
    BY <1>2, ConcatEmptySeq
  <1>4. Seen(log'["server"][k]) = Seen(q)
    BY <1>1, <1>2, <1>3, SeenQuiet
  <1>5. \A l \in Id : Seen(log'["server"][l]) = Seen(log["server"][l])
    BY <1>1, <1>2, <1>4
  <1>6. Received' = Received
    BY <1>5, ReceivedSeen
  <1>7. Over \subseteq Over'
    BY <1>1
  <1>8. QED
    BY <1>1, <1>6, <1>7, PromisedEnd

\* A step of the launcher's pipe thread that receives what was read: it is the
\* next of what was posted, because the line holds it behind what was received.
LEMMA PromisedReceive ==
  ASSUME LinkInv, OrderInv, NEW k \in Id, NEW c, ObjectInv(c), c.rpc = {}, NEW p,
         NEW m \in Message, S(k).got = <<m>>,
         NEW events, events = <<[what |-> "received", m |-> m]>>,
         NEW none, none = <<>>, NEW closing \in BOOLEAN,
         Settle("server", k, c, p, events, none, closing),
         UNCHANGED <<asked, called, replied>>
  PROVE  Promised
  <1>1. k \notin Over
    <2>1. ObjectInv(S(k))
      BY TypeFacts DEF S, Side
    <2>2. S(k).got # <<>>
      OBVIOUS
    <2>3. QED
      BY <2>1, <2>2 DEF ObjectInv, Over, S
  <1>2. /\ answers' = answers /\ Over' \in {Over, Over \cup {k}}
        /\ \E notices \in Seq(Event) :
              /\ log'["server"][k] = log["server"][k] \o events \o notices
              /\ \A i \in DOMAIN notices : notices[i].what # "received"
        /\ \A l \in Id : l # k => log'["server"][l] = log["server"][l]
    <2>1. ServerSettled(k, events)
      BY <1>1, SettledServer
    <2>2. QED
      BY <2>1 DEF ServerSettled
  <1>3. PICK q \in Seq(Event) : q = log["server"][k]
    BY LineTypes
  <1>4. PICK r : r = q \o events
    OBVIOUS
  <1>5. r \in Seq(Event) /\ Seen(r) = Seen(q) \cup {m.n}
    BY <1>3, <1>4, SeenReceived
  <1>6. Seen(log'["server"][k]) = Seen(q) \cup {m.n}
    <2>1. PICK notices \in Seq(Event) :
              /\ log'["server"][k] = log["server"][k] \o events \o notices
              /\ \A i \in DOMAIN notices : notices[i].what # "received"
      BY <1>2
    <2>2. log'["server"][k] = r \o notices
      BY <1>3, <1>4, <2>1
    <2>3. QED
      BY <1>5, <2>1, <2>2, SeenQuiet
  <1>7. PICK w : w = pipe[k].to["server"]
    OBVIOUS
  <1>8. /\ Below(Seen(q), Numbers(S(k).got)) /\ Below(Numbers(S(k).got), Numbers(w))
        /\ Beginning(Stream(q, S(k).got, w), Posted(k))
    BY <1>3, <1>7 DEF OrderInv, LineInv, Ordered, InLine, Streamed
  <1>9. Numbers(S(k).got) = {m.n}
    BY NumbersSmall
  <1>10. PICK D : D = Seen(q) \cup {m.n} \cup Numbers(w)
    OBVIOUS
  <1>11. Beginning(D, Posted(k)) /\ Below(Seen(q), {m.n}) /\ Below({m.n}, Numbers(w))
    BY <1>8, <1>9, <1>10 DEF Stream
  <1>12. Posted(k) \subseteq Nat /\ m.n \in Posted(k)
    BY <1>10, <1>11, LineTypes DEF Beginning
  <1>13. m.n \notin Seen(q)
    BY <1>11, <1>12 DEF Below
  <1>14. ASSUME NEW x \in Posted(k) \ Seen(q) PROVE m.n <= x
    <2>1. SUFFICES ASSUME x < m.n PROVE FALSE
      BY <1>12
    <2>2. x \in D
      BY <1>10, <1>11, <2>1 DEF Beginning
    <2>3. x \in Numbers(w)
      BY <1>10, <1>14, <2>1, <2>2, <1>12
    <2>4. m.n < x
      BY <1>11, <2>3 DEF Below
    <2>5. QED
      BY <1>12, <2>1, <2>4
  <1>15. Received' = [Received EXCEPT ![k] = @ \cup {m.n}]
    BY <1>2, <1>3, <1>6, ReceivedSeen
  <1>16. Received[k] = Seen(q) /\ Promise!Posted(k) = Posted(k)
    BY <1>3, ReceivedSeen DEF Promise!Posted, Posted
  <1>17. Waiting' = Waiting /\ Told' = Told
    BY <1>2 DEF Waiting, Told
  <1>18. m.n \in Promise!Posted(k) \ Received[k]
         /\ \A x \in Promise!Posted(k) \ Received[k] : m.n <= x
    BY <1>12, <1>13, <1>14, <1>16
  <1>19. Promise!Receive(k)
    BY <1>1, <1>2, <1>15, <1>17, <1>18, Zenon DEF Promise!Receive
  <1>20. QED
    BY <1>19 DEF Promised, Promise!Next

LEMMA PromisedStutter ==
  ASSUME Received' = Received, Over' = Over, UNCHANGED <<asked, called, answers, replied>>
  PROVE  Promised
  <1>1. Waiting' = Waiting /\ Told' = Told
    BY DEF Waiting, Told
  <1>2. QED
    BY <1>1 DEF Promised, Promise!vars

LEMMA PromisedPost ==
  ASSUME LinkInv, CallInv, NEW mode \in Modes, Post(mode) PROVE Promised
  <1>1. PICK k \in Id, m \in Message :
           /\ asked' = Append(asked, k) /\ asked \in Seq(Id) /\ Len(asked) \in Nat
           /\ DOMAIN asked = 1..Len(asked)
           /\ called' = (IF mode = "call" THEN called \cup {Len(asked) + 1} ELSE called)
           /\ UNCHANGED <<conn, log, replied, answers>>
    BY PostFacts
  <1>2. Received' = Received /\ Over' = Over /\ Told' = Told
    BY <1>1 DEF Received, Over, Told
  <1>3. PICK new : new = Len(asked) + 1
    OBVIOUS
  <1>4. new \notin Numbers(answers)
    BY <1>1, <1>3 DEF CallInv
  <1>5. Waiting = called \ Numbers(answers) /\ Waiting' = called' \ Numbers(answers)
    BY <1>1 DEF Waiting, Numbers
  <1>6. Waiting' \in {Waiting, Waiting \cup {new}}
    BY <1>1, <1>3, <1>4, <1>5
  <1>7. Promise!Post(k)
    BY <1>1, <1>2, <1>3, <1>6 DEF Promise!Post
  <1>8. QED
    BY <1>7 DEF Promised, Promise!Next

LEMMA PromisedReply ==
  ASSUME LinkInv, OrderInv, NEW n \in DOMAIN asked, Reply(n) PROVE Promised
  <1>1. PICK k \in Id, m \in Message :
           LET e == [k |-> k, m |-> [m EXCEPT !.mode = "reply"]]
           IN  /\ e \in [k : Id, m : Message] /\ e.k = k /\ e.m.mode = "reply"
               /\ e.m.n = m.n /\ e.m.seq = m.seq
               /\ \E i \in DOMAIN log["server"][k] :
                     /\ log["server"][k][i].what = "received" /\ log["server"][k][i].m = m
                     /\ m.mode = "call" /\ m.n = n
               /\ queue'["client"] = queue["client"]
               /\ \/ queue'["server"] = queue["server"]
                  \/ Alive("server", k) /\ queue'["server"] = Append(queue["server"], e)
               /\ UNCHANGED <<conn, pipe, listed, last, greeting, log, phase, welcomed, asked, called, faults, answers>>
    BY ReplyFacts
  <1>2. n \in Seen(log["server"][k])
    BY <1>1 DEF Seen, Receipts
  <1>3. n \in Posted(k)
    BY <1>2 DEF OrderInv, LineInv, Ordered, Streamed, Stream, Beginning
  <1>4. asked[n] = k
    <2>1. DOMAIN asked = 1..Len(asked) /\ Len(asked) \in Nat
      BY LineTypes
    <2>2. n # 0
      BY <2>1
    <2>3. QED
      BY <1>3, <2>2 DEF Posted
  <1>5. n \in Received[asked[n]]
    BY <1>2, <1>4, ReceivedSeen
  <1>6. n \notin replied /\ replied' = replied \cup {n}
    BY DEF Reply
  <1>7. Received' = Received /\ Over' = Over /\ Waiting' = Waiting /\ Told' = Told /\ UNCHANGED asked
    BY <1>1 DEF Received, Over, Waiting, Told
  <1>8. Promise!Reply(n)
    BY <1>5, <1>6, <1>7 DEF Promise!Reply
  <1>9. QED
    BY <1>8 DEF Promised, Promise!Next

LEMMA PromisedWelcome == ASSUME LinkInv, NEW k \in Id, Welcome(k) PROVE Promised
  <1>1. UNCHANGED <<conn, log, asked, called, answers, replied>>
    BY DEF Welcome, history
  <1>2. Received' = Received /\ Over' = Over
    BY <1>1 DEF Received, Over
  <1>3. QED
    BY <1>1, <1>2, PromisedStutter

LEMMA PromisedCompleteRead ==
  ASSUME LinkInv, NEW s \in Side, NEW k \in Id, CompleteRead(s, k) PROVE Promised
  <1>1. PICK m \in Message :
           /\ conn[s][k].reading = "pending" /\ conn'[s][k] = Got(conn[s][k], m)
           /\ \A t \in Side, l \in Id : t # s \/ l # k => conn'[t][l] = conn[t][l]
           /\ UNCHANGED <<log, asked, called, answers, replied>>
    BY CompleteReadFacts
  <1>2. PICK d : d = Got(conn[s][k], m)
    OBVIOUS
  <1>3. d.state = conn[s][k].state /\ d.reading = "done"
    BY <1>2, GotType, TypeFacts
  <1>4. "server" \in Side
    BY DEF Side
  <1>5. \A l \in Id : /\ S(l)'.state = S(l).state
                      /\ S(l)'.reading = "no" <=> S(l).reading = "no"
    BY <1>1, <1>2, <1>3, <1>4 DEF S
  <1>6. Received' = Received /\ Over' = Over
    BY <1>1, <1>5, ServerSame
  <1>7. QED
    BY <1>1, <1>6, PromisedStutter

LEMMA PromisedConnect == ASSUME LinkInv, Connect PROVE Promised
  <1>1. /\ \A t \in Side, l \in Id : t # "client" \/ l # last + 1 => conn'[t][l] = conn[t][l]
        /\ UNCHANGED <<log, asked, called, answers, replied>>
    BY ConnectFacts
  <1>2. "server" \in Side /\ "server" # "client"
    BY DEF Side
  <1>3. Received' = Received /\ Over' = Over
    BY <1>1, <1>2, ServerSame DEF S
  <1>4. QED
    BY <1>1, <1>3, PromisedStutter

LEMMA PromisedCrash == ASSUME LinkInv, Crash PROVE Promised
  <1>1. /\ \A l \in Id : conn'["server"][l] = conn["server"][l]
        /\ called' = {} /\ answers' = <<>> /\ UNCHANGED <<log, asked, replied>>
    BY CrashFacts
  <1>2. Received' = Received /\ Over' = Over
    BY <1>1, ServerSame DEF S
  <1>3. DOMAIN <<>> = {}
    OBVIOUS
  <1>4. Waiting' = {} /\ Told' = {}
    BY <1>1, <1>3 DEF Waiting, Told
  <1>5. Promise!Die
    BY <1>1, <1>2, <1>4 DEF Promise!Die
  <1>6. QED
    BY <1>5 DEF Promised, Promise!Next

LEMMA PromisedStopServer == ASSUME LinkInv, StopServer PROVE Promised
  <1>1. /\ \A l \in Id : conn["server"][l].state # "open" => conn'["server"][l] = conn["server"][l]
        /\ UNCHANGED <<log, asked, called, answers, replied>>
    BY StopServerFacts
  <1>2. Received' = Received
    BY <1>1 DEF Received
  <1>3. Over \subseteq Over'
    BY <1>1 DEF Over
  <1>4. QED
    BY <1>1, <1>2, <1>3, PromisedEnd

LEMMA PromisedAccept == ASSUME LinkInv, BaseInv, Accept PROVE Promised
  <1>1. /\ last \in Id /\ conn["server"][last].state = "none"
        /\ \A l \in Id : l # last => /\ conn'["server"][l] = conn["server"][l]
                                     /\ log'["server"][l] = log["server"][l]
        /\ UNCHANGED <<asked, called, answers, replied>>
    BY AcceptFacts, Zenon
  <1>2. \A l \in Id : log'["server"][l] = log["server"][l] \/ Receipts(log'["server"][l]) = {}
    BY AcceptCuts
  <1>3. Receipts(log["server"][last]) = {}
    <2>1. log["server"][last] = <<>> /\ DOMAIN <<>> = {}
      BY <1>1 DEF BaseInv, NoneInv, S
    <2>2. QED
      BY <2>1 DEF Receipts
  <1>4. Receipts(log'["server"][last]) = {}
    BY <1>1, <1>2, <1>3
  <1>5. \A l \in Id : Seen(log'["server"][l]) = Seen(log["server"][l])
    BY <1>1, <1>3, <1>4 DEF Seen
  <1>6. Received' = Received
    BY <1>5, ReceivedSeen
  <1>7. Over \subseteq Over'
    BY <1>1 DEF Over
  <1>8. QED
    BY <1>1, <1>6, <1>7, PromisedEnd

\* A step of a pipe thread that receives nothing and runs callbacks only of
\* calls that fail.
LEMMA PromisedSettled ==
  ASSUME LinkInv, CallInv, CallInv', UNCHANGED <<asked, called, replied>>,
         NEW s \in Side, NEW k \in Id, NEW c, ObjectInv(c), NEW p, NEW closing \in BOOLEAN,
         NEW results \in Seq(Answer), \A i \in DOMAIN results : results[i].how # "reply",
         NEW none, none = <<>>, Settle(s, k, c, p, none, results, closing),
         s = "server" => /\ c.rpc = {} /\ results = none
                         /\ k \in Over => c.state = "closed" /\ c.reading = "no"
  PROVE  Promised
  <1>1. CASE s = "client"
    BY <1>1, PromisedClient
  <1>2. CASE s = "server"
    <2>1. Settle("server", k, c, p, none, none, closing)
      BY <1>2
    <2>2. QED
      BY <1>2, <2>1, PromisedQuiet
  <1>3. QED
    BY <1>1, <1>2 DEF Side

LEMMA PromisedQueuedSend ==
  ASSUME LinkInv, BaseInv, CallInv, CallInv', NEW s \in Side, QueuedSend(s) PROVE Promised
  <1>1. "server" \in Side /\ "client" \in Side /\ "client" # "server"
    BY DEF Side
  <1>2. PICK k \in Id, m \in Message : \E c, d, r, results :
            /\ Sends(s, k, m, c, d, r) /\ SendsOnly(s) /\ results = Error(m, "NoConnection")
            /\ SendLost(s, k, m) \/ SendRefused(s, k, c, results) \/ SendMade(s, k, c, d, r)
    BY QueuedSendSplit
  <1>3. PICK c, d, r, results :
            /\ Sends(s, k, m, c, d, r) /\ SendsOnly(s) /\ results = Error(m, "NoConnection")
            /\ SendLost(s, k, m) \/ SendRefused(s, k, c, results) \/ SendMade(s, k, c, d, r)
    BY <1>2
  <1>4. UNCHANGED <<asked, called, replied>>
    BY <1>3, QueuedSendFacts DEF SendsOnly
  <1>5. /\ c = conn[s][k] /\ d = Numbered(c, m) /\ ObjectInv(c) /\ pipe[k] \in Pipe
        /\ r = Sending(s, d, pipe[k]) /\ queue[s] # <<>> /\ m = Head(queue[s]).m
    BY <1>3, Zenon DEF Sends
  <1>6. s = "server" => m.mode # "call" /\ c.rpc = {}
    <2>1. queue[s] \in Seq([k : Id, m : Message])
      BY <1>1, TypeFacts
    <2>2. 1 \in DOMAIN queue[s] /\ queue[s][1] = Head(queue[s])
      BY <1>5, <2>1, TailPlaces
    <2>3. QED
      BY <1>5, <2>2 DEF BaseInv, QueueInv, OpenInv, S
  <1>7. PICK none : none = <<>>
    OBVIOUS
  <1>8. \A how \in {"ConnectionClosed", "NoConnection"} :
            /\ Error(m, how) \in Seq(Answer)
            /\ \A i \in DOMAIN Error(m, how) : Error(m, how)[i].how # "reply"
            /\ s = "server" => Error(m, how) = none
    <2> TAKE how \in {"ConnectionClosed", "NoConnection"}
    <2>1. Error(m, how) \in Seq(Answer)
      BY ErrorFacts
    <2>2. PICK a : a = [n |-> m.n, how |-> how]
      OBVIOUS
    <2>3. Error(m, how) = (IF m.mode = "call" THEN <<a>> ELSE <<>>) /\ a.how = how
      BY <2>2 DEF Error
    <2>4. DOMAIN <<a>> = {1} /\ <<a>>[1] = a /\ DOMAIN <<>> = {}
      OBVIOUS
    <2>5. \A i \in DOMAIN Error(m, how) : Error(m, how)[i].how # "reply"
      BY <2>3, <2>4
    <2>6. QED
      BY <1>6, <1>7, <2>1, <2>3, <2>5
  <1>9. s = "server" /\ k \in Over => c.state = "closed" /\ c.reading = "no"
    BY <1>5 DEF Over
  <1>10. CASE SendLost(s, k, m)
    <2>1. PICK new \in Seq(Answer) : new = Error(m, "ConnectionClosed")
      BY <1>8
    <2>2. answers' = answers \o new /\ UNCHANGED <<conn, log>>
      BY <1>10, <2>1 DEF SendLost
    <2>3. Received' = Received /\ Over' = Over
      BY <2>2 DEF Received, Over
    <2>4. \A i \in DOMAIN new : new[i].how # "reply"
      BY <1>8, <2>1
    <2>5. QED
      BY <1>4, <2>2, <2>3, <2>4, PromisedAnswers
  <1>11. CASE SendRefused(s, k, c, results)
    <2>1. PICK closing \in BOOLEAN : closing = TRUE
      OBVIOUS
    <2>2. PICK p : p = pipe[k]
      OBVIOUS
    <2>3. Settle(s, k, c, p, none, results, closing)
      BY <1>7, <1>11, <2>1, <2>2 DEF SendRefused
    <2>4. /\ results \in Seq(Answer) /\ \A i \in DOMAIN results : results[i].how # "reply"
          /\ s = "server" => results = none
      BY <1>3, <1>8
    <2>5. QED
      BY <1>4, <1>5, <1>6, <1>7, <1>9, <2>3, <2>4, PromisedSettled
  <1>12. CASE SendMade(s, k, c, d, r)
    <2>1. /\ ObjectInv(d) /\ Settle(s, k, r.c, r.p, <<>>, <<>>, r.closing)
          /\ ObjectInv(r.c) /\ r.closing \in BOOLEAN
      BY <1>12 DEF SendMade
    <2>2. PICK e : e = r.c
      OBVIOUS
    <2>3. PICK o : o = r.p
      OBVIOUS
    <2>4. PICK closing \in BOOLEAN : closing = r.closing
      BY <2>1
    <2>5. Settle(s, k, e, o, none, none, closing) /\ ObjectInv(e)
      BY <1>7, <2>1, <2>2, <2>3, <2>4
    <2>6. e.state = d.state /\ e.reading = d.reading /\ e.rpc = d.rpc
      BY <1>5, <2>1, <2>2, SendingSame
    <2>7. /\ d.state = c.state /\ d.reading = c.reading
          /\ m.mode # "call" => d.rpc = c.rpc
      BY <1>5, NumberedFacts
    <2>8. none \in Seq(Answer) /\ \A i \in DOMAIN none : none[i].how # "reply"
      <3>1. DOMAIN <<>> = {}
        OBVIOUS
      <3>2. QED
        BY <1>7, <3>1, EmptySeq
    <2>9. s = "server" => e.rpc = {} /\ (k \in Over => e.state = "closed" /\ e.reading = "no")
      BY <1>6, <1>9, <2>6, <2>7
    <2>10. QED
      BY <1>4, <1>7, <2>5, <2>8, <2>9, PromisedSettled
  <1>13. QED
    BY <1>3, <1>10, <1>11, <1>12

LEMMA PromisedHandleReadComplete ==
  ASSUME LinkInv, BaseInv, OrderInv, RealInv, CallInv, CallInv',
         NEW s \in Side, NEW k \in Id, HandleReadComplete(s, k)
  PROVE  Promised
  <1>1. PICK c, m, mine, e, events, results : \E closing \in BOOLEAN :
            /\ Receives(s, k, c, m, mine) /\ ReceivesTo(c, m, mine, e, events, results)
            /\ Settle(s, k, e, pipe[k], events, results, closing)
            /\ UNCHANGED <<last, greeting, queue, asked, called>>
    BY HandleReadCompleteSplit
  <1>2. PICK closing \in BOOLEAN :
            /\ Receives(s, k, c, m, mine) /\ ReceivesTo(c, m, mine, e, events, results)
            /\ Settle(s, k, e, pipe[k], events, results, closing)
            /\ UNCHANGED <<last, greeting, queue, asked, called>>
    BY <1>1
  <1>3. c = conn[s][k] /\ m \in Message /\ c.got = <<m>> /\ mine = Answered(c, m)
    BY <1>2, Zenon DEF Receives
  <1>4. /\ ObjectInv(e) /\ e.rpc = c.rpc \ mine /\ results \in Seq(Answer)
        /\ mine = {} => events = <<[what |-> "received", m |-> m]>> /\ results = <<>>
        /\ mine # {} => events = <<>> /\ results = <<[n |-> m.n, how |-> "reply"]>>
    BY <1>2, Zenon DEF ReceivesTo
  <1>5. UNCHANGED <<asked, called, replied>>
    BY <1>2, HandleReadCompleteFacts
  <1>6. PICK p : p = pipe[k]
    OBVIOUS
  <1>7. Settle(s, k, e, p, events, results, closing)
    BY <1>2, <1>6
  <1>8. CASE s = "server"
    <2>1. c.rpc = {} /\ S(k).got = <<m>>
      BY <1>3, <1>8 DEF BaseInv, OpenInv, S
    <2>2. /\ results = <<>> /\ e.rpc = {}
          /\ events = <<[what |-> "received", m |-> m]>>
      BY <1>3, <1>4, <2>1 DEF Answered
    <2>3. Settle("server", k, e, p, events, results, closing)
      BY <1>7, <1>8
    <2>4. QED
      BY <1>3, <1>4, <1>5, <2>1, <2>2, <2>3, PromisedReceive
  <1>9. CASE s = "client"
    <2>1. m \in Real
      <3>1. PICK M : M = Real
        OBVIOUS
      <3>2. Buffers(c, M)
        BY <1>3, <3>1 DEF RealInv, Carried
      <3>3. c.got \in Seq(M) /\ c.got # <<>> /\ Head(c.got) = m
        BY <1>3, <3>2 DEF Buffers
      <3>4. QED
        BY <3>1, <3>3, HeadType
    <2>2. \A i \in DOMAIN results : results[i].how = "reply" => results[i].n \in replied
      <3>1. CASE mine = {}
        <4>1. DOMAIN <<>> = {}
          OBVIOUS
        <4>2. QED
          BY <1>4, <3>1, <4>1
      <3>2. CASE mine # {}
        <4>1. m.n \in replied
          BY <1>3, <2>1, <3>2 DEF Answered, Real
        <4>2. PICK x : x = [n |-> m.n, how |-> "reply"]
          OBVIOUS
        <4>3. x.n = m.n /\ results = <<x>>
          BY <1>4, <3>2, <4>2
        <4>4. DOMAIN <<x>> = {1} /\ <<x>>[1] = x
          OBVIOUS
        <4>5. QED
          BY <4>1, <4>3, <4>4
      <3>3. QED
        BY <3>1, <3>2
    <2>3. Settle("client", k, e, p, events, results, closing)
      BY <1>7, <1>9
    <2>4. QED
      BY <1>4, <1>5, <2>2, <2>3, PromisedClient
  <1>10. QED
    BY <1>8, <1>9 DEF Side

\* A step of a pipe thread that neither receives nor runs a callback of its own.
LEMMA PromisedPlain ==
  ASSUME LinkInv, BaseInv, CallInv, CallInv', UNCHANGED <<asked, called, replied>>,
         NEW s \in Side, NEW k \in Id, NEW c, ObjectInv(c), NEW p, NEW closing \in BOOLEAN,
         NEW none, none = <<>>, Settle(s, k, c, p, none, none, closing),
         s = "server" => /\ c.rpc = conn[s][k].rpc /\ c.state = conn[s][k].state
                         /\ conn[s][k].reading = "no" => c.reading = "no"
  PROVE  Promised
  <1>1. none \in Seq(Answer) /\ \A i \in DOMAIN none : none[i].how # "reply"
    <2>1. DOMAIN <<>> = {}
      OBVIOUS
    <2>2. QED
      BY <2>1, EmptySeq
  <1>2. s = "server" => /\ c.rpc = {}
                        /\ k \in Over => c.state = "closed" /\ c.reading = "no"
    BY DEF BaseInv, OpenInv, Over, S
  <1>3. QED
    BY <1>1, <1>2, PromisedSettled

LEMMA PromisedHandleReadError ==
  ASSUME LinkInv, BaseInv, CallInv, CallInv', NEW s \in Side, NEW k \in Id, HandleReadError(s, k)
  PROVE  Promised
  <1>1. PICK c : c = Unread(conn[s][k])
    OBVIOUS
  <1>2. PICK none : none = <<>>
    OBVIOUS
  <1>3. PICK closing \in BOOLEAN : closing = TRUE
    OBVIOUS
  <1>4. PICK p : p = pipe[k]
    OBVIOUS
  <1>5. /\ ObjectInv(c) /\ Settle(s, k, c, p, none, none, closing)
        /\ UNCHANGED <<asked, called, replied>> /\ ObjectInv(conn[s][k]) /\ conn[s][k].reading # "done"
    BY <1>1, <1>2, <1>3, <1>4, HandleReadErrorFacts
  <1>6. c.rpc = conn[s][k].rpc /\ c.state = conn[s][k].state /\ c.reading = "no"
    BY <1>1, <1>5, UnreadType
  <1>7. QED
    BY <1>2, <1>5, <1>6, PromisedPlain

LEMMA PromisedHandleWriteComplete ==
  ASSUME LinkInv, BaseInv, CallInv, CallInv', NEW s \in Side, NEW k \in Id, HandleWriteComplete(s, k)
  PROVE  Promised
  <1>1. PICK c : c = Written(conn[s][k])
    OBVIOUS
  <1>2. PICK r : r = Sending(s, c, pipe[k])
    OBVIOUS
  <1>3. /\ ObjectInv(conn[s][k]) /\ conn[s][k].writing /\ ObjectInv(c) /\ pipe[k] \in Pipe
        /\ UNCHANGED <<asked, called, replied>>
        /\ \/ /\ Settle(s, k, r.c, r.p, <<>>, <<>>, r.closing)
              /\ ObjectInv(r.c) /\ r.closing \in BOOLEAN
           \/ Settle(s, k, c, pipe[k], <<>>, <<>>, TRUE)
    BY <1>1, <1>2, HandleWriteCompleteFacts
  <1>4. c.rpc = conn[s][k].rpc /\ c.state = conn[s][k].state /\ c.reading = conn[s][k].reading
    BY <1>1, <1>3, WrittenType
  <1>5. PICK none : none = <<>>
    OBVIOUS
  <1>6. CASE /\ Settle(s, k, r.c, r.p, <<>>, <<>>, r.closing)
             /\ ObjectInv(r.c) /\ r.closing \in BOOLEAN
    <2>1. PICK e : e = r.c
      OBVIOUS
    <2>2. PICK o : o = r.p
      OBVIOUS
    <2>3. PICK closing \in BOOLEAN : closing = r.closing
      BY <1>6
    <2>4. Settle(s, k, e, o, none, none, closing) /\ ObjectInv(e)
      BY <1>5, <1>6, <2>1, <2>2, <2>3
    <2>5. e.rpc = c.rpc /\ e.state = c.state /\ e.reading = c.reading
      BY <1>2, <1>3, <2>1, SendingSame
    <2>6. QED
      BY <1>3, <1>4, <1>5, <2>4, <2>5, PromisedPlain
  <1>7. CASE Settle(s, k, c, pipe[k], <<>>, <<>>, TRUE)
    <2>1. PICK closing \in BOOLEAN : closing = TRUE
      OBVIOUS
    <2>2. PICK p : p = pipe[k]
      OBVIOUS
    <2>3. Settle(s, k, c, p, none, none, closing)
      BY <1>5, <1>7, <2>1, <2>2
    <2>4. QED
      BY <1>3, <1>4, <1>5, <2>3, PromisedPlain
  <1>8. QED
    BY <1>3, <1>6, <1>7

LEMMA PromisedGreet == ASSUME LinkInv, BaseInv, CallInv, CallInv', Greet PROVE Promised
  <1>1. PICK d : d = Numbered(conn["client"][last], [mode |-> "message", n |-> 0, seq |-> 0])
    OBVIOUS
  <1>2. PICK r : r = Sending("client", d, pipe[last])
    OBVIOUS
  <1>3. /\ last \in Id /\ ObjectInv(r.c) /\ r.closing \in BOOLEAN
        /\ Settle("client", last, r.c, r.p, <<>>, <<>>, r.closing)
        /\ UNCHANGED <<asked, called, replied>>
    BY <1>1, <1>2, GreetFacts
  <1>4. PICK s \in Side : s = "client"
    BY DEF Side
  <1>5. PICK k \in Id : k = last
    BY <1>3
  <1>6. PICK none : none = <<>>
    OBVIOUS
  <1>7. PICK e : e = r.c
    OBVIOUS
  <1>8. PICK o : o = r.p
    OBVIOUS
  <1>9. PICK closing \in BOOLEAN : closing = r.closing
    BY <1>3
  <1>10. Settle(s, k, e, o, none, none, closing) /\ ObjectInv(e) /\ s # "server"
    BY <1>3, <1>4, <1>5, <1>6, <1>7, <1>8, <1>9
  <1>11. QED
    BY <1>3, <1>6, <1>10, PromisedPlain

LEMMA PromisedStopClient == ASSUME LinkInv, BaseInv, CallInv, CallInv', StopClient PROVE Promised
  <1>1. /\ UNCHANGED <<asked, called, replied>>
        /\ \/ UNCHANGED <<conn, log, answers>>
           \/ \E k \in Id : /\ ObjectInv(conn["client"][k])
                            /\ Settle("client", k, conn["client"][k], pipe[k], <<>>, <<>>, TRUE)
    BY StopClientFacts
  <1>2. CASE UNCHANGED <<conn, log, answers>>
    <2>1. Received' = Received /\ Over' = Over
      BY <1>2 DEF Received, Over
    <2>2. QED
      BY <1>1, <1>2, <2>1, PromisedStutter
  <1>3. ASSUME NEW k \in Id, ObjectInv(conn["client"][k]),
               Settle("client", k, conn["client"][k], pipe[k], <<>>, <<>>, TRUE)
        PROVE  Promised
    <2>1. PICK s \in Side : s = "client"
      BY DEF Side
    <2>2. PICK c : c = conn[s][k]
      OBVIOUS
    <2>3. PICK none : none = <<>>
      OBVIOUS
    <2>4. PICK closing \in BOOLEAN : closing = TRUE
      OBVIOUS
    <2>5. PICK p : p = pipe[k]
      OBVIOUS
    <2>6. Settle(s, k, c, p, none, none, closing) /\ ObjectInv(c) /\ s # "server"
      BY <1>3, <2>1, <2>2, <2>3, <2>4, <2>5
    <2>7. QED
      BY <1>1, <2>3, <2>6, PromisedPlain
  <1>4. QED
    BY <1>1, <1>2, <1>3

LEMMA NextPromised ==
  ASSUME LinkInv, BaseInv, OrderInv, MatchInv, CallInv, RealInv, [Next]_vars
  PROVE  Promised
  <1>1. CallInv'
    BY NextCalls
  <1>2. CASE UNCHANGED vars
    <2>1. UNCHANGED <<conn, log, asked, called, answers, replied>>
      BY <1>2 DEF vars
    <2>2. Received' = Received /\ Over' = Over
      BY <2>1 DEF Received, Over
    <2>3. QED
      BY <2>1, <2>2, PromisedStutter
  <1>3. CASE Next
    BY <1>1, <1>3, NextSplit, PromisedPost, PromisedWelcome, PromisedReply, PromisedCompleteRead,
       PromisedQueuedSend, PromisedHandleReadComplete, PromisedHandleReadError,
       PromisedHandleWriteComplete, PromisedConnect, PromisedGreet, PromisedAccept, PromisedCrash,
       PromisedStopClient, PromisedStopServer
  <1>4. QED
    BY <1>2, <1>3

LEMMA InitPromised == Init => Promise!Init
  <1> SUFFICES ASSUME Init PROVE Promise!Init
    OBVIOUS
  <1>1. "server" \in Side /\ DOMAIN <<>> = {} /\ NoObject.state = "none"
    BY DEF Side, NoObject
  <1>2. /\ \A k \in Id : conn["server"][k] = NoObject /\ log["server"][k] = <<>>
        /\ replied = {} /\ asked = <<>> /\ called = {} /\ answers = <<>>
    BY <1>1 DEF Init
  <1>3. Received = [k \in Id |-> {}] /\ Over = {}
    BY <1>1, <1>2 DEF Received, Over
  <1>4. Waiting = {} /\ Told = {}
    BY <1>1, <1>2 DEF Waiting, Told
  <1>5. QED
    BY <1>2, <1>3, <1>4 DEF Promise!Init

\* Over any number of connections that are made, closed, crash and stop, the
\* named pipes keep what PipePromise says: the launcher receives a beginning of
\* what was posted to each connection, and nothing after its end, and a
\* response callback runs once and hears of a reply only to a call received.
THEOREM LinkKeepsPromiseCorrect == Spec => LinkKeepsPromise
  <1>1. LinkInv /\ BaseInv /\ OrderInv /\ (MatchInv /\ CallInv) /\ RealInv /\ [Next]_vars
        => [Promise!Next]_(Promise!vars)
    BY NextPromised DEF Promised
  <1>2. QED
    BY <1>1, InitPromised, AlwaysLink, AlwaysBase, AlwaysOrder, AlwaysCalls, AlwaysReal, PTL
       DEF Spec, LinkKeepsPromise, Promise!Spec
=============================================================================
