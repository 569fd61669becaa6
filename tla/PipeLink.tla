------------------------------ MODULE PipeLink ------------------------------
(***************************************************************************)
(* The life of named pipe connections between a client and the launcher:    *)
(* connect and accept, overlapped reads and writes, requests with a         *)
(* response, close, crash of the client, stop of either endpoint.           *)
(*                                                                         *)
(* A connection is one pipe with a PipeConnection object at each end.  An   *)
(* object lives as long as its endpoint lists it or an operation holds it   *)
(* (m_self, op->ref).  What is posted between threads arrives in order: see *)
(* CallbackQueue.  The steps of a pipe thread are the callbacks of its      *)
(* queue, the completion routines and the connect event.                    *)
(***************************************************************************)
EXTENDS Naturals, Sequences, FiniteSets, Functions

CONSTANTS
    MaxConn,    \* bound: connections made
    MaxPost,    \* bound: messages and calls the client posts
    Busy,       \* bound: the connections it posts to
    Modes,      \* the modes the client posts in
    MaxFault    \* bound: crashes of the client and stops of an endpoint

Side == {"client", "server"}
Other(s) == CHOOSE t \in Side : t # s
Id == 1..MaxConn

ASSUME LinkAssumption ==
    /\ MaxConn \in Nat /\ MaxPost \in Nat /\ MaxFault \in Nat
    /\ Busy \subseteq Id
    /\ Modes \subseteq {"message", "call"}

\* The n-th message of its sender; 0 is what OnClientConnected sends.  A reply
\* carries the sequence of the call; its n is the call's, for the properties.
Message == [mode : {"message", "call", "reply"}, n : Nat, seq : Nat]

Request == [seq : Nat, n : Nat]

\* What the main thread is told.
Notice == [what : {"incoming", "closed"}]
Arrival == [what : {"received"}, m : Message]

Answer == [n : Nat, how : {"reply", "ConnectionClosed", "NoConnection"}]

\* reading: a completed read waits for its completion routine with got;
\* leaked: an operation that could not be started keeps the object alive.
PipeConnection ==
    [state : {"none", "open", "closed"},
     reading : {"no", "pending", "done", "canceled"}, got : Seq(Message),
     writing : BOOLEAN, writeQueue : Seq(Message),
     rpc : SUBSET Request, nextSeq : Nat, leaked : BOOLEAN]

\* to[s]: data written and not yet read by s; shut: ends that were closed.
Pipe == [to : [Side -> Seq(Message)], shut : SUBSET Side]

VARIABLES
    conn,       \* conn[s][k]: s's object of connection k
    pipe,       \* pipe[k]: the pipe of connection k
    listed,     \* m_connections of the server; m_connection of the client
    last,       \* connections made so far
    greeting,   \* OnClientConnected has not been called yet
    queue,      \* queue[s]: sends posted to the pipe thread of s
    log,        \* log[s][k]: what was posted to the main thread of s about k
    phase,      \* phase[s] of the pipe thread of s
    welcomed,   \* the server's incoming connections its main thread has handled
    replied,    \* calls the server has replied to
    asked,      \* history: asked[n] is the connection of the client's n-th message
    called,     \* history: calls of the client that have not died with it
    answers,    \* history: the response callbacks of the client, in order
    faults      \* crashes and stops so far, for MaxFault

vars == <<conn, pipe, listed, last, greeting, queue, log, phase, welcomed, replied,
          asked, called, answers, faults>>
history == <<asked, called, faults>>

NoObject ==
    [state |-> "none", reading |-> "no", got |-> <<>>, writing |-> FALSE,
     writeQueue |-> <<>>, rpc |-> {}, nextSeq |-> 1, leaked |-> FALSE]

Opened == [NoObject EXCEPT !.state = "open", !.reading = "pending"]

Init ==
    /\ conn = [s \in Side |-> [k \in Id |-> NoObject]]
    /\ pipe = [k \in Id |-> [to |-> [s \in Side |-> <<>>], shut |-> {}]]
    /\ listed = [s \in Side |-> {}]
    /\ last = 0 /\ greeting = FALSE
    /\ queue = [s \in Side |-> <<>>]
    /\ log = [s \in Side |-> [k \in Id |-> <<>>]]
    /\ phase = [s \in Side |-> "running"]
    /\ welcomed = {} /\ replied = {}
    /\ asked = <<>> /\ called = {} /\ answers = <<>> /\ faults = 0

-----------------------------------------------------------------------------
(* Operations on one connection.                                            *)

\* A reference is left: weak_ptr::lock succeeds.
Alive(s, k) ==
    \/ k \in listed[s]
    \/ conn[s][k].reading # "no" \/ conn[s][k].writing \/ conn[s][k].leaked

\* Mutated form of Closed: the requests are not cleared.
ClosedKeepsRequests(c) ==
    [c EXCEPT !.state = "closed",
              !.reading = IF @ = "pending" THEN "canceled" ELSE @]

\* InternalClose cancels a read that is pending; one that is done stays done.
Closed(c) ==
    [c EXCEPT !.state = "closed", !.rpc = {},
              !.reading = IF @ = "pending" THEN "canceled" ELSE @]

\* The server disconnects the pipe, which discards what was not read; the
\* client closes its handle, and what it wrote can still be read.
ShutPipe(s, p) ==
    [to |-> [t \in Side |-> IF s = "server" \/ t = s THEN <<>> ELSE p.to[t]],
     shut |-> p.shut \cup {s}]

\* Mutated form of ClosedAnswers: the callbacks are told of a reply.
ClosedAnswersReply(c) ==
    {[i \in DOMAIN f |-> [n |-> f[i].n, how |-> "reply"]] :
        f \in Bijection(1..Cardinality(c.rpc), c.rpc)}

\* The callbacks InternalClose may run, in an order m_rpcRequests does not define.
ClosedAnswers(c) ==
    {[i \in DOMAIN f |-> [n |-> f[i].n, how |-> "ConnectionClosed"]] :
        f \in Bijection(1..Cardinality(c.rpc), c.rpc)}

\* Mutated form of ClosedNotices: only the first close is reported.
ClosedNoticesOnce(s, c, closing, destroyed) ==
    IF s = "server" /\ c.state = "open" /\ closing
    THEN <<[what |-> "closed"]>> ELSE <<>>

\* CloseConnection posts OnConnectionClosed each time it is called, and the
\* destructor calls it again.
ClosedNotices(s, c, closing, destroyed) ==
    IF s = "client" THEN <<>>
    ELSE LET one == <<[what |-> "closed"]>>
         IN  (IF closing THEN one ELSE <<>>) \o (IF destroyed THEN one ELSE <<>>)

\* Mutated form of Listed: the list is only changed by the first close.
ListedFirst(s, k, c, closing) ==
    IF closing /\ c.state = "open" THEN listed[s] \ {k} ELSE listed[s]

\* CloseConnection erases the connection, whoever calls it and how often.
Listed(s, k, c, closing) == IF closing THEN listed[s] \ {k} ELSE listed[s]

\* The end of a step of s's pipe thread on connection k: c and p are its
\* object and its pipe, events and results what it posted and answered, and
\* closing says that it called CloseConnection.
Settle(s, k, c, p, events, results, closing) ==
    LET after == IF closing THEN Closed(c) ELSE c
        destroyed == /\ k \notin Listed(s, k, c, closing)
                     /\ after.reading = "no" /\ ~after.writing /\ ~after.leaked
    IN  /\ conn' = [conn EXCEPT ![s][k] = IF destroyed THEN Closed(NoObject) ELSE after]
        /\ pipe' = [pipe EXCEPT ![k] = IF closing THEN ShutPipe(s, p) ELSE p]
        /\ listed' = [listed EXCEPT ![s] = Listed(s, k, c, closing)]
        /\ log' = [log EXCEPT ![s][k] = @ \o events \o ClosedNotices(s, c, closing, destroyed)]
        /\ \E ended \in IF closing THEN ClosedAnswers(c) ELSE {<<>>} :
              answers' = answers \o results \o ended

\* An operation of s on the pipe fails at once: its handle or the other end is closed.
Broken(s, c, p) == c.state = "closed" \/ Other(s) \in p.shut

\* Mutated form of Sending: the write under way is not waited for.
SendingTwice(s, c, p) ==
    IF c.writeQueue = <<>> THEN [c |-> c, p |-> p, closing |-> FALSE]
    ELSE IF Broken(s, c, p) THEN [c |-> [c EXCEPT !.leaked = TRUE], p |-> p, closing |-> TRUE]
    ELSE [c |-> [c EXCEPT !.writing = TRUE],
          p |-> [p EXCEPT !.to[Other(s)] = Append(@, Head(c.writeQueue))], closing |-> FALSE]

\* InternalBeginSend: one write at a time; one that fails keeps its reference.
Sending(s, c, p) ==
    IF c.writing \/ c.writeQueue = <<>> THEN [c |-> c, p |-> p, closing |-> FALSE]
    ELSE IF Broken(s, c, p) THEN [c |-> [c EXCEPT !.leaked = TRUE], p |-> p, closing |-> TRUE]
    ELSE [c |-> [c EXCEPT !.writing = TRUE],
          p |-> [p EXCEPT !.to[Other(s)] = Append(@, Head(c.writeQueue))], closing |-> FALSE]

\* The sequence is set unless the message has one; a call is registered.
Numbered(c, m) ==
    LET seq == IF m.seq = 0 THEN c.nextSeq ELSE m.seq
    IN  [c EXCEPT !.nextSeq = IF m.seq = 0 THEN @ + 1 ELSE @,
                  !.rpc = IF m.mode = "call" THEN @ \cup {[seq |-> seq, n |-> m.n]} ELSE @,
                  !.writeQueue = Append(@, [m EXCEPT !.seq = seq])]

\* InternalBeginRead: the outcomes of ReadFileEx.  A read of a broken pipe
\* may fail at once or complete with an error; m_self stays set if it fails.
Reading(s, c, p) ==
    LET started == [c |-> [c EXCEPT !.reading = "pending"], closing |-> FALSE]
        failed == [c |-> [c EXCEPT !.reading = "no", !.leaked = TRUE], closing |-> TRUE]
    IN  CASE c.state = "closed" -> {failed}
          [] c.state # "closed" /\ Other(s) \in p.shut /\ p.to[s] = <<>> -> {started, failed}
          [] OTHER -> {started}

-----------------------------------------------------------------------------
(* The client's main thread and both pipe threads.                          *)

\* NamedPipeClient::SendMessage(WithResponse), while m_connection is set.
Post(mode) ==
    /\ phase["client"] = "running" /\ Len(asked) < MaxPost
    /\ \E k \in listed["client"] \cap Busy :
          /\ queue' = [queue EXCEPT !["client"] =
                Append(@, [k |-> k, m |-> [mode |-> mode, n |-> Len(asked) + 1, seq |-> 0]])]
          /\ asked' = Append(asked, k)
    /\ called' = IF mode = "call" THEN called \cup {Len(asked) + 1} ELSE called
    /\ UNCHANGED <<conn, pipe, listed, last, greeting, log, phase, welcomed, replied, answers, faults>>

\* OnIncomingConnection on the launcher's main thread: the crash reporter's
\* configuration is sent to the connection if it is in the list.
Welcome(k) ==
    /\ k \notin welcomed /\ \E i \in DOMAIN log["server"][k] : log["server"][k][i].what = "incoming"
    /\ welcomed' = welcomed \cup {k}
    /\ queue' = IF k \in listed["server"]
                THEN [queue EXCEPT !["server"] =
                         Append(@, [k |-> k, m |-> [mode |-> "message", n |-> k, seq |-> 0]])]
                ELSE queue
    /\ UNCHANGED <<conn, pipe, listed, last, greeting, log, phase, replied, history, answers>>

\* PipeMessage::SendReply by whoever handles the call, if the connection lives.
Reply(n) ==
    /\ n \notin replied
    /\ \E k \in Id : \E i \in DOMAIN log["server"][k] :
          LET e == log["server"][k][i]
          IN  /\ e.what = "received" /\ e.m.mode = "call" /\ e.m.n = n
              /\ replied' = replied \cup {n}
              /\ queue' = IF Alive("server", k)
                          THEN [queue EXCEPT !["server"] =
                                   Append(@, [k |-> k, m |-> [e.m EXCEPT !.mode = "reply"]])]
                          ELSE queue
    /\ UNCHANGED <<conn, pipe, listed, last, greeting, log, phase, welcomed, history, answers>>

\* A callback of the queue: the connection is looked up by its weak_ptr.
QueuedSend(s) ==
    /\ phase[s] = "running" /\ queue[s] # <<>> /\ (s = "client" => ~greeting)
    /\ queue' = [queue EXCEPT ![s] = Tail(@)]
    /\ LET k == Head(queue[s]).k
           m == Head(queue[s]).m
           c == conn[s][k]
           error(how) == IF m.mode = "call" THEN <<[n |-> m.n, how |-> how]>> ELSE <<>>
           sent == Sending(s, Numbered(c, m), pipe[k])
       IN  \/ /\ ~Alive(s, k)
              /\ answers' = answers \o error("ConnectionClosed")
              /\ UNCHANGED <<conn, pipe, listed, log>>
           \/ /\ Alive(s, k) /\ c.state = "closed"
              /\ Settle(s, k, c, pipe[k], <<>>, error("NoConnection"), TRUE)
           \/ /\ Alive(s, k) /\ c.state = "open"
              /\ Settle(s, k, sent.c, sent.p, <<>>, <<>>, sent.closing)
    /\ UNCHANGED <<last, greeting, phase, welcomed, replied, history>>

\* Completion routines run where the thread waits alertably: in the loops of
\* the server, and in the loop of the client that serves a connection.
Alertable(s) ==
    /\ phase[s] \in {"running", "closing"}
    /\ s = "client" => listed["client"] # {} /\ ~greeting

\* Windows completes a read.
CompleteRead(s, k) ==
    /\ conn[s][k].reading = "pending" /\ pipe[k].to[s] # <<>>
    /\ conn' = [conn EXCEPT ![s][k].reading = "done", ![s][k].got = <<Head(pipe[k].to[s])>>]
    /\ pipe' = [pipe EXCEPT ![k].to[s] = Tail(@)]
    /\ UNCHANGED <<listed, last, greeting, queue, log, phase, welcomed, replied, history, answers>>

\* Mutated form of Handled: the buffers are not cleared.
HandledOnly(c, mine) == [c EXCEPT !.rpc = @ \ mine]

\* The buffers are given back and the request of a reply is erased.
Handled(c, mine) == [c EXCEPT !.got = <<>>, !.rpc = @ \ mine]

\* InternalReceiveMessage: the request that a reply answers, if there is one;
\* what answers none is dispatched.
Answered(c, m) == {r \in c.rpc : m.mode = "reply" /\ r.seq = m.seq}

\* HandleReadComplete with data: InternalReceiveMessage, then the next read.
HandleReadComplete(s, k) ==
    /\ Alertable(s) /\ conn[s][k].reading = "done"
    /\ LET c == conn[s][k]
           m == Head(c.got)
           mine == Answered(c, m)
       IN  \E next \in Reading(s, Handled(c, mine), pipe[k]) :
              Settle(s, k, next.c, pipe[k],
                     IF mine = {} THEN <<[what |-> "received", m |-> m]>> ELSE <<>>,
                     IF mine = {} THEN <<>> ELSE <<[n |-> m.n, how |-> "reply"]>>,
                     next.closing)
    /\ UNCHANGED <<last, greeting, queue, phase, welcomed, replied, history>>

\* Mutated form of HandleReadError: the read is given up, the pipe is not closed.
HandleReadErrorOnly(s, k) ==
    /\ Alertable(s)
    /\ \/ conn[s][k].reading = "canceled"
       \/ conn[s][k].reading = "pending" /\ Other(s) \in pipe[k].shut /\ pipe[k].to[s] = <<>>
    /\ Settle(s, k, [conn[s][k] EXCEPT !.reading = "no"], pipe[k], <<>>, <<>>, FALSE)
    /\ UNCHANGED <<last, greeting, queue, phase, welcomed, replied, history>>

\* HandleReadComplete with an error: the pipe is broken or the read canceled.
HandleReadError(s, k) ==
    /\ Alertable(s)
    /\ \/ conn[s][k].reading = "canceled"
       \/ conn[s][k].reading = "pending" /\ Other(s) \in pipe[k].shut /\ pipe[k].to[s] = <<>>
    /\ Settle(s, k, [conn[s][k] EXCEPT !.reading = "no"], pipe[k], <<>>, <<>>, TRUE)
    /\ UNCHANGED <<last, greeting, queue, phase, welcomed, replied, history>>

\* HandleWriteComplete: a write of a closed handle may have been aborted.
HandleWriteComplete(s, k) ==
    /\ Alertable(s) /\ conn[s][k].writing
    /\ LET c == [conn[s][k] EXCEPT !.writing = FALSE, !.writeQueue = Tail(@)]
           next == Sending(s, c, pipe[k])
       IN  \/ Settle(s, k, next.c, next.p, <<>>, <<>>, next.closing)
           \/ /\ c.state = "closed"
              /\ Settle(s, k, c, pipe[k], <<>>, <<>>, TRUE)
    /\ UNCHANGED <<last, greeting, queue, phase, welcomed, replied, history>>

-----------------------------------------------------------------------------
(* Connections come and go.                                                 *)

\* The server waits on one instance of the pipe that nobody has taken.
Listening == phase["server"] = "running" /\ (last > 0 => conn["server"][last].state # "none")

\* The first loop of the client: m_connection is set and its first read started.
Connect ==
    /\ phase["client"] = "running" /\ listed["client"] = {} /\ ~greeting
    /\ Listening /\ last < MaxConn
    /\ last' = last + 1
    /\ conn' = [conn EXCEPT !["client"][last + 1] = Opened]
    /\ listed' = [listed EXCEPT !["client"] = {last + 1}]
    /\ greeting' = TRUE
    /\ UNCHANGED <<pipe, queue, log, phase, welcomed, replied, history, answers>>

\* OnClientConnected, on the pipe thread: what it sends is not queued.
Greet ==
    /\ greeting /\ greeting' = FALSE
    /\ LET hello == [mode |-> "message", n |-> 0, seq |-> 0]
           sent == Sending("client", Numbered(conn["client"][last], hello), pipe[last])
       IN  Settle("client", last, sent.c, sent.p, <<>>, <<>>, sent.closing)
    /\ UNCHANGED <<last, queue, phase, welcomed, replied, history>>

\* The connect event of the server: the first read is started before the
\* connection enters the list, and before it is reported.
Accept ==
    /\ phase["server"] = "running" /\ last > 0 /\ conn["server"][last].state = "none"
    /\ \E first \in Reading("server", [NoObject EXCEPT !.state = "open"], pipe[last]) :
          /\ conn' = [conn EXCEPT !["server"][last] =
                         IF first.closing THEN Closed(first.c) ELSE first.c]
          /\ pipe' = [pipe EXCEPT ![last] = IF first.closing THEN ShutPipe("server", @) ELSE @]
          /\ log' = [log EXCEPT !["server"][last] =
                ClosedNotices("server", first.c, first.closing, FALSE)
                \o <<[what |-> "incoming"]>>]
    /\ listed' = [listed EXCEPT !["server"] = @ \cup {last}]
    /\ UNCHANGED <<last, greeting, queue, phase, welcomed, replied, history, answers>>

\* The client's process dies while it is connected, and another one starts.
Crash ==
    /\ faults < MaxFault /\ faults' = faults + 1
    /\ phase["client"] = "running" /\ listed["client"] # {}
    /\ conn' = [conn EXCEPT !["client"] = [k \in Id |-> NoObject]]
    /\ pipe' = [k \in Id |-> IF conn["client"][k].state = "open"
                             THEN ShutPipe("client", pipe[k]) ELSE pipe[k]]
    /\ listed' = [listed EXCEPT !["client"] = {}]
    /\ greeting' = FALSE
    /\ queue' = [queue EXCEPT !["client"] = <<>>]
    /\ called' = {} /\ answers' = <<>>
    /\ UNCHANGED <<last, log, phase, welcomed, replied, asked>>

\* NamedPipeClient's thread ends: what is still connected is closed.
StopClient ==
    /\ faults < MaxFault /\ faults' = faults + 1
    /\ phase["client"] = "running" /\ ~greeting
    /\ phase' = [phase EXCEPT !["client"] = "ended"]
    /\ IF listed["client"] = {}
       THEN UNCHANGED <<conn, pipe, listed, log, answers>>
       ELSE \E k \in listed["client"] :
               Settle("client", k, conn["client"][k], pipe[k], <<>>, <<>>, TRUE)
    /\ UNCHANGED <<last, greeting, queue, welcomed, replied, asked, called>>

\* NamedPipeServer's loop has ended: InternalClose of every connection, which
\* reports nothing and leaves the list alone, and the end of the free instance.
\* It waits ten seconds at most for the completion routines of what it closed.
StopServer ==
    /\ faults < MaxFault /\ faults' = faults + 1
    /\ phase["server"] = "running"
    /\ phase' = [phase EXCEPT !["server"] = "closing"]
    /\ LET closes == {k \in listed["server"] : conn["server"][k].state = "open"}
           free == {k \in 1..last : conn["server"][k].state = "none"}
       IN  /\ conn' = [conn EXCEPT !["server"] =
                 [k \in Id |-> IF k \in closes THEN Closed(@[k]) ELSE @[k]]]
           /\ pipe' = [k \in Id |-> IF k \in closes \cup free
                                    THEN ShutPipe("server", pipe[k]) ELSE pipe[k]]
    /\ UNCHANGED <<listed, last, greeting, queue, log, welcomed, replied, asked, called, answers>>

Completion(s, k) ==
    HandleReadComplete(s, k) \/ HandleReadError(s, k) \/ HandleWriteComplete(s, k)

\* What the pipe thread of an endpoint does while it runs.
PipeThread(s) ==
    \/ QueuedSend(s)
    \/ \E k \in Id : Completion(s, k)
    \/ s = "client" /\ (Connect \/ Greet)
    \/ s = "server" /\ Accept

\* What the launcher's main thread does with what it is told.
MainThread == (\E k \in Id : Welcome(k)) \/ (\E n \in DOMAIN asked : Reply(n))

System == \E s \in Side, k \in Id : CompleteRead(s, k)

Next ==
    \/ \E mode \in Modes : Post(mode)
    \/ MainThread \/ System
    \/ \E s \in Side : PipeThread(s)
    \/ Crash \/ StopClient \/ StopServer

Spec == Init /\ [][Next]_vars

\* Windows completes operations, both pipe threads run, and the launcher's main
\* thread handles what it is told and replies to calls.
FairSpec == Spec /\ WF_vars(System) /\ WF_vars(MainThread) /\ \A s \in Side : WF_vars(PipeThread(s))

-----------------------------------------------------------------------------
(* Properties.                                                              *)

\* Types; data is held back exactly while a read waits for its completion routine.
TypeOK ==
    /\ conn \in [Side -> [Id -> PipeConnection]]
    /\ \A s \in Side, k \in Id : conn[s][k].got # <<>> <=> conn[s][k].reading = "done"
    /\ pipe \in [Id -> Pipe]
    /\ listed \in [Side -> SUBSET Id]
    /\ last \in Nat /\ greeting \in BOOLEAN
    /\ queue \in [Side -> Seq([k : Id, m : Message])]
    /\ log \in [Side -> [Id -> Seq(Notice \cup Arrival)]]
    /\ phase \in [Side -> {"running", "closing", "ended"}]
    /\ welcomed \subseteq Id /\ replied \subseteq Nat
    /\ asked \in Seq(Id) /\ called \subseteq Nat
    /\ answers \in Seq(Answer) /\ faults \in Nat

\* What the launcher may see of connection k: the identification, then what the
\* client has posted to k.
Posted(k) == {0} \cup {n \in DOMAIN asked : asked[n] = k}

\* The messages received from k before the i-th event of its log.
ReceivedBefore(k, i) ==
    {log["server"][k][j].m.n : j \in {j \in 1 .. i - 1 : log["server"][k][j].what = "received"}}

\* On every connection the launcher's main thread receives the client's
\* identification first and then, without loss, repetition or change of order,
\* a beginning of what the client posted to it (the write queue, the pipe and
\* the reads of one connection; nothing of an earlier one): before a message,
\* it has received exactly the earlier ones of the same connection.
InOrder ==
    \A k \in Id : \A i \in DOMAIN log["server"][k] :
        log["server"][k][i].what = "received" =>
            LET n == log["server"][k][i].m.n
            IN  /\ n \in Posted(k)
                /\ ReceivedBefore(k, i) = {x \in Posted(k) : x < n}

\* When a connection of the launcher has ended and none of its reads is
\* outstanding, its end has been reported after everything received from it
\* (a read that was done when the connection was closed is still handled):
\* OnConnectionClosed can forget the process for good.
ClosedIsLast ==
    \A k \in Id :
        (conn["server"][k].state = "closed" /\ conn["server"][k].reading = "no")
        => \E i \in DOMAIN log["server"][k] :
              /\ log["server"][k][i].what = "closed"
              /\ \A j \in DOMAIN log["server"][k] :
                    j > i => log["server"][k][j].what # "received"

\* Every call of a client that has not died is either in the queue of its pipe
\* thread, or registered in a connection that is open, or has had its
\* callback, and only one of these and only once: closing a connection leaves
\* no call behind and answers none twice (SendMessageWithResponse).
CallAccounted ==
    \A n \in called :
        LET waiting == {i \in DOMAIN queue["client"] : queue["client"][i].m.n = n}
            registered == {k \in Id : conn["client"][k].state = "open"
                                      /\ \E r \in conn["client"][k].rpc : r.n = n}
            had == {i \in DOMAIN answers : answers[i].n = n}
        IN  Cardinality(waiting) + Cardinality(registered) + Cardinality(had) = 1

\* A call whose client neither dies nor stops has its callback in the end,
\* because it is answered or because its connection ends, even if the server
\* stops: the promise SendMessageWithResponse makes by its ConnectionClosed.
CallsSettle ==
    \A n \in 1..MaxPost :
        (n \in called) ~> ( \/ \E i \in DOMAIN answers : answers[i].n = n
                           \/ n \notin called \/ phase["client"] # "running" )

\* A connection that closed before it entered the launcher's list does not
\* stay there while the server runs (Accept starts the first read before).
ErasedFromList ==
    LET Left == \E k \in listed["server"] : conn["server"][k].state = "closed"
    IN  Left ~> (~Left \/ phase["server"] # "running")

\* What PipePromise speaks of: the messages the launcher has received from each
\* connection, the connections that are over for it, and of the client the calls
\* whose callback has not run, and what the others were told.
Received ==
    [k \in Id |-> {log["server"][k][i].m.n :
        i \in {i \in DOMAIN log["server"][k] : log["server"][k][i].what = "received"}}]
Over == {k \in Id : conn["server"][k].state = "closed" /\ conn["server"][k].reading = "no"}
Waiting == {n \in called : \A i \in DOMAIN answers : answers[i].n # n}
Told == {answers[i] : i \in DOMAIN answers}

Promise == INSTANCE PipePromise
    WITH Conn <- Id, received <- Received, over <- Over, waiting <- Waiting, heard <- Told

\* What launcher and client are promised of their connections: every step of the
\* pipe threads, of Windows and of a crash is one of PipePromise's or none.
LinkKeepsPromise == Promise!Spec
=============================================================================
