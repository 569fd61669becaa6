---------------------------- MODULE PipePromise ----------------------------
(***************************************************************************)
(* What the launcher and its client see of named pipes that connect, break *)
(* and connect again.  Of each connection the launcher receives a          *)
(* beginning of what was posted to it, one message after the other, until  *)
(* it ends for good.  A call has one callback at most, which hears of a    *)
(* reply only if the launcher has received that call and replied to it.    *)
(* Nothing says that a call that fails was not received.                   *)
(***************************************************************************)
EXTENDS Naturals, Sequences

CONSTANT Conn   \* connections, one after the other

VARIABLES
    asked,      \* asked[n]: the connection that the n-th message was posted to
    received,   \* received[k]: the numbers of the messages received from k
    over,       \* connections that the launcher receives nothing from any more
    replied,    \* the calls the launcher has replied to
    waiting,    \* the calls whose callback has not run
    heard       \* what the callbacks that have run were told

vars == <<asked, received, over, replied, waiting, heard>>

\* A client identifies itself first.
Posted(k) == {0} \cup {n \in DOMAIN asked : asked[n] = k}

Init ==
    /\ asked = <<>> /\ received = [k \in Conn |-> {}] /\ over = {}
    /\ replied = {} /\ waiting = {} /\ heard = {}

Post(k) ==
    /\ asked' = Append(asked, k)
    /\ waiting' \in {waiting, waiting \cup {Len(asked) + 1}}
    /\ UNCHANGED <<received, over, replied, heard>>

\* The next message of a connection, which may be the last thing that happens to it.
Receive(k) ==
    /\ k \notin over
    /\ \E n \in Posted(k) \ received[k] :
          /\ \A x \in Posted(k) \ received[k] : n <= x
          /\ received' = [received EXCEPT ![k] = @ \cup {n}]
    /\ over' \in {over, over \cup {k}}
    /\ UNCHANGED <<asked, replied, waiting, heard>>

End ==
    /\ \E K \in SUBSET Conn : over' = over \cup K
    /\ UNCHANGED <<asked, received, replied, waiting, heard>>

Reply(n) ==
    /\ n \in DOMAIN asked /\ n \in received[asked[n]] /\ n \notin replied
    /\ replied' = replied \cup {n}
    /\ UNCHANGED <<asked, received, over, waiting, heard>>

\* The callbacks of the calls K run.
Answer(K) ==
    /\ \E how \in [K -> {"reply", "ConnectionClosed", "NoConnection"}] :
          /\ \A n \in K : how[n] = "reply" => n \in replied
          /\ heard' = heard \cup {[n |-> n, how |-> how[n]] : n \in K}
    /\ waiting' = waiting \ K
    /\ UNCHANGED <<asked, received, over, replied>>

\* The client's process ends, and its callbacks with it.
Die ==
    /\ waiting' = {} /\ heard' = {}
    /\ UNCHANGED <<asked, received, over, replied>>

Next ==
    \/ \E k \in Conn : Post(k) \/ Receive(k)
    \/ \E n \in DOMAIN asked : Reply(n)
    \/ \E K \in SUBSET waiting : Answer(K)
    \/ End \/ Die

Spec == Init /\ [][Next]_vars
=============================================================================
