----------------------------- MODULE RpcPromise -----------------------------
(***************************************************************************)
(* What the actor system promises the caller of an RPC: the call runs at   *)
(* most once, its callback runs at most once, it hears "ok" only if the    *)
(* call has run, and an error only if the call has not run and never will. *)
(* It does not promise that the callback runs at all.                      *)
(***************************************************************************)
EXTENDS Naturals, Sequences

CONSTANTS Caller, MaxPost

VARIABLES
    call,       \* call[o][n]: the state of the n-th message posted by o
    executions  \* the calls <<o, n>> in the order actors received them

vars == <<call, executions>>

Sequence == 1 .. MaxPost

\* "closed": not a call, or the caller is gone and its callback with it.
CallState == {"unused", "pending", "closed", "ok", "error"}

Executed(o, n) == \E i \in DOMAIN executions : executions[i] = <<o, n>>

Init ==
    /\ call = [o \in Caller |-> [n \in Sequence |-> "unused"]]
    /\ executions = <<>>

Post(o, n) ==
    /\ call[o][n] = "unused"
    /\ \A k \in 1 .. n - 1 : call[o][k] # "unused"
    /\ \E s \in {"pending", "closed"} : call' = [call EXCEPT ![o][n] = s]
    /\ UNCHANGED executions

Execute(o, n) ==
    /\ call[o][n] \in {"pending", "closed"}
    /\ ~ Executed(o, n)
    /\ executions' = Append(executions, <<o, n>>)
    /\ UNCHANGED call

Succeed(o, n) ==
    /\ call[o][n] = "pending" /\ Executed(o, n)
    /\ call' = [call EXCEPT ![o][n] = "ok"]
    /\ UNCHANGED executions

Fail(o, n) ==
    /\ call[o][n] = "pending" /\ ~ Executed(o, n)
    /\ call' = [call EXCEPT ![o][n] = "error"]
    /\ UNCHANGED executions

\* The caller's process ends: its pending callbacks are gone.
CallerGone(o) ==
    /\ call' = [call EXCEPT ![o] =
                   [n \in Sequence |-> IF @[n] = "pending" THEN "closed" ELSE @[n]]]
    /\ UNCHANGED executions

Next ==
    \E o \in Caller :
        \/ CallerGone(o)
        \/ \E n \in Sequence : Post(o, n) \/ Execute(o, n) \/ Succeed(o, n) \/ Fail(o, n)

Spec == Init /\ [][Next]_vars
=============================================================================
