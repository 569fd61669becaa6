--------------------------- MODULE MCActorRouting ---------------------------
(* Instances of ActorRouting for TLC: two clients, one or two mailboxes.     *)
EXTENDS ActorRouting, TLC

CONSTANTS c1, c2, L, acct1, acct2, char1, char2

Clients == {c1, c2}
Facts == {acct1, acct2, char1, char2}
Characters == {char1, char2}

EchoBoxes == [o \in {c1, c2, L} |-> {"echo"}]
\* Every client runs the actor twice: by itself and in a script of the Lua plugin.
LuaBoxes == [o \in {c1, c2, L} |-> {"echo", "lua:echo"}]
OneBox == {"echo"}
OneEnds == {<<"echo", "echo">>}
TwoBoxes == {"echo", "lua:echo"}
TwoEnds == {<<"echo", "echo">>, <<"lua:echo", "lua:echo">>, <<"lua:echo", "echo">>}
NoChurn == {}
BothChurn == {"echo", "lua:echo"}
Everyone == {c1, c2, L}
AllModes == {"message", "call"}
OnlyCalls == {"call"}

\* Accounts are known from the start; the character comes and goes.
NamedProfiles == (c1 :> {{acct1}, {acct1, char1}}) @@ (c2 :> {{acct2}, {acct2, char2}})
\* At the login screen nothing is known of a client.
LoginScreenProfiles == (c1 :> {{}}) @@ (c2 :> {{}, {acct2}})

To(facts) == [uuid |-> None, pid |-> None, who |-> "client", facts |-> facts, box |-> "echo"]
ToLauncher == [uuid |-> None, pid |-> None, who |-> "launcher", facts |-> {}, box |-> "echo"]
NamedTargets == {To({acct1}), To({acct2}), To({}), ToLauncher}
LoginTargets == {To({}), To({acct2}), ToLauncher}
=============================================================================
