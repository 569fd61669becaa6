------------------------- MODULE MCLauncherDirectory -------------------------
(* Two launchers, p1 with the lower uuid, and a client of the second.        *)
EXTENDS LauncherDirectory

CONSTANTS p1, p2, c1

Peers == {p1, p2}
P1Lower == {<<p1, p2>>}
Clients == {c1}
AtP2 == [c \in Clients |-> p2]
Bodies == Peers \cup Clients
NoClients == {}
AtNone == [c \in NoClients |-> p1]
Nobody == [p \in Peers |-> {}]
EachOther == [p \in Peers |-> Peers \ {p}]
=============================================================================
