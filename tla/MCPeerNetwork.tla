---------------------------- MODULE MCPeerNetwork ----------------------------
(* Two launchers, p1 with the lower uuid.                                    *)
EXTENDS PeerNetwork

CONSTANTS p1, p2, b1

Peers == {p1, p2}
P1Lower == {<<p1, p2>>}
Nobody == [p \in Peers |-> {}]
P1ToP2 == [p \in Peers |-> IF p = p1 THEN {p2} ELSE {}]
P2ToP1 == [p \in Peers |-> IF p = p2 THEN {p1} ELSE {}]
EachOther == [p \in Peers |-> Peers \ {p}]
OneBody == {b1}
NoBodies == {}
=============================================================================
