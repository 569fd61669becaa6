--------------------------- MODULE MCCallbackQueue ---------------------------
(* Two threads that post to one consumer.                                    *)
EXTENDS CallbackQueue

CONSTANTS p1, p2

Producers == {p1, p2}
=============================================================================
