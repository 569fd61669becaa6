--------------------------- MODULE MCProcessWatch ---------------------------
(* An instance of ProcessWatch for TLC.                                      *)
EXTENDS ProcessWatch
=============================================================================
