----------------------------- MODULE MCPipeLink -----------------------------
(* An instance of PipeLink for TLC.                                          *)
EXTENDS PipeLink

OnlyCalls == {"call"}
First == {1}
=============================================================================
