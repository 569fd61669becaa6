-------------------------- MODULE MCPluginHandler --------------------------
(* Instances of PluginHandler for TLC.                                       *)
EXTENDS PluginHandler
=============================================================================
