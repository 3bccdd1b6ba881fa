---------------------------- MODULE MCMainLoop ----------------------------
(* Instances of MainLoop: sets of connections, entries and timeouts.       *)
EXTENDS MainLoop
===========================================================================
