----------------------------- MODULE MCShutdown -----------------------------
(* Three node objects; n1 is the node of the configuration. *)
EXTENDS Shutdown
CONSTANTS n1, n2, n3
MCNodes == {n1, n2, n3}
=============================================================================
