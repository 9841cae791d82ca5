--------------------------- MODULE MCWsBroadcaster ---------------------------
(***************************************************************************)
(* The bounded check of WsBroadcaster.                                      *)
(***************************************************************************)
EXTENDS WsBroadcaster

=============================================================================
