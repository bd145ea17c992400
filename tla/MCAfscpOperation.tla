-------------------------- MODULE MCAfscpOperation --------------------------
(* Instances of a confirmed mutation.                                      *)
EXTENDS AfscpOperation
=============================================================================
