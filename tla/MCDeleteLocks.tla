--------------------------- MODULE MCDeleteLocks ----------------------------
(* Three concurrent DELETE requests over two workloads; as many entry      *)
(* objects as requests, so allocation never runs out.                      *)
EXTENDS DeleteLocks
=============================================================================
