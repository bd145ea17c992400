--------------------------- MODULE MCExecRequest ----------------------------
(* One request is enough: requests share nothing but the container.        *)
EXTENDS ExecRequest
=============================================================================
