--------------------------- MODULE MCStatusCheck ---------------------------
(* An agent of two connections in anyone's hands, or two status checks in  *)
(* turn with an agent each.                                                *)
EXTENDS StatusCheck
============================================================================
