--------------------------- MODULE MCStakeManager ---------------------------
(* StakeManager with a small number of setstaking calls. *)
EXTENDS StakeManager
=============================================================================
