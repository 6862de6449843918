--------------------------- MODULE MCSigningKeys ---------------------------
(* SigningKeys for model checking: its constants are given in the cfg.     *)
EXTENDS SigningKeys
==============================================================================
