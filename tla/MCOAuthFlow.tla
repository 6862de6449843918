----------------------------- MODULE MCOAuthFlow -----------------------------
(* Values of the constants of OAuthFlow for model checking.                *)
EXTENDS OAuthFlow, TLC

Symmetric == Permutations(Slot) \cup Permutations(Redirect)
==============================================================================
