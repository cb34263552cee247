--------------------------- MODULE MCStrictRoute ---------------------------
(* Instances of StrictRoute for TLC; the cfg files give the constants.      *)
EXTENDS StrictRoute
=============================================================================
