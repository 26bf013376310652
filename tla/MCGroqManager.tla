--------------------------- MODULE MCGroqManager ---------------------------
(***************************************************************************)
(* Values for checking GroqManager: three requests of three ranks, and     *)
(* settings as small as keep every wait, retry and cooldown longer than a  *)
(* tick of the clock.                                                      *)
(***************************************************************************)
EXTENDS GroqManager

CONSTANTS k1, k2, k3

Requests == {k1, k2, k3}
Ranks == {0, 1, 3}
NowOrSoon == {0, 1}
=============================================================================
