--------------------------- MODULE MCProviderCircuit ---------------------------
(* ProviderCircuit on small instances.                                     *)
EXTENDS ProviderCircuit, TLC

CONSTANTS k1, k2, k3, k4

FourStages == {k1, k2, k3, k4}
=============================================================================
