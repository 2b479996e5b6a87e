--------------------------- MODULE MCCoordinator ---------------------------
EXTENDS Coordinator, TLC

MCSymmetry == Permutations(Hosts)
=============================================================================
