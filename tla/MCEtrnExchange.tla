---------------------------- MODULE MCEtrnExchange ----------------------------
EXTENDS EtrnRefinement, TLC

CallerSymmetry == Permutations(Callers)
=============================================================================
