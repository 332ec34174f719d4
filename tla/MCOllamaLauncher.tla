-------------------------- MODULE MCOllamaLauncher --------------------------
EXTENDS OllamaLauncher, TLC

Symmetry == Permutations(Callers)
==============================================================================
