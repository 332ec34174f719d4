-------------------------- MODULE MCEmbeddingCache --------------------------
EXTENDS EmbeddingCache, TLC

Symmetry == Permutations(Recs) \cup Permutations(Callers) \cup Permutations(Queries)
=============================================================================
