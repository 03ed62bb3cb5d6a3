--------------------------- MODULE MCBackendProbe ---------------------------
EXTENDS BackendProbe, TLC
CONSTANTS a, b
SomeNames == {a, b}
SomeMeanings == AllMeanings
Twins == Permutations(SomeNames)
=============================================================================
