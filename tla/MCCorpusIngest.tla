---------------------------- MODULE MCCorpusIngest ----------------------------
EXTENDS CorpusIngest, TLC

CONSTANTS small, large

Models   == {small, large}
Symmetry == Permutations(Models)
=============================================================================
