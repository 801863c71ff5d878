---------------------------- MODULE MCSelection ----------------------------
EXTENDS Selection, TLC
CONSTANTS e1, e2, h1, h2
TwoExperts == {e1, e2}
TwoHandlers == {h1, h2}
OneExpert == {e1}
OneHandler == {h1}
Symmetry == Permutations(Experts) \cup Permutations(Handlers)
=============================================================================
