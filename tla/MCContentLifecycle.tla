------------------------- MODULE MCContentLifecycle -------------------------
\* Model-checking instances of ContentLifecycle: symmetric sets of model values.
EXTENDS ContentLifecycle, TLC

Symmetry == Permutations(Items) \cup Permutations(Sessions)
=============================================================================
