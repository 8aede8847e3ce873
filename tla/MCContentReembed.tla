-------------------------- MODULE MCContentReembed --------------------------
\* Model-checking instances of ContentReembed: symmetric sets of model values.
EXTENDS ContentReembed, TLC

ReembedSymmetry == Permutations(Items) \cup Permutations(Sessions) \cup Permutations(Scripts)
=============================================================================
