---------------------------- MODULE MCPublicChat -----------------------------
\* Model-checking instances of PublicChat.
EXTENDS PublicChat, TLC

Symmetry == Permutations(Exchanges)
==============================================================================
