---------------------------- MODULE MCRateLimiter ----------------------------
\* Model-checking instances of RateLimiter.
EXTENDS RateLimiter, TLC

Symmetry == Permutations(Ips) \cup Permutations(ChatSessions) \cup Permutations(Threads)
==============================================================================
