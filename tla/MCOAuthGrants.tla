---------------------------- MODULE MCOAuthGrants ----------------------------
\* Model-checking instances of OAuthGrants.
EXTENDS OAuthGrants, TLC

\* What meets what: three tokens of one family with the clock or a sign-out;
\* two families, two clients, old clients, an owner no longer allowed or a third
\* sign-out with less of the rest.  One token of
\* the script stands for all, and no authorization starts that could not end.
Focus ==
    LET used == registered \cup {codes[c].client : c \in Codes}
                  \cup ({req[r].client : r \in Requests} \ {NoClient}) IN
    /\ Cardinality(used) > 1 => Len(pairs) <= 1 /\ now = 0 /\ epoch = 0
    /\ Len(codes) > 1 => Len(pairs) <= 2 /\ now = 0 /\ epoch = 0
    /\ epoch > 1 => Len(pairs) <= 1 /\ now = 0
    /\ now > 0 => epoch = 0 /\ aged = {} /\ Family(0) = {}
    /\ aged # {} => Len(pairs) <= 1 /\ epoch = 0
    /\ ~authorized => epoch = 0 /\ now = 0
    /\ Cardinality(Family(0)) <= 1
    /\ Len(codes) = MaxCodes => pending = NoClient

Symmetry == Permutations(Clients) \cup Permutations(Requests)
==============================================================================
