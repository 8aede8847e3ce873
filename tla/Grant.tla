------------------------------- MODULE Grant --------------------------------
(***************************************************************************)
(* What an approval of the admin is worth to a client: the right to one    *)
(* sequence of tokens, of which the last one issued is the only one that   *)
(* may work.  Whatever ends it ends it for good.  OAuthGrants implements   *)
(* it, whoever races with whom.                                            *)
(***************************************************************************)
CONSTANT Approvals

VARIABLES
    phase,      \* of each approval: not given yet, not redeemed yet, or spent
    issued,     \* the tokens ever issued on it
    live,       \* those a client can still rotate
    bearer      \* those whose access token has not been revoked

vars == <<phase, issued, live, bearer>>

Init == /\ phase = [a \in Approvals |-> "none"]
        /\ issued = [a \in Approvals |-> {}]
        /\ live = [a \in Approvals |-> {}]
        /\ bearer = [a \in Approvals |-> {}]

Approve(a) ==
    /\ phase[a] = "none"
    /\ phase' = [phase EXCEPT ![a] = "open"]
    /\ UNCHANGED <<issued, live, bearer>>

\* A token nobody had takes the place of all others.
Issue(a) ==
    \E t \in issued'[a] \ issued[a] :
        /\ issued' = [issued EXCEPT ![a] = @ \cup {t}]
        /\ live' = [live EXCEPT ![a] = {t}]
        /\ bearer' = [bearer EXCEPT ![a] = {t}]

\* Once, and only as long as nothing has ended it.
Redeem(a) ==
    /\ phase[a] = "open"
    /\ phase' = [phase EXCEPT ![a] = "spent"]
    /\ Issue(a)

Rotate(a) ==
    /\ live[a] # {}
    /\ Issue(a)
    /\ UNCHANGED phase

\* The access token alone.
Curb(a) ==
    /\ bearer' = [bearer EXCEPT ![a] = {}]
    /\ UNCHANGED <<phase, issued, live>>

\* A refusal, a revocation or the end of the client: of any number at once.
End(S) ==
    /\ \A a \in S : phase[a] # "none"
    /\ phase' = [a \in Approvals |-> IF a \in S THEN "spent" ELSE phase[a]]
    /\ live' = [a \in Approvals |-> IF a \in S THEN {} ELSE live[a]]
    /\ bearer' = [a \in Approvals |-> IF a \in S THEN {} ELSE bearer[a]]
    /\ UNCHANGED issued

Next ==
    \/ \E a \in Approvals : Approve(a) \/ Redeem(a) \/ Rotate(a) \/ Curb(a)
    \/ \E S \in SUBSET Approvals : End(S)

Spec == Init /\ [][Next]_vars
=============================================================================
