---------------------------- MODULE OAuthGrants -----------------------------
(***************************************************************************)
(* The OAuth authorization server and the admin's sign-in: clients,        *)
(* consents, authorization codes, rotating refresh tokens and the access   *)
(* tokens that go with them (routes/oauth_routes.py, routes/auth_routes.py,*)
(* services/oauth_*.py, services/users.py, mcp/server.py,                  *)
(* scripts/mint_mcp_token.py).                                             *)
(*                                                                         *)
(* There is one admin.  codes and pairs hold every row ever committed, in  *)
(* the order of their commits; a pair is a refresh token with its access   *)
(* token, and a pair without a code is a token of the script.  A family is *)
(* named by the code it was minted from.  A request that reads, waits for  *)
(* row locks and commits is a process; its writes are seen at its commit.  *)
(***************************************************************************)
EXTENDS Naturals, Sequences, FiniteSets

CONSTANTS
    Clients,        \* ids a registration may draw
    Requests,       \* worker threads
    MaxClients,     \* settings.oauth_max_clients
    RefreshTtl,     \* settings.oauth_refresh_token_ttl_days
    MaxCodes, MaxPairs, MaxEpoch, MaxNow,   \* bounds of the model
    NoClient

ASSUME OAuthAssumption ==
    /\ NoClient \notin Clients
    /\ {MaxClients, RefreshTtl, MaxCodes, MaxPairs, MaxEpoch, MaxNow} \subseteq Nat

VARIABLES
    now,
    registered, aged,       \* oauth_clients, and those older than 24 hours
    consents,               \* oauth_consents
    codes,                  \* oauth_authorization_codes
    pairs,                  \* oauth_refresh_tokens and api_tokens
    epoch,                  \* users.session_epoch
    cookies,                \* epochs of the session cookies handed out
    authorized,             \* the admin's address is in ADMIN_EMAILS
    pending,                \* client of the pending-authorization cookie
    page,                   \* the consent page shown carries the cookie's nonce
    req,                    \* of each worker
    ended,                  \* history: families revoked while nothing else touched them
    raced                   \* history: a sign-out wrote over a later epoch

rows == <<registered, aged, consents, codes, pairs>>
signin == <<epoch, cookies, authorized, pending, page, raced>>
vars == <<now, rows, signin, req, ended>>

-----------------------------------------------------------------------------
CodeRow == [client : Clients, consumed : BOOLEAN, gone : BOOLEAN]
PairRow == [family : Nat, from : Nat, refresh : {"live", "revoked", "none"},
            access : BOOLEAN, epoch : Nat, deadline : Nat]

NoPair == [family |-> 0, from |-> 0, refresh |-> "none", access |-> FALSE,
           epoch |-> 0, deadline |-> 0]

Idle == [stage |-> "idle", code |-> 0, old |-> 0, family |-> 0, found |-> {},
         new |-> NoPair, clean |-> TRUE, victims |-> {}, client |-> NoClient, seen |-> 0]

Request == [stage : {"idle", "issuing", "revoking", "pruning", "registering", "leaving"},
            code : Nat, old : Nat, family : Nat, found : SUBSET Nat, new : PairRow,
            clean : BOOLEAN, victims : SUBSET Clients, client : Clients \cup {NoClient},
            seen : Nat]

Codes == DOMAIN codes
Pairs == DOMAIN pairs
Family(f) == {p \in Pairs : pairs[p].family = f}
LiveIn(f) == {p \in Family(f) : pairs[p].refresh = "live"}
ClientOf(p) == IF pairs[p].family = 0 THEN NoClient ELSE codes[pairs[p].family].client
OwnsTokens(k) == \E p \in Pairs : /\ ClientOf(p) = k
                                  /\ pairs[p].access \/ pairs[p].refresh # "none"

Init ==
    /\ now = 0
    /\ registered = {} /\ aged = {} /\ consents = {}
    /\ codes = <<>> /\ pairs = <<>>
    /\ epoch = 0 /\ cookies = {} /\ authorized = TRUE
    /\ pending = NoClient /\ page = FALSE
    /\ req = [r \in Requests |-> Idle]
    /\ ended = {} /\ raced = FALSE

-----------------------------------------------------------------------------
(***************************************************************************)
(* Row locks.  SELECT FOR UPDATE holds a code or a refresh token to the    *)
(* end of its transaction; a registration that deleted stale clients holds *)
(* those.                                                                  *)
(***************************************************************************)
\* Mutant: the SELECT does not lock.
CodeUnlocked(c) == FALSE

CodeLocked(c) == \E r \in Requests : req[r].code = c
PairLocked(p) == \E r \in Requests : req[r].old = p
ClientDeleting(k) == \E r \in Requests : req[r].stage = "registering" /\ k \in req[r].victims
HeldFor(k) == \/ \E c \in Codes : codes[c].client = k /\ CodeLocked(c)
              \/ \E p \in Pairs : ClientOf(p) = k /\ PairLocked(p)

\* The bound on rows counts those on the way.
RoomForPair ==
    Len(pairs) + Cardinality({r \in Requests : req[r].stage = "issuing"}) < MaxPairs

Finish(r) == req' = [req EXCEPT ![r] = Idle]

\* r starts to work on a family: whoever is on it already overlaps it.
Enter(r, f, request) ==
    LET others == {q \in Requests \ {r} : req[q].family = f} IN
    req' = [q \in Requests |->
        IF q = r THEN [request EXCEPT !.family = f, !.clean = others = {}]
        ELSE IF q \in others THEN [req[q] EXCEPT !.clean = FALSE]
        ELSE req[q]]

-----------------------------------------------------------------------------
(***************************************************************************)
(* POST /oauth/token                                                       *)
(***************************************************************************)

\* oauth_token: the client is registered.
MayAsk(r, k) == req[r].stage = "idle" /\ k \in registered

\* issue_token_pair: nothing is minted for an owner who is no longer allowed.
IssueTokenPair(family, from, deadline) ==
    IF authorized
    THEN [family |-> family, from |-> from, refresh |-> "live", access |-> TRUE,
          epoch |-> epoch, deadline |-> deadline]
    ELSE NoPair

\* revoke_family, its SELECT: the live rows this transaction sees.
RevokeFamily(r, family, request) ==
    Enter(r, family, [request EXCEPT !.stage = "revoking", !.found = LiveIn(family)])

\* redeem_authorization_code: the first pair of the family named by the code.
RedeemedPair(c) == IssueTokenPair(c, 0, now + RefreshTtl)

\* consume_authorization_code, and the pair is on its way.
RedeemAuthorizationCode(r, c, k) ==
    /\ MayAsk(r, k) /\ ~codes[c].gone
    /\ ~CodeLocked(c) /\ ~ClientDeleting(codes[c].client)
    /\ IF codes[c].consumed
       THEN RevokeFamily(r, c, [Idle EXCEPT !.code = c])
       ELSE /\ codes[c].client = k
            /\ RoomForPair
            /\ Enter(r, c, [Idle EXCEPT !.stage = "issuing", !.code = c,
                               !.new = RedeemedPair(c)])
    /\ UNCHANGED <<now, rows, signin, ended>>

\* rotate_refresh_token; a deletion of its client holds the row as well.
RotateRefreshToken(r, p, k) ==
    /\ MayAsk(r, k) /\ ~PairLocked(p) /\ ~ClientDeleting(ClientOf(p))
    /\ \/ /\ pairs[p].refresh = "revoked"
          /\ RevokeFamily(r, pairs[p].family, [Idle EXCEPT !.old = p])
       \/ /\ pairs[p].refresh = "live" /\ now < pairs[p].deadline /\ ClientOf(p) = k
          /\ RoomForPair
          /\ Enter(r, pairs[p].family,
                   [Idle EXCEPT !.stage = "issuing", !.old = p,
                      !.new = IssueTokenPair(pairs[p].family, p, pairs[p].deadline)])
    /\ UNCHANGED <<now, rows, signin, ended>>

\* Mutant: the access token is left to expire.
RevokedRefreshOnly(p) == [pairs[p] EXCEPT !.refresh = "revoked"]

Revoked(p) == [pairs[p] EXCEPT !.refresh = "revoked", !.access = FALSE]
RevokeAll(S) == [p \in Pairs |-> IF p \in S THEN Revoked(p) ELSE pairs[p]]

\* get_oauth_token_session: what was flushed is kept, whether a pair was issued
\* or the owner check raised an OAuthError.
CommitIssue(r) ==
    /\ req[r].stage = "issuing"
    /\ codes' = [c \in Codes |-> [codes[c] EXCEPT !.consumed = @ \/ c = req[r].code]]
    /\ LET old == RevokeAll({req[r].old} \ {0}) IN
       pairs' = IF req[r].new = NoPair THEN old ELSE Append(old, req[r].new)
    /\ Finish(r)
    /\ UNCHANGED <<now, registered, aged, consents, signin, ended>>

\* Mutant: the OAuthError rolls back, as in get_session.
RevocationRolledBack(r) ==
    /\ req[r].stage = "revoking"
    /\ ended' = IF req[r].clean THEN ended \cup {req[r].family} ELSE ended
    /\ Finish(r)
    /\ UNCHANGED <<now, rows, signin>>

\* revoke_family, its updates, and the commit that follows although the route
\* answers with an OAuthError.  It waits for the rows it saw and cannot update
\* one that is gone.
CommitRevocation(r) ==
    /\ req[r].stage = "revoking"
    /\ \A p \in req[r].found : /\ pairs[p].refresh # "none"
                               /\ ~ClientDeleting(ClientOf(p))
                               /\ \A q \in Requests \ {r} : req[q].old # p
    /\ pairs' = RevokeAll(req[r].found)
    /\ ended' = IF req[r].clean THEN ended \cup {req[r].family} ELSE ended
    /\ Finish(r)
    /\ UNCHANGED <<now, registered, aged, consents, codes, signin>>

\* Any other exception, or a lock wait the database gives up.
Rollback(r) ==
    /\ req[r].stage # "idle"
    /\ Finish(r)
    /\ UNCHANGED <<now, rows, signin, ended>>

-----------------------------------------------------------------------------
(***************************************************************************)
(* POST /oauth/revoke                                                      *)
(***************************************************************************)
RevokeToken(r, p, k) ==
    /\ MayAsk(r, k) /\ ClientOf(p) = k /\ pairs[p].refresh # "none"
    /\ RevokeFamily(r, pairs[p].family, Idle)
    /\ UNCHANGED <<now, rows, signin, ended>>

\* An access token names its own row only.
RevokeAccess(r, p, k) ==
    /\ MayAsk(r, k) /\ ClientOf(p) = k /\ pairs[p].access
    /\ ~ClientDeleting(k)
    /\ pairs' = [pairs EXCEPT ![p].access = FALSE]
    /\ UNCHANGED <<now, registered, aged, consents, codes, signin, req, ended>>

-----------------------------------------------------------------------------
(***************************************************************************)
(* Clients: POST /oauth/register, DELETE /oauth/clients/{client_id}        *)
(***************************************************************************)

\* ON DELETE CASCADE: what a set of clients takes with it.
Cascade(S) ==
    /\ aged' = aged \ S /\ consents' = consents \ S
    /\ codes' = [c \in Codes |-> [codes[c] EXCEPT !.gone = @ \/ codes[c].client \in S]]
    /\ pairs' = [p \in Pairs |->
           IF ClientOf(p) \in S
           THEN [pairs[p] EXCEPT !.refresh = "none", !.access = FALSE] ELSE pairs[p]]

\* A registration draws a random id, one nobody had.
Fresh(k) == /\ k \notin registered
            /\ \A c \in Codes : codes[c].client # k
            /\ \A q \in Requests : req[q].client # k

\* prune_stale_clients, its WHERE: a row is judged by what the statement's
\* snapshot shows, and not again when the DELETE had to wait for it.
PruneStaleClients(r) ==
    /\ req[r].stage = "idle"
    /\ req' = [req EXCEPT ![r] = [Idle EXCEPT !.stage = "pruning",
           !.victims = {k \in aged : k \notin consents /\ ~OwnsTokens(k)}]]
    /\ UNCHANGED <<now, rows, signin, ended>>

\* The stale rows are deleted and the rest counted: a full table ends the
\* request and takes the deletion back.
CountClients(r) ==
    LET victims == req[r].victims \cap registered IN
    /\ req[r].stage = "pruning"
    /\ \A k \in victims : ~HeldFor(k) /\ ~ClientDeleting(k)
    /\ \/ Cardinality(registered \ victims) >= MaxClients /\ Finish(r)
       \/ /\ Cardinality(registered \ victims) < MaxClients
          /\ \E k \in Clients : Fresh(k) /\
                req' = [req EXCEPT ![r] = [Idle EXCEPT !.stage = "registering",
                                             !.victims = victims, !.client = k]]
    /\ UNCHANGED <<now, rows, signin, ended>>

RegisterClient(r) ==
    /\ req[r].stage = "registering"
    /\ registered' = (registered \ req[r].victims) \cup {req[r].client}
    /\ Cascade(req[r].victims)
    /\ Finish(r)
    /\ UNCHANGED <<now, signin, ended>>

\* issue_cookie and read_session: the signed epochs that may come back.
IssueCookie(e) == cookies' = cookies \cup {e}
ReadSession(e) == e \in cookies

\* resolve_admin: only a cookie of the current epoch counts.
ResolveAdmin == ReadSession(epoch)

\* DELETE /oauth/clients/{client_id}, by the signed in admin: it waits for the
\* rows of the client that are locked.
DeleteClient(k) ==
    /\ k \in registered /\ ResolveAdmin
    /\ ~HeldFor(k) /\ ~ClientDeleting(k)
    /\ registered' = registered \ {k}
    /\ Cascade({k})
    /\ UNCHANGED <<now, signin, req, ended>>

Age(k) ==
    /\ k \in registered
    /\ aged' = aged \cup {k}
    /\ UNCHANGED <<now, registered, consents, codes, pairs, signin, req, ended>>

-----------------------------------------------------------------------------
(***************************************************************************)
(* The browser: sign-in, GET /oauth/authorize, the consent page            *)
(***************************************************************************)

\* The OAuth routes ask about the allowlist once more.
Admin == ResolveAdmin /\ authorized

\* auth_callback: a cookie signed with the epoch of the row.
AuthCallback ==
    /\ authorized
    /\ IssueCookie(epoch)
    /\ UNCHANGED <<now, rows, epoch, authorized, pending, page, raced, req, ended>>

\* auth_logout, bump_session_epoch: the row is read and compared ...
AuthLogout(r) ==
    /\ req[r].stage = "idle"
    /\ ReadSession(epoch) /\ epoch < MaxEpoch
    /\ req' = [req EXCEPT ![r] = [Idle EXCEPT !.stage = "leaving", !.seen = epoch]]
    /\ UNCHANGED <<now, rows, signin, ended>>

\* Mutant: only the cookie of the browser is cleared.
BumpNothing(r) ==
    /\ req[r].stage = "leaving"
    /\ Finish(r)
    /\ UNCHANGED <<now, rows, signin, ended>>

\* ... and the number that was read, plus one, is written.
BumpSessionEpoch(r) ==
    /\ req[r].stage = "leaving"
    /\ epoch' = req[r].seen + 1
    /\ raced' = (raced \/ epoch # req[r].seen)
    /\ Finish(r)
    /\ UNCHANGED <<now, rows, cookies, authorized, pending, page, ended>>

\* validate_authorize_request: whatever it refuses leaves no trace.
ValidateAuthorizeRequest(k) == k \in registered

\* oauth_authorize: a new cookie with a new nonce; a page shown before is void.
OauthAuthorize(k) ==
    /\ ValidateAuthorizeRequest(k)
    /\ pending' = k /\ page' = FALSE
    /\ UNCHANGED <<now, rows, epoch, cookies, authorized, raced, req, ended>>

\* issue_authorization_code: the row's foreign key waits for a deletion.
IssueAuthorizationCode(k) ==
    /\ Len(codes) < MaxCodes
    /\ ~ClientDeleting(k)
    /\ codes' = Append(codes, [client |-> k, consumed |-> FALSE, gone |-> FALSE])

\* read_pending_authorization, clear_pending_cookie
ReadPendingAuthorization == pending # NoClient
ClearPendingCookie == pending' = NoClient /\ page' = FALSE

\* _issue_code_and_redirect
IssueCodeAndRedirect == IssueAuthorizationCode(pending) /\ ClearPendingCookie

\* find_active_consent and record_consent
FindActiveConsent == pending \in consents
RecordConsent == consents' = consents \cup {pending}

\* oauth_authorize_continue: a client with a consent gets its code at once.
OauthAuthorizeContinue ==
    /\ ReadPendingAuthorization /\ Admin
    /\ \/ FindActiveConsent /\ IssueCodeAndRedirect
       \/ /\ ~FindActiveConsent /\ pending \in registered
          /\ page' = TRUE
          /\ UNCHANGED <<codes, pending>>
    /\ UNCHANGED <<now, registered, aged, consents, pairs, epoch, cookies, authorized,
                   raced, req, ended>>

\* oauth_authorize_decision, with the nonce of the page.
Approve ==
    /\ page /\ Admin /\ pending \in registered
    /\ RecordConsent
    /\ IssueCodeAndRedirect
    /\ UNCHANGED <<now, registered, aged, pairs, epoch, cookies, authorized, raced, req, ended>>

Deny ==
    /\ page /\ Admin
    /\ ClearPendingCookie
    /\ UNCHANGED <<now, rows, epoch, cookies, authorized, raced, req, ended>>

-----------------------------------------------------------------------------
(***************************************************************************)
(* Bearer tokens on /mcp, and those of scripts/mint_mcp_token.py           *)
(***************************************************************************)

\* resolve_bearer_token
Accepted(p) == pairs[p].access /\ pairs[p].epoch = epoch /\ authorized

Mint ==
    /\ authorized /\ RoomForPair
    /\ pairs' = Append(pairs, [NoPair EXCEPT !.access = TRUE, !.epoch = epoch])
    /\ UNCHANGED <<now, registered, aged, consents, codes, signin, req, ended>>

RevokeMinted(p) ==
    /\ pairs[p].family = 0 /\ pairs[p].access
    /\ pairs' = [pairs EXCEPT ![p].access = FALSE]
    /\ UNCHANGED <<now, registered, aged, consents, codes, signin, req, ended>>

-----------------------------------------------------------------------------
\* The service is started again with an ADMIN_EMAILS without the admin.
Deauthorize ==
    /\ authorized
    /\ \A r \in Requests : req[r] = Idle
    /\ authorized' = FALSE
    /\ UNCHANGED <<now, rows, epoch, cookies, pending, page, raced, req, ended>>

Tick ==
    /\ now < MaxNow
    /\ now' = now + 1
    /\ UNCHANGED <<rows, signin, req, ended>>

TokenRequest(r) == \E k \in Clients :
    \/ \E c \in Codes : RedeemAuthorizationCode(r, c, k)
    \/ \E p \in Pairs : \/ RotateRefreshToken(r, p, k)
                        \/ RevokeToken(r, p, k) \/ RevokeAccess(r, p, k)

Next ==
    \/ \E r \in Requests :
         \/ TokenRequest(r) \/ CommitIssue(r) \/ CommitRevocation(r)
         \/ PruneStaleClients(r) \/ CountClients(r) \/ RegisterClient(r)
         \/ AuthLogout(r) \/ BumpSessionEpoch(r) \/ Rollback(r)
    \/ \E k \in Clients : OauthAuthorize(k) \/ Age(k) \/ DeleteClient(k)
    \/ \E p \in Pairs : RevokeMinted(p)
    \/ AuthCallback \/ OauthAuthorizeContinue \/ Approve \/ Deny
    \/ Mint \/ Deauthorize \/ Tick

Spec == Init /\ [][Next]_vars

-----------------------------------------------------------------------------
\* Every variable stays in its range.
TypeOK ==
    /\ {now, epoch} \subseteq Nat
    /\ registered \in SUBSET Clients
    /\ aged \subseteq registered /\ consents \subseteq registered
    /\ codes \in Seq(CodeRow)
    /\ pairs \in Seq(PairRow)
    /\ req \in [Requests -> Request]
    /\ ended \subseteq Codes
    /\ cookies \subseteq Nat
    /\ pending \in Clients \cup {NoClient}
    /\ {authorized, page, raced} \subseteq BOOLEAN

\* A code is redeemed once and a refresh token rotated once: the pairs of a
\* family are a chain with one root, and only its last may be live.
GrantIsChain ==
    \A p, q \in Pairs : pairs[p].family # 0 /\ pairs[p].family = pairs[q].family =>
        /\ pairs[p].from = pairs[q].from => p = q
        /\ pairs[q].from = p => pairs[p].refresh # "live"

\* An access token issued for a refresh token does not outlive it.
AccessFollowsRefresh ==
    \A p \in Pairs : pairs[p].family # 0 /\ pairs[p].access => pairs[p].refresh = "live"

\* A family that was revoked while nothing else worked on it never lives again,
\* although the request that revoked it was answered with an error.
RevocationLasts == \A f \in ended : \A p \in Family(f) :
    pairs[p].refresh # "live" /\ ~pairs[p].access

\* prune_stale_clients: a client the admin consented to is pruned at no age.
ConsentedNotPruned ==
    [][\A r \in Requests : RegisterClient(r) => consents \subseteq consents']_vars

\* A sign-out ends every access token there is, unless sign-outs wrote over
\* each other.
SignOutEndsTokens ==
    [][\A r \in Requests : BumpSessionEpoch(r) /\ ~raced' =>
          \A p \in DOMAIN pairs' : ~Accepted(p)']_vars

-----------------------------------------------------------------------------
\* A code is an approval, its family what was issued on it.
Grants == INSTANCE Grant WITH
    Approvals <- 1 .. MaxCodes,
    phase  <- [c \in 1 .. MaxCodes |->
                 IF c \notin Codes THEN "none"
                 ELSE IF codes[c].consumed \/ codes[c].gone THEN "spent" ELSE "open"],
    issued <- [c \in 1 .. MaxCodes |-> Family(c)],
    live   <- [c \in 1 .. MaxCodes |-> LiveIn(c)],
    bearer <- [c \in 1 .. MaxCodes |-> {p \in Family(c) : pairs[p].access}]

\* Whatever the workers do to it at the same time, what an approval is worth
\* changes as Grant says: a family has one live token at most, and a family
\* without one never has one again.
ImplementsGrant == Grants!Spec
=============================================================================
