------------------------- MODULE OAuthGrantsProofs --------------------------
(***************************************************************************)
(* What the OAuth server guarantees for any number of clients, workers,    *)
(* codes, tokens and sign-outs.                                            *)
(***************************************************************************)
EXTENDS OAuthGrants, SequenceTheorems, TLAPS

\* A row of codes or pairs is at work on in one transaction at a time.
LocksInv ==
    \A r, q \in Requests :
        \/ r = q
        \/ /\ req[r].code = 0 \/ req[r].code # req[q].code
           /\ req[r].old = 0 \/ req[r].old # req[q].old

\* A pair with a family comes from a consumed code, and from a pair of the same
\* family that is no longer live; a token of the script has no refresh token.
LinkedPair(p) ==
    LET x == pairs[p] IN
    /\ x.family = 0 => x.refresh = "none"
    /\ x.family # 0 => x.family \in Codes /\ codes[x.family].consumed
    /\ x.family # 0 /\ x.from # 0 =>
          /\ x.from \in Pairs
          /\ pairs[x.from].family = x.family
          /\ pairs[x.from].refresh # "live"

\* The pairs of a family are one chain, of which one at most is live.
LinksInv ==
    /\ \A p \in Pairs : LinkedPair(p)
    /\ \A p, q \in Pairs :
          pairs[p].family # 0 /\ pairs[p].family = pairs[q].family =>
             /\ pairs[p].from = pairs[q].from => p = q
             /\ pairs[p].refresh = "live" /\ pairs[q].refresh = "live" => p = q

\* What is on its way: the first pair of a code that is neither spent nor deleted,
\* or the next pair of a token that is still live.
Issuing(r) ==
    LET x == req[r] IN
    /\ x.code = 0 \/ x.old = 0
    /\ x.code # 0 => /\ x.code \in Codes /\ ~codes[x.code].consumed
                     /\ ~codes[x.code].gone /\ x.family = x.code
    /\ x.code = 0 => /\ x.old \in Pairs /\ pairs[x.old].refresh = "live"
                     /\ x.family = pairs[x.old].family
    /\ x.new # NoPair =>
          /\ x.new.family = x.family /\ x.new.from = x.old
          /\ x.new.refresh = "live" /\ x.new.access
          /\ ~raced => x.new.epoch <= epoch

\* What a revocation found belongs to the family, and is all that is live in it
\* while nobody else is at work on it.
Revoking(r) ==
    LET x == req[r] IN
    /\ x.family \in Codes /\ codes[x.family].consumed
    /\ x.code \in {0} \cup Codes
    /\ x.old \in {0} \cup Pairs
    /\ x.found \subseteq Family(x.family)
    /\ x.clean => LiveIn(x.family) \subseteq x.found

\* The rows of the clients a registration deleted are its own.
Registering(r) ==
    /\ req[r].client \in Clients
    /\ \A k \in req[r].victims : ~HeldFor(k)

RequestInv(r) ==
    /\ req[r].stage = "issuing" => Issuing(r)
    /\ req[r].stage = "revoking" => Revoking(r)
    /\ req[r].stage = "registering" => Registering(r)
    /\ req[r].stage \notin {"issuing", "revoking"} =>
          req[r].code = 0 /\ req[r].old = 0 /\ req[r].family = 0

\* Two transactions at work on a family know of each other.
CleanInv ==
    \A r, q \in Requests :
        r # q /\ req[r].family # 0 /\ req[r].family = req[q].family => ~req[r].clean

\* A family that was revoked alone has nothing left, and nothing on its way.
EndedInv ==
    \A f \in ended :
        /\ codes[f].consumed
        /\ LiveIn(f) = {}
        /\ \A r \in Requests : req[r].stage = "issuing" => req[r].family # f

EpochInv == ~raced => \A p \in Pairs : pairs[p].epoch <= epoch

GrantInv ==
    /\ LocksInv
    /\ LinksInv
    /\ AccessFollowsRefresh
    /\ \A r \in Requests : RequestInv(r)
    /\ CleanInv
    /\ EndedInv
    /\ EpochInv

-----------------------------------------------------------------------------
\* The rows of a table are numbered from 1.
LEMMA Numbered ==
    ASSUME NEW S, NEW s \in Seq(S)
    PROVE  /\ Len(s) \in Nat /\ DOMAIN s = 1..Len(s)
           /\ 0 \notin DOMAIN s
           /\ \A i \in DOMAIN s : i \in Nat /\ s[i] \in S
<1>1. s \in [1..Len(s) -> S] /\ Len(s) \in Nat /\ DOMAIN s = 1..Len(s)
  BY LenProperties
<1>2. QED BY <1>1

\* What the type of the tables says of each row.
LEMMA RowTypes ==
    ASSUME TypeOK
    PROVE  /\ now \in Nat /\ epoch \in Nat
           /\ 0 \notin Codes /\ 0 \notin Pairs
           /\ \A c \in Codes : c \in Nat /\ codes[c] \in CodeRow
           /\ \A p \in Pairs : p \in Nat /\ pairs[p] \in PairRow
<1>1. codes \in Seq(CodeRow) /\ pairs \in Seq(PairRow) /\ now \in Nat /\ epoch \in Nat
  BY DEF TypeOK
<1>2. QED BY <1>1, Numbered DEF Codes, Pairs

\* The rows held by a request exist.
LEMMA HeldRows ==
    ASSUME TypeOK, GrantInv, NEW r \in Requests
    PROVE  /\ req[r].code \in {0} \cup Codes
           /\ req[r].old \in {0} \cup Pairs
BY DEF TypeOK, Request, GrantInv, RequestInv, Issuing, Revoking

\* Rows are never removed; a code is not unspent again, a token never revived
\* and its family, predecessor and epoch never change.
Grow ==
    /\ Codes \subseteq Codes' /\ Pairs \subseteq Pairs'
    /\ \A c \in Codes : /\ codes[c]'.client = codes[c].client
                        /\ codes[c].consumed => codes[c]'.consumed
    /\ \A p \in Pairs : /\ pairs[p]'.family = pairs[p].family
                        /\ pairs[p]'.from = pairs[p].from
                        /\ pairs[p]'.epoch = pairs[p].epoch
                        /\ pairs[p]'.refresh \in {pairs[p].refresh, "revoked", "none"}
                        /\ pairs[p].family = 0 => pairs[p]'.refresh = pairs[p].refresh

\* A request that holds nothing.
Quiet(x) == /\ x.stage \notin {"issuing", "revoking"}
            /\ x.code = 0 /\ x.old = 0 /\ x.family = 0

\* The rows q holds for an issue are as they were.
Kept(q) ==
    req[q].stage = "issuing" =>
        /\ req[q].code # 0 => /\ codes'[req[q].code].consumed = codes[req[q].code].consumed
                              /\ codes'[req[q].code].gone = codes[req[q].code].gone
        /\ req[q].code = 0 => pairs'[req[q].old].refresh = pairs[req[q].old].refresh

\* A pair that appears.
NewPair(p) ==
    LET x == pairs[p]' IN
    /\ LinkedPair(p)'
    /\ x.family # 0 =>
          /\ x.access => x.refresh = "live"
          /\ \A q \in Pairs' : pairs[q]'.family = x.family =>
                /\ pairs[q]'.from = x.from => q = p
                /\ pairs[q]'.refresh = "live" => q = p
          /\ \A q \in Requests : req[q]'.family = x.family => ~req[q]'.clean
          /\ x.family \notin ended
    /\ ~raced' => x.epoch <= epoch'

\* A step by which no request comes to hold a row: what it does to the rows that
\* others hold, to the pairs and to the families that have ended.
Settle ==
    /\ Grow
    /\ req' \in [Requests -> Request]
    /\ \A q \in Requests :
          \/ req[q]' = req[q] /\ Kept(q)
          \/ /\ Quiet(req[q]')
             /\ req[q]'.stage = "registering" =>
                   /\ req[q]'.client \in Clients
                   /\ \A k \in req[q]'.victims : ~HeldFor(k)
    /\ ~raced' => ~raced /\ epoch <= epoch'
    /\ \A p \in Pairs : pairs[p].family # 0 /\ pairs[p]'.access => pairs[p]'.refresh = "live"
    /\ \A p \in Pairs' \ Pairs : NewPair(p)
    /\ \A f \in ended' :
          \/ f \in ended
          \/ /\ f \in Codes /\ codes[f].consumed
             /\ LiveIn(f)' = {}
             /\ \A q \in Requests : req[q]'.stage = "issuing" => req[q]'.family # f

\* No request comes to hold rows of a client.
LEMMA HeldStep ==
    ASSUME TypeOK, TypeOK', GrantInv, Settle, NEW k \in Clients, HeldFor(k)'
    PROVE  HeldFor(k)
<1>1. \A q \in Requests : req[q]'.code # 0 =>
          /\ req[q]'.code = req[q].code /\ req[q].code \in Codes
  BY HeldRows DEF Settle, Quiet
<1>2. \A q \in Requests : req[q]'.old # 0 =>
          /\ req[q]'.old = req[q].old /\ req[q].old \in Pairs
  BY HeldRows DEF Settle, Quiet
<1>3. 0 \notin Codes' /\ 0 \notin Pairs'
  <2>1. codes' \in Seq(CodeRow) /\ pairs' \in Seq(PairRow)
    BY DEF TypeOK
  <2>2. QED BY <2>1, Numbered DEF Codes, Pairs
<1>4. ASSUME NEW c \in Codes', codes[c]'.client = k, CodeLocked(c)'
      PROVE  HeldFor(k)
  <2>1. PICK q \in Requests : req[q]'.code = c
    BY <1>4 DEF CodeLocked
  <2>2. c \in Codes /\ req[q].code = c
    BY <2>1, <1>1, <1>3
  <2>3. codes[c].client = k
    BY <2>2, <1>4 DEF Settle, Grow
  <2>4. QED BY <2>2, <2>3 DEF HeldFor, CodeLocked
<1>5. ASSUME NEW p \in Pairs', ClientOf(p)' = k, PairLocked(p)'
      PROVE  HeldFor(k)
  <2>1. PICK q \in Requests : req[q]'.old = p
    BY <1>5 DEF PairLocked
  <2>2. p \in Pairs /\ req[q].old = p
    BY <2>1, <1>2, <1>3
  <2>3. ClientOf(p) = k
    BY <2>2, <1>5 DEF Settle, Grow, ClientOf, GrantInv, LinksInv, LinkedPair
  <2>4. QED BY <2>2, <2>3 DEF HeldFor, PairLocked
<1>6. QED BY <1>4, <1>5 DEF HeldFor

\* Such a step leaves every request in order ...
LEMMA SettleRequests ==
    ASSUME TypeOK, TypeOK', GrantInv, Settle, NEW q \in Requests
    PROVE  RequestInv(q)'
<1>1. CASE Quiet(req[q]')
  <2>1. req[q]'.stage = "registering" => Registering(q)'
    <3> SUFFICES ASSUME req[q]'.stage = "registering" PROVE Registering(q)'
      OBVIOUS
    <3>1. CASE req[q]' = req[q]
      <4>1. Registering(q)
        BY <3>1 DEF GrantInv, RequestInv
      <4>2. req[q].victims \subseteq Clients
        BY DEF TypeOK, Request
      <4>3. QED BY <3>1, <4>1, <4>2, HeldStep DEF Registering
    <3>2. CASE /\ req[q]'.client \in Clients
               /\ \A k \in req[q]'.victims : ~HeldFor(k)
      <4>1. req[q]'.victims \subseteq Clients
        BY DEF TypeOK, Request
      <4>2. QED BY <3>2, <4>1, HeldStep DEF Registering
    <3>3. QED BY <3>1, <3>2 DEF Settle
  <2>2. QED BY <1>1, <2>1 DEF RequestInv, Quiet
<1>2. CASE ~Quiet(req[q]') /\ req[q]' = req[q] /\ Kept(q)
  <2>1. req[q].stage = "issuing" => Issuing(q)'
    <3> SUFFICES ASSUME req[q].stage = "issuing" PROVE Issuing(q)'
      OBVIOUS
    <3>1. Issuing(q)
      BY DEF GrantInv, RequestInv
    <3>2. ASSUME ~raced', req[q].new # NoPair PROVE req[q].new.epoch <= epoch'
      <4>1. req[q].new.epoch <= epoch /\ epoch <= epoch'
        BY <3>1, <3>2 DEF Issuing, Settle
      <4>2. req[q].new.epoch \in Nat /\ epoch \in Nat /\ epoch' \in Nat
        BY DEF TypeOK, Request, PairRow
      <4>3. QED BY <4>1, <4>2
    <3>3. QED BY <1>2, <3>1, <3>2 DEF Issuing, Kept, Settle, Grow
  <2>2. req[q].stage = "revoking" => Revoking(q)'
    <3> SUFFICES ASSUME req[q].stage = "revoking" PROVE Revoking(q)'
      OBVIOUS
    <3>1. Revoking(q)
      BY DEF GrantInv, RequestInv
    <3>2. ASSUME req[q].clean, NEW p \in LiveIn(req[q].family)' PROVE p \in req[q].found
      <4>0. p \in Pairs' /\ pairs[p]'.family = req[q].family /\ pairs[p]'.refresh = "live"
        BY <1>2 DEF LiveIn, Family
      <4>1. req[q].family # 0
        BY <3>1, RowTypes DEF Revoking
      <4>2. p \in Pairs
        BY <4>0, <4>1, <3>2, <1>2 DEF Settle, NewPair
      <4>3. p \in LiveIn(req[q].family)
        BY <4>0, <4>2 DEF LiveIn, Family, Settle, Grow
      <4>4. QED BY <4>3, <3>1, <3>2 DEF Revoking
    <3>3. req[q].found \subseteq Family(req[q].family)'
      BY <1>2, <3>1 DEF Revoking, Family, Settle, Grow
    <3>4. QED BY <1>2, <3>1, <3>2, <3>3 DEF Revoking, Settle, Grow
  <2>3. req[q].stage = "registering" => FALSE
    BY <1>2 DEF GrantInv, RequestInv, Quiet
  <2>4. QED BY <1>2, <2>1, <2>2, <2>3 DEF GrantInv, RequestInv, Quiet
<1>3. QED BY <1>1, <1>2 DEF Settle

\* ... and everything else.
LEMMA SettlePreserves ==
    ASSUME TypeOK, TypeOK', GrantInv, Settle
    PROVE  GrantInv'
<1>1. LocksInv'
  <2> SUFFICES ASSUME NEW r \in Requests, NEW q \in Requests, r # q
               PROVE  /\ req[r]'.code = 0 \/ req[r]'.code # req[q]'.code
                      /\ req[r]'.old = 0 \/ req[r]'.old # req[q]'.old
    BY DEF LocksInv
  <2>1. QED BY DEF GrantInv, LocksInv, Settle, Quiet
<1>2. LinksInv'
  <2>1. ASSUME NEW p \in Pairs' PROVE LinkedPair(p)'
    <3>1. CASE p \in Pairs
      BY <3>1 DEF GrantInv, LinksInv, LinkedPair, Settle, Grow
    <3>2. CASE p \notin Pairs
      BY <3>2 DEF Settle, NewPair
    <3>3. QED BY <3>1, <3>2
  <2>2. ASSUME NEW p \in Pairs', NEW q \in Pairs', pairs[p]'.family # 0,
               pairs[p]'.family = pairs[q]'.family,
               \/ pairs[p]'.from = pairs[q]'.from
               \/ pairs[p]'.refresh = "live" /\ pairs[q]'.refresh = "live"
        PROVE  p = q
    <3>1. CASE p \in Pairs /\ q \in Pairs
      BY <2>2, <3>1 DEF GrantInv, LinksInv, Settle, Grow
    <3>2. CASE p \notin Pairs
      BY <2>2, <3>2 DEF Settle, NewPair
    <3>3. CASE q \notin Pairs
      BY <2>2, <3>3 DEF Settle, NewPair
    <3>4. QED BY <3>1, <3>2, <3>3
  <2>3. QED BY <2>1, <2>2 DEF LinksInv
<1>3. AccessFollowsRefresh'
  <2> SUFFICES ASSUME NEW p \in Pairs', pairs[p]'.family # 0, pairs[p]'.access
               PROVE  pairs[p]'.refresh = "live"
    BY DEF AccessFollowsRefresh
  <2>1. CASE p \in Pairs
    BY <2>1 DEF Settle, Grow
  <2>2. CASE p \notin Pairs
    BY <2>2 DEF Settle, NewPair
  <2>3. QED BY <2>1, <2>2
<1>4. \A q \in Requests : RequestInv(q)'
  BY SettleRequests
<1>5. CleanInv'
  BY DEF GrantInv, CleanInv, Settle, Quiet
<1>6. EndedInv'
  <2> SUFFICES ASSUME NEW f \in ended'
               PROVE  /\ codes[f]'.consumed
                      /\ LiveIn(f)' = {}
                      /\ \A q \in Requests : req[q]'.stage = "issuing" => req[q]'.family # f
    BY DEF EndedInv
  <2>1. CASE f \in ended
    <3>1. f \in Codes /\ codes[f].consumed
      BY <2>1 DEF GrantInv, EndedInv, TypeOK
    <3>2. f # 0
      BY <3>1, RowTypes
    <3>3. ASSUME NEW p \in LiveIn(f)' PROVE FALSE
      <4>1. p \in Pairs' /\ pairs[p]'.family = f /\ pairs[p]'.refresh = "live"
        BY <3>3 DEF LiveIn, Family
      <4>2. CASE p \in Pairs
        <5>1. p \in LiveIn(f)
          BY <4>1, <4>2 DEF Settle, Grow, LiveIn, Family
        <5>2. QED BY <5>1, <2>1 DEF GrantInv, EndedInv
      <4>3. CASE p \notin Pairs
        BY <4>1, <4>3, <3>2, <2>1 DEF Settle, NewPair
      <4>4. QED BY <4>2, <4>3
    <3>4. \A q \in Requests : req[q]'.stage = "issuing" => req[q]'.family # f
      BY <2>1 DEF Settle, Quiet, GrantInv, EndedInv
    <3>5. QED BY <3>1, <3>3, <3>4 DEF Settle, Grow
  <2>2. CASE f \notin ended
    BY <2>2 DEF Settle, Grow
  <2>3. QED BY <2>1, <2>2
<1>7. EpochInv'
  <2> SUFFICES ASSUME ~raced', NEW p \in Pairs' PROVE pairs[p]'.epoch <= epoch'
    BY DEF EpochInv
  <2>1. CASE p \in Pairs
    <3>1. pairs[p].epoch <= epoch /\ epoch <= epoch' /\ pairs[p]'.epoch = pairs[p].epoch
      BY <2>1 DEF Settle, Grow, GrantInv, EpochInv
    <3>2. pairs[p].epoch \in Nat /\ epoch \in Nat /\ epoch' \in Nat
      BY <2>1, RowTypes DEF PairRow, TypeOK
    <3>3. QED BY <3>1, <3>2
  <2>2. CASE p \notin Pairs
    BY <2>2 DEF Settle, NewPair
  <2>3. QED BY <2>1, <2>2
<1>8. QED BY <1>1, <1>2, <1>3, <1>4, <1>5, <1>6, <1>7 DEF GrantInv

-----------------------------------------------------------------------------
\* Entering a family changes what the others know of it, and nothing else.
LEMMA EnterEffect ==
    ASSUME TypeOK, NEW r \in Requests, NEW f \in Nat, NEW request \in Request,
           Enter(r, f, request)
    PROVE  /\ req' \in [Requests -> Request]
           /\ req[r]'.stage = request.stage /\ req[r]'.code = request.code
           /\ req[r]'.old = request.old /\ req[r]'.family = f
           /\ req[r]'.found = request.found /\ req[r]'.new = request.new
           /\ \A q \in Requests \ {r} :
                 /\ req[q]'.stage = req[q].stage /\ req[q]'.code = req[q].code
                 /\ req[q]'.old = req[q].old /\ req[q]'.family = req[q].family
                 /\ req[q]'.found = req[q].found /\ req[q]'.new = req[q].new
                 /\ req[q]'.victims = req[q].victims /\ req[q]'.client = req[q].client
                 /\ req[q]'.clean => req[q].clean
                 /\ req[q].family = f => ~req[q]'.clean /\ ~req[r]'.clean
<1> DEFINE others == {q \in Requests \ {r} : req[q].family = f}
<1>1. req' = [q \in Requests |->
          IF q = r THEN [request EXCEPT !.family = f, !.clean = others = {}]
          ELSE IF q \in others THEN [req[q] EXCEPT !.clean = FALSE]
          ELSE req[q]]
  BY DEF Enter
<1>2. [request EXCEPT !.family = f, !.clean = others = {}] \in Request
  BY DEF Request
<1>3. \A q \in Requests : req[q] \in Request /\ [req[q] EXCEPT !.clean = FALSE] \in Request
  BY DEF TypeOK, Request
<1>4. req[r]' = [request EXCEPT !.family = f, !.clean = others = {}]
  BY <1>1
<1>5. /\ req[r]'.stage = request.stage /\ req[r]'.code = request.code
      /\ req[r]'.old = request.old /\ req[r]'.family = f
      /\ req[r]'.found = request.found /\ req[r]'.new = request.new
      /\ req[r]'.clean = (others = {})
  BY <1>4 DEF Request
<1>6. ASSUME NEW q \in Requests \ {r}
      PROVE  /\ req[q]'.stage = req[q].stage /\ req[q]'.code = req[q].code
             /\ req[q]'.old = req[q].old /\ req[q]'.family = req[q].family
             /\ req[q]'.found = req[q].found /\ req[q]'.new = req[q].new
             /\ req[q]'.victims = req[q].victims /\ req[q]'.client = req[q].client
             /\ req[q]'.clean => req[q].clean
             /\ req[q].family = f => ~req[q]'.clean /\ ~req[r]'.clean
  <2>1. CASE q \in others
    <3>1. req[q]' = [req[q] EXCEPT !.clean = FALSE]
      BY <1>1, <2>1
    <3>2. others # {}
      BY <2>1
    <3>3. QED BY <3>1, <3>2, <1>3, <1>5 DEF Request
  <2>2. CASE q \notin others
    <3>1. req[q]' = req[q] /\ req[q].family # f
      BY <1>1, <2>2
    <3>2. QED BY <3>1
  <2>3. QED BY <2>1, <2>2
<1>7. req' \in [Requests -> Request]
  BY <1>1, <1>2, <1>3
<1>8. QED BY <1>5, <1>6, <1>7

\* What a request that enters a family may bring: rows nobody holds, of a client
\* nobody deletes, to issue a pair or to revoke what is live.
Entry(f, request) ==
    /\ f \in Codes /\ request \in Request
    /\ request.code # 0 => /\ request.code \in Codes
                           /\ ~CodeLocked(request.code)
                           /\ ~ClientDeleting(codes[request.code].client)
    /\ request.old # 0 => /\ request.old \in Pairs
                          /\ ~PairLocked(request.old)
                          /\ ~ClientDeleting(ClientOf(request.old))
    /\ \/ /\ request.stage = "revoking"
          /\ codes[f].consumed /\ request.found = LiveIn(f)
       \/ /\ request.stage = "issuing" /\ f \notin ended
          /\ \/ /\ request.code = f /\ request.old = 0
                /\ ~codes[f].consumed /\ ~codes[f].gone
             \/ /\ request.code = 0 /\ request.old \in LiveIn(f)
          /\ request.new # NoPair =>
                /\ request.new.family = f /\ request.new.from = request.old
                /\ request.new.refresh = "live" /\ request.new.access
                /\ request.new.epoch = epoch

\* A request that enters a family leaves everything in order.
LEMMA EnterPreserves ==
    ASSUME TypeOK, TypeOK', GrantInv, NEW r \in Requests, NEW f, NEW request,
           Entry(f, request), Enter(r, f, request),
           UNCHANGED <<rows, signin, ended>>
    PROVE  GrantInv'
<1> USE DEF rows, signin
<1>0. f \in Codes /\ f \in Nat /\ f # 0 /\ request \in Request
  BY RowTypes DEF Entry
<1>1. /\ req[r]'.stage = request.stage /\ req[r]'.code = request.code
      /\ req[r]'.old = request.old /\ req[r]'.family = f
      /\ req[r]'.found = request.found /\ req[r]'.new = request.new
  BY <1>0, EnterEffect
<1>2. \A q \in Requests \ {r} :
          /\ req[q]'.stage = req[q].stage /\ req[q]'.code = req[q].code
          /\ req[q]'.old = req[q].old /\ req[q]'.family = req[q].family
          /\ req[q]'.found = req[q].found /\ req[q]'.new = req[q].new
          /\ req[q]'.victims = req[q].victims /\ req[q]'.client = req[q].client
          /\ req[q]'.clean => req[q].clean
          /\ req[q].family = f => ~req[q]'.clean /\ ~req[r]'.clean
  BY <1>0, EnterEffect
<1>3. \A p : ClientOf(p)' = ClientOf(p)
  BY DEF ClientOf
<1>4. \A g : LiveIn(g)' = LiveIn(g)
  BY DEF LiveIn, Family, Pairs
<1>5. LocksInv'
  <2>1. \A q \in Requests \ {r} :
            /\ req[r]'.code = 0 \/ req[r]'.code # req[q]'.code
            /\ req[r]'.old = 0 \/ req[r]'.old # req[q]'.old
    BY <1>1, <1>2 DEF Entry, CodeLocked, PairLocked
  <2>2. \A q, s \in Requests \ {r} :
            \/ q = s
            \/ /\ req[q]'.code = 0 \/ req[q]'.code # req[s]'.code
               /\ req[q]'.old = 0 \/ req[q]'.old # req[s]'.old
    BY <1>2 DEF GrantInv, LocksInv
  <2>3. QED BY <2>1, <2>2 DEF LocksInv
<1>6. LinksInv' /\ AccessFollowsRefresh' /\ EpochInv'
  BY DEF GrantInv, LinksInv, LinkedPair, AccessFollowsRefresh, EpochInv, Codes, Pairs
<1>7. RequestInv(r)'
  <2>1. CASE request.stage = "revoking"
    <3>1. LiveIn(f) \subseteq Family(f) /\ Family(f)' = Family(f)
      BY DEF LiveIn, Family, Pairs
    <3>2. QED BY <2>1, <3>1, <1>1, <1>4 DEF Entry, RequestInv, Revoking, Codes, Pairs
  <2>2. CASE request.stage = "issuing"
    <3>1. request.new # NoPair => request.new.epoch <= epoch
      BY <2>2, RowTypes DEF Entry
    <3>2. 0 \notin LiveIn(f)
      BY RowTypes DEF LiveIn, Family
    <3>3. Issuing(r)'
      BY <2>2, <1>1, <3>1, <3>2, <1>0 DEF Entry, Issuing, Codes, Pairs, LiveIn, Family
    <3>4. QED BY <2>2, <3>3, <1>1 DEF RequestInv
  <2>3. QED BY <2>1, <2>2 DEF Entry
<1>8. ASSUME NEW q \in Requests \ {r} PROVE RequestInv(q)'
  <2>0. RequestInv(q)
    BY DEF GrantInv
  <2>1. Issuing(q) => Issuing(q)'
    BY <1>2 DEF Issuing, Codes, Pairs
  <2>2. Revoking(q) => Revoking(q)'
    BY <1>2, <1>4 DEF Revoking, Family, Codes, Pairs
  <2>3. ASSUME req[q].stage = "registering", Registering(q) PROVE Registering(q)'
    <3>1. ASSUME NEW k \in req[q].victims, HeldFor(k)' PROVE FALSE
      <4>1. ClientDeleting(k)
        BY <2>3, <3>1 DEF ClientDeleting
      <4>2. ASSUME NEW c \in Codes, codes[c].client = k, CodeLocked(c)' PROVE FALSE
        <5>1. ~CodeLocked(c)
          BY <4>2, <2>3, <3>1 DEF Registering, HeldFor
        <5>2. c = req[r]'.code
          BY <4>2, <5>1, <1>2 DEF CodeLocked
        <5>3. c # 0
          BY RowTypes
        <5>4. QED BY <5>2, <5>3, <4>1, <4>2, <1>1 DEF Entry
      <4>3. ASSUME NEW p \in Pairs, ClientOf(p) = k, PairLocked(p)' PROVE FALSE
        <5>1. ~PairLocked(p)
          BY <4>3, <2>3, <3>1 DEF Registering, HeldFor
        <5>2. p = req[r]'.old
          BY <4>3, <5>1, <1>2 DEF PairLocked
        <5>3. p # 0
          BY RowTypes
        <5>4. QED BY <5>2, <5>3, <4>1, <4>3, <1>1 DEF Entry
      <4>4. QED BY <3>1, <4>2, <4>3, <1>3 DEF HeldFor, Codes, Pairs
    <3>2. QED BY <3>1, <2>3, <1>2 DEF Registering
  <2>4. QED BY <2>0, <2>1, <2>2, <2>3, <1>2 DEF RequestInv
<1>9. CleanInv'
  BY <1>1, <1>2 DEF GrantInv, CleanInv
<1>10. EndedInv'
  <2>1. request.stage = "issuing" => f \notin ended
    BY DEF Entry
  <2>2. QED BY <2>1, <1>1, <1>2, <1>4 DEF GrantInv, EndedInv, Codes
<1>11. QED BY <1>5, <1>6, <1>7, <1>8, <1>9, <1>10 DEF GrantInv

-----------------------------------------------------------------------------
\* Rows rewritten one by one are a table again.
LEMMA Rewritten ==
    ASSUME NEW S, NEW s \in Seq(S), NEW f \in [DOMAIN s -> S]
    PROVE  f \in Seq(S) /\ DOMAIN f = DOMAIN s
<1>1. Len(s) \in Nat /\ DOMAIN s = 1..Len(s)
  BY LenProperties
<1>2. QED BY <1>1, SeqDef

\* A row put at the end of a table.
LEMMA Appended ==
    ASSUME NEW S, NEW s \in Seq(S), NEW x \in S
    PROVE  /\ Append(s, x) \in Seq(S)
           /\ DOMAIN Append(s, x) = DOMAIN s \cup {Len(s) + 1}
           /\ Len(s) + 1 \notin DOMAIN s
           /\ \A i \in DOMAIN s : Append(s, x)[i] = s[i]
           /\ Append(s, x)[Len(s) + 1] = x
<1>1. Len(s) \in Nat /\ DOMAIN s = 1..Len(s)
  BY LenProperties
<1>2. /\ Append(s, x) \in Seq(S)
      /\ Len(Append(s, x)) = Len(s) + 1
      /\ \A i \in 1..Len(s) : Append(s, x)[i] = s[i]
      /\ Append(s, x)[Len(s) + 1] = x
  BY AppendProperties
<1>3. DOMAIN Append(s, x) = 1..(Len(s) + 1)
  BY <1>2, LenProperties
<1>4. 1..(Len(s) + 1) = (1..Len(s)) \cup {Len(s) + 1} /\ Len(s) + 1 \notin 1..Len(s)
  BY <1>1
<1>5. QED BY <1>1, <1>2, <1>3, <1>4

\* The idle request and the missing pair.
LEMMA PairTypes ==
    /\ NoPair \in PairRow
    /\ Idle \in Request
    /\ Quiet(Idle)
BY DEF NoPair, PairRow, Idle, Request, Quiet

\* The pair that is minted, if one is.
LEMMA IssuedType ==
    ASSUME TypeOK, NEW f \in Nat, NEW from \in Nat, NEW deadline \in Nat
    PROVE  /\ IssueTokenPair(f, from, deadline) \in PairRow
           /\ IssueTokenPair(f, from, deadline) # NoPair =>
                 /\ IssueTokenPair(f, from, deadline).family = f
                 /\ IssueTokenPair(f, from, deadline).from = from
                 /\ IssueTokenPair(f, from, deadline).refresh = "live"
                 /\ IssueTokenPair(f, from, deadline).access
                 /\ IssueTokenPair(f, from, deadline).epoch = epoch
<1>1. CASE authorized
  BY <1>1 DEF IssueTokenPair, PairRow, TypeOK
<1>2. CASE ~authorized
  BY <1>2, PairTypes DEF IssueTokenPair
<1>3. QED BY <1>1, <1>2

\* What a revocation writes.
LEMMA RevokeAllType ==
    ASSUME TypeOK, NEW S
    PROVE  /\ RevokeAll(S) \in Seq(PairRow) /\ DOMAIN RevokeAll(S) = Pairs
           /\ \A p \in Pairs : RevokeAll(S)[p] = IF p \in S THEN Revoked(p) ELSE pairs[p]
           /\ \A p \in Pairs : Revoked(p) \in PairRow
<1>1. \A p \in Pairs : pairs[p] \in PairRow /\ Revoked(p) \in PairRow
  BY RowTypes DEF Revoked, PairRow
<1>2. RevokeAll(S) \in [Pairs -> PairRow]
  BY <1>1 DEF RevokeAll
<1>3. pairs \in Seq(PairRow)
  BY DEF TypeOK
<1>4. RevokeAll(S) \in Seq(PairRow) /\ DOMAIN RevokeAll(S) = Pairs
  BY <1>2, <1>3, Rewritten DEF Pairs
<1>5. QED BY <1>1, <1>4 DEF RevokeAll

\* What a deletion writes.
LEMMA CascadeTypes ==
    ASSUME TypeOK, NEW S, Cascade(S)
    PROVE  /\ codes' \in Seq(CodeRow) /\ Codes' = Codes
           /\ pairs' \in Seq(PairRow) /\ Pairs' = Pairs
           /\ aged' = aged \ S /\ consents' = consents \ S
           /\ \A c \in Codes : /\ codes[c]'.client = codes[c].client
                               /\ codes[c]'.consumed = codes[c].consumed
                               /\ codes[c]'.gone = (codes[c].gone \/ codes[c].client \in S)
           /\ \A p \in Pairs :
                 /\ pairs[p]'.family = pairs[p].family /\ pairs[p]'.from = pairs[p].from
                 /\ pairs[p]'.epoch = pairs[p].epoch
                 /\ IF ClientOf(p) \in S THEN pairs[p]'.refresh = "none" /\ ~pairs[p]'.access
                    ELSE pairs[p]' = pairs[p]
<1>1. /\ codes \in Seq(CodeRow) /\ pairs \in Seq(PairRow)
      /\ \A c \in Codes : codes[c] \in CodeRow
      /\ \A p \in Pairs : pairs[p] \in PairRow
  BY RowTypes DEF TypeOK
<1>2. /\ codes' = [c \in Codes |-> [codes[c] EXCEPT !.gone = @ \/ codes[c].client \in S]]
      /\ pairs' = [p \in Pairs |->
             IF ClientOf(p) \in S
             THEN [pairs[p] EXCEPT !.refresh = "none", !.access = FALSE] ELSE pairs[p]]
      /\ aged' = aged \ S /\ consents' = consents \ S
  BY DEF Cascade
<1>3. \A c \in Codes : [codes[c] EXCEPT !.gone = @ \/ codes[c].client \in S] \in CodeRow
  BY <1>1 DEF CodeRow
<1>4. \A p \in Pairs : [pairs[p] EXCEPT !.refresh = "none", !.access = FALSE] \in PairRow
  BY <1>1 DEF PairRow
<1>5. codes' \in [DOMAIN codes -> CodeRow] /\ pairs' \in [DOMAIN pairs -> PairRow]
  BY <1>1, <1>2, <1>3, <1>4 DEF Codes, Pairs
<1>6. /\ codes' \in Seq(CodeRow) /\ DOMAIN codes' = DOMAIN codes
      /\ pairs' \in Seq(PairRow) /\ DOMAIN pairs' = DOMAIN pairs
  BY <1>1, <1>5, Rewritten
<1>7. \A c \in Codes : /\ codes'[c].client = codes[c].client
                       /\ codes'[c].consumed = codes[c].consumed
                       /\ codes'[c].gone = (codes[c].gone \/ codes[c].client \in S)
  BY <1>1, <1>2 DEF CodeRow
<1>8. ASSUME NEW p \in Pairs
      PROVE  /\ pairs'[p].family = pairs[p].family /\ pairs'[p].from = pairs[p].from
             /\ pairs'[p].epoch = pairs[p].epoch
             /\ IF ClientOf(p) \in S THEN pairs'[p].refresh = "none" /\ ~pairs'[p].access
                ELSE pairs'[p] = pairs[p]
  BY <1>1, <1>2 DEF PairRow
<1>9. QED BY <1>2, <1>6, <1>7, <1>8 DEF Codes, Pairs

-----------------------------------------------------------------------------
\* A request that ends holds nothing.
LEMMA FinishEffect ==
    ASSUME TypeOK, NEW r \in Requests, Finish(r)
    PROVE  /\ req' \in [Requests -> Request]
           /\ Quiet(req[r]') /\ req[r]'.stage = "idle"
           /\ \A q \in Requests \ {r} : req[q]' = req[q]
BY PairTypes DEF Finish, TypeOK, Idle, Quiet

\* Codes and pairs left alone, by requests that hold nothing afterwards.
LEMMA SettleSame ==
    ASSUME TypeOK, GrantInv, UNCHANGED <<codes, pairs, ended>>,
           req' \in [Requests -> Request],
           \A q \in Requests :
               \/ req[q]' = req[q]
               \/ /\ Quiet(req[q]')
                  /\ req[q]'.stage = "registering" =>
                        /\ req[q]'.client \in Clients
                        /\ \A k \in req[q]'.victims : ~HeldFor(k),
           ~raced' => ~raced /\ epoch <= epoch'
    PROVE  Settle
<1>1. Codes' = Codes /\ Pairs' = Pairs
  BY DEF Codes, Pairs
<1>2. Grow
  BY <1>1 DEF Grow
<1>3. \A q \in Requests : Kept(q)
  BY DEF Kept
<1>4. \A p \in Pairs : pairs[p].family # 0 /\ pairs[p]'.access => pairs[p]'.refresh = "live"
  BY DEF GrantInv, AccessFollowsRefresh
<1>5. QED BY <1>1, <1>2, <1>3, <1>4 DEF Settle

\* POST /oauth/token and /oauth/revoke, up to the row locks.
LEMMA TokenRequestPreserves ==
    ASSUME TypeOK, GrantInv, NEW r \in Requests, NEW k \in Clients,
           \/ \E c \in Codes : RedeemAuthorizationCode(r, c, k)
           \/ \E p \in Pairs : RotateRefreshToken(r, p, k) \/ RevokeToken(r, p, k)
    PROVE  TypeOK' /\ GrantInv'
<1>1. SUFFICES \E f, request : /\ Entry(f, request) /\ Enter(r, f, request)
                               /\ UNCHANGED <<now, rows, signin, ended>>
  <2>1. PICK f, request : /\ Entry(f, request) /\ Enter(r, f, request)
                          /\ UNCHANGED <<now, rows, signin, ended>>
    BY <1>1
  <2>2. f \in Nat /\ request \in Request
    BY <2>1, RowTypes DEF Entry
  <2>3. req' \in [Requests -> Request]
    BY <2>1, <2>2, EnterEffect
  <2>4. TypeOK'
    BY <2>1, <2>3 DEF TypeOK, rows, signin, Codes
  <2>5. QED BY <2>1, <2>4, EnterPreserves
<1>2. ASSUME NEW request \in Request, NEW f \in Codes
      PROVE  /\ [request EXCEPT !.stage = "revoking", !.found = LiveIn(f)] \in Request
             /\ [request EXCEPT !.stage = "revoking", !.found = LiveIn(f)].stage = "revoking"
             /\ [request EXCEPT !.stage = "revoking", !.found = LiveIn(f)].found = LiveIn(f)
             /\ [request EXCEPT !.stage = "revoking", !.found = LiveIn(f)].code = request.code
             /\ [request EXCEPT !.stage = "revoking", !.found = LiveIn(f)].old = request.old
  <2>1. LiveIn(f) \subseteq Nat
    BY RowTypes DEF LiveIn, Family
  <2>2. QED BY <2>1 DEF Request
<1>3. \A p \in Pairs : LinkedPair(p)
  BY DEF GrantInv, LinksInv
<1>4. ASSUME NEW c \in Codes, RedeemAuthorizationCode(r, c, k)
      PROVE  \E f, request : /\ Entry(f, request) /\ Enter(r, f, request)
                             /\ UNCHANGED <<now, rows, signin, ended>>
  <2>1. c \in Nat /\ c # 0 /\ ~CodeLocked(c) /\ ~ClientDeleting(codes[c].client)
    BY <1>4, RowTypes DEF RedeemAuthorizationCode
  <2>2. CASE codes[c].consumed
    <3> DEFINE x == [[Idle EXCEPT !.code = c] EXCEPT !.stage = "revoking", !.found = LiveIn(c)]
    <3>1. [Idle EXCEPT !.code = c] \in Request /\ [Idle EXCEPT !.code = c].code = c
          /\ [Idle EXCEPT !.code = c].old = 0
      BY <2>1, PairTypes DEF Request, Idle
    <3>2. x \in Request /\ x.stage = "revoking" /\ x.found = LiveIn(c) /\ x.code = c /\ x.old = 0
      BY <3>1, <1>2
    <3>3. Enter(r, c, x) /\ UNCHANGED <<now, rows, signin, ended>>
      BY <1>4, <2>2 DEF RedeemAuthorizationCode, RevokeFamily
    <3> HIDE DEF x
    <3>4. Entry(c, x)
      BY <3>2, <2>1, <2>2 DEF Entry
    <3>5. QED BY <3>3, <3>4
  <2>3. CASE ~codes[c].consumed
    <3> DEFINE x == [Idle EXCEPT !.stage = "issuing", !.code = c, !.new = RedeemedPair(c)]
    <3>1. now + RefreshTtl \in Nat
      BY OAuthAssumption, RowTypes
    <3>2. RedeemedPair(c) \in PairRow
          /\ (RedeemedPair(c) # NoPair =>
                 /\ RedeemedPair(c).family = c /\ RedeemedPair(c).from = 0
                 /\ RedeemedPair(c).refresh = "live" /\ RedeemedPair(c).access
                 /\ RedeemedPair(c).epoch = epoch)
      BY <2>1, <3>1, IssuedType DEF RedeemedPair
    <3>3. /\ x \in Request /\ x.stage = "issuing" /\ x.code = c /\ x.old = 0
          /\ x.new = RedeemedPair(c)
      BY <2>1, <3>2, PairTypes DEF Request, Idle
    <3>4. Enter(r, c, x) /\ UNCHANGED <<now, rows, signin, ended>>
      BY <1>4, <2>3 DEF RedeemAuthorizationCode
    <3>5. c \notin ended
      BY <2>3 DEF GrantInv, EndedInv
    <3> HIDE DEF x
    <3>6. ~codes[c].gone
      BY <1>4 DEF RedeemAuthorizationCode
    <3>7. Entry(c, x)
      BY <3>2, <3>3, <3>5, <3>6, <2>1, <2>3 DEF Entry
    <3>8. QED BY <3>4, <3>7
  <2>4. QED BY <2>2, <2>3
<1>5. ASSUME NEW p \in Pairs, RotateRefreshToken(r, p, k)
      PROVE  \E f, request : /\ Entry(f, request) /\ Enter(r, f, request)
                             /\ UNCHANGED <<now, rows, signin, ended>>
  <2> DEFINE f == pairs[p].family
  <2>1. p \in Nat /\ p # 0 /\ ~PairLocked(p) /\ ~ClientDeleting(ClientOf(p))
    BY <1>5, RowTypes DEF RotateRefreshToken
  <2>2. pairs[p].refresh # "none"
    BY <1>5 DEF RotateRefreshToken
  <2>3. f \in Codes /\ f \in Nat /\ codes[f].consumed
    BY <1>3, <2>2, RowTypes DEF LinkedPair
  <2>4. CASE RevokeFamily(r, f, [Idle EXCEPT !.old = p])
    <3> DEFINE x == [[Idle EXCEPT !.old = p] EXCEPT !.stage = "revoking", !.found = LiveIn(f)]
    <3>1. [Idle EXCEPT !.old = p] \in Request /\ [Idle EXCEPT !.old = p].code = 0
          /\ [Idle EXCEPT !.old = p].old = p
      BY <2>1, PairTypes DEF Request, Idle
    <3>2. x \in Request /\ x.stage = "revoking" /\ x.found = LiveIn(f) /\ x.code = 0 /\ x.old = p
      BY <3>1, <1>2, <2>3
    <3>3. Enter(r, f, x) /\ UNCHANGED <<now, rows, signin, ended>>
      BY <1>5, <2>4 DEF RotateRefreshToken, RevokeFamily
    <3> HIDE DEF x
    <3>4. Entry(f, x)
      BY <3>2, <2>1, <2>3 DEF Entry
    <3>5. QED BY <3>3, <3>4
  <2>5. CASE pairs[p].refresh = "live"
             /\ Enter(r, f, [Idle EXCEPT !.stage = "issuing", !.old = p,
                                !.new = IssueTokenPair(f, p, pairs[p].deadline)])
    <3> DEFINE i == IssueTokenPair(f, p, pairs[p].deadline)
               x == [Idle EXCEPT !.stage = "issuing", !.old = p, !.new = i]
    <3>1. pairs[p].deadline \in Nat
      BY RowTypes DEF PairRow
    <3>2. i \in PairRow
          /\ (i # NoPair => /\ i.family = f /\ i.from = p
                            /\ i.refresh = "live" /\ i.access /\ i.epoch = epoch)
      BY <2>1, <2>3, <3>1, IssuedType
    <3> HIDE DEF i
    <3>3. x \in Request /\ x.stage = "issuing" /\ x.code = 0 /\ x.old = p /\ x.new = i
      BY <2>1, <3>2, PairTypes DEF Request, Idle
    <3>4. Enter(r, f, x) /\ UNCHANGED <<now, rows, signin, ended>>
      BY <1>5, <2>5 DEF RotateRefreshToken, i
    <3>5. p \in LiveIn(f)
      BY <2>5 DEF LiveIn, Family
    <3>6. f \notin ended
      BY <3>5 DEF GrantInv, EndedInv
    <3> HIDE DEF x
    <3>7. Entry(f, x)
      BY <3>2, <3>3, <3>5, <3>6, <2>1, <2>3 DEF Entry
    <3>8. QED BY <3>4, <3>7
  <2>6. QED BY <1>5, <2>4, <2>5 DEF RotateRefreshToken
<1>6. ASSUME NEW p \in Pairs, RevokeToken(r, p, k)
      PROVE  \E f, request : /\ Entry(f, request) /\ Enter(r, f, request)
                             /\ UNCHANGED <<now, rows, signin, ended>>
  <2> DEFINE f == pairs[p].family
             x == [Idle EXCEPT !.stage = "revoking", !.found = LiveIn(f)]
  <2>1. f \in Codes /\ codes[f].consumed
    BY <1>3, <1>6 DEF LinkedPair, RevokeToken
  <2>2. x \in Request /\ x.stage = "revoking" /\ x.found = LiveIn(f) /\ x.code = 0 /\ x.old = 0
    BY <2>1, <1>2, PairTypes DEF Idle
  <2>3. Enter(r, f, x) /\ UNCHANGED <<now, rows, signin, ended>>
    BY <1>6 DEF RevokeToken, RevokeFamily
  <2> HIDE DEF x
  <2>4. Entry(f, x)
    BY <2>1, <2>2 DEF Entry
  <2>5. QED BY <2>3, <2>4
<1>7. QED BY <1>4, <1>5, <1>6

-----------------------------------------------------------------------------
\* The commit of an issue spends the code or the token it came from and adds
\* the pair, if there is one.
LEMMA CommitIssueEffect ==
    ASSUME TypeOK, GrantInv, NEW r \in Requests, CommitIssue(r)
    PROVE  LET x == req[r] IN
           /\ Issuing(r) /\ x \in Request /\ x.stage = "issuing"
           /\ UNCHANGED <<now, registered, aged, consents, signin, ended>>
           /\ codes' \in Seq(CodeRow) /\ Codes' = Codes
           /\ \A c \in Codes : /\ codes'[c].client = codes[c].client
                               /\ codes'[c].consumed = (codes[c].consumed \/ c = x.code)
                               /\ codes'[c].gone = codes[c].gone
           /\ pairs' \in Seq(PairRow) /\ Pairs \subseteq Pairs'
           /\ \A p \in Pairs :
                 /\ pairs'[p].family = pairs[p].family /\ pairs'[p].from = pairs[p].from
                 /\ pairs'[p].epoch = pairs[p].epoch
                 /\ p = x.old => pairs'[p].refresh = "revoked" /\ ~pairs'[p].access
                 /\ p # x.old => pairs'[p] = pairs[p]
           /\ x.new = NoPair => Pairs' = Pairs
           /\ x.new # NoPair => \E p \in Pairs' \ Pairs : Pairs' = Pairs \cup {p}
           /\ \A p \in Pairs' \ Pairs : pairs'[p] = x.new /\ x.new # NoPair /\ Pairs' \ Pairs = {p}
           /\ req' \in [Requests -> Request]
           /\ Quiet(req'[r]) /\ req'[r].stage = "idle"
           /\ \A q \in Requests \ {r} : req'[q] = req[q]
<1> DEFINE x == req[r]
           spent == RevokeAll({x.old} \ {0})
           n == Len(pairs) + 1
<1>1. /\ Issuing(r) /\ x \in Request /\ x.stage = "issuing"
      /\ \A p \in Pairs : LinkedPair(p)
  BY DEF CommitIssue, GrantInv, RequestInv, LinksInv, TypeOK
<1>2. /\ codes' = [c \in Codes |-> [codes[c] EXCEPT !.consumed = @ \/ c = x.code]]
      /\ pairs' = IF x.new = NoPair THEN spent ELSE Append(spent, x.new)
      /\ Finish(r)
      /\ UNCHANGED <<now, registered, aged, consents, signin, ended>>
  BY DEF CommitIssue
<1>3. /\ codes' \in Seq(CodeRow) /\ Codes' = Codes
      /\ \A c \in Codes : /\ codes'[c].client = codes[c].client
                          /\ codes'[c].consumed = (codes[c].consumed \/ c = x.code)
                          /\ codes'[c].gone = codes[c].gone
  <2>1. \A c \in Codes : codes[c] \in CodeRow
                         /\ [codes[c] EXCEPT !.consumed = @ \/ c = x.code] \in CodeRow
    BY RowTypes DEF CodeRow
  <2>2. codes' \in [DOMAIN codes -> CodeRow] /\ codes \in Seq(CodeRow)
    BY <1>2, <2>1 DEF Codes, TypeOK
  <2>3. codes' \in Seq(CodeRow) /\ DOMAIN codes' = DOMAIN codes
    BY <2>2, Rewritten
  <2>4. ASSUME NEW c \in Codes
        PROVE  /\ codes'[c].client = codes[c].client
               /\ codes'[c].consumed = (codes[c].consumed \/ c = x.code)
               /\ codes'[c].gone = codes[c].gone
    BY <1>2, <2>1 DEF CodeRow
  <2>5. QED BY <2>3, <2>4 DEF Codes
<1>4. /\ spent \in Seq(PairRow) /\ DOMAIN spent = Pairs
      /\ \A p \in Pairs : spent[p] = IF p = x.old THEN Revoked(p) ELSE pairs[p]
  BY RevokeAllType, RowTypes
<1>5. \A p \in Pairs : /\ spent[p].family = pairs[p].family /\ spent[p].from = pairs[p].from
                       /\ spent[p].epoch = pairs[p].epoch
                       /\ p = x.old => spent[p].refresh = "revoked" /\ ~spent[p].access
                       /\ p # x.old => spent[p] = pairs[p]
  <2>1. ASSUME NEW p \in Pairs, p = x.old
        PROVE  /\ spent[p].family = pairs[p].family /\ spent[p].from = pairs[p].from
               /\ spent[p].epoch = pairs[p].epoch
               /\ spent[p].refresh = "revoked" /\ ~spent[p].access
    <3>1. spent[p] = Revoked(p) /\ pairs[p] \in PairRow
      BY <1>4, <2>1, RowTypes
    <3>2. QED BY <3>1 DEF Revoked, PairRow
  <2>2. \A p \in Pairs : p # x.old => spent[p] = pairs[p]
    BY <1>4
  <2> HIDE DEF spent
  <2>3. QED BY <2>1, <2>2
<1>6. /\ pairs' \in Seq(PairRow) /\ Pairs \subseteq Pairs'
      /\ \A p \in Pairs : pairs'[p] = spent[p]
      /\ x.new = NoPair => Pairs' = Pairs
      /\ x.new # NoPair => \E p \in Pairs' \ Pairs : Pairs' = Pairs \cup {p}
      /\ \A p \in Pairs' \ Pairs : pairs'[p] = x.new /\ x.new # NoPair /\ Pairs' \ Pairs = {p}
  <2>1. CASE x.new = NoPair
    BY <1>2, <1>4, <2>1 DEF Pairs
  <2>2. CASE x.new # NoPair
    <3>1. x.new \in PairRow
      BY <1>1 DEF Request
    <3> HIDE DEF x, spent, n
    <3>2. /\ Append(spent, x.new) \in Seq(PairRow)
          /\ DOMAIN Append(spent, x.new) = DOMAIN spent \cup {Len(spent) + 1}
          /\ Len(spent) + 1 \notin DOMAIN spent
          /\ \A i \in DOMAIN spent : Append(spent, x.new)[i] = spent[i]
          /\ Append(spent, x.new)[Len(spent) + 1] = x.new
      BY <1>4, <3>1, Appended
    <3>3. pairs' = Append(spent, x.new)
      BY <1>2, <2>2
    <3>4. QED BY <3>2, <3>3, <1>4, <2>2 DEF Pairs
  <2>3. QED BY <2>1, <2>2
<1>7. /\ req' \in [Requests -> Request]
      /\ Quiet(req'[r]) /\ req'[r].stage = "idle"
      /\ \A q \in Requests \ {r} : req'[q] = req[q]
  BY <1>2, FinishEffect
<1>8. UNCHANGED <<now, registered, aged, consents, signin, ended>>
  BY <1>2
<1> HIDE DEF x, spent, n
<1>9. /\ \A p \in Pairs : /\ pairs'[p].family = pairs[p].family /\ pairs'[p].from = pairs[p].from
                          /\ pairs'[p].epoch = pairs[p].epoch
                          /\ p = x.old => pairs'[p].refresh = "revoked" /\ ~pairs'[p].access
                          /\ p # x.old => pairs'[p] = pairs[p]
  BY <1>5, <1>6
<1>10. QED BY <1>1, <1>3, <1>6, <1>7, <1>8, <1>9 DEF x

LEMMA CommitIssuePreserves ==
    ASSUME TypeOK, GrantInv, NEW r \in Requests, CommitIssue(r)
    PROVE  TypeOK' /\ GrantInv'
<1> DEFINE x == req[r]
<1>1. /\ Issuing(r) /\ x \in Request /\ x.stage = "issuing"
      /\ \A p \in Pairs : LinkedPair(p)
  BY CommitIssueEffect DEF GrantInv, LinksInv
<1>2. UNCHANGED <<now, registered, aged, consents, signin, ended>>
  BY CommitIssueEffect
<1>3. /\ codes' \in Seq(CodeRow) /\ Codes' = Codes
      /\ \A c \in Codes : /\ codes'[c].client = codes[c].client
                          /\ codes'[c].consumed = (codes[c].consumed \/ c = x.code)
                          /\ codes'[c].gone = codes[c].gone
  BY CommitIssueEffect
<1>5. \A p \in Pairs : /\ pairs'[p].family = pairs[p].family /\ pairs'[p].from = pairs[p].from
                       /\ pairs'[p].epoch = pairs[p].epoch
                       /\ p = x.old => pairs'[p].refresh = "revoked" /\ ~pairs'[p].access
                       /\ p # x.old => pairs'[p] = pairs[p]
  BY CommitIssueEffect
<1>6. /\ pairs' \in Seq(PairRow) /\ Pairs \subseteq Pairs'
      /\ \A p \in Pairs' \ Pairs : pairs'[p] = x.new /\ x.new # NoPair /\ Pairs' \ Pairs = {p}
  BY CommitIssueEffect
<1>7. /\ req' \in [Requests -> Request]
      /\ Quiet(req'[r]) /\ req'[r].stage = "idle"
      /\ \A q \in Requests \ {r} : req'[q] = req[q]
  BY CommitIssueEffect
<1>8. x.family # 0 /\ x.family \in Codes
  BY <1>1, RowTypes DEF Issuing, LinkedPair
<1>9. Grow
  <2>1. ASSUME NEW p \in Pairs
        PROVE  /\ pairs'[p].family = pairs[p].family
               /\ pairs'[p].from = pairs[p].from
               /\ pairs'[p].epoch = pairs[p].epoch
               /\ pairs'[p].refresh \in {pairs[p].refresh, "revoked", "none"}
               /\ pairs[p].family = 0 => pairs'[p].refresh = pairs[p].refresh
    <3>1. p = x.old => pairs[p].refresh = "live"
      BY <1>1, RowTypes DEF Issuing
    <3>2. p = x.old => pairs[p].family # 0
      BY <1>1, <3>1 DEF LinkedPair
    <3>3. QED BY <1>5, <1>6, <3>2
  <2>2. QED BY <1>3, <1>6, <2>1 DEF Grow
<1>10. ASSUME NEW q \in Requests \ {r} PROVE Kept(q)
  <2>1. /\ req[q].code = 0 \/ req[q].code # x.code
        /\ req[q].old = 0 \/ req[q].old # x.old
    BY DEF GrantInv, LocksInv
  <2>2. req[q].stage = "issuing" => Issuing(q)
    BY DEF GrantInv, RequestInv
  <2>3. ASSUME req[q].stage = "issuing", req[q].code # 0
        PROVE  /\ codes'[req[q].code].consumed = codes[req[q].code].consumed
               /\ codes'[req[q].code].gone = codes[req[q].code].gone
    <3>1. req[q].code \in Codes /\ ~codes[req[q].code].consumed
      BY <2>2, <2>3 DEF Issuing
    <3>2. QED BY <3>1, <2>1, <2>3, <1>3, RowTypes DEF CodeRow
  <2>4. ASSUME req[q].stage = "issuing", req[q].code = 0
        PROVE  pairs'[req[q].old].refresh = pairs[req[q].old].refresh
    <3>1. req[q].old \in Pairs /\ req[q].old # 0
      BY <2>2, <2>4, RowTypes DEF Issuing
    <3>2. pairs'[req[q].old] = pairs[req[q].old]
      BY <3>1, <2>1, <1>5, <1>6
    <3>3. QED BY <3>2
  <2>5. QED BY <2>3, <2>4 DEF Kept
<1>11. \A p \in Pairs : pairs[p].family # 0 /\ pairs'[p].access => pairs'[p].refresh = "live"
  <2>1. ASSUME NEW p \in Pairs, pairs[p].family # 0, pairs'[p].access
        PROVE  pairs'[p].refresh = "live"
    <3>1. p # x.old /\ pairs'[p] = pairs[p]
      BY <2>1, <1>5, <1>6
    <3>2. QED BY <3>1, <2>1 DEF GrantInv, AccessFollowsRefresh
  <2>2. QED BY <2>1
<1>12. ASSUME NEW p \in Pairs' \ Pairs PROVE NewPair(p)
  <2>1. /\ pairs'[p] = x.new /\ x.new # NoPair /\ Pairs' \ Pairs = {p}
        /\ x.new.family = x.family /\ x.new.from = x.old /\ x.new.refresh = "live"
        /\ ~raced => x.new.epoch <= epoch
    BY <1>1, <1>6 DEF Issuing
  <2>2. codes'[x.family].consumed
    BY <1>1, <1>3, <1>8 DEF Issuing, LinkedPair
  <2>3. x.old # 0 => /\ x.old \in Pairs' /\ pairs'[x.old].family = x.family
                     /\ pairs'[x.old].refresh # "live"
    BY <1>1, <1>5, <1>6 DEF Issuing
  <2>4. LinkedPair(p)'
    BY <2>1, <2>2, <2>3, <1>3, <1>8 DEF LinkedPair
  <2>5. ASSUME NEW q \in Pairs', pairs'[q].family = x.family, pairs'[q].from = x.old, q # p
        PROVE  FALSE
    <3>1. q \in Pairs
      BY <2>1, <2>5
    <3>2. pairs[q].family = x.family /\ pairs[q].from = x.old
      BY <3>1, <2>5, <1>5, <1>6
    <3>3. QED BY <3>1, <3>2, <1>1, <1>8, RowTypes DEF LinkedPair, Issuing
  <2>5a. ASSUME NEW q \in Pairs', pairs'[q].family = x.family, pairs'[q].refresh = "live", q # p
         PROVE  FALSE
    <3>1. q \in Pairs /\ q # x.old
      BY <2>1, <2>5a, <1>5, <1>6
    <3>2. pairs[q].family = x.family /\ pairs[q].refresh = "live"
      BY <3>1, <2>5a, <1>5, <1>6
    <3>3. x.code = 0 => pairs[x.old].family = x.family /\ pairs[x.old].refresh = "live"
                        /\ x.old \in Pairs
      BY <1>1 DEF Issuing
    <3>4. x.code # 0
      BY <3>1, <3>2, <3>3, <1>8 DEF GrantInv, LinksInv
    <3>5. QED BY <3>1, <3>2, <3>4, <1>1, <1>8 DEF LinkedPair, Issuing
  <2>6. \A q \in Requests : req'[q].family = x.family => ~req'[q].clean
    BY <1>7, <1>8 DEF GrantInv, CleanInv, Quiet
  <2>7. x.family \notin ended
    BY <1>1 DEF GrantInv, EndedInv
  <2>8. ~raced' => x.new.epoch <= epoch'
    BY <2>1, <1>2 DEF signin
  <2>9. QED BY <2>1, <2>4, <2>5, <2>5a, <2>6, <2>7, <2>8 DEF NewPair
<1>13. Settle
  <2>1. ~raced' => ~raced /\ epoch <= epoch'
    BY <1>2, RowTypes DEF signin
  <2>2. ended' = ended
    BY <1>2
  <2>3. \A q \in Requests :
          \/ req'[q] = req[q] /\ Kept(q)
          \/ Quiet(req'[q]) /\ req'[q].stage = "idle"
    BY <1>7, <1>10
  <2> HIDE DEF x
  <2>4. QED BY <2>1, <2>2, <2>3, <1>7, <1>9, <1>11, <1>12 DEF Settle
<1>14. TypeOK'
  BY <1>2, <1>3, <1>6, <1>7 DEF TypeOK, signin
<1>15. QED BY <1>13, <1>14, SettlePreserves

\* What the commit of a revocation writes.
LEMMA CommitRevocationEffect ==
    ASSUME TypeOK, NEW r \in Requests, CommitRevocation(r)
    PROVE  LET x == req[r] IN
           /\ pairs' \in Seq(PairRow) /\ Pairs' = Pairs /\ Codes' = Codes
           /\ \A p \in Pairs : /\ pairs'[p].family = pairs[p].family
                               /\ pairs'[p].from = pairs[p].from
                               /\ pairs'[p].epoch = pairs[p].epoch
                               /\ p \in x.found => pairs'[p].refresh = "revoked"
                                                   /\ ~pairs'[p].access
                               /\ p \notin x.found => pairs'[p] = pairs[p]
           /\ req' \in [Requests -> Request]
           /\ Quiet(req'[r]) /\ req'[r].stage = "idle"
           /\ \A q \in Requests \ {r} : req'[q] = req[q]
<1> DEFINE x == req[r]
<1>2. /\ \A p \in x.found : /\ pairs[p].refresh # "none"
                            /\ \A q \in Requests \ {r} : req[q].old # p
      /\ pairs' = RevokeAll(x.found)
      /\ ended' = IF x.clean THEN ended \cup {x.family} ELSE ended
      /\ Finish(r)
      /\ UNCHANGED <<now, registered, aged, consents, codes, signin>>
  BY DEF CommitRevocation
<1>3. /\ pairs' \in Seq(PairRow) /\ Pairs' = Pairs /\ Codes' = Codes
      /\ \A p \in Pairs : /\ pairs'[p].family = pairs[p].family
                          /\ pairs'[p].from = pairs[p].from
                          /\ pairs'[p].epoch = pairs[p].epoch
                          /\ p \in x.found => pairs'[p].refresh = "revoked" /\ ~pairs'[p].access
                          /\ p \notin x.found => pairs'[p] = pairs[p]
  <2>1. /\ RevokeAll(x.found) \in Seq(PairRow) /\ DOMAIN RevokeAll(x.found) = Pairs
        /\ \A p \in Pairs : RevokeAll(x.found)[p] =
                               IF p \in x.found THEN Revoked(p) ELSE pairs[p]
    BY RevokeAllType
  <2>2. \A p \in Pairs : pairs[p] \in PairRow
    BY RowTypes
  <2>3. /\ pairs' \in Seq(PairRow) /\ Pairs' = Pairs /\ Codes' = Codes
        /\ \A p \in Pairs : pairs'[p] = IF p \in x.found THEN Revoked(p) ELSE pairs[p]
    BY <1>2, <2>1 DEF Pairs, Codes
  <2>4. \A p \in Pairs : /\ Revoked(p).family = pairs[p].family
                         /\ Revoked(p).from = pairs[p].from
                         /\ Revoked(p).epoch = pairs[p].epoch
                         /\ Revoked(p).refresh = "revoked" /\ ~Revoked(p).access
    BY <2>2 DEF Revoked, PairRow
  <2> HIDE DEF x
  <2>5. QED BY <2>3, <2>4
<1>4. /\ req' \in [Requests -> Request]
      /\ Quiet(req'[r]) /\ req'[r].stage = "idle"
      /\ \A q \in Requests \ {r} : req'[q] = req[q]
  BY <1>2, FinishEffect
<1> HIDE DEF x
<1>5. QED BY <1>3, <1>4 DEF x

\* A family nobody else was at work on has ended.
LEMMA CommitRevocationPreserves ==
    ASSUME TypeOK, GrantInv, NEW r \in Requests, CommitRevocation(r)
    PROVE  TypeOK' /\ GrantInv'
<1> DEFINE x == req[r]
<1>1. /\ Revoking(r) /\ x \in Request /\ x.stage = "revoking"
      /\ \A p \in Pairs : LinkedPair(p)
  BY DEF CommitRevocation, GrantInv, RequestInv, LinksInv, TypeOK
<1>2. /\ \A p \in x.found : /\ pairs[p].refresh # "none"
                            /\ \A q \in Requests \ {r} : req[q].old # p
      /\ ended' = IF x.clean THEN ended \cup {x.family} ELSE ended
      /\ UNCHANGED <<now, registered, aged, consents, codes, signin>>
  BY DEF CommitRevocation
<1>3. /\ pairs' \in Seq(PairRow) /\ Pairs' = Pairs /\ Codes' = Codes
      /\ \A p \in Pairs : /\ pairs'[p].family = pairs[p].family
                          /\ pairs'[p].from = pairs[p].from
                          /\ pairs'[p].epoch = pairs[p].epoch
                          /\ p \in x.found => pairs'[p].refresh = "revoked" /\ ~pairs'[p].access
                          /\ p \notin x.found => pairs'[p] = pairs[p]
  BY CommitRevocationEffect
<1>4. /\ req' \in [Requests -> Request]
      /\ Quiet(req'[r]) /\ req'[r].stage = "idle"
      /\ \A q \in Requests \ {r} : req'[q] = req[q]
  BY CommitRevocationEffect
<1>5. Grow
  BY <1>1, <1>2, <1>3 DEF Grow, LinkedPair
<1>6. ASSUME NEW q \in Requests \ {r} PROVE Kept(q)
  <2>1. req[q].stage = "issuing" => Issuing(q)
    BY DEF GrantInv, RequestInv
  <2>2. QED BY <2>1, <1>2, <1>3 DEF Kept, Issuing
<1>7. \A p \in Pairs : pairs[p].family # 0 /\ pairs'[p].access => pairs'[p].refresh = "live"
  BY <1>3 DEF GrantInv, AccessFollowsRefresh
<1>8. ASSUME NEW f, f = x.family, x.clean
      PROVE  /\ f \in Codes /\ codes[f].consumed
             /\ LiveIn(f)' = {}
             /\ \A q \in Requests : req'[q].stage = "issuing" => req'[q].family # f
  <2>1. f \in Codes /\ f # 0 /\ codes[f].consumed
        /\ LiveIn(f) \subseteq x.found
    BY <1>1, <1>8, RowTypes DEF Revoking
  <2>2. ASSUME NEW p \in Pairs', pairs'[p].family = f, pairs'[p].refresh = "live"
        PROVE  FALSE
    <3>1. p \notin x.found /\ p \in Pairs /\ pairs'[p] = pairs[p]
      BY <2>2, <1>3
    <3>2. p \in LiveIn(f)
      BY <3>1, <2>2 DEF LiveIn, Family
    <3>3. QED BY <3>1, <3>2, <2>1
  <2>3. \A q \in Requests \ {r} : req[q].family # f
    BY <2>1, <1>8 DEF GrantInv, CleanInv
  <2>4. \A q \in Requests : req'[q].stage = "issuing" => req'[q].family # f
    BY <2>3, <1>4
  <2>5. {p \in Pairs' : pairs'[p].family = f /\ pairs'[p].refresh = "live"} = {}
    BY <2>2
  <2>6. {p \in {p \in Pairs' : pairs'[p].family = f} : pairs'[p].refresh = "live"} = {}
    BY <2>5
  <2>7. QED BY <2>1, <2>4, <2>6 DEF LiveIn, Family
<1>9. Settle
  <2>1. ~raced' => ~raced /\ epoch <= epoch'
    BY <1>2, RowTypes DEF signin
  <2>2. \A q \in Requests :
          \/ req'[q] = req[q] /\ Kept(q)
          \/ Quiet(req'[q]) /\ req'[q].stage = "idle"
    BY <1>4, <1>6
  <2>3. ASSUME NEW f \in ended', f \notin ended
        PROVE  /\ f \in Codes /\ codes[f].consumed
               /\ LiveIn(f)' = {}
               /\ \A q \in Requests : req'[q].stage = "issuing" => req'[q].family # f
    BY <2>3, <1>2, <1>8
  <2> HIDE DEF x
  <2>4. QED BY <2>1, <2>2, <2>3, <1>3, <1>4, <1>5, <1>7 DEF Settle
<1>10. TypeOK'
  BY <1>1, <1>2, <1>3, <1>4 DEF TypeOK, signin, Revoking
<1>11. QED BY <1>9, <1>10, SettlePreserves

-----------------------------------------------------------------------------
\* What touches neither a code nor a pair: rollbacks, the stale clients, a
\* sign-out, the browser up to a decision, the clock.
LEMMA SameRowsPreserve ==
    ASSUME TypeOK, GrantInv,
           \/ UNCHANGED vars
           \/ \E r \in Requests : \/ PruneStaleClients(r) \/ CountClients(r)
                                  \/ AuthLogout(r) \/ BumpSessionEpoch(r) \/ Rollback(r)
           \/ \E k \in Clients : OauthAuthorize(k) \/ Age(k)
           \/ AuthCallback \/ Deny \/ Deauthorize \/ Tick
    PROVE  TypeOK' /\ GrantInv'
<1> DEFINE Turns(r, x) ==
              /\ x.code = 0 /\ x.old = 0 /\ x.family = 0
              /\ x.stage \in {"idle", "pruning", "leaving", "registering"}
              /\ x.stage = "registering" => /\ x.client \in Clients
                                            /\ \A k \in x.victims : ~HeldFor(k)
<1>1. ASSUME NEW r \in Requests, NEW x \in Request, Turns(r, x),
             req' = [req EXCEPT ![r] = x], UNCHANGED <<codes, pairs, ended>>,
             ~raced' => ~raced /\ epoch <= epoch'
      PROVE  Settle
  <2>1. /\ req' \in [Requests -> Request] /\ req'[r] = x
        /\ \A q \in Requests \ {r} : req'[q] = req[q]
    BY <1>1 DEF TypeOK
  <2>2. Quiet(x)
    BY <1>1 DEF Quiet
  <2>3. \A q \in Requests :
            \/ req'[q] = req[q]
            \/ /\ Quiet(req'[q])
               /\ req'[q].stage = "registering" =>
                     /\ req'[q].client \in Clients
                     /\ \A k \in req'[q].victims : ~HeldFor(k)
    BY <2>1, <2>2, <1>1
  <2>4. QED BY <2>1, <2>3, <1>1, SettleSame
<1>2. ASSUME UNCHANGED <<codes, pairs, ended, req, epoch, raced>>
      PROVE  Settle
  BY <1>2, SettleSame, RowTypes DEF TypeOK
<1> HIDE DEF Turns
<1>3. ASSUME Settle, TypeOK' PROVE TypeOK' /\ GrantInv'
  BY <1>3, SettlePreserves
<1> USE DEF rows, signin
<1>4. CASE UNCHANGED vars
  <2>1. TypeOK'
    BY <1>4 DEF vars, TypeOK, Codes
  <2>2. QED BY <1>4, <2>1, <1>2, <1>3 DEF vars
<1>5. ASSUME NEW r \in Requests, NEW x \in Request, Turns(r, x),
             req' = [req EXCEPT ![r] = x], UNCHANGED <<now, rows, signin, ended>>
      PROVE  TypeOK' /\ GrantInv'
  <2>0. /\ ~raced' => ~raced /\ epoch <= epoch'
        /\ UNCHANGED <<codes, pairs, ended>>
    BY <1>5, RowTypes
  <2>1. Settle
    BY <1>5, <2>0, <1>1
  <2>2. TypeOK'
    BY <1>5, <2>1 DEF TypeOK, Settle, Codes
  <2>3. QED BY <2>1, <2>2, <1>3
<1>6. ASSUME NEW r \in Requests, PruneStaleClients(r) PROVE TypeOK' /\ GrantInv'
  <2> DEFINE x == [Idle EXCEPT !.stage = "pruning",
                      !.victims = {k \in aged : k \notin consents /\ ~OwnsTokens(k)}]
  <2>1. x \in Request /\ Turns(r, x)
    BY DEF Idle, Request, TypeOK, Turns, NoPair, PairRow
  <2>2. QED BY <1>5, <1>6, <2>1 DEF PruneStaleClients
<1>7. ASSUME NEW r \in Requests, CountClients(r) PROVE TypeOK' /\ GrantInv'
  <2> DEFINE victims == req[r].victims \cap registered
  <2>1. CASE Finish(r)
    <3>1. Idle \in Request /\ Turns(r, Idle)
      BY PairTypes DEF Idle, Turns
    <3>2. QED BY <1>5, <1>7, <2>1, <3>1 DEF CountClients, Finish
  <2>2. ASSUME NEW k \in Clients,
               req' = [req EXCEPT ![r] = [Idle EXCEPT !.stage = "registering",
                                            !.victims = victims, !.client = k]]
        PROVE  TypeOK' /\ GrantInv'
    <3> DEFINE x == [Idle EXCEPT !.stage = "registering", !.victims = victims, !.client = k]
    <3>1. x \in Request /\ x.stage = "registering" /\ x.client = k /\ x.victims = victims
          /\ x.code = 0 /\ x.old = 0 /\ x.family = 0
      BY DEF Idle, Request, TypeOK, NoPair, PairRow
    <3>2. \A v \in victims : ~HeldFor(v)
      BY <1>7 DEF CountClients
    <3> HIDE DEF x
    <3>3. Turns(r, x)
      BY <3>1, <3>2 DEF Turns
    <3>4. req' = [req EXCEPT ![r] = x]
      BY <2>2 DEF x
    <3>5. UNCHANGED <<now, rows, signin, ended>>
      BY <1>7 DEF CountClients
    <3>6. QED BY <1>5, <3>1, <3>3, <3>4, <3>5
  <2>3. QED BY <1>7, <2>1, <2>2 DEF CountClients
<1>8. ASSUME NEW r \in Requests, AuthLogout(r) PROVE TypeOK' /\ GrantInv'
  <2> DEFINE x == [Idle EXCEPT !.stage = "leaving", !.seen = epoch]
  <2>1. x \in Request /\ Turns(r, x)
    BY DEF Idle, Request, TypeOK, Turns, NoPair, PairRow
  <2>2. QED BY <1>5, <1>8, <2>1 DEF AuthLogout
<1>9. ASSUME NEW r \in Requests, BumpSessionEpoch(r) PROVE TypeOK' /\ GrantInv'
  <2>1. req[r].seen \in Nat /\ epoch \in Nat /\ raced \in BOOLEAN
    BY DEF TypeOK, Request
  <2>2. ~raced' => ~raced /\ epoch <= epoch'
    <3>1. epoch' = req[r].seen + 1 /\ raced' = (raced \/ epoch # req[r].seen)
      BY <1>9 DEF BumpSessionEpoch
    <3>2. ~raced' => ~raced /\ epoch = req[r].seen
      BY <3>1, Zenon
    <3>3. QED BY <3>1, <3>2, <2>1
  <2>3. Idle \in Request /\ Turns(r, Idle)
    BY PairTypes DEF Idle, Turns
  <2>4. Settle
    BY <1>1, <1>9, <2>2, <2>3 DEF BumpSessionEpoch, Finish
  <2>5. TypeOK'
    BY <1>9, <2>1, <2>4 DEF BumpSessionEpoch, TypeOK, Settle, Codes
  <2>6. QED BY <2>4, <2>5, <1>3
<1>10. ASSUME NEW r \in Requests, Rollback(r) PROVE TypeOK' /\ GrantInv'
  <2>1. Idle \in Request /\ Turns(r, Idle)
    BY PairTypes DEF Idle, Turns
  <2>2. QED BY <1>5, <1>10, <2>1 DEF Rollback, Finish
<1>11. ASSUME NEW k \in Clients, OauthAuthorize(k) PROVE TypeOK' /\ GrantInv'
  BY <1>11, <1>2, <1>3 DEF OauthAuthorize, TypeOK, Codes
<1>12. ASSUME NEW k \in Clients, Age(k) PROVE TypeOK' /\ GrantInv'
  BY <1>12, <1>2, <1>3 DEF Age, TypeOK, Codes
<1>13. CASE AuthCallback
  BY <1>13, <1>2, <1>3 DEF AuthCallback, IssueCookie, TypeOK, Codes
<1>14. CASE Deny
  BY <1>14, <1>2, <1>3 DEF Deny, ClearPendingCookie, TypeOK, Codes
<1>15. CASE Deauthorize
  BY <1>15, <1>2, <1>3 DEF Deauthorize, TypeOK, Codes
<1>16. CASE Tick
  BY <1>16, <1>2, <1>3 DEF Tick, TypeOK, Codes
<1>17. QED BY <1>4, <1>6, <1>7, <1>8, <1>9, <1>10, <1>11, <1>12, <1>13, <1>14, <1>15, <1>16

\* A deletion takes the rows of its clients, which nobody holds.
LEMMA CascadePreserves ==
    ASSUME TypeOK, GrantInv, TypeOK', NEW S \in SUBSET Clients, Cascade(S),
           \A k \in S : ~HeldFor(k),
           req' \in [Requests -> Request],
           \A q \in Requests : req'[q] = req[q] \/ (Quiet(req'[q]) /\ req'[q].stage = "idle"),
           UNCHANGED <<now, signin, ended>>
    PROVE  GrantInv'
<1>1. /\ Codes' = Codes /\ Pairs' = Pairs
      /\ \A c \in Codes : /\ codes'[c].client = codes[c].client
                          /\ codes'[c].consumed = codes[c].consumed
                          /\ codes'[c].gone = (codes[c].gone \/ codes[c].client \in S)
      /\ \A p \in Pairs :
            /\ pairs'[p].family = pairs[p].family /\ pairs'[p].from = pairs[p].from
            /\ pairs'[p].epoch = pairs[p].epoch
            /\ IF ClientOf(p) \in S THEN pairs'[p].refresh = "none" /\ ~pairs'[p].access
               ELSE pairs'[p] = pairs[p]
  BY CascadeTypes
<1>2. \A p \in Pairs : pairs[p].family = 0 => ClientOf(p) \notin S
  BY OAuthAssumption DEF ClientOf
<1>3. Grow
  BY <1>1, <1>2 DEF Grow
<1>4. ASSUME NEW q \in Requests PROVE Kept(q)
  <2>1. req[q].stage = "issuing" => Issuing(q)
    BY DEF GrantInv, RequestInv
  <2>2. ASSUME NEW p \in Pairs, p = req[q].old PROVE ClientOf(p) \notin S
    BY <2>2 DEF HeldFor, PairLocked
  <2>3. ASSUME NEW c \in Codes, c = req[q].code
        PROVE  codes'[c].consumed = codes[c].consumed /\ codes'[c].gone = codes[c].gone
    <3>1. codes[c].client \notin S
      BY <2>3 DEF HeldFor, CodeLocked
    <3>2. codes[c].gone \in BOOLEAN /\ codes'[c].gone = (codes[c].gone \/ codes[c].client \in S)
      BY <1>1, RowTypes DEF CodeRow
    <3>3. QED BY <3>1, <3>2, <1>1
  <2>4. QED BY <2>1, <2>2, <2>3, <1>1 DEF Kept, Issuing
<1>5. \A p \in Pairs : pairs[p].family # 0 /\ pairs'[p].access => pairs'[p].refresh = "live"
  BY <1>1 DEF GrantInv, AccessFollowsRefresh
<1>6. Settle
  <2>1. ~raced' => ~raced /\ epoch <= epoch'
    BY RowTypes DEF signin
  <2>2. QED BY <2>1, <1>1, <1>3, <1>4, <1>5 DEF Settle
<1>7. QED BY <1>6, SettlePreserves

\* Both ways to delete a client.
LEMMA ClientsPreserve ==
    ASSUME TypeOK, GrantInv,
           \/ \E r \in Requests : RegisterClient(r)
           \/ \E k \in Clients : DeleteClient(k)
    PROVE  TypeOK' /\ GrantInv'
<1>1. ASSUME NEW r \in Requests, RegisterClient(r) PROVE TypeOK' /\ GrantInv'
  <2>1. Registering(r) /\ req[r].victims \subseteq Clients
    BY <1>1 DEF RegisterClient, GrantInv, RequestInv, TypeOK, Request
  <2>2. /\ req' \in [Requests -> Request]
        /\ \A q \in Requests : req'[q] = req[q] \/ (Quiet(req'[q]) /\ req'[q].stage = "idle")
    BY <1>1, FinishEffect DEF RegisterClient
  <2>3. /\ codes' \in Seq(CodeRow) /\ Codes' = Codes /\ pairs' \in Seq(PairRow)
        /\ aged' = aged \ req[r].victims /\ consents' = consents \ req[r].victims
    BY <1>1, CascadeTypes DEF RegisterClient
  <2>4. TypeOK'
    BY <1>1, <2>1, <2>2, <2>3 DEF RegisterClient, Registering, TypeOK, signin
  <2>5. QED BY <1>1, <2>1, <2>2, <2>4, CascadePreserves DEF RegisterClient, Registering
<1>2. ASSUME NEW k \in Clients, DeleteClient(k) PROVE TypeOK' /\ GrantInv'
  <2>1. /\ codes' \in Seq(CodeRow) /\ Codes' = Codes /\ pairs' \in Seq(PairRow)
        /\ aged' = aged \ {k} /\ consents' = consents \ {k}
    BY <1>2, CascadeTypes DEF DeleteClient
  <2>2. req' \in [Requests -> Request] /\ \A q \in Requests : req'[q] = req[q]
    BY <1>2 DEF DeleteClient, TypeOK
  <2>3. TypeOK'
    BY <1>2, <2>1, <2>2 DEF DeleteClient, TypeOK, signin
  <2>4. QED BY <1>2, <2>2, <2>3, CascadePreserves DEF DeleteClient
<1>3. QED BY <1>1, <1>2

\* One access token is revoked.
LEMMA AccessEffect ==
    ASSUME TypeOK, NEW p \in Pairs, pairs' = [pairs EXCEPT ![p].access = FALSE],
           UNCHANGED codes
    PROVE  /\ Pairs' = Pairs /\ Codes' = Codes /\ pairs' \in Seq(PairRow)
           /\ \A q \in Pairs : /\ pairs'[q].family = pairs[q].family
                               /\ pairs'[q].from = pairs[q].from
                               /\ pairs'[q].epoch = pairs[q].epoch
                               /\ pairs'[q].refresh = pairs[q].refresh
                               /\ pairs'[q].access <=> pairs[q].access /\ q # p
<1>1. /\ Pairs' = Pairs /\ Codes' = Codes /\ pairs' \in Seq(PairRow)
      /\ \A q \in Pairs : /\ pairs'[q].family = pairs[q].family
                          /\ pairs'[q].from = pairs[q].from
                          /\ pairs'[q].epoch = pairs[q].epoch
                          /\ pairs'[q].refresh = pairs[q].refresh
                          /\ pairs'[q].access <=> pairs[q].access /\ q # p
  <2>0. pairs \in Seq(PairRow) /\ \A q \in Pairs : pairs[q] \in PairRow
    BY RowTypes DEF TypeOK
  <2>1. /\ pairs \in Seq(PairRow)
        /\ \A q \in Pairs : pairs[q] \in PairRow
                            /\ [pairs[q] EXCEPT !.access = FALSE] \in PairRow
    BY <2>0 DEF PairRow
  <2>2. DOMAIN pairs' = DOMAIN pairs
    OBVIOUS
  <2>3. \A q \in Pairs : pairs'[q] = IF q = p THEN [pairs[q] EXCEPT !.access = FALSE]
                                     ELSE pairs[q]
    BY DEF Pairs
  <2>4. pairs' = [q \in DOMAIN pairs |-> pairs'[q]]
    OBVIOUS
  <2>5. pairs' \in [DOMAIN pairs -> PairRow]
    BY <2>1, <2>3, <2>4 DEF Pairs
  <2>6. pairs' \in Seq(PairRow)
    BY <2>1, <2>5, Rewritten
  <2>7. QED BY <2>1, <2>2, <2>3, <2>6 DEF Pairs, Codes, PairRow
<1>2. QED BY <1>1

LEMMA AccessPreserves ==
    ASSUME TypeOK, GrantInv, NEW p \in Pairs,
           pairs' = [pairs EXCEPT ![p].access = FALSE],
           UNCHANGED <<now, registered, aged, consents, codes, signin, req, ended>>
    PROVE  TypeOK' /\ GrantInv'
<1>1. /\ Pairs' = Pairs /\ Codes' = Codes /\ pairs' \in Seq(PairRow)
      /\ \A q \in Pairs : /\ pairs'[q].family = pairs[q].family
                          /\ pairs'[q].from = pairs[q].from
                          /\ pairs'[q].epoch = pairs[q].epoch
                          /\ pairs'[q].refresh = pairs[q].refresh
                          /\ pairs'[q].access => pairs[q].access
  BY AccessEffect
<1>2. Grow
  BY <1>1 DEF Grow
<1>3. \A q \in Requests : Kept(q)
  BY <1>1 DEF Kept, GrantInv, RequestInv, Issuing
<1>4. \A q \in Pairs : pairs[q].family # 0 /\ pairs'[q].access => pairs'[q].refresh = "live"
  BY <1>1 DEF GrantInv, AccessFollowsRefresh
<1>5. TypeOK'
  BY <1>1 DEF TypeOK, signin
<1>6. Settle
  <2>1. ~raced' => ~raced /\ epoch <= epoch'
    BY RowTypes DEF signin
  <2>2. QED BY <2>1, <1>1, <1>2, <1>3, <1>4 DEF Settle, TypeOK
<1>7. QED BY <1>5, <1>6, SettlePreserves

\* A code is added: nobody holds it and no pair comes from it.
LEMMA CodeAddedPreserves ==
    ASSUME TypeOK, GrantInv, TypeOK', NEW k \in Clients, IssueAuthorizationCode(k),
           UNCHANGED <<pairs, epoch, raced, req, ended>>
    PROVE  GrantInv'
<1> DEFINE x == [client |-> k, consumed |-> FALSE, gone |-> FALSE]
<1>1. codes \in Seq(CodeRow) /\ x \in CodeRow
  BY DEF TypeOK, CodeRow
<1>2. /\ DOMAIN Append(codes, x) = DOMAIN codes \cup {Len(codes) + 1}
      /\ \A i \in DOMAIN codes : Append(codes, x)[i] = codes[i]
  BY <1>1, Appended
<1>3. Codes \subseteq Codes' /\ Pairs' = Pairs /\ \A c \in Codes : codes'[c] = codes[c]
  BY <1>2 DEF IssueAuthorizationCode, Codes, Pairs
<1>4. Grow
  BY <1>3 DEF Grow
<1>5. \A q \in Requests : Kept(q)
  BY <1>3 DEF Kept, GrantInv, RequestInv, Issuing
<1>6. \A p \in Pairs : pairs[p].family # 0 /\ pairs'[p].access => pairs'[p].refresh = "live"
  BY DEF GrantInv, AccessFollowsRefresh
<1>7. Settle
  <2>1. ~raced' => ~raced /\ epoch <= epoch'
    BY RowTypes
  <2>2. QED BY <2>1, <1>3, <1>4, <1>5, <1>6 DEF Settle, TypeOK
<1>8. QED BY <1>7, SettlePreserves

\* The browser's decision, and the answer to a client that has a consent.
LEMMA DecisionPreserves ==
    ASSUME TypeOK, GrantInv, OauthAuthorizeContinue \/ Approve
    PROVE  TypeOK' /\ GrantInv'
<1>1. ASSUME NEW k \in Clients, IssueAuthorizationCode(k)
      PROVE  codes' \in Seq(CodeRow) /\ Codes \subseteq Codes'
  <2> DEFINE x == [client |-> k, consumed |-> FALSE, gone |-> FALSE]
  <2>1. codes \in Seq(CodeRow) /\ x \in CodeRow
    BY DEF TypeOK, CodeRow
  <2>2. Append(codes, x) \in Seq(CodeRow)
        /\ DOMAIN Append(codes, x) = DOMAIN codes \cup {Len(codes) + 1}
    BY <2>1, Appended
  <2>3. QED BY <1>1, <2>2 DEF IssueAuthorizationCode, Codes
<1>2. CASE OauthAuthorizeContinue
  <2>1. CASE FindActiveConsent /\ IssueCodeAndRedirect
    <3>1. pending \in Clients /\ IssueAuthorizationCode(pending)
      BY <2>1 DEF FindActiveConsent, IssueCodeAndRedirect, TypeOK
    <3>2. codes' \in Seq(CodeRow) /\ Codes \subseteq Codes'
      BY <3>1, <1>1
    <3>3. TypeOK'
      BY <1>2, <2>1, <3>2 DEF OauthAuthorizeContinue, IssueCodeAndRedirect,
                              ClearPendingCookie, TypeOK
    <3>4. QED BY <1>2, <3>1, <3>3, CodeAddedPreserves DEF OauthAuthorizeContinue
  <2>2. CASE page' = TRUE /\ UNCHANGED <<codes, pending>>
    <3>1. TypeOK'
      BY <1>2, <2>2 DEF OauthAuthorizeContinue, TypeOK, Codes
    <3>2. Settle
      BY <1>2, <2>2, SettleSame, RowTypes DEF OauthAuthorizeContinue, TypeOK
    <3>3. QED BY <3>1, <3>2, SettlePreserves
  <2>3. QED BY <1>2, <2>1, <2>2 DEF OauthAuthorizeContinue
<1>3. CASE Approve
  <2>1. pending \in Clients /\ IssueAuthorizationCode(pending)
    BY <1>3 DEF Approve, IssueCodeAndRedirect, TypeOK
  <2>2. codes' \in Seq(CodeRow) /\ Codes \subseteq Codes'
    BY <2>1, <1>1
  <2>3. TypeOK'
    BY <1>3, <2>2 DEF Approve, IssueCodeAndRedirect, RecordConsent, ClearPendingCookie, TypeOK
  <2>4. QED BY <1>3, <2>1, <2>3, CodeAddedPreserves DEF Approve
<1>4. QED BY <1>2, <1>3

\* The script adds a token without a family.
LEMMA MintPreserves ==
    ASSUME TypeOK, GrantInv, Mint
    PROVE  TypeOK' /\ GrantInv'
<1> DEFINE x == [NoPair EXCEPT !.access = TRUE, !.epoch = epoch]
<1>1. pairs \in Seq(PairRow) /\ x \in PairRow
      /\ x.family = 0 /\ x.from = 0 /\ x.refresh = "none" /\ x.epoch = epoch
  BY RowTypes DEF TypeOK, PairRow, NoPair
<1> HIDE DEF x
<1>2. /\ Append(pairs, x) \in Seq(PairRow)
      /\ DOMAIN Append(pairs, x) = DOMAIN pairs \cup {Len(pairs) + 1}
      /\ Len(pairs) + 1 \notin DOMAIN pairs
      /\ \A i \in DOMAIN pairs : Append(pairs, x)[i] = pairs[i]
      /\ Append(pairs, x)[Len(pairs) + 1] = x
  BY <1>1, Appended
<1>3. pairs' = Append(pairs, x)
      /\ UNCHANGED <<now, registered, aged, consents, codes, signin, req, ended>>
  BY DEF Mint, x
<1>4. /\ pairs' \in Seq(PairRow) /\ Pairs \subseteq Pairs' /\ Codes' = Codes
      /\ \A p \in Pairs : pairs'[p] = pairs[p]
      /\ \A p \in Pairs' \ Pairs : pairs'[p] = x
  BY <1>2, <1>3 DEF Pairs, Codes
<1>5. Grow
  BY <1>3, <1>4 DEF Grow
<1>6. \A q \in Requests : Kept(q)
  BY <1>3, <1>4 DEF Kept, GrantInv, RequestInv, Issuing
<1>7. \A p \in Pairs : pairs[p].family # 0 /\ pairs'[p].access => pairs'[p].refresh = "live"
  BY <1>4 DEF GrantInv, AccessFollowsRefresh
<1>8. ~raced' => ~raced /\ epoch <= epoch'
  BY <1>3, RowTypes DEF signin
<1>9. \A p \in Pairs' \ Pairs : NewPair(p)
  <2>1. epoch <= epoch' /\ epoch' = epoch
    BY <1>3, RowTypes DEF signin
  <2>2. QED BY <2>1, <1>1, <1>4 DEF NewPair, LinkedPair
<1>10. Settle
  BY <1>3, <1>5, <1>6, <1>7, <1>8, <1>9 DEF Settle, TypeOK
<1>11. TypeOK'
  BY <1>3, <1>4 DEF TypeOK, signin
<1>12. QED BY <1>10, <1>11, SettlePreserves

-----------------------------------------------------------------------------
\* Every step keeps the types and the invariant.
LEMMA GrantSteps ==
    TypeOK /\ GrantInv /\ [Next]_vars => TypeOK' /\ GrantInv'
<1> SUFFICES ASSUME TypeOK, GrantInv, [Next]_vars PROVE TypeOK' /\ GrantInv'
  OBVIOUS
<1>1. ASSUME NEW r \in Requests, TokenRequest(r) PROVE TypeOK' /\ GrantInv'
  <2>1. PICK k \in Clients :
            \/ \E c \in Codes : RedeemAuthorizationCode(r, c, k)
            \/ \E p \in Pairs : \/ RotateRefreshToken(r, p, k)
                                \/ RevokeToken(r, p, k) \/ RevokeAccess(r, p, k)
    BY <1>1 DEF TokenRequest
  <2>2. ASSUME NEW p \in Pairs, RevokeAccess(r, p, k) PROVE TypeOK' /\ GrantInv'
    BY <2>2, AccessPreserves DEF RevokeAccess
  <2>3. QED BY <2>1, <2>2, TokenRequestPreserves
<1>2. ASSUME NEW r \in Requests, CommitIssue(r) PROVE TypeOK' /\ GrantInv'
  BY <1>2, CommitIssuePreserves
<1>3. ASSUME NEW r \in Requests, CommitRevocation(r) PROVE TypeOK' /\ GrantInv'
  BY <1>3, CommitRevocationPreserves
<1>4. ASSUME NEW r \in Requests, RegisterClient(r) PROVE TypeOK' /\ GrantInv'
  BY <1>4, ClientsPreserve
<1>5. ASSUME NEW k \in Clients, DeleteClient(k) PROVE TypeOK' /\ GrantInv'
  BY <1>5, ClientsPreserve
<1>6. ASSUME NEW p \in Pairs, RevokeMinted(p) PROVE TypeOK' /\ GrantInv'
  BY <1>6, AccessPreserves DEF RevokeMinted
<1>7. CASE OauthAuthorizeContinue \/ Approve
  BY <1>7, DecisionPreserves
<1>8. CASE Mint
  BY <1>8, MintPreserves
<1>9. CASE \/ UNCHANGED vars
           \/ \E r \in Requests : \/ PruneStaleClients(r) \/ CountClients(r)
                                  \/ AuthLogout(r) \/ BumpSessionEpoch(r) \/ Rollback(r)
           \/ \E k \in Clients : OauthAuthorize(k) \/ Age(k)
           \/ AuthCallback \/ Deny \/ Deauthorize \/ Tick
  BY <1>9, SameRowsPreserve
<1>10. QED BY <1>1, <1>2, <1>3, <1>4, <1>5, <1>6, <1>7, <1>8, <1>9 DEF Next

\* The empty database.
LEMMA GrantInit == Init => TypeOK /\ GrantInv
<1> SUFFICES ASSUME Init PROVE TypeOK /\ GrantInv
  OBVIOUS
<1>1. /\ codes = <<>> /\ pairs = <<>> /\ DOMAIN codes = {} /\ DOMAIN pairs = {}
      /\ ended = {} /\ req = [r \in Requests |-> Idle]
  BY DEF Init
<1>2. TypeOK
  <2>1. codes \in Seq(CodeRow) /\ pairs \in Seq(PairRow)
    BY <1>1, EmptySeq
  <2>2. req \in [Requests -> Request]
    BY <1>1, PairTypes
  <2>3. /\ {now, epoch} \subseteq Nat
        /\ authorized = TRUE /\ page = FALSE /\ raced = FALSE
        /\ registered = {} /\ aged = {} /\ consents = {} /\ cookies = {}
        /\ pending = NoClient
    BY DEF Init
  <2>4. {authorized, page, raced} \subseteq BOOLEAN
    BY <2>3
  <2>5. QED BY <1>1, <2>1, <2>2, <2>3, <2>4 DEF TypeOK
<1>3. \A r \in Requests : req[r].code = 0 /\ req[r].old = 0 /\ req[r].family = 0
                          /\ req[r].stage = "idle"
  BY <1>1 DEF Idle
<1>4. GrantInv
  BY <1>1, <1>3 DEF GrantInv, LocksInv, LinksInv, AccessFollowsRefresh, RequestInv, CleanInv,
                    EndedInv, EpochInv, Codes, Pairs
<1>5. QED BY <1>2, <1>4

\* Every variable of the OAuth server stays in its range: what a request holds
\* and what is written for it are rows of the right kind.
THEOREM GrantTypes == Spec => []TypeOK
<1>1. TypeOK /\ GrantInv => TypeOK
  OBVIOUS
<1>2. QED BY GrantInit, GrantSteps, <1>1, PTL DEF Spec

\* The row locks, the links between the pairs, the work on its way and the
\* families that have ended agree at all times.
THEOREM GrantSafety == Spec => []GrantInv
<1>1. TypeOK /\ GrantInv => GrantInv
  OBVIOUS
<1>2. QED BY GrantInit, GrantSteps, <1>1, PTL DEF Spec

\* A code is redeemed once and a refresh token rotated once, whatever the
\* workers do at the same time: the pairs of a family are one chain.
THEOREM OneChain == Spec => []GrantIsChain
<1>1. TypeOK /\ GrantInv => GrantIsChain
  BY RowTypes DEF GrantInv, LinksInv, LinkedPair, GrantIsChain
<1>2. QED BY GrantInit, GrantSteps, <1>1, PTL DEF Spec

\* An access token issued with a refresh token is gone when that is: rotation,
\* revocation and the deletion of the client take both.
THEOREM AccessEndsWithRefresh == Spec => []AccessFollowsRefresh
<1>1. TypeOK /\ GrantInv => AccessFollowsRefresh
  BY DEF GrantInv
<1>2. QED BY GrantInit, GrantSteps, <1>1, PTL DEF Spec

\* A family revoked while nothing else worked on it has no live token ever after.
THEOREM RevokedForGood == Spec => []RevocationLasts
<1>1. TypeOK /\ GrantInv => RevocationLasts
  <2> SUFFICES ASSUME TypeOK, GrantInv, NEW f \in ended, NEW p \in Family(f)
               PROVE  pairs[p].refresh # "live" /\ ~pairs[p].access
    BY DEF RevocationLasts
  <2>1. p \notin LiveIn(f) /\ f # 0
    BY RowTypes DEF GrantInv, EndedInv, TypeOK
  <2>2. p \in Pairs /\ pairs[p].family = f
    BY DEF Family
  <2>3. QED BY <2>1, <2>2 DEF LiveIn, GrantInv, AccessFollowsRefresh
<1>2. QED BY GrantInit, GrantSteps, <1>1, PTL DEF Spec

\* A sign-out ends every access token there is, those of the script included,
\* unless sign-outs wrote over each other.
THEOREM SignOutIsTotal == Spec => SignOutEndsTokens
<1>1. TypeOK /\ GrantInv /\ [Next]_vars =>
          [\A r \in Requests : BumpSessionEpoch(r) /\ ~raced' =>
               \A p \in DOMAIN pairs' : ~Accepted(p)']_vars
  <2> SUFFICES ASSUME TypeOK, GrantInv, NEW r \in Requests, BumpSessionEpoch(r), ~raced',
                      NEW p \in DOMAIN pairs'
               PROVE  ~Accepted(p)'
    OBVIOUS
  <2>1. /\ epoch' = req[r].seen + 1 /\ raced' = (raced \/ epoch # req[r].seen)
        /\ pairs' = pairs
    BY DEF BumpSessionEpoch, rows
  <2>2. ~raced /\ epoch = req[r].seen
    BY <2>1, Zenon
  <2>3. p \in Pairs /\ pairs[p].epoch \in Nat /\ epoch \in Nat
    BY <2>1, RowTypes DEF Pairs, PairRow
  <2>4. pairs[p].epoch <= epoch
    BY <2>2, <2>3 DEF GrantInv, EpochInv
  <2>5. pairs'[p].epoch # epoch'
    BY <2>1, <2>2, <2>3, <2>4
  <2>6. QED BY <2>5 DEF Accepted
<1>2. QED BY GrantInit, GrantSteps, <1>1, PTL DEF Spec, SignOutEndsTokens
-----------------------------------------------------------------------------
\* What Grant sees of the approval c: Phase(c), Family(c), LiveIn(c), Bearers(c).
Phase(c) == IF c \notin Codes THEN "none"
            ELSE IF codes[c].consumed \/ codes[c].gone THEN "spent" ELSE "open"
Bearers(c) == {p \in Family(c) : pairs[p].access}

Same(c) == /\ Phase(c)' = Phase(c) /\ Family(c)' = Family(c)
           /\ LiveIn(c)' = LiveIn(c) /\ Bearers(c)' = Bearers(c)

\* A step that changes no approval.
LEMMA NoChange ==
    ASSUME \A c \in 1 .. MaxCodes : Same(c)
    PROVE  UNCHANGED Grants!vars
BY DEF Same, Phase, Bearers, Grants!vars

\* A step that gives one.
LEMMA Approval ==
    ASSUME NEW a \in 1 .. MaxCodes, Phase(a) = "none", Phase(a)' = "open",
           Family(a)' = Family(a), LiveIn(a)' = LiveIn(a), Bearers(a)' = Bearers(a),
           \A c \in (1 .. MaxCodes) \ {a} : Same(c)
    PROVE  Grants!Next
<1>1. Grants!Approve(a)
  BY DEF Same, Phase, Bearers, Grants!Approve
<1>2. QED BY <1>1 DEF Grants!Next

\* A step that issues a token on one that is open, or on one that has a live token.
LEMMA Issued ==
    ASSUME NEW a \in 1 .. MaxCodes, NEW t,
           Phase(a) = "open" \/ (Phase(a) = "spent" /\ LiveIn(a) # {}), Phase(a)' = "spent",
           t \notin Family(a), Family(a)' = Family(a) \cup {t},
           LiveIn(a)' = {t}, Bearers(a)' = {t},
           \A c \in (1 .. MaxCodes) \ {a} : Same(c)
    PROVE  Grants!Next
<1>1. Grants!Issue(a)
  <2>1. t \in Family(a)' \ Family(a)
    OBVIOUS
  <2>2. QED BY <2>1 DEF Same, Phase, Bearers, Grants!Issue
<1>2. CASE Phase(a) = "open"
  <2>1. Grants!Redeem(a)
    BY <1>1, <1>2 DEF Same, Phase, Bearers, Grants!Redeem
  <2>2. QED BY <2>1 DEF Grants!Next
<1>3. CASE Phase(a) = "spent" /\ LiveIn(a) # {}
  <2>1. Grants!Rotate(a)
    BY <1>1, <1>3 DEF Same, Phase, Bearers, Grants!Rotate
  <2>2. QED BY <2>1 DEF Grants!Next
<1>4. QED BY <1>2, <1>3

\* A step that takes the access tokens of one.
LEMMA Curbed ==
    ASSUME NEW a \in 1 .. MaxCodes, Bearers(a)' = {},
           Phase(a)' = Phase(a), Family(a)' = Family(a), LiveIn(a)' = LiveIn(a),
           \A c \in (1 .. MaxCodes) \ {a} : Same(c)
    PROVE  Grants!Next
<1>1. Grants!Curb(a)
  BY DEF Same, Phase, Bearers, Grants!Curb
<1>2. QED BY <1>1 DEF Grants!Next

\* A step that ends any number of them.
LEMMA EndOf ==
    ASSUME NEW S \in SUBSET (1 .. MaxCodes),
           \A c \in S : /\ Phase(c) # "none" /\ Phase(c)' = "spent" /\ Family(c)' = Family(c)
                        /\ LiveIn(c)' = {} /\ Bearers(c)' = {},
           \A c \in (1 .. MaxCodes) \ S : Same(c)
    PROVE  Grants!Next
<1>1. Grants!End(S)
  BY DEF Same, Phase, Bearers, Grants!End
<1>2. QED BY <1>1 DEF Grants!Next

\* The families of codes: their pairs come from codes that were consumed, one of
\* them at most is live, and only that one has an access token.
LEMMA FamilyFacts ==
    ASSUME TypeOK, GrantInv, NEW c \in 1 .. MaxCodes
    PROVE  /\ c \in Nat /\ c # 0
           /\ Family(c) # {} => c \in Codes /\ codes[c].consumed
           /\ LiveIn(c) \subseteq Family(c) /\ Bearers(c) \subseteq LiveIn(c)
           /\ \A p, q \in LiveIn(c) : p = q
<1>1. c \in Nat /\ c # 0
  BY OAuthAssumption
<1>2. QED BY <1>1 DEF Family, LiveIn, Bearers, GrantInv, LinksInv, LinkedPair,
                      AccessFollowsRefresh

\* The commit of an issue: the first pair of a code, the next of a token, or the
\* end of the grant if the owner is no longer allowed.
LEMMA IssueRefines ==
    ASSUME TypeOK, GrantInv, TypeOK', GrantInv', NEW r \in Requests, CommitIssue(r)
    PROVE  Grants!Next \/ UNCHANGED Grants!vars
<1> DEFINE x == req[r]
<1>0. PICK f : f = req[r].family
  OBVIOUS
<1>1. /\ Issuing(r) /\ x \in Request
      /\ Codes' = Codes /\ Pairs \subseteq Pairs'
      /\ \A c \in Codes : /\ codes'[c].consumed = (codes[c].consumed \/ c = x.code)
                          /\ codes'[c].gone = codes[c].gone
      /\ \A p \in Pairs : /\ pairs'[p].family = pairs[p].family
                          /\ p = x.old => pairs'[p].refresh = "revoked" /\ ~pairs'[p].access
                          /\ p # x.old => pairs'[p] = pairs[p]
      /\ x.new = NoPair => Pairs' = Pairs
      /\ x.new # NoPair => \E p \in Pairs' \ Pairs : Pairs' = Pairs \cup {p}
      /\ \A p \in Pairs' \ Pairs : pairs'[p] = x.new
  BY CommitIssueEffect
<1>2. /\ 0 \notin Codes /\ 0 \notin Pairs
      /\ \A c \in Codes : codes[c] \in CodeRow
      /\ \A p \in Pairs : LinkedPair(p)
  BY RowTypes DEF GrantInv, LinksInv
<1>3. f \in Codes /\ (x.new # NoPair => x.new.family = f /\ x.new.refresh = "live" /\ x.new.access)
  BY <1>0, <1>1, <1>2 DEF Issuing, LinkedPair
<1>4. x.old \in Pairs => pairs[x.old].family = f
  BY <1>0, <1>1, <1>2 DEF Issuing
<1>5. ASSUME NEW c \in (1 .. MaxCodes) \ {f} PROVE Same(c)
  <2>1. c # x.code
    BY <1>0, <1>1, <1>2, <1>5, OAuthAssumption DEF Issuing
  <2>2. Phase(c)' = Phase(c)
    BY <1>1, <1>2, <2>1 DEF Phase, CodeRow
  <2>3. Family(c)' = Family(c)
    BY <1>1, <1>3 DEF Family
  <2>4. \A p \in Family(c) : pairs'[p] = pairs[p]
    BY <1>1, <1>4 DEF Family
  <2>5. LiveIn(c)' = LiveIn(c) /\ Bearers(c)' = Bearers(c)
    BY <2>3, <2>4 DEF LiveIn, Bearers
  <2>6. QED BY <2>2, <2>3, <2>5 DEF Same
<1>6. CASE f \notin 1 .. MaxCodes
  BY <1>5, <1>6, NoChange
<1>7. CASE f \in 1 .. MaxCodes
  <2>0. f # 0
    BY <1>2, <1>3
  <2>1. Phase(f)' = "spent" /\ Phase(f) # "none"
    BY <1>0, <1>1, <1>2, <1>3 DEF Phase, Issuing, LinkedPair
  <2>2. \/ Phase(f) = "open" /\ Family(f) = {}
        \/ Phase(f) = "spent" /\ LiveIn(f) = {x.old}
    <3>1. CASE x.code # 0
      <4>1. f \in Codes /\ ~codes[f].consumed /\ ~codes[f].gone
        BY <1>0, <1>1, <3>1 DEF Issuing
      <4>2. Family(f) = {}
        BY <1>7, <4>1, FamilyFacts
      <4>3. QED BY <4>1, <4>2 DEF Phase
    <3>2. CASE x.code = 0
      <4>1. x.old \in LiveIn(f) /\ codes[f].consumed
        BY <1>0, <1>1, <1>2, <3>2, <2>0 DEF Issuing, LiveIn, Family, LinkedPair
      <4>2. LiveIn(f) = {x.old}
        BY <1>7, <4>1, FamilyFacts
      <4>3. QED BY <4>1, <4>2, <1>3 DEF Phase
    <3>3. QED BY <3>1, <3>2
  <2>3. \A p \in Family(f) : p \in Family(f)' /\ p \notin LiveIn(f)'
    <3>1. ASSUME NEW p \in Family(f) PROVE p \in Family(f)' /\ p \notin LiveIn(f)'
      <4>1. p \in Pairs /\ p \in Pairs' /\ pairs[p].family = f
        BY <1>1 DEF Family
      <4>2. CASE p = x.old
        BY <1>1, <4>1, <4>2 DEF Family, LiveIn
      <4>3. CASE p # x.old
        <5>1. p \notin LiveIn(f)
          BY <4>3, <2>2 DEF LiveIn
        <5>2. QED BY <5>1, <1>1, <4>1, <4>3 DEF Family, LiveIn
      <4>4. QED BY <4>2, <4>3
    <3>2. QED BY <3>1
  <2>4. LiveIn(f)' \subseteq Family(f)' /\ Bearers(f)' \subseteq LiveIn(f)'
    BY <1>7, <2>0 DEF LiveIn, Bearers, Family, GrantInv, AccessFollowsRefresh
  <2>5. CASE x.new = NoPair
    <3>1. Family(f)' = Family(f)
      BY <1>1, <2>5 DEF Family
    <3>2. LiveIn(f)' = {} /\ Bearers(f)' = {}
      BY <3>1, <2>3, <2>4
    <3> HIDE DEF x
    <3>3. QED BY <1>5, <1>7, <2>1, <3>1, <3>2, EndOf
  <2>6. CASE x.new # NoPair
    <3>1. PICK t \in Pairs' \ Pairs : Pairs' = Pairs \cup {t}
      BY <1>1, <2>6
    <3>2. pairs'[t].family = f /\ pairs'[t].refresh = "live" /\ pairs'[t].access
      BY <1>1, <1>3, <2>6, <3>1
    <3>3. t \notin Family(f)
      BY <3>1 DEF Family
    <3>4. Family(f)' = Family(f) \cup {t}
      BY <1>1, <3>1, <3>2 DEF Family
    <3>5. t \in LiveIn(f)' /\ t \in Bearers(f)'
      BY <3>2, <3>4 DEF LiveIn, Bearers
    <3>6. LiveIn(f)' = {t} /\ Bearers(f)' = {t}
      BY <3>4, <3>5, <2>3, <2>4
    <3>7. Phase(f) = "open" \/ (Phase(f) = "spent" /\ LiveIn(f) # {})
      BY <2>2
    <3> HIDE DEF x
    <3>8. QED BY <1>5, <1>7, <2>1, <3>3, <3>4, <3>6, <3>7, Issued
  <2>7. QED BY <2>5, <2>6
<1>8. QED BY <1>6, <1>7

\* The commit of a revocation ends the grant if the live token is among those it
\* found, and changes nothing if a rotation has replaced it.
LEMMA RevocationRefines ==
    ASSUME TypeOK, GrantInv, TypeOK', GrantInv', NEW r \in Requests, CommitRevocation(r)
    PROVE  Grants!Next \/ UNCHANGED Grants!vars
<1> DEFINE x == req[r]
<1>0. PICK f : f = req[r].family
  OBVIOUS
<1>1. /\ Pairs' = Pairs /\ Codes' = Codes /\ codes' = codes
      /\ \A p \in Pairs : /\ pairs'[p].family = pairs[p].family
                          /\ p \in x.found => pairs'[p].refresh = "revoked" /\ ~pairs'[p].access
                          /\ p \notin x.found => pairs'[p] = pairs[p]
  BY CommitRevocationEffect DEF CommitRevocation
<1>2. /\ f \in Codes /\ codes[f].consumed /\ x.found \subseteq Family(f)
  BY <1>0 DEF CommitRevocation, GrantInv, RequestInv, Revoking
<1>3. \A c : Phase(c)' = Phase(c) /\ Family(c)' = Family(c)
  BY <1>1 DEF Phase, Family
<1>4. ASSUME NEW c \in 1 .. MaxCodes, LiveIn(c) \cap x.found = {} PROVE Same(c)
  <2>1. \A p \in Family(c) : p \in x.found =>
            p \notin LiveIn(c) /\ p \notin Bearers(c) /\ p \notin LiveIn(c)' /\ p \notin Bearers(c)'
    BY <1>1, <1>3, <1>4, FamilyFacts DEF LiveIn, Bearers, Family
  <2>2. \A p \in Family(c) : p \notin x.found => pairs'[p] = pairs[p]
    BY <1>1 DEF Family
  <2>3. LiveIn(c)' = LiveIn(c)
    BY <2>1, <2>2, <1>3 DEF LiveIn
  <2>4. Bearers(c)' = Bearers(c)
    BY <2>1, <2>2, <1>3 DEF Bearers
  <2>5. QED BY <2>3, <2>4, <1>3 DEF Same
<1>5. \A c \in (1 .. MaxCodes) \ {f} : Same(c)
  <2>1. \A c \in (1 .. MaxCodes) \ {f} : LiveIn(c) \cap x.found = {}
    BY <1>2 DEF LiveIn, Family
  <2>2. QED BY <2>1, <1>4
<1>6. CASE f \notin 1 .. MaxCodes \/ LiveIn(f) \cap x.found = {}
  <2>1. \A c \in 1 .. MaxCodes : Same(c)
    BY <1>4, <1>5, <1>6
  <2>2. QED BY <2>1, NoChange
<1>7. CASE f \in 1 .. MaxCodes /\ LiveIn(f) \cap x.found # {}
  <2>1. LiveIn(f) \subseteq x.found
    BY <1>7, FamilyFacts
  <2>2. LiveIn(f)' = {}
    BY <1>1, <1>3, <2>1 DEF LiveIn, Family
  <2>3. Bearers(f)' = {}
    BY <1>1, <1>3, <1>7, <2>1, FamilyFacts DEF Bearers, Family
  <2>4. Phase(f) = "spent"
    BY <1>2 DEF Phase
  <2> HIDE DEF x
  <2>5. QED BY <1>3, <1>5, <1>7, <2>2, <2>3, <2>4, EndOf
<1>8. QED BY <1>6, <1>7

\* The deletion of clients ends all their grants.
LEMMA CascadeRefines ==
    ASSUME TypeOK, GrantInv, NEW S \in SUBSET Clients, Cascade(S)
    PROVE  Grants!Next \/ UNCHANGED Grants!vars
<1> DEFINE T == {c \in 1 .. MaxCodes : c \in Codes /\ codes[c].client \in S}
<1>1. /\ Codes' = Codes /\ Pairs' = Pairs
      /\ \A c \in Codes : /\ codes'[c].consumed = codes[c].consumed
                          /\ codes'[c].gone = (codes[c].gone \/ codes[c].client \in S)
      /\ \A p \in Pairs : /\ pairs'[p].family = pairs[p].family
                          /\ IF ClientOf(p) \in S
                             THEN pairs'[p].refresh = "none" /\ ~pairs'[p].access
                             ELSE pairs'[p] = pairs[p]
  BY CascadeTypes
<1>2. \A c \in Codes : codes[c] \in CodeRow
  BY RowTypes
<1>3. \A c : Family(c)' = Family(c)
  BY <1>1 DEF Family
<1>4. \A c \in 1 .. MaxCodes : \A p \in Family(c) :
          ClientOf(p) = codes[c].client /\ c \in Codes /\ p \in Pairs
  BY FamilyFacts DEF ClientOf, Family
<1>5. ASSUME NEW c \in T
      PROVE  /\ Phase(c) # "none" /\ Phase(c)' = "spent"
             /\ LiveIn(c)' = {} /\ Bearers(c)' = {}
  <2>1. Phase(c) # "none" /\ Phase(c)' = "spent"
    BY <1>1, <1>2 DEF Phase, CodeRow
  <2>2. \A p \in Family(c) : pairs'[p].refresh = "none" /\ ~pairs'[p].access
    BY <1>1, <1>4
  <2>3. QED BY <2>1, <2>2, <1>3 DEF LiveIn, Bearers
<1>6. ASSUME NEW c \in (1 .. MaxCodes) \ T PROVE Same(c)
  <2>1. c \in Codes => codes[c].client \notin S
    OBVIOUS
  <2>2. Phase(c)' = Phase(c)
    BY <1>1, <1>2, <2>1 DEF Phase, CodeRow
  <2>3. \A p \in Family(c) : pairs'[p] = pairs[p]
    BY <1>1, <1>4, <2>1
  <2>4. QED BY <1>3, <2>2, <2>3 DEF Same, LiveIn, Bearers
<1> HIDE DEF T
<1>7. T \in SUBSET (1 .. MaxCodes)
  BY DEF T
<1>8. QED BY <1>3, <1>5, <1>6, <1>7, EndOf

\* The revocation of one access token.
LEMMA AccessRefines ==
    ASSUME TypeOK, GrantInv, NEW p \in Pairs, UNCHANGED codes,
           pairs' = [pairs EXCEPT ![p].access = FALSE]
    PROVE  Grants!Next \/ UNCHANGED Grants!vars
<1>0. PICK f : f = pairs[p].family
  OBVIOUS
<1>1. /\ Pairs' = Pairs /\ Codes' = Codes
      /\ \A q \in Pairs : /\ pairs'[q].family = pairs[q].family
                          /\ pairs'[q].refresh = pairs[q].refresh
                          /\ pairs'[q].access <=> pairs[q].access /\ q # p
  BY AccessEffect
<1>2. \A c : Phase(c)' = Phase(c) /\ Family(c)' = Family(c) /\ LiveIn(c)' = LiveIn(c)
  BY <1>1 DEF Phase, Family, LiveIn
<1>3. \A c : Bearers(c)' = Bearers(c) \ {p}
  BY <1>1 DEF Bearers, Family
<1>4. ASSUME NEW c \in 1 .. MaxCodes, p \notin Bearers(c) PROVE Same(c)
  BY <1>2, <1>3, <1>4 DEF Same
<1>5. CASE f \in 1 .. MaxCodes /\ p \in Bearers(f)
  <2>1. Bearers(f) = {p}
    BY <1>5, FamilyFacts
  <2>2. \A c \in (1 .. MaxCodes) \ {f} : p \notin Bearers(c)
    BY <1>0, <1>5 DEF Bearers, Family
  <2>3. QED BY <1>2, <1>3, <1>4, <1>5, <2>1, <2>2, Curbed
<1>6. CASE ~(f \in 1 .. MaxCodes /\ p \in Bearers(f))
  <2>1. \A c \in 1 .. MaxCodes : p \notin Bearers(c)
    BY <1>0, <1>6 DEF Bearers, Family
  <2>2. QED BY <2>1, <1>4, NoChange
<1>7. QED BY <1>5, <1>6

\* A new code is an approval.
LEMMA CodeRefines ==
    ASSUME TypeOK, GrantInv, NEW k \in Clients, IssueAuthorizationCode(k), UNCHANGED pairs
    PROVE  Grants!Next \/ UNCHANGED Grants!vars
<1> DEFINE x == [client |-> k, consumed |-> FALSE, gone |-> FALSE]
<1>0. PICK n : n = Len(codes) + 1
  OBVIOUS
<1>1. codes \in Seq(CodeRow) /\ x \in CodeRow
  BY DEF TypeOK, CodeRow
<1>2. /\ DOMAIN Append(codes, x) = DOMAIN codes \cup {n} /\ n \notin DOMAIN codes
      /\ \A i \in DOMAIN codes : Append(codes, x)[i] = codes[i]
      /\ Append(codes, x)[n] = x
  BY <1>0, <1>1, Appended
<1>3. /\ Codes' = Codes \cup {n} /\ n \notin Codes /\ \A c \in Codes : codes'[c] = codes[c]
      /\ ~codes'[n].consumed /\ ~codes'[n].gone
  BY <1>2 DEF IssueAuthorizationCode, Codes
<1>4. \A c : Family(c)' = Family(c) /\ LiveIn(c)' = LiveIn(c) /\ Bearers(c)' = Bearers(c)
  BY DEF Family, LiveIn, Bearers, Pairs
<1>5. \A c : c # n => Same(c)
  BY <1>3, <1>4 DEF Same, Phase
<1>6. Phase(n) = "none" /\ Phase(n)' = "open"
  BY <1>3 DEF Phase
<1>7. CASE n \in 1 .. MaxCodes
  BY <1>4, <1>5, <1>6, <1>7, Approval
<1>8. CASE n \notin 1 .. MaxCodes
  BY <1>5, <1>8, NoChange
<1>9. QED BY <1>7, <1>8

\* A token of the script belongs to no approval.
LEMMA MintRefines ==
    ASSUME TypeOK, GrantInv, Mint
    PROVE  UNCHANGED Grants!vars
<1> DEFINE x == [NoPair EXCEPT !.access = TRUE, !.epoch = epoch]
<1>1. pairs \in Seq(PairRow) /\ x \in PairRow /\ x.family = 0
  BY RowTypes DEF TypeOK, PairRow, NoPair
<1> HIDE DEF x
<1>2. /\ DOMAIN Append(pairs, x) = DOMAIN pairs \cup {Len(pairs) + 1}
      /\ \A i \in DOMAIN pairs : Append(pairs, x)[i] = pairs[i]
      /\ Append(pairs, x)[Len(pairs) + 1] = x
  BY <1>1, Appended
<1>3. pairs' = Append(pairs, x) /\ codes' = codes
  BY DEF Mint, x
<1>4. /\ Pairs \subseteq Pairs' /\ \A p \in Pairs : pairs'[p] = pairs[p]
      /\ \A p \in Pairs' \ Pairs : pairs'[p].family = 0
  BY <1>1, <1>2, <1>3 DEF Pairs
<1>5. ASSUME NEW c \in 1 .. MaxCodes PROVE Same(c)
  <2>1. c # 0
    BY FamilyFacts
  <2>2. Family(c)' = Family(c) /\ \A p \in Family(c) : pairs'[p] = pairs[p]
    BY <1>4, <2>1 DEF Family
  <2>3. QED BY <1>3, <2>2 DEF Same, Phase, LiveIn, Bearers, Codes
<1>6. QED BY <1>5, NoChange

\* What an approval is worth changes as Grant says, whoever races with whom:
\* the right to one chain of tokens, gone for good once it has no live token.
THEOREM OAuthImplementsGrant == Spec => ImplementsGrant
<1>1. Init => Grants!Init
  BY DEF Init, Grants!Init, Codes, Pairs, Family, LiveIn
<1>2. TypeOK /\ GrantInv /\ [Next]_vars => [Grants!Next]_(Grants!vars)
  <2> SUFFICES ASSUME TypeOK, GrantInv, [Next]_vars
               PROVE  Grants!Next \/ UNCHANGED Grants!vars
    OBVIOUS
  <2>0. TypeOK' /\ GrantInv'
    BY GrantSteps
  <2>1. CASE UNCHANGED <<codes, pairs>>
    <3>1. \A c \in 1 .. MaxCodes : Same(c)
      BY <2>1 DEF Same, Phase, Family, LiveIn, Bearers, Codes, Pairs
    <3>2. QED BY <3>1, NoChange
  <2>2. ASSUME NEW r \in Requests, NEW k \in Clients, NEW p \in Pairs, RevokeAccess(r, p, k)
        PROVE  Grants!Next \/ UNCHANGED Grants!vars
    BY <2>2, AccessRefines DEF RevokeAccess
  <2>3. ASSUME NEW r \in Requests, RegisterClient(r)
        PROVE  Grants!Next \/ UNCHANGED Grants!vars
    <3>1. req[r].victims \in SUBSET Clients
      BY DEF TypeOK, Request
    <3>2. QED BY <2>3, <3>1, CascadeRefines DEF RegisterClient
  <2>4. ASSUME NEW k \in Clients, DeleteClient(k)
        PROVE  Grants!Next \/ UNCHANGED Grants!vars
    <3>1. {k} \in SUBSET Clients
      OBVIOUS
    <3>2. QED BY <2>4, <3>1, CascadeRefines DEF DeleteClient
  <2>5. ASSUME NEW p \in Pairs, RevokeMinted(p)
        PROVE  Grants!Next \/ UNCHANGED Grants!vars
    BY <2>5, AccessRefines DEF RevokeMinted
  <2>6. CASE OauthAuthorizeContinue \/ Approve
    <3>1. /\ UNCHANGED pairs
          /\ UNCHANGED codes \/ (pending \in Clients /\ IssueAuthorizationCode(pending))
      BY <2>6 DEF OauthAuthorizeContinue, Approve, FindActiveConsent, IssueCodeAndRedirect, TypeOK
    <3>2. QED BY <3>1, <2>1, CodeRefines
  <2>7. QED
    BY <2>0, <2>1, <2>2, <2>3, <2>4, <2>5, <2>6, IssueRefines, RevocationRefines, MintRefines
       DEF Next, TokenRequest, RedeemAuthorizationCode, RotateRefreshToken, RevokeToken,
           PruneStaleClients, CountClients, AuthLogout, BumpSessionEpoch, Rollback,
           OauthAuthorize, Age, AuthCallback, Deny, Deauthorize, Tick, vars, rows
<1>3. QED BY <1>1, <1>2, GrantTypes, GrantSafety, PTL DEF Spec, ImplementsGrant, Grants!Spec
=============================================================================
