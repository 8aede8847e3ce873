-------------------------- MODULE RateLimiterProofs --------------------------
(***************************************************************************)
(* What the rate limiter guarantees for any caps, callers, threads and     *)
(* time.                                                                   *)
(***************************************************************************)
EXTENDS RateLimiter, FiniteSetTheorems, WellFoundedInduction, TLAPS

\* Every live entry of times, seen at now, is an entry of kept of its own.
Covers(kept, times, now) ==
    \E f \in [Live(times, now) -> DOMAIN kept] :
        /\ \A m, n \in DOMAIN f : f[m] = f[n] => m = n
        /\ \A m \in DOMAIN f : kept[f[m]] = times[m]

\* A store of windows that answers for the admissions given, at a time.
WindowsFit(ws, given, order, now) ==
    /\ ws \in Seq(Window)
    /\ \A i, j \in DOMAIN ws : ws[i].key = ws[j].key => i = j
    /\ \A i \in DOMAIN ws : Len(ws[i].times) <= RateOf(ws[i].key)
    /\ \A i \in DOMAIN ws : Covers(ws[i].times, given[ws[i].key], now)
    /\ \A k \in WindowKeys \ KeysOf(ws) : Live(given[k], now) = {}
    /\ \A i, j \in DOMAIN ws : i < j => ws[j].key \in order[ws[i].key]

WindowsInv == WindowsFit(windows, admitted, since, clock)

\* Every store stays within its bound.
StoresInv ==
    /\ Len(windows) <= MaxTrackedIps
    /\ IsFiniteSet(DOMAIN dayCounts) /\ Cardinality(DOMAIN dayCounts) <= MaxTrackedDayKeys
    /\ IsFiniteSet(DOMAIN createCounts)
    /\ Cardinality(DOMAIN createCounts) <= MaxTrackedDayKeys

\* The calls that read the clock on a day and wait for the lock.
WaitingOn(b) == {t \in Threads : call[t] # NoCall /\ DayBucket(call[t].now) = b}

CreateCap == IF CreatePerDay = 0 THEN 1 ELSE CreatePerDay

\* The counter of an ip and day tells what was created, until the day is over
\* and pruned; from then on only the calls that still wait may add to it.
DayOf(i, b) ==
    LET count == Count(createCounts, <<i, b>>) IN
    /\ count <= CreateCap
    /\ \/ created[i][b] = count
       \/ /\ b < DayBucket(clock)
          /\ created[i][b] + Cardinality(WaitingOn(b)) <= CreateCap + Cardinality(Threads) - 1

DaysInv == \A i \in Ips, b \in Buckets : DayOf(i, b)

LimitInv == WindowsInv /\ StoresInv /\ DaysInv

-----------------------------------------------------------------------------
\* A set of numbers has a least.
LEMMA Least ==
    ASSUME NEW S \in SUBSET Nat, S # {}
    PROVE  Min(S) \in S /\ \A n \in S : Min(S) <= n
<1> DEFINE R == OpToRel(<, Nat)
<1>1. IsWellFoundedOn(R, Nat) /\ \A x, y \in Nat : y < x => <<y, x>> \in R
  BY NatLessThanWellFounded DEF OpToRel
<1> HIDE DEF R
<1>2. PICK x \in S : \A y \in S : <<y, x>> \notin R
  BY <1>1, WFMin
<1>3. \A y \in S : ~(y < x)
  BY <1>1, <1>2
<1>4. \A y \in S : x <= y
  BY <1>3
<1>5. QED BY <1>4 DEF Min

\* Pruning takes expired entries off the left, and all of those.
LEMMA Pruning ==
    ASSUME NEW T \in SUBSET Int, NEW times \in Seq(T), NEW now \in Int
    PROVE  /\ PruneLeft(times, now) \in Seq(T)
           /\ \E d \in 0..Len(times) :
                 /\ Len(PruneLeft(times, now)) = Len(times) - d
                 /\ \A m \in 1..(Len(times) - d) : PruneLeft(times, now)[m] = times[m + d]
                 /\ \A m \in 1..d : Expired(times[m], now)
                 /\ d < Len(times) => ~Expired(times[d + 1], now)
<1> DEFINE live == Live(times, now)
<1>1. live \subseteq 1..Len(times)
  BY DEF Live
<1>2. CASE live = {}
  <2>1. PruneLeft(times, now) = <<>>
    BY <1>2 DEF PruneLeft
  <2>2. \A m \in 1..Len(times) : Expired(times[m], now)
    BY <1>2 DEF Live
  <2>3. QED BY <2>1, <2>2
<1>3. CASE live # {}
  <2>1. Min(live) \in live /\ \A n \in live : Min(live) <= n
    BY <1>1, <1>3, Least
  <2>2. PICK d \in 0..(Len(times) - 1) : d + 1 = Min(live)
    BY <1>1, <2>1
  <2>3. PruneLeft(times, now) = SubSeq(times, d + 1, Len(times))
    BY <1>3, <2>2 DEF PruneLeft
  <2>4. ASSUME NEW m \in 1..d PROVE Expired(times[m], now)
    <3>1. m \in DOMAIN times /\ ~(d + 1 <= m)
      BY <2>2
    <3>2. m \notin live
      BY <2>1, <2>2, <3>1
    <3>3. QED BY <3>1, <3>2 DEF Live
  <2>5. ~Expired(times[d + 1], now)
    <3>1. d + 1 \in live
      BY <2>1, <2>2
    <3>2. QED BY <3>1 DEF Live
  <2>6. /\ SubSeq(times, d + 1, Len(times)) \in Seq(T)
        /\ Len(SubSeq(times, d + 1, Len(times))) = Len(times) - d
        /\ \A m \in 1..(Len(times) - d) : SubSeq(times, d + 1, Len(times))[m] = times[m + d]
    BY <2>2
  <2>7. QED
    <3>1. d \in 0..Len(times)
      BY <2>2
    <3>2. QED BY <2>3, <2>4, <2>5, <2>6, <3>1
<1>4. QED BY <1>2, <1>3

\* What a selection holds: the chosen entries, in their order.
LEMMA Selection ==
    ASSUME NEW T, NEW s \in Seq(T), NEW S \in SUBSET DOMAIN s
    PROVE  /\ Selected(s, S) \in Seq(T) /\ Len(Selected(s, S)) <= Len(s)
           /\ \E p \in [DOMAIN Selected(s, S) -> S] :
                 /\ \A i \in DOMAIN p : Selected(s, S)[i] = s[p[i]]
                 /\ \A i, j \in DOMAIN p : i < j => p[i] < p[j]
                 /\ \A n \in S : \E i \in DOMAIN p : p[i] = n
<1> DEFINE c == Cardinality(S)
           Below(n) == {m \in S : m <= n}
           rank == [n \in S |-> Rank(S, n)]
           p == [j \in 1..c |-> CHOOSE n \in S : Rank(S, n) = j]
<1>1. IsFiniteSet(1..Len(s)) /\ Cardinality(1..Len(s)) = Len(s)
  <2>1. Len(s) \in Nat
    OBVIOUS
  <2>2. QED BY <2>1, FS_Interval
<1>2. IsFiniteSet(S) /\ c <= Len(s) /\ c \in Nat
  BY <1>1, FS_Subset, FS_CardinalityType
<1>3. ASSUME NEW n \in S
      PROVE  IsFiniteSet(Below(n)) /\ Rank(S, n) = Cardinality(Below(n)) /\ Rank(S, n) \in 1..c
  <2>1. IsFiniteSet(Below(n)) /\ Cardinality(Below(n)) <= c /\ Cardinality(Below(n)) \in Nat
    BY <1>2, FS_Subset, FS_CardinalityType
  <2>2. n \in Below(n)
    OBVIOUS
  <2>3. Cardinality(Below(n)) # 0
    BY <2>1, <2>2, FS_EmptySet
  <2>4. QED BY <2>1, <2>3 DEF Rank
<1>4. ASSUME NEW m \in S, NEW n \in S, m < n PROVE Rank(S, m) < Rank(S, n)
  <2>1. Below(m) \subseteq Below(n) /\ n \in Below(n) \ Below(m)
    BY <1>4
  <2>2. Cardinality(Below(m)) <= Cardinality(Below(n))
        /\ Cardinality(Below(m)) # Cardinality(Below(n))
    BY <1>3, <2>1, FS_Subset
  <2>3. /\ Rank(S, m) = Cardinality(Below(m)) /\ Rank(S, m) \in 1..c
        /\ Rank(S, n) = Cardinality(Below(n)) /\ Rank(S, n) \in 1..c
    BY <1>3
  <2> HIDE DEF Below
  <2>4. QED BY <1>2, <2>2, <2>3
<1>5. rank \in Injection(S, 1..c)
  <2>1. rank \in [S -> 1..c]
    BY <1>3
  <2>2. ASSUME NEW m \in S, NEW n \in S, rank[m] = rank[n] PROVE m = n
    <3>1. Rank(S, m) = Rank(S, n) /\ Rank(S, m) \in 1..c
      BY <1>3, <2>2
    <3>2. ~(Rank(S, m) < Rank(S, n)) /\ ~(Rank(S, n) < Rank(S, m))
      BY <1>2, <3>1
    <3>3. ~(m < n) /\ ~(n < m)
      BY <1>4, <3>2
    <3>4. QED BY <3>3
  <2>3. QED BY <2>1, <2>2 DEF Injection, IsInjective
<1>6. rank \in Surjection(S, 1..c)
  <2>1. IsFiniteSet(1..c) /\ Cardinality(1..c) = c
    BY <1>2, FS_Interval
  <2>2. QED BY <1>5, <2>1, FS_Injection
<1>7. \A j \in 1..c : p[j] \in S /\ Rank(S, p[j]) = j
  <2> SUFFICES ASSUME NEW j \in 1..c PROVE \E n \in S : Rank(S, n) = j
    OBVIOUS
  <2>1. QED BY <1>6 DEF Surjection
<1>8. \A i, j \in 1..c : i < j => p[i] < p[j]
  <2> SUFFICES ASSUME NEW i \in 1..c, NEW j \in 1..c, i < j PROVE p[i] < p[j]
    OBVIOUS
  <2>1. p[i] \in S /\ p[j] \in S /\ Rank(S, p[i]) = i /\ Rank(S, p[j]) = j
    BY <1>7
  <2> HIDE DEF p
  <2>2. ~(p[j] < p[i]) /\ p[i] # p[j]
    BY <1>4, <2>1
  <2>3. QED BY <2>1, <2>2
<1>9. ASSUME NEW n \in S PROVE \E i \in 1..c : p[i] = n
  <2>1. p[Rank(S, n)] \in S /\ Rank(S, p[Rank(S, n)]) = Rank(S, n)
    BY <1>3, <1>7
  <2> HIDE DEF p
  <2>2. ~(p[Rank(S, n)] < n) /\ ~(n < p[Rank(S, n)])
    <3> DEFINE r == Rank(S, n)
    <3>1. r \in 1..c
      BY <1>3
    <3>2. p[r] \in S /\ Rank(S, p[r]) = r
      BY <2>1
    <3>3. ~(r < r)
      BY <1>2, <3>1
    <3>4. QED BY <1>4, <3>2, <3>3
  <2>3. p[Rank(S, n)] = n
    BY <2>1, <2>2
  <2>4. QED BY <1>3, <2>3
<1>10. p \in [1..c -> S]
  BY <1>7
<1> DEFINE q == Selected(s, S)
<1>11. q = [j \in 1..c |-> s[p[j]]]
  BY DEF Selected
<1> HIDE DEF p, q
<1>12. \A j \in 1..c : s[p[j]] \in T
  BY <1>10
<1>13. q \in Seq(T) /\ Len(q) = c /\ DOMAIN q = 1..c
  BY <1>2, <1>11, <1>12
<1>14. /\ \A i \in DOMAIN p : q[i] = s[p[i]]
       /\ \A i, j \in DOMAIN p : i < j => p[i] < p[j]
       /\ \A n \in S : \E i \in DOMAIN p : p[i] = n
  BY <1>8, <1>9, <1>10, <1>11
<1>15. p \in [DOMAIN q -> S] /\ Len(q) <= Len(s)
  BY <1>2, <1>10, <1>13
<1>16. QED BY <1>13, <1>14, <1>15 DEF q

-----------------------------------------------------------------------------
\* An entry that has expired stays expired.
LEMMA StaysExpired ==
    ASSUME NEW stamp \in Int, NEW now \in Int, NEW later \in Int, now <= later,
           Expired(stamp, now)
    PROVE  Expired(stamp, later)
<1>1. Minute \in Int
  BY LimitAssumption
<1>2. QED BY <1>1 DEF Expired

\* Pruning by an old clock keeps every live entry.
LEMMA CoversPruned ==
    ASSUME NEW T \in SUBSET Int, NEW kept \in Seq(T), NEW times \in Seq(T),
           NEW s \in Int, NEW now \in Int, s <= now, Covers(kept, times, now)
    PROVE  Covers(PruneLeft(kept, s), times, now)
<1> DEFINE q == PruneLeft(kept, s)
<1>1. PICK d \in 0..Len(kept) :
          /\ Len(q) = Len(kept) - d
          /\ \A m \in 1..(Len(kept) - d) : q[m] = kept[m + d]
          /\ \A m \in 1..d : Expired(kept[m], s)
  BY Pruning
<1>2. PICK f \in [Live(times, now) -> DOMAIN kept] :
          /\ \A m, n \in DOMAIN f : f[m] = f[n] => m = n
          /\ \A m \in DOMAIN f : kept[f[m]] = times[m]
  BY DEF Covers
<1>3. ASSUME NEW m \in Live(times, now) PROVE f[m] - d \in 1..Len(q) /\ q[f[m] - d] = times[m]
  <2>1. f[m] \in 1..Len(kept) /\ kept[f[m]] = times[m] /\ ~Expired(times[m], now)
    BY <1>2 DEF Live
  <2>2. f[m] \notin 1..d
    <3>1. SUFFICES ASSUME f[m] \in 1..d PROVE FALSE
      OBVIOUS
    <3>2. Expired(kept[f[m]], s) /\ kept[f[m]] \in Int
      <4>1. kept[f[m]] \in T
        BY <2>1
      <4>2. QED BY <1>1, <3>1, <4>1
    <3>3. QED BY <2>1, <3>2, StaysExpired
  <2>3. f[m] - d \in 1..(Len(kept) - d) /\ (f[m] - d) + d = f[m]
    BY <2>1, <2>2
  <2>4. QED BY <1>1, <2>1, <2>3
<1> DEFINE g == [m \in Live(times, now) |-> f[m] - d]
<1>4. q \in Seq(T)
  BY Pruning
<1>5. g \in [Live(times, now) -> DOMAIN q]
  BY <1>3, <1>4
<1>6. \A m, n \in DOMAIN g : g[m] = g[n] => m = n
  <2> SUFFICES ASSUME NEW m \in Live(times, now), NEW n \in Live(times, now), g[m] = g[n]
               PROVE  m = n
    OBVIOUS
  <2>1. f[m] - d = f[n] - d /\ f[m] \in Int /\ f[n] \in Int
    BY <1>2
  <2>2. f[m] = f[n]
    BY <2>1
  <2>3. QED BY <1>2, <2>2
<1>7. \A m \in DOMAIN g : q[g[m]] = times[m]
  BY <1>3
<1> HIDE DEF g, q
<1>8. QED BY <1>5, <1>6, <1>7 DEF Covers, q

\* Time passes: fewer entries are live.
LEMMA CoversLater ==
    ASSUME NEW T \in SUBSET Int, NEW kept \in Seq(T), NEW times \in Seq(T),
           NEW now \in Int, NEW later \in Int, now <= later, Covers(kept, times, now)
    PROVE  Covers(kept, PruneLeft(times, later), later)
<1> DEFINE q == PruneLeft(times, later)
<1>1. PICK d \in 0..Len(times) :
          /\ Len(q) = Len(times) - d
          /\ \A m \in 1..(Len(times) - d) : q[m] = times[m + d]
  BY Pruning
<1>2. PICK f \in [Live(times, now) -> DOMAIN kept] :
          /\ \A m, n \in DOMAIN f : f[m] = f[n] => m = n
          /\ \A m \in DOMAIN f : kept[f[m]] = times[m]
  BY DEF Covers
<1>3. q \in Seq(T)
  BY Pruning
<1>4. ASSUME NEW m \in Live(q, later) PROVE m \in Int /\ m + d \in Live(times, now) /\ q[m] = times[m + d]
  <2>1. m \in 1..Len(q) /\ ~Expired(q[m], later)
    BY <1>3 DEF Live
  <2>2. m + d \in 1..Len(times) /\ q[m] = times[m + d] /\ times[m + d] \in Int
    <3>1. m + d \in 1..Len(times) /\ m \in 1..(Len(times) - d)
      BY <1>1, <2>1
    <3>2. times[m + d] \in T
      BY <3>1
    <3>3. QED BY <1>1, <3>1, <3>2
  <2>3. ~Expired(times[m + d], now)
    BY <2>1, <2>2, StaysExpired
  <2>4. QED BY <2>1, <2>2, <2>3 DEF Live
<1> DEFINE g == [m \in Live(q, later) |-> f[m + d]]
<1> HIDE DEF q
<1>5. g \in [Live(q, later) -> DOMAIN kept]
  BY <1>2, <1>4
<1>6. \A m, n \in DOMAIN g : g[m] = g[n] => m = n
  <2> SUFFICES ASSUME NEW m \in Live(q, later), NEW n \in Live(q, later), g[m] = g[n]
               PROVE  m = n
    OBVIOUS
  <2>1. m + d = n + d /\ m \in Int /\ n \in Int
    BY <1>2, <1>4
  <2>2. QED BY <2>1
<1>7. \A m \in DOMAIN g : kept[g[m]] = q[m]
  BY <1>2, <1>4
<1> HIDE DEF g
<1>8. QED BY <1>5, <1>6, <1>7 DEF Covers, q

\* An entry recorded in the window may be counted once, or not at all.
LEMMA CoversAdmitted ==
    ASSUME NEW T \in SUBSET Int, NEW kept \in Seq(T), NEW times \in Seq(T), NEW s \in T,
           NEW now \in Int, Covers(kept, times, now)
    PROVE  /\ Covers(Append(kept, s), times, now)
           /\ Covers(Append(kept, s), Append(times, s), now)
<1> DEFINE q == Append(kept, s)
           r == Append(times, s)
<1>1. PICK f \in [Live(times, now) -> DOMAIN kept] :
          /\ \A m, n \in DOMAIN f : f[m] = f[n] => m = n
          /\ \A m \in DOMAIN f : kept[f[m]] = times[m]
  BY DEF Covers
<1>2. /\ q \in Seq(T) /\ Len(q) = Len(kept) + 1 /\ q[Len(kept) + 1] = s
      /\ \A m \in 1..Len(kept) : q[m] = kept[m]
      /\ r \in Seq(T) /\ Len(r) = Len(times) + 1 /\ r[Len(times) + 1] = s
      /\ \A m \in 1..Len(times) : r[m] = times[m]
  OBVIOUS
<1> HIDE DEF q, r
<1>3. DOMAIN kept \subseteq DOMAIN q /\ Len(kept) + 1 \in DOMAIN q /\ Len(kept) + 1 \notin DOMAIN kept
  BY <1>2
<1>4. Covers(q, times, now)
  <2>1. f \in [Live(times, now) -> DOMAIN q]
    BY <1>1, <1>3
  <2>2. \A m \in DOMAIN f : q[f[m]] = times[m]
    BY <1>1, <1>2
  <2>3. QED BY <1>1, <2>1, <2>2 DEF Covers
<1>5. Covers(q, r, now)
  <2> DEFINE g == [m \in Live(r, now) |-> IF m = Len(times) + 1 THEN Len(kept) + 1 ELSE f[m]]
  <2>1. \A m \in Live(r, now) : m # Len(times) + 1 => m \in Live(times, now) /\ r[m] = times[m]
    <3> SUFFICES ASSUME NEW m \in Live(r, now), m # Len(times) + 1
                 PROVE  m \in Live(times, now) /\ r[m] = times[m]
      OBVIOUS
    <3>1. m \in 1..(Len(times) + 1) /\ ~Expired(r[m], now)
      BY <1>2 DEF Live
    <3>2. m \in 1..Len(times)
      BY <3>1
    <3>3. QED BY <1>2, <3>1, <3>2 DEF Live
  <2>2. g \in [Live(r, now) -> DOMAIN q]
    BY <1>1, <1>3, <2>1
  <2>3. \A m, n \in DOMAIN g : g[m] = g[n] => m = n
    BY <1>1, <1>3, <2>1
  <2>4. ASSUME NEW m \in DOMAIN g PROVE q[g[m]] = r[m]
    <3>1. CASE m = Len(times) + 1
      BY <1>2, <3>1
    <3>2. CASE m # Len(times) + 1
      <4>1. m \in Live(times, now) /\ r[m] = times[m]
        BY <2>1, <3>2
      <4>2. f[m] \in 1..Len(kept) /\ kept[f[m]] = times[m]
        BY <1>1, <4>1
      <4>3. g[m] = f[m]
        BY <3>2
      <4>4. QED BY <1>2, <4>1, <4>2, <4>3
    <3>3. QED BY <3>1, <3>2
  <2> HIDE DEF g
  <2>5. QED BY <2>2, <2>3, <2>4 DEF Covers
<1>6. QED BY <1>4, <1>5 DEF q, r

\* A window covers no more live admissions than it has entries.
LEMMA CoversCount ==
    ASSUME NEW T, NEW kept \in Seq(T), NEW times, NEW now, Covers(kept, times, now)
    PROVE  /\ IsFiniteSet(Live(times, now)) /\ Cardinality(Live(times, now)) <= Len(kept)
           /\ kept = <<>> => Live(times, now) = {}
<1>1. PICK f \in [Live(times, now) -> DOMAIN kept] :
          \A m, n \in DOMAIN f : f[m] = f[n] => m = n
  BY DEF Covers
<1>2. f \in Injection(Live(times, now), DOMAIN kept)
  BY <1>1 DEF Injection, IsInjective
<1>3. DOMAIN kept = 1..Len(kept) /\ Len(kept) \in Nat
  OBVIOUS
<1>4. IsFiniteSet(DOMAIN kept) /\ Cardinality(DOMAIN kept) = Len(kept)
  <2>1. PICK n \in Nat : n = Len(kept)
    BY <1>3
  <2>2. IsFiniteSet(1..n) /\ Cardinality(1..n) = n
    BY FS_Interval
  <2>3. QED BY <1>3, <2>1, <2>2
<1>5. kept = <<>> => Live(times, now) = {}
  BY <1>1, <1>3
<1>6. QED BY <1>2, <1>4, <1>5, FS_Injection

\* Nothing live is covered by anything.
LEMMA CoversNothing ==
    ASSUME NEW kept, NEW times, NEW now, Live(times, now) = {}
    PROVE  Covers(kept, times, now)
<1>1. [m \in {} |-> 0] \in [Live(times, now) -> DOMAIN kept]
  OBVIOUS
<1>2. QED BY <1>1 DEF Covers

-----------------------------------------------------------------------------
Given  == [WindowKeys -> Seq(Times)]
Orders == [WindowKeys -> SUBSET WindowKeys]

LEMMA TimeTypes == Times \in SUBSET Int /\ Times \subseteq Nat
BY LimitAssumption DEF Times

LEMMA WindowTypes ==
    ASSUME NEW ws \in Seq(Window), NEW i \in DOMAIN ws
    PROVE  ws[i] \in Window /\ ws[i].key \in WindowKeys /\ ws[i].times \in Seq(Times)
<1>1. ws[i] \in Window
  OBVIOUS
<1>2. QED BY <1>1 DEF Window

\* Pruning the windows where they stand.
LEMMA PrunedFits ==
    ASSUME NEW ws, NEW given \in Given, NEW order \in Orders, NEW now \in Times,
           NEW s \in Int, s <= now, WindowsFit(ws, given, order, now)
    PROVE  LET q == [k \in DOMAIN ws |-> [ws[k] EXCEPT !.times = PruneLeft(@, s)]]
           IN  WindowsFit(q, given, order, now) /\ Len(q) = Len(ws)
<1> DEFINE q == [k \in DOMAIN ws |-> [ws[k] EXCEPT !.times = PruneLeft(@, s)]]
<1>1. ws \in Seq(Window) /\ DOMAIN ws = 1..Len(ws) /\ Len(ws) \in Nat
  BY DEF WindowsFit
<1>2. ASSUME NEW i \in DOMAIN ws
      PROVE  /\ q[i].key = ws[i].key /\ q[i].times = PruneLeft(ws[i].times, s)
             /\ q[i] \in Window
             /\ Len(q[i].times) <= Len(ws[i].times)
             /\ Covers(q[i].times, given[q[i].key], now)
  <2>1. ws[i] \in Window /\ ws[i].key \in WindowKeys /\ ws[i].times \in Seq(Times)
    BY <1>1, WindowTypes
  <2>2. given[ws[i].key] \in Seq(Times) /\ now \in Int
    BY <2>1, TimeTypes DEF Given
  <2>3. /\ PruneLeft(ws[i].times, s) \in Seq(Times)
        /\ \E d \in 0..Len(ws[i].times) :
               Len(PruneLeft(ws[i].times, s)) = Len(ws[i].times) - d
    <3> PICK times \in Seq(Times) : times = ws[i].times
      BY <2>1
    <3>1. PruneLeft(times, s) \in Seq(Times)
          /\ \E d \in 0..Len(times) : Len(PruneLeft(times, s)) = Len(times) - d
      <4>1. /\ PruneLeft(times, s) \in Seq(Times)
            /\ \E d \in 0..Len(times) :
                 /\ Len(PruneLeft(times, s)) = Len(times) - d
                 /\ \A m \in 1..(Len(times) - d) : PruneLeft(times, s)[m] = times[m + d]
                 /\ \A m \in 1..d : Expired(times[m], s)
                 /\ d < Len(times) => ~Expired(times[d + 1], s)
        BY Pruning, TimeTypes, Zenon
      <4>2. QED BY <4>1
    <3>2. QED BY <3>1
  <2>4. Covers(PruneLeft(ws[i].times, s), given[ws[i].key], now)
    <3>1. Covers(ws[i].times, given[ws[i].key], now)
      BY DEF WindowsFit
    <3>2. QED BY <2>1, <2>2, <3>1, CoversPruned, TimeTypes
  <2>5. q[i] = [key |-> ws[i].key, times |-> PruneLeft(ws[i].times, s)]
    BY <2>1 DEF Window
  <2>6. QED BY <2>1, <2>3, <2>4, <2>5 DEF Window
<1>3. q \in Seq(Window) /\ DOMAIN q = DOMAIN ws /\ Len(q) = Len(ws)
  <2>1. PICK n \in Nat : n = Len(ws) /\ DOMAIN ws = 1..n
    BY <1>1
  <2>2. DOMAIN q = 1..n /\ \A i \in 1..n : q[i] \in Window
    BY <1>2, <2>1
  <2>3. q = [i \in 1..n |-> q[i]]
    BY <2>1
  <2> HIDE DEF q
  <2>4. q \in Seq(Window) /\ Len(q) = n
    BY <2>2, <2>3
  <2>5. QED BY <2>1, <2>2, <2>4
<1> HIDE DEF q
<1>4. KeysOf(q) = KeysOf(ws)
  BY <1>2, <1>3 DEF KeysOf
<1>5. \A i \in DOMAIN ws : Len(q[i].times) <= RateOf(q[i].key)
  <2> SUFFICES ASSUME NEW i \in DOMAIN ws PROVE Len(q[i].times) <= RateOf(q[i].key)
    OBVIOUS
  <2>1. Len(ws[i].times) <= RateOf(ws[i].key) /\ RateOf(ws[i].key) \in Nat
    BY LimitAssumption DEF WindowsFit, RateOf
  <2>2. ws[i].times \in Seq(Times) /\ q[i].times \in Seq(Times)
    BY <1>1, <1>2, <1>3, WindowTypes
  <2>3. QED BY <1>2, <2>1, <2>2
<1>6. WindowsFit(q, given, order, now)
  BY <1>2, <1>3, <1>4, <1>5 DEF WindowsFit
<1>7. QED BY <1>3, <1>6 DEF q

\* The sweep leaves out windows that cover nothing.
LEMMA SweepFits ==
    ASSUME NEW given \in Given, NEW order \in Orders, NEW now \in Times,
           NEW s \in Int, s <= now, WindowsFit(windows, given, order, now)
    PROVE  /\ WindowsFit(SweepWindows(s), given, order, now)
           /\ Len(SweepWindows(s)) <= Len(windows)
<1> DEFINE q == [k \in DOMAIN windows |-> [windows[k] EXCEPT !.times = PruneLeft(@, s)]]
           S == {k \in DOMAIN windows : q[k].times # <<>>}
           r == Selected(q, S)
<1>1. WindowsFit(q, given, order, now) /\ Len(q) = Len(windows)
  BY PrunedFits
<1>2. r = SweepWindows(s) /\ DOMAIN q = DOMAIN windows
  BY DEF SweepWindows
<1>3. q \in Seq(Window) /\ S \subseteq DOMAIN q
      /\ \A n \in DOMAIN q \ S : q[n].times = <<>>
  BY <1>1, <1>2 DEF WindowsFit
<1> HIDE DEF q, S
<1>4. /\ r \in Seq(Window) /\ Len(r) <= Len(q)
      /\ \E p \in [DOMAIN r -> S] :
            /\ \A i \in DOMAIN p : r[i] = q[p[i]]
            /\ \A i, j \in DOMAIN p : i < j => p[i] < p[j]
            /\ \A n \in S : \E i \in DOMAIN p : p[i] = n
  <2> HIDE DEF WindowsFit
  <2>1. q \in Seq(Window) /\ S \in SUBSET DOMAIN q
    BY <1>3
  <2>2. QED BY ONLY <2>1, Selection
<1> HIDE DEF r
<1>5. PICK p \in [DOMAIN r -> S] :
            /\ \A i \in DOMAIN r : r[i] = q[p[i]]
            /\ \A i, j \in DOMAIN r : i < j => p[i] < p[j]
            /\ \A n \in S : \E i \in DOMAIN r : p[i] = n
  BY <1>4
<1>6. \A i \in DOMAIN r : p[i] \in DOMAIN q /\ i \in Int
  BY <1>3, <1>4, <1>5
<1>7. \A i, j \in DOMAIN r : r[i].key = r[j].key => i = j
  <2> SUFFICES ASSUME NEW i \in DOMAIN r, NEW j \in DOMAIN r, r[i].key = r[j].key
               PROVE  i = j
    OBVIOUS
  <2>1. p[i] = p[j]
    BY <1>1, <1>5, <1>6 DEF WindowsFit
  <2>2. p[i] \in Int /\ ~(p[i] < p[i])
    BY <1>3, <1>6
  <2>3. ~(i < j) /\ ~(j < i)
    BY <1>5, <2>1, <2>2
  <2>4. QED BY <1>6, <2>3
<1>8. ASSUME NEW k \in WindowKeys \ KeysOf(r) PROVE Live(given[k], now) = {}
  <2>1. CASE k \notin KeysOf(q)
    BY <1>1, <2>1 DEF WindowsFit
  <2>2. CASE k \in KeysOf(q)
    <3>1. PICK n \in DOMAIN q : q[n].key = k
      BY <2>2 DEF KeysOf
    <3>2. n \notin S
      BY <1>5, <1>8, <3>1 DEF KeysOf
    <3>3. q[n].times = <<>>
      BY <1>3, <3>2
    <3>4. Covers(q[n].times, given[k], now) /\ q[n].times \in Seq(Times)
      BY <1>1, <1>3, <3>1, WindowTypes DEF WindowsFit
    <3>5. QED BY <3>3, <3>4, CoversCount
  <2>3. QED BY <2>1, <2>2
<1>9. \A i \in DOMAIN r : /\ Len(r[i].times) <= RateOf(r[i].key)
                          /\ Covers(r[i].times, given[r[i].key], now)
  BY <1>1, <1>5, <1>6 DEF WindowsFit
<1>10. \A i, j \in DOMAIN r : i < j => r[j].key \in order[r[i].key]
  BY <1>1, <1>5, <1>6 DEF WindowsFit
<1>11. WindowsFit(r, given, order, now)
  BY <1>4, <1>7, <1>8, <1>9, <1>10 DEF WindowsFit
<1>12. QED BY <1>1, <1>2, <1>4, <1>11 DEF r

-----------------------------------------------------------------------------
\* What Record does to the history: a window that was dropped starts again, and
\* the key touched is the latest.
Forget(ws, ts, given) ==
    [k \in WindowKeys |-> IF k \in KeysOf(ws) \ KeysOf(ts) THEN <<>> ELSE given[k]]
After(order, key) == [k \in WindowKeys |-> IF k = key THEN {} ELSE order[k] \cup {key}]

LEMMA RateTypes == \A k \in WindowKeys : RateOf(k) \in Nat
BY LimitAssumption DEF RateOf

\* Some of the windows in their order, and then the one just touched.
LEMMA PushedFits ==
    ASSUME NEW ws, NEW given \in Given, NEW order \in Orders, NEW now \in Times,
           WindowsFit(ws, given, order, now),
           NEW rest \in Seq(Window), NEW p \in [DOMAIN rest -> DOMAIN ws],
           \A i \in DOMAIN rest : rest[i] = ws[p[i]],
           \A i, j \in DOMAIN rest : i < j => p[i] < p[j],
           NEW last \in Window, last.key \notin KeysOf(rest),
           Len(last.times) <= RateOf(last.key), Covers(last.times, given[last.key], now)
    PROVE  LET ts == Append(rest, last) IN
           /\ WindowsFit(ts, Forget(ws, ts, given), After(order, last.key), now)
           /\ Len(ts) = Len(rest) + 1 /\ ts[Len(ts)] = last
<1> DEFINE ts == Append(rest, last)
           given2 == Forget(ws, ts, given)
           order2 == After(order, last.key)
<1>1. PICK n \in Nat : n = Len(rest) /\ DOMAIN rest = 1..n
  OBVIOUS
<1>2. /\ ts \in Seq(Window) /\ Len(ts) = n + 1 /\ DOMAIN ts = 1..(n + 1)
      /\ ts[n + 1] = last /\ \A i \in 1..n : ts[i] = rest[i]
  BY <1>1
<1> HIDE DEF ts
<1>3. ASSUME NEW i \in DOMAIN ts
      PROVE  /\ ts[i].key \in WindowKeys /\ given2[ts[i].key] = given[ts[i].key]
             /\ i # n + 1 => /\ i \in 1..n /\ ts[i] = ws[p[i]] /\ p[i] \in DOMAIN ws
                             /\ ts[i].key # last.key
  <2>1. ts[i].key \in WindowKeys /\ ts[i].key \in KeysOf(ts)
    BY <1>2, WindowTypes DEF KeysOf
  <2>2. i # n + 1 => i \in 1..n
    BY <1>2
  <2>3. QED BY <1>1, <1>2, <2>1, <2>2 DEF Forget, KeysOf
<1>4. ASSUME NEW i \in DOMAIN ts, NEW j \in DOMAIN ts, ts[i].key = ts[j].key PROVE i = j
  <2>1. CASE i = n + 1 \/ j = n + 1
    BY <1>2, <1>3, <1>4, <2>1
  <2>2. CASE i # n + 1 /\ j # n + 1
    <3>1. p[i] = p[j] /\ i \in 1..n /\ j \in 1..n
      BY <1>3, <1>4, <2>2 DEF WindowsFit
    <3>2. p[i] \in Int
      BY <1>3, <2>2 DEF WindowsFit
    <3>3. ~(p[i] < p[j]) /\ ~(p[j] < p[i])
      BY <3>1, <3>2
    <3>4. ~(i < j) /\ ~(j < i)
      BY <1>1, <3>1, <3>3
    <3>5. QED BY <3>1, <3>4
  <2>3. QED BY <2>1, <2>2
<1>5. \A i \in DOMAIN ts : /\ Len(ts[i].times) <= RateOf(ts[i].key)
                           /\ Covers(ts[i].times, given2[ts[i].key], now)
  BY <1>2, <1>3 DEF WindowsFit
<1>6. ASSUME NEW k \in WindowKeys \ KeysOf(ts) PROVE Live(given2[k], now) = {}
  <2>1. CASE k \in KeysOf(ws)
    BY <1>6, <2>1 DEF Forget, Live
  <2>2. CASE k \notin KeysOf(ws)
    BY <1>6, <2>2 DEF Forget, WindowsFit
  <2>3. QED BY <2>1, <2>2
<1>7. ASSUME NEW i \in DOMAIN ts, NEW j \in DOMAIN ts, i < j
      PROVE  ts[j].key \in order2[ts[i].key]
  <2>1. i \in 1..n
    BY <1>2, <1>7
  <2>2. i # n + 1
    BY <1>7, <1>2
  <2>3. ts[i].key # last.key /\ ts[i].key \in WindowKeys /\ ts[i] = ws[p[i]] /\ p[i] \in DOMAIN ws
    BY <1>3, <2>2
  <2>4. CASE j = n + 1
    BY <1>2, <2>3, <2>4 DEF After
  <2>5. CASE j # n + 1
    <3>1. ts[j] = ws[p[j]] /\ p[j] \in DOMAIN ws /\ j \in 1..n
      BY <1>3, <2>5
    <3>2. p[i] < p[j]
      BY <1>1, <1>7, <2>1, <3>1
    <3>3. ts[j].key \in order[ts[i].key]
      BY <2>3, <3>1, <3>2 DEF WindowsFit
    <3>4. QED BY <2>3, <3>3 DEF After
  <2>6. QED BY <2>4, <2>5
<1>8. WindowsFit(ts, given2, order2, now)
  BY <1>2, <1>4, <1>5, <1>6, <1>7 DEF WindowsFit
<1>9. QED BY <1>1, <1>2, <1>8 DEF ts

\* Touching a key: its window is the last one, and the store keeps its bound.  A
\* window goes only when the store is full and the key is new: the first one.
LEMMA TouchFits ==
    ASSUME NEW ws, NEW given \in Given, NEW order \in Orders, NEW now \in Times,
           NEW s \in Int, s <= now, NEW key \in WindowKeys,
           WindowsFit(ws, given, order, now), Len(ws) <= MaxTrackedIps
    PROVE  LET ts == Touch(ws, key, s) IN
           /\ WindowsFit(ts, Forget(ws, ts, given), After(order, key), now)
           /\ Len(ts) \in 1..MaxTrackedIps /\ ts[Len(ts)].key = key
           /\ \A k \in KeysOf(ws) \ KeysOf(ts) :
                 Len(ws) = MaxTrackedIps /\ k = ws[1].key /\ key \notin KeysOf(ws)
<1> DEFINE ts == Touch(ws, key, s)
<1>1. PICK n \in Nat : n = Len(ws) /\ DOMAIN ws = 1..n /\ ws \in Seq(Window)
  BY DEF WindowsFit
<1>2. MaxTrackedIps \in Nat \ {0}
  BY LimitAssumption
<1>3. CASE Find(ws, key) # {}
  <2> DEFINE q == CHOOSE q \in Find(ws, key) : TRUE
             rest == RemoveAt(ws, q)
             last == [ws[q] EXCEPT !.times = PruneLeft(@, s)]
             p == [i \in 1..(n - 1) |-> IF i < q THEN i ELSE i + 1]
  <2>1. ts = Append(rest, last)
    BY <1>3 DEF Touch
  <2>2. q \in 1..n /\ ws[q].key = key
    BY <1>1, <1>3 DEF Find
  <2> HIDE DEF q
  <2>3. /\ rest \in Seq(Window) /\ Len(rest) = n - 1
        /\ \A i \in 1..(n - 1) : rest[i] = ws[IF i < q THEN i ELSE i + 1]
    <3>1. PICK a, b : a = SubSeq(ws, 1, q - 1) /\ b = SubSeq(ws, q + 1, n)
      OBVIOUS
    <3>2. /\ a \in Seq(Window) /\ Len(a) = q - 1 /\ \A i \in 1..(q - 1) : a[i] = ws[i]
          /\ b \in Seq(Window) /\ Len(b) = n - q /\ \A i \in 1..(n - q) : b[i] = ws[q + i]
      BY <1>1, <2>2, <3>1
    <3>3. rest = a \o b
      BY <1>1, <3>1 DEF RemoveAt
    <3>4. a \o b \in Seq(Window) /\ Len(a \o b) = n - 1
      <4>1. a \o b \in Seq(Window) /\ Len(a \o b) = Len(a) + Len(b)
        BY <3>2
      <4>2. (q - 1) + (n - q) = n - 1
        BY <1>1, <2>2
      <4>3. QED BY <3>2, <4>1, <4>2
    <3>5. ASSUME NEW i \in 1..(n - 1)
          PROVE  (a \o b)[i] = ws[IF i < q THEN i ELSE i + 1]
      <4>1. CASE i < q
        BY <2>2, <3>2, <4>1
      <4>2. CASE i >= q
        <5>1. (a \o b)[i] = b[i - (q - 1)] /\ i - (q - 1) \in 1..(n - q)
          BY <1>1, <2>2, <3>2, <4>2
        <5>2. q + (i - (q - 1)) = i + 1
          BY <2>2
        <5>3. ~(i < q)
          BY <2>2, <4>2
        <5>4. QED BY <3>2, <5>1, <5>2, <5>3
      <4>3. i < q \/ i >= q
        BY <2>2
      <4>4. QED BY <4>1, <4>2, <4>3
    <3>6. QED BY <3>3, <3>4, <3>5
  <2> HIDE DEF rest
  <2>4. DOMAIN rest = 1..(n - 1)
    BY <2>3
  <2>5. p \in [DOMAIN rest -> DOMAIN ws] /\ \A i \in DOMAIN rest : rest[i] = ws[p[i]] /\ p[i] # q
    BY <1>1, <2>2, <2>3, <2>4
  <2>6. \A i, j \in DOMAIN rest : i < j => p[i] < p[j]
    BY <2>2, <2>4
  <2> HIDE DEF p
  <2>7. key \notin KeysOf(rest)
    BY <1>1, <2>2, <2>5 DEF KeysOf, WindowsFit
  <2>8. /\ last \in Window /\ last.key = key /\ Len(last.times) <= RateOf(key)
        /\ Covers(last.times, given[key], now)
    <3> DEFINE pruned == [k \in DOMAIN ws |-> [ws[k] EXCEPT !.times = PruneLeft(@, s)]]
    <3>1. WindowsFit(pruned, given, order, now)
      BY PrunedFits
    <3>2. pruned[q] = last /\ q \in DOMAIN pruned
      BY <1>1, <2>2
    <3>3. pruned \in Seq(Window)
      BY <3>1 DEF WindowsFit
    <3> HIDE DEF pruned
    <3>4. last \in Window /\ Len(last.times) <= RateOf(last.key)
          /\ Covers(last.times, given[last.key], now)
      <4>1. \A i \in DOMAIN pruned : /\ Len(pruned[i].times) <= RateOf(pruned[i].key)
                                      /\ Covers(pruned[i].times, given[pruned[i].key], now)
        BY <3>1 DEF WindowsFit
      <4>2. pruned[q] \in Window
        BY <3>2, <3>3
      <4>3. QED BY <3>2, <4>1, <4>2
    <3>5. last.key = key
      BY <1>1, <2>2, WindowTypes DEF Window
    <3>6. QED BY <3>4, <3>5
  <2> HIDE DEF last
  <2>9. /\ WindowsFit(ts, Forget(ws, ts, given), After(order, key), now)
        /\ Len(ts) = Len(rest) + 1 /\ ts[Len(ts)] = last
    <3> HIDE DEF rest
    <3>1. LET u == Append(rest, last) IN
          /\ WindowsFit(u, Forget(ws, u, given), After(order, last.key), now)
          /\ Len(u) = Len(rest) + 1 /\ u[Len(u)] = last
      <4>1. /\ rest \in Seq(Window) /\ last \in Window /\ last.key \notin KeysOf(rest)
            /\ Len(last.times) <= RateOf(last.key)
            /\ Covers(last.times, given[last.key], now)
        BY <2>3, <2>7, <2>8
      <4>2. QED BY ONLY WindowsFit(ws, given, order, now), given \in Given, order \in Orders,
                        now \in Times, <2>5, <2>6, <4>1, PushedFits
    <3>2. QED BY <2>1, <2>8, <3>1
  <2>10. KeysOf(ws) \subseteq KeysOf(ts)
    <3> SUFFICES ASSUME NEW m \in 1..n PROVE ws[m].key \in KeysOf(ts)
      BY <1>1 DEF KeysOf
    <3>1. ts = Append(rest, last) /\ ts \in Seq(Window) /\ DOMAIN ts = 1..n
      BY <2>1, <2>3, <2>9 DEF WindowsFit
    <3> HIDE DEF ts
    <3>2. CASE m = q
      BY <1>1, <2>2, <2>3, <2>8, <2>9, <3>1, <3>2 DEF KeysOf
    <3>3. CASE m < q
      <4>1. ts[m] = ws[m]
        BY <2>2, <2>3, <3>1, <3>3
      <4>2. QED BY <3>1, <4>1 DEF KeysOf
    <3>4. CASE m > q
      <4>1. ts[m - 1] = ws[m] /\ m - 1 \in 1..n
        BY <2>2, <2>3, <3>1, <3>4
      <4>2. QED BY <3>1, <4>1 DEF KeysOf
    <3>5. QED BY <2>2, <3>2, <3>3, <3>4
  <2>11. QED BY <1>1, <1>2, <2>2, <2>3, <2>8, <2>9, <2>10
<1>4. CASE Find(ws, key) = {}
  <2> DEFINE full == Len(ws) >= MaxTrackedIps
             rest == IF full THEN Tail(ws) ELSE ws
             last == [key |-> key, times |-> <<>>]
             p == [i \in DOMAIN rest |-> IF full THEN i + 1 ELSE i]
  <2>1. ts = Append(rest, last)
    BY <1>4 DEF Touch
  <2>2. key \notin KeysOf(ws)
    BY <1>4 DEF Find, KeysOf
  <2>3. PICK m \in Nat : /\ m = (IF full THEN n - 1 ELSE n)
                         /\ rest \in Seq(Window) /\ Len(rest) = m /\ DOMAIN rest = 1..m
    BY <1>1, <1>2
  <2>4. \A i \in 1..m : rest[i] = ws[p[i]] /\ p[i] \in 1..n
    BY <1>1, <1>2, <2>3
  <2>5. p \in [DOMAIN rest -> DOMAIN ws] /\ \A i \in DOMAIN rest : rest[i] = ws[p[i]]
    BY <1>1, <2>3, <2>4
  <2>6. \A i, j \in DOMAIN rest : i < j => p[i] < p[j]
    BY <2>3
  <2> HIDE DEF p
  <2>7. key \notin KeysOf(rest)
    BY <2>2, <2>5 DEF KeysOf
  <2>8. Live(given[key], now) = {}
    BY <2>2 DEF WindowsFit
  <2>9. /\ last \in Window /\ last.key = key /\ Len(last.times) <= RateOf(key)
        /\ Covers(last.times, given[key], now)
    BY <2>8, CoversNothing, RateTypes DEF Window
  <2> HIDE DEF last
  <2>10. /\ WindowsFit(ts, Forget(ws, ts, given), After(order, key), now)
         /\ Len(ts) = Len(rest) + 1 /\ ts[Len(ts)] = last
    <3> HIDE DEF rest
    <3>1. LET u == Append(rest, last) IN
          /\ WindowsFit(u, Forget(ws, u, given), After(order, last.key), now)
          /\ Len(u) = Len(rest) + 1 /\ u[Len(u)] = last
      <4>1. /\ rest \in Seq(Window) /\ last \in Window /\ last.key \notin KeysOf(rest)
            /\ Len(last.times) <= RateOf(last.key)
            /\ Covers(last.times, given[last.key], now)
        BY <2>3, <2>7, <2>9
      <4>2. QED BY ONLY WindowsFit(ws, given, order, now), given \in Given, order \in Orders,
                        now \in Times, <2>5, <2>6, <4>1, PushedFits
    <3>2. QED BY <2>1, <2>9, <3>1
  <2>11. Len(ts) \in 1..MaxTrackedIps
    BY <1>1, <1>2, <2>3, <2>10
  <2>12. ASSUME NEW k \in KeysOf(ws) \ KeysOf(ts)
         PROVE  Len(ws) = MaxTrackedIps /\ k = ws[1].key
    <3>1. PICK i \in 1..n : ws[i].key = k
      BY <1>1 DEF KeysOf
    <3>2. \A j \in 1..m : j \in DOMAIN ts /\ ts[j] = rest[j]
      BY <2>1, <2>3
    <3>3. \A j \in 1..m : rest[j].key # k
      BY <2>12, <3>2 DEF KeysOf
    <3>4. full
      BY <1>1, <2>3, <3>1, <3>3
    <3>5. i = 1
      <4>1. SUFFICES ASSUME i # 1 PROVE FALSE
        OBVIOUS
      <4>2. i - 1 \in 1..m /\ rest[i - 1] = ws[i]
        BY <1>1, <2>3, <3>1, <3>4, <4>1
      <4>3. QED BY <3>1, <3>3, <4>2
    <3>6. QED BY <1>1, <1>2, <3>1, <3>4, <3>5
  <2>13. QED BY <2>2, <2>9, <2>10, <2>11, <2>12
<1>5. QED BY <1>3, <1>4

-----------------------------------------------------------------------------
\* An admission is noted with its key while it counts.
Noted(given, key, s, now) ==
    [k \in WindowKeys |-> IF k = key /\ ~Expired(s, now) THEN Append(given[k], s) ELSE given[k]]

\* Admitting into the last window, where it has room.
LEMMA AdmitFits ==
    ASSUME NEW ws, NEW given \in Given, NEW order \in Orders, NEW now \in Times,
           NEW s \in Times, NEW key \in WindowKeys,
           WindowsFit(ws, given, order, now), Len(ws) \in Nat \ {0},
           ws[Len(ws)].key = key, Len(ws[Len(ws)].times) < RateOf(key)
    PROVE  /\ WindowsFit(Admit(ws, s), Noted(given, key, s, now), order, now)
           /\ Len(Admit(ws, s)) = Len(ws) /\ KeysOf(Admit(ws, s)) = KeysOf(ws)
<1> DEFINE us == Admit(ws, s)
           given2 == Noted(given, key, s, now)
<1>1. PICK n \in Nat \ {0} : n = Len(ws) /\ DOMAIN ws = 1..n /\ ws \in Seq(Window)
  BY DEF WindowsFit
<1>2. PICK times \in Seq(Times) : times = ws[n].times
  BY <1>1, WindowTypes
<1>3. us = [ws EXCEPT ![n] = [key |-> key, times |-> Append(times, s)]]
  <2>1. ws[n] = [key |-> key, times |-> times]
    <3>1. ws[n] \in Window /\ ws[n].key = key
      BY <1>1
    <3>2. QED BY <1>2, <3>1 DEF Window
  <2>2. [ws[n] EXCEPT !.times = Append(@, s)] = [key |-> key, times |-> Append(times, s)]
    <3>1. PICK w : w = ws[n]
      OBVIOUS
    <3>2. PICK longer : longer = Append(times, s)
      OBVIOUS
    <3>3. w = [key |-> key, times |-> times] /\ Append(w.times, s) = longer
      BY <1>2, <2>1, <3>1, <3>2
    <3>4. [w EXCEPT !.times = longer] = [key |-> key, times |-> longer]
      BY ONLY <3>3
    <3>5. [w EXCEPT !.times = Append(@, s)] = [key |-> key, times |-> longer]
      BY ONLY <3>3, <3>4
    <3>6. QED BY <3>1, <3>2, <3>5
  <2>3. QED BY <1>1, <2>2 DEF Admit
<1>4. [key |-> key, times |-> Append(times, s)] \in Window /\ Len(Append(times, s)) = Len(times) + 1
  BY DEF Window
<1>5. us \in Seq(Window) /\ Len(us) = n /\ DOMAIN us = 1..n
  BY <1>1, <1>3, <1>4
<1>6. us[n].key = key /\ us[n].times = Append(times, s) /\ n \in 1..n
  BY <1>1, <1>3
<1>7. \A i \in 1..n : i # n => us[i] = ws[i]
  BY <1>1, <1>3
<1> HIDE DEF us
<1>8. \A i \in 1..n : us[i].key = ws[i].key
  BY <1>1, <1>6, <1>7
<1>9. KeysOf(us) = KeysOf(ws)
  BY <1>1, <1>5, <1>8 DEF KeysOf
<1>10. ASSUME NEW i \in 1..n
       PROVE  Len(us[i].times) <= RateOf(us[i].key) /\ Covers(us[i].times, given2[us[i].key], now)
  <2>1. /\ Len(ws[i].times) <= RateOf(ws[i].key) /\ ws[i].key \in WindowKeys
        /\ Covers(ws[i].times, given[ws[i].key], now)
    BY <1>1, WindowTypes DEF WindowsFit
  <2>2. CASE i = n
    <3>1. Len(times) \in Nat /\ RateOf(key) \in Nat /\ Len(times) < RateOf(key)
      BY <1>1, <1>2, RateTypes
    <3>2. given[key] \in Seq(Times) /\ now \in Int
      BY TimeTypes DEF Given
    <3>3. Covers(times, given[key], now)
      BY <1>1, <1>2, <2>1, <2>2
    <3>4. /\ Covers(Append(times, s), given[key], now)
          /\ Covers(Append(times, s), Append(given[key], s), now)
      BY <3>2, <3>3, CoversAdmitted, TimeTypes
    <3>5. Covers(us[i].times, given2[us[i].key], now)
      BY <1>6, <2>2, <3>4 DEF Noted
    <3>6. Len(us[i].times) <= RateOf(us[i].key)
      BY <1>4, <1>6, <2>2, <3>1
    <3>7. QED BY <3>5, <3>6
  <2>3. CASE i # n
    <3>1. us[i] = ws[i]
      BY <1>7, <2>3
    <3>2. ws[i].key # key
      BY <1>1, <2>3 DEF WindowsFit
    <3>3. QED BY <2>1, <3>1, <3>2 DEF Noted
  <2>4. QED BY <2>2, <2>3
<1>11. ASSUME NEW k \in WindowKeys \ KeysOf(us) PROVE Live(given2[k], now) = {}
  <2>1. key \in KeysOf(ws)
    BY <1>1 DEF KeysOf
  <2>2. QED BY <1>9, <2>1 DEF Noted, WindowsFit
<1>12. /\ \A i, j \in 1..n : us[i].key = us[j].key => i = j
       /\ \A i, j \in 1..n : i < j => us[j].key \in order[us[i].key]
  BY <1>1, <1>8 DEF WindowsFit
<1>13. WindowsFit(us, given2, order, now)
  BY <1>5, <1>10, <1>11, <1>12 DEF WindowsFit
<1>14. QED BY <1>1, <1>5, <1>9, <1>13 DEF us

LEMMA HistoryTypes ==
    ASSUME NEW given \in Given, NEW order \in Orders, NEW key \in WindowKeys
    PROVE  /\ \A ws, ts : Forget(ws, ts, given) \in Given
           /\ After(order, key) \in Orders
           /\ \A s \in Times : \A now : Noted(given, key, s, now) \in Given
BY DEF Given, Orders, Forget, After, Noted

\* What a check of a window does to the windows and to the history.
LEMMA RecordFits ==
    ASSUME TypeOK, WindowsInv, StoresInv,
           NEW key \in WindowKeys, NEW s \in 0..clock, NEW ok \in BOOLEAN,
           Record(key, s, ok), ok => ~WindowFull(key, s)
    PROVE  /\ WindowsFit(windows', admitted', since', clock) /\ Len(windows') <= MaxTrackedIps
           /\ admitted' \in Given /\ since' \in Orders
           /\ \A k \in WindowKeys :
                 Live(admitted[k], clock) # {} /\ Live(admitted'[k], clock) = {} =>
                     \E ws \in Seq(Window) :
                         /\ WindowsFit(ws, admitted, since, clock)
                         /\ Len(ws) = MaxTrackedIps /\ k = ws[1].key /\ key \notin KeysOf(ws)
                         /\ since' = After(since, key)
<1> DEFINE old == PrunedWindows(s)
           ws == Touch(old, key, s)
           given2 == Forget(old, ws, admitted)
           order2 == After(since, key)
<1>1. /\ clock \in Times /\ s \in Times /\ s \in Int /\ s <= clock
      /\ admitted \in Given /\ since \in Orders /\ MaxTrackedIps \in Nat \ {0}
  BY TimeTypes, LimitAssumption DEF TypeOK, Times, Given, Orders
<1>2. WindowsFit(old, admitted, since, clock) /\ Len(old) <= MaxTrackedIps
  <2>1. WindowsFit(windows, admitted, since, clock) /\ Len(windows) <= MaxTrackedIps
    BY DEF WindowsInv, StoresInv
  <2>2. /\ WindowsFit(SweepWindows(s), admitted, since, clock)
        /\ Len(SweepWindows(s)) <= Len(windows)
    BY <1>1, <2>1, SweepFits
  <2>3. Len(SweepWindows(s)) \in Nat /\ Len(windows) \in Nat
    BY <2>1, <2>2 DEF WindowsFit
  <2>4. QED BY <1>1, <2>1, <2>2, <2>3 DEF PrunedWindows
<1> HIDE DEF old
<1>3. /\ WindowsFit(ws, given2, order2, clock)
      /\ Len(ws) \in 1..MaxTrackedIps /\ ws[Len(ws)].key = key
      /\ \A k \in KeysOf(old) \ KeysOf(ws) :
            Len(old) = MaxTrackedIps /\ k = old[1].key /\ key \notin KeysOf(old)
  BY <1>1, <1>2, TouchFits
<1>4. given2 \in Given /\ order2 \in Orders
  BY <1>1, HistoryTypes
<1>5. since' = order2
  BY DEF Record, After
<1>6. key \in KeysOf(ws)
  BY <1>3 DEF KeysOf, WindowsFit
<1>7. windows' = (IF ok THEN Admit(ws, s) ELSE ws)
  BY DEF Record, old
<1>8. admitted' = IF ok THEN Noted(given2, key, s, clock) ELSE given2
  <2>1. admitted' = [k \in WindowKeys |->
           IF k \in KeysOf(old) \ KeysOf(ws) THEN <<>>
           ELSE IF k = key /\ ok /\ ~Expired(s, clock) THEN Append(admitted[k], s)
           ELSE admitted[k]]
    BY DEF Record, old
  <2> HIDE DEF ws
  <2>2. QED BY <1>6, <2>1 DEF Forget, Noted
<1>9. ok => Len(ws[Len(ws)].times) < RateOf(key)
  <2>1. ok => ~(Len(ws[Len(ws)].times) >= RateOf(key))
    BY DEF WindowFull, Last, old
  <2>2. ws[Len(ws)].times \in Seq(Times)
    BY <1>3, WindowTypes DEF WindowsFit
  <2>3. QED BY <2>1, <2>2, RateTypes
<1> HIDE DEF ws
<1>10. WindowsFit(windows', admitted', since', clock) /\ Len(windows') = Len(ws)
  <2>1. CASE ok
    <3>1. /\ WindowsFit(Admit(ws, s), Noted(given2, key, s, clock), order2, clock)
          /\ Len(Admit(ws, s)) = Len(ws)
      BY <1>1, <1>3, <1>4, <1>9, <2>1, AdmitFits
    <3>2. QED BY <1>5, <1>7, <1>8, <2>1, <3>1
  <2>2. CASE ~ok
    BY <1>3, <1>5, <1>7, <1>8, <2>2
  <2>3. QED BY <2>1, <2>2
<1>11. admitted' \in Given /\ since' \in Orders
  BY <1>1, <1>4, <1>5, <1>8, HistoryTypes
<1>12. ASSUME NEW k \in WindowKeys, Live(admitted[k], clock) # {}, Live(admitted'[k], clock) = {}
       PROVE  k \in KeysOf(old) \ KeysOf(ws)
  <2>1. SUFFICES ASSUME k \notin KeysOf(old) \ KeysOf(ws) PROVE FALSE
    OBVIOUS
  <2>2. \/ admitted'[k] = admitted[k]
        \/ admitted'[k] = Append(admitted[k], s)
    BY <1>8, <2>1 DEF Forget, Noted
  <2>3. PICK m \in Live(admitted[k], clock) : TRUE
    BY <1>12
  <2>4. admitted[k] \in Seq(Times)
    BY <1>1 DEF Given
  <2>5. m \in Live(Append(admitted[k], s), clock)
    BY <2>3, <2>4 DEF Live
  <2>6. QED BY <1>12, <2>2, <2>3, <2>5
<1>13. old \in Seq(Window)
  BY <1>2 DEF WindowsFit
<1>14. Len(windows') <= MaxTrackedIps
  BY <1>1, <1>3, <1>10
<1>15. QED BY <1>2, <1>3, <1>5, <1>10, <1>11, <1>12, <1>13, <1>14

-----------------------------------------------------------------------------
(***************************************************************************)
(* Days and counters.                                                      *)
(***************************************************************************)
LEMMA DayTypes ==
    ASSUME NEW a \in Nat, NEW b \in Nat, a <= b
    PROVE  DayBucket(a) \in Nat /\ DayBucket(b) \in Nat /\ DayBucket(a) <= DayBucket(b)
<1>1. Day \in Nat \ {0}
  BY LimitAssumption
<1>2. PICK d \in Nat \ {0} : d = Day
  BY <1>1
<1>3. PICK x, y : x = a \div d /\ y = b \div d
  OBVIOUS
<1>4. /\ x \in Nat /\ d * x <= a /\ a < d * (x + 1)
      /\ y \in Nat /\ d * y <= b /\ b < d * (y + 1)
  BY <1>2, <1>3
<1>5. x <= y
  <2>1. SUFFICES ASSUME y + 1 <= x PROVE FALSE
    BY <1>4
  <2>2. d * (y + 1) <= d * x
    BY <1>2, <1>4, <2>1
  <2>3. QED BY <1>2, <1>4, <2>2
<1>6. QED BY <1>2, <1>3, <1>4, <1>5 DEF DayBucket

LEMMA BucketTypes == \A a \in Times : DayBucket(a) \in Buckets /\ DayBucket(a) \in Nat
<1>1. MaxClock \in Nat
  BY LimitAssumption
<1>2. ASSUME NEW a \in Times PROVE DayBucket(a) \in Buckets /\ DayBucket(a) \in Nat
  BY <1>1, DayTypes DEF Times, Buckets
<1>3. QED BY <1>2

\* A table of counters over the keys of a set.
Counters(counts, K) == /\ counts \in [DOMAIN counts -> Nat \ {0}]
                       /\ DOMAIN counts \subseteq K
                       /\ IsFiniteSet(DOMAIN counts)
                       /\ Cardinality(DOMAIN counts) <= MaxTrackedDayKeys

\* Pruning keeps every counter of the day and of later ones.
LEMMA PrunedCounters ==
    ASSUME NEW counts, NEW I, Counters(counts, I \X Buckets), NEW s \in Times
    PROVE  /\ Counters(PrunedCounts(counts, s), I \X Buckets)
           /\ \A i \in I, b \in Buckets :
                 \/ Count(PrunedCounts(counts, s), <<i, b>>) = Count(counts, <<i, b>>)
                 \/ /\ Count(PrunedCounts(counts, s), <<i, b>>) = 0
                    /\ b < DayBucket(s)
<1> DEFINE D == {l \in DOMAIN counts : l[2] >= DayBucket(s)}
<1>1. Buckets \subseteq Int /\ DayBucket(s) \in Nat
  BY BucketTypes DEF Buckets
<1>2. CASE Stale(s)
  <2>1. PrunedCounts(counts, s) = [k \in D |-> counts[k]]
    BY <1>2 DEF PrunedCounts, DropOlder
  <2>2. D \subseteq DOMAIN counts
    OBVIOUS
  <2>3. IsFiniteSet(D) /\ Cardinality(D) <= Cardinality(DOMAIN counts)
        /\ Cardinality(D) \in Nat /\ Cardinality(DOMAIN counts) \in Nat
    BY <2>2, FS_Subset, FS_CardinalityType DEF Counters
  <2>4. MaxTrackedDayKeys \in Nat
    BY LimitAssumption
  <2>5. Cardinality(D) <= MaxTrackedDayKeys
    BY <2>3, <2>4 DEF Counters
  <2>6. ASSUME NEW i \in I, NEW b \in Buckets
        PROVE  \/ Count(PrunedCounts(counts, s), <<i, b>>) = Count(counts, <<i, b>>)
               \/ /\ Count(PrunedCounts(counts, s), <<i, b>>) = 0
                  /\ b < DayBucket(s)
    <3>1. CASE <<i, b>> \in D
      BY <2>1, <3>1 DEF Count
    <3>2. CASE <<i, b>> \notin DOMAIN counts
      BY <2>1, <3>2 DEF Count
    <3>3. CASE <<i, b>> \in DOMAIN counts \ D
      <4>1. ~(b >= DayBucket(s))
        BY <3>3
      <4>2. QED BY <1>1, <2>1, <3>3, <4>1 DEF Count
    <3>4. QED BY <3>1, <3>2, <3>3
  <2>7. Counters(PrunedCounts(counts, s), I \X Buckets)
    BY <2>1, <2>2, <2>3, <2>5 DEF Counters
  <2>8. QED BY <2>6, <2>7
<1>3. CASE ~Stale(s)
  BY <1>3 DEF PrunedCounts
<1>4. QED BY <1>2, <1>3

\* A counter goes up by one; an unseen key needs room.
LEMMA BumpedCounters ==
    ASSUME NEW counts, NEW K, Counters(counts, K), NEW key \in K,
           key \in DOMAIN counts \/ Cardinality(DOMAIN counts) < MaxTrackedDayKeys
    PROVE  /\ Counters(Bump(counts, key), K)
           /\ \A k \in K : Count(Bump(counts, key), k) =
                              IF k = key THEN Count(counts, k) + 1 ELSE Count(counts, k)
<1> DEFINE D == DOMAIN counts \cup {key}
<1>1. Bump(counts, key) = [k \in D |-> IF k = key THEN Count(counts, k) + 1 ELSE counts[k]]
  BY DEF Bump
<1>2. Count(counts, key) \in Nat
  BY DEF Count, Counters
<1>3. \A k \in D : (IF k = key THEN Count(counts, k) + 1 ELSE counts[k]) \in Nat \ {0}
  BY <1>2 DEF Counters
<1>4. IsFiniteSet(D) /\ Cardinality(D) <= MaxTrackedDayKeys
  <2>1. /\ IsFiniteSet(D)
        /\ Cardinality(D) = IF key \in DOMAIN counts THEN Cardinality(DOMAIN counts)
                            ELSE Cardinality(DOMAIN counts) + 1
    BY FS_AddElement DEF Counters
  <2>2. Cardinality(DOMAIN counts) \in Nat /\ MaxTrackedDayKeys \in Nat
    BY FS_CardinalityType, LimitAssumption DEF Counters
  <2>3. QED BY <2>1, <2>2 DEF Counters
<1>5. D \subseteq K
  BY DEF Counters
<1>6. QED BY <1>1, <1>3, <1>4, <1>5 DEF Counters, Count

LEMMA CapTypes == CreateCap \in Nat \ {0} /\ CreatePerDay <= CreateCap
BY LimitAssumption DEF CreateCap

\* The calls that wait are some of the threads.
LEMMA WaitingTypes ==
    ASSUME NEW b
    PROVE  /\ WaitingOn(b) \subseteq Threads /\ IsFiniteSet(Threads)
           /\ IsFiniteSet(WaitingOn(b)) /\ Cardinality(WaitingOn(b)) \in Nat
           /\ Cardinality(Threads) \in Nat
<1>1. IsFiniteSet(Threads) /\ WaitingOn(b) \subseteq Threads
  BY LimitAssumption DEF WaitingOn
<1>2. QED BY <1>1, FS_Subset, FS_CardinalityType

\* What holding the lock does to the days: the thread prunes, and may create.
LEMMA LockDays ==
    ASSUME TypeOK, DaysInv, StoresInv, NEW t \in Threads, call[t] # NoCall, Return(t),
           NEW ip \in Ips, NEW ok \in BOOLEAN,
           LET key  == <<ip, DayBucket(call[t].now)>>
               left == PrunedCounts(createCounts, call[t].now)
           IN  /\ ok => ~CreateFull(left, key)
               /\ createCounts' = IF ok THEN Bump(left, key) ELSE left
               /\ created' = IF ok THEN [created EXCEPT ![ip][key[2]] = @ + 1] ELSE created
    PROVE  /\ Counters(createCounts', Ips \X Buckets) /\ DaysInv'
           /\ created' \in [Ips -> [Buckets -> Nat]]
<1> DEFINE s    == call[t].now
           day  == DayBucket(s)
           key  == <<ip, day>>
           left == PrunedCounts(createCounts, s)
           K    == Ips \X Buckets
<1>1. s \in Times /\ s \in Nat /\ s <= clock /\ clock \in Nat /\ call[t] \in Pending
  <2>1. call[t] \in Pending /\ clock \in Times
    BY DEF TypeOK
  <2>2. s \in 0..clock
    BY <2>1 DEF Pending
  <2>3. QED BY <2>1, <2>2, LimitAssumption DEF Times
<1>2. day \in Nat /\ day \in Buckets /\ DayBucket(clock) \in Nat /\ day <= DayBucket(clock)
  BY <1>1, BucketTypes, DayTypes
<1>3. key \in K
  BY <1>2
<1>4. Counters(createCounts, K)
  BY DEF StoresInv, TypeOK, Counters
<1>5. /\ Counters(left, K)
      /\ \A i \in Ips, b \in Buckets :
            \/ Count(left, <<i, b>>) = Count(createCounts, <<i, b>>)
            \/ Count(left, <<i, b>>) = 0 /\ b < day
  BY <1>1, <1>4, PrunedCounters
<1> HIDE DEF left
<1>6. ok => /\ key \in DOMAIN left \/ Cardinality(DOMAIN left) < MaxTrackedDayKeys
            /\ Count(left, key) < CreateCap
  <2>1. Cardinality(DOMAIN left) \in Nat /\ MaxTrackedDayKeys \in Nat /\ CreatePerDay \in Nat
    BY <1>5, FS_CardinalityType, LimitAssumption DEF Counters
  <2>2. ok => ~CreateFull(left, key)
    BY DEF left
  <2>3. key \in DOMAIN left => left[key] \in Nat
    BY <1>5 DEF Counters
  <2>4. QED BY <2>1, <2>2, <2>3, CapTypes DEF CreateFull, Count
<1>7. createCounts' = IF ok THEN Bump(left, key) ELSE left
  BY DEF left
<1>8. Counters(createCounts', K)
  <2>1. CASE ok
    BY <1>3, <1>5, <1>6, <1>7, <2>1, BumpedCounters
  <2>2. CASE ~ok
    BY <1>5, <1>7, <2>2
  <2>3. QED BY <2>1, <2>2
<1>9. created' \in [Ips -> [Buckets -> Nat]]
      /\ \A i \in Ips, b \in Buckets :
            created'[i][b] = IF ok /\ <<i, b>> = key THEN created[i][b] + 1 ELSE created[i][b]
  <2>1. created' = IF ok THEN [created EXCEPT ![ip][day] = @ + 1] ELSE created
    OBVIOUS
  <2> HIDE DEF day
  <2>2. QED BY <1>2, <2>1 DEF TypeOK
<1>10. clock' = clock /\ call' = [call EXCEPT ![t] = NoCall]
  BY DEF Return
<1>11. ASSUME NEW i \in Ips, NEW b \in Buckets PROVE DayOf(i, b)'
  <2> DEFINE hit == ok /\ <<i, b>> = key
  <2>1. PICK c, m, n, c2, n2, w, w2 :
            /\ c = Count(createCounts, <<i, b>>) /\ m = Count(left, <<i, b>>)
            /\ c2 = Count(createCounts, <<i, b>>)' /\ n = created[i][b] /\ n2 = created'[i][b]
            /\ w = Cardinality(WaitingOn(b)) /\ w2 = Cardinality(WaitingOn(b))'
    OBVIOUS
  <2>2. b \in Int /\ c \in Nat /\ m \in Nat /\ n \in Nat
    <3>1. n \in Nat
      BY <2>1 DEF TypeOK
    <3>2. QED BY <1>4, <1>5, <2>1, <3>1 DEF Count, Counters, Buckets
  <2>3. n2 = (IF hit THEN n + 1 ELSE n)
    BY <1>9, <2>1
  <2>4. c2 = (IF hit THEN m + 1 ELSE m)
    <3>1. Count(createCounts, <<i, b>>)' = Count(createCounts', <<i, b>>)
      BY DEF Count
    <3>2. CASE ok
      BY <1>3, <1>5, <1>6, <1>7, <2>1, <3>1, <3>2, BumpedCounters
    <3>3. CASE ~ok
      BY <1>7, <2>1, <3>1, <3>3
    <3>4. QED BY <3>2, <3>3
  <2>5. m = c \/ (m = 0 /\ b < day)
    BY <1>5, <2>1
  <2>6. hit => m < CreateCap /\ b = day
    BY <1>6, <2>1
  <2>7. c <= CreateCap /\ CreateCap \in Nat \ {0}
        /\ \/ n = c
           \/ b < DayBucket(clock) /\ n + w <= CreateCap + Cardinality(Threads) - 1
    BY <2>1, CapTypes DEF DaysInv, DayOf
  <2>8. /\ w \in Nat /\ w2 \in Nat /\ w2 <= w /\ Cardinality(Threads) \in Nat
        /\ b = day => w2 + 1 = w
        /\ b # day => w2 <= Cardinality(Threads) - 1
    <3>1. WaitingOn(b)' = WaitingOn(b) \ {t}
      BY <1>10 DEF WaitingOn, TypeOK
    <3>2. PICK W : W = WaitingOn(b)
      OBVIOUS
    <3>3. /\ W \subseteq Threads /\ IsFiniteSet(Threads) /\ IsFiniteSet(W)
          /\ Cardinality(W) \in Nat /\ Cardinality(Threads) \in Nat
      BY <3>2, WaitingTypes
    <3>4. w = Cardinality(W) /\ w2 = Cardinality(W \ {t})
      BY <2>1, <3>1, <3>2
    <3>5. t \in W <=> b = day
      BY <3>2 DEF WaitingOn
    <3>6. Cardinality(W \ {t}) = IF t \in W THEN Cardinality(W) - 1 ELSE Cardinality(W)
      BY <3>3, FS_RemoveElement
    <3>7. /\ IsFiniteSet(Threads \ {t}) /\ Cardinality(Threads \ {t}) = Cardinality(Threads) - 1
          /\ IsFiniteSet(W \ {t}) /\ Cardinality(W \ {t}) \in Nat
      BY <3>3, FS_RemoveElement, FS_CardinalityType
    <3>8. Cardinality(W \ {t}) <= Cardinality(Threads \ {t})
      BY <3>3, <3>7, FS_Subset
    <3>9. QED BY <3>3, <3>4, <3>5, <3>6, <3>7, <3>8
  <2> HIDE DEF hit, key, day
  <2>9. DayBucket(clock)' = DayBucket(clock)
    BY <1>10
  <2>10. c2 <= CreateCap
    BY <2>2, <2>4, <2>5, <2>6, <2>7
  <2>11. \/ n2 = c2
         \/ b < DayBucket(clock) /\ n2 + w2 <= CreateCap + Cardinality(Threads) - 1
    <3>1. CASE n = c /\ m = c
      BY <2>3, <2>4, <3>1
    <3>2. CASE n = c /\ m # c
      <4>1. b < day /\ ~hit
        BY <1>2, <2>2, <2>5, <2>6, <3>2
      <4>2. QED BY <1>2, <2>2, <2>3, <2>7, <2>8, <3>2, <4>1
    <3>3. CASE b < DayBucket(clock) /\ n + w <= CreateCap + Cardinality(Threads) - 1
      BY <2>2, <2>3, <2>6, <2>7, <2>8, <3>3
    <3>4. QED BY <2>7, <3>1, <3>2, <3>3
  <2>12. QED BY <2>1, <2>9, <2>10, <2>11 DEF DayOf
<1>12. QED BY <1>8, <1>9, <1>11 DEF DaysInv

-----------------------------------------------------------------------------
\* A call that has read the clock.
LEMMA CallTypes ==
    ASSUME TypeOK, NEW t \in Threads, call[t] # NoCall
    PROVE  /\ call[t] \in Pending /\ call[t].now \in 0..clock /\ call[t].now \in Times
           /\ call[t].ip \in Ips /\ call[t].session \in ChatSessions \cup {NoSession}
           /\ DayBucket(call[t].now) \in Buckets
<1>1. call[t] \in Pending /\ clock \in Times
  BY DEF TypeOK
<1>2. call[t].now \in 0..clock /\ call[t].ip \in Ips
      /\ call[t].session \in ChatSessions \cup {NoSession}
  BY <1>1 DEF Pending
<1>3. call[t].now \in Times
  BY <1>1, <1>2, LimitAssumption DEF Times
<1>4. QED BY <1>1, <1>2, <1>3, BucketTypes

\* A step under the lock, put together.
LEMMA LockStep ==
    ASSUME TypeOK, NEW t \in Threads, call[t] # NoCall, Return(t),
           WindowsFit(windows', admitted', since', clock), Len(windows') <= MaxTrackedIps,
           admitted' \in Given, since' \in Orders,
           Counters(dayCounts', ChatSessions \X Buckets),
           Counters(createCounts', Ips \X Buckets), DaysInv',
           created' \in [Ips -> [Buckets -> Nat]]
    PROVE  TypeOK' /\ LimitInv'
<1>1. clock' = clock /\ call' = [call EXCEPT ![t] = NoCall] /\ lastPruned' \in Buckets
  BY CallTypes DEF Return
<1>2. WindowsInv' /\ windows' \in Seq(Window)
  BY <1>1 DEF WindowsInv, WindowsFit
<1>3. StoresInv'
  BY DEF StoresInv, Counters
<1>4. call' \in [Threads -> Pending' \cup {NoCall}]
  BY <1>1 DEF TypeOK, Pending
<1>5. TypeOK'
  BY <1>1, <1>2, <1>4 DEF TypeOK, Counters, Given, Orders
<1>6. QED BY <1>2, <1>3, <1>5 DEF LimitInv

LEMMA CheckPreserves ==
    ASSUME TypeOK, LimitInv, NEW t \in Threads, CheckMessage(t) \/ CheckOauthRequest(t)
    PROVE  TypeOK' /\ LimitInv'
<1> DEFINE c == call[t]
           s == c.now
           op == IF c.op = "message" THEN "message" ELSE "oauth"
           key == <<op, c.ip>>
<1>1. c # NoCall /\ Return(t) /\ created' = created
      /\ createCounts' = PrunedCounts(createCounts, s)
  BY DEF CheckMessage, CheckOauthRequest, NoCall
<1>2. /\ c \in Pending /\ s \in 0..clock /\ s \in Times /\ c.ip \in Ips
      /\ DayBucket(s) \in Buckets /\ key \in WindowKeys
      /\ c.session \in ChatSessions \cup {NoSession}
  BY <1>1, CallTypes DEF WindowKeys
<1>3. PICK ok \in BOOLEAN :
          /\ Record(key, s, ok) /\ (ok => ~WindowFull(key, s))
          /\ dayCounts' = IF ok /\ c.op = "message" /\ c.session # NoSession
                          THEN Bump(PrunedCounts(dayCounts, s), <<c.session, DayBucket(s)>>)
                          ELSE PrunedCounts(dayCounts, s)
          /\ ok /\ c.op = "message" => ~DayFull(c.session, s)
  <2>1. CASE CheckMessage(t)
    <3> DEFINE ok == ~WindowFull(key, s) /\ ~DayFull(c.session, s)
    <3>1. c.op = "message" /\ key = <<"message", c.ip>>
      BY <2>1 DEF CheckMessage
    <3>2. /\ Record(key, s, ok)
          /\ dayCounts' = IF ok /\ c.session # NoSession
                          THEN Bump(PrunedCounts(dayCounts, s), <<c.session, DayBucket(s)>>)
                          ELSE PrunedCounts(dayCounts, s)
      BY <2>1, <3>1 DEF CheckMessage
    <3>3. ok \in BOOLEAN /\ (ok => ~WindowFull(key, s)) /\ (ok => ~DayFull(c.session, s))
      OBVIOUS
    <3> HIDE DEF ok
    <3>4. QED BY <3>1, <3>2, <3>3
  <2>2. CASE CheckOauthRequest(t)
    <3> DEFINE ok == ~WindowFull(key, s)
    <3>1. c.op = "oauth" /\ key = <<"oauth", c.ip>> /\ c.op # "message"
      BY <2>2 DEF CheckOauthRequest
    <3>2. Record(key, s, ok) /\ dayCounts' = PrunedCounts(dayCounts, s)
      BY <2>2, <3>1 DEF CheckOauthRequest
    <3>3. ok \in BOOLEAN /\ (ok => ~WindowFull(key, s))
      OBVIOUS
    <3> HIDE DEF ok
    <3>4. QED BY <3>1, <3>2, <3>3
  <2>3. QED BY <2>1, <2>2
<1>4. /\ WindowsFit(windows', admitted', since', clock) /\ Len(windows') <= MaxTrackedIps
      /\ admitted' \in Given /\ since' \in Orders
  BY <1>2, <1>3, RecordFits DEF LimitInv
<1>5. Counters(dayCounts', ChatSessions \X Buckets)
  <2> DEFINE left == PrunedCounts(dayCounts, s)
             own  == <<c.session, DayBucket(s)>>
  <2>1. Counters(dayCounts, ChatSessions \X Buckets)
    BY DEF TypeOK, LimitInv, StoresInv, Counters
  <2>2. Counters(left, ChatSessions \X Buckets)
    BY <1>2, <2>1, PrunedCounters
  <2>3. CASE ok /\ c.op = "message" /\ c.session # NoSession
    <3>1. own \in ChatSessions \X Buckets
      BY <1>2, <2>3
    <3>2. ~(Count(left, own) = 0 /\ Cardinality(DOMAIN left) >= MaxTrackedDayKeys)
      BY <1>3, <2>3 DEF DayFull
    <3> HIDE DEF left
    <3>3. own \in DOMAIN left \/ Cardinality(DOMAIN left) < MaxTrackedDayKeys
      <4>1. Cardinality(DOMAIN left) \in Nat /\ MaxTrackedDayKeys \in Nat
        BY <2>2, FS_CardinalityType, LimitAssumption DEF Counters
      <4>2. QED BY <3>2, <4>1 DEF Count
    <3>4. Counters(Bump(left, own), ChatSessions \X Buckets)
      BY <2>2, <3>1, <3>3, BumpedCounters
    <3>5. QED BY <1>3, <2>3, <3>4 DEF left
  <2>4. CASE ~(ok /\ c.op = "message" /\ c.session # NoSession)
    BY <1>3, <2>2, <2>4
  <2>5. QED BY <2>3, <2>4
<1>6. /\ Counters(createCounts', Ips \X Buckets) /\ DaysInv'
      /\ created' \in [Ips -> [Buckets -> Nat]]
  <2>1. DaysInv /\ StoresInv
    BY DEF LimitInv
  <2>2. QED BY <1>1, <1>2, <2>1, LockDays
<1>7. QED BY <1>1, <1>4, <1>5, <1>6, LockStep

LEMMA ReservePreserves ==
    ASSUME TypeOK, LimitInv, NEW t \in Threads, ReserveSessionCreate(t)
    PROVE  TypeOK' /\ LimitInv'
<1> DEFINE c == call[t]
           s == c.now
           key == <<c.ip, DayBucket(s)>>
           left == PrunedCounts(createCounts, s)
           ok == ~CreateFull(left, key)
<1>1. c # NoCall /\ Return(t) /\ UNCHANGED <<admitted, since>>
      /\ windows' = PrunedWindows(s) /\ dayCounts' = PrunedCounts(dayCounts, s)
      /\ createCounts' = (IF ok THEN Bump(left, key) ELSE left)
      /\ created' = IF ok THEN [created EXCEPT ![c.ip][key[2]] = @ + 1] ELSE created
  BY DEF ReserveSessionCreate, NoCall
<1>2. s \in 0..clock /\ s \in Times /\ c.ip \in Ips
  BY <1>1, CallTypes
<1>3. /\ clock \in Times /\ s \in Int /\ s <= clock
      /\ admitted \in Given /\ since \in Orders
  BY <1>2, TimeTypes DEF TypeOK, Given, Orders
<1>4. WindowsFit(windows', admitted', since', clock) /\ Len(windows') <= MaxTrackedIps
  <2>1. WindowsFit(windows, admitted, since, clock) /\ Len(windows) <= MaxTrackedIps
    BY DEF LimitInv, WindowsInv, StoresInv
  <2>2. /\ WindowsFit(SweepWindows(s), admitted, since, clock)
        /\ Len(SweepWindows(s)) <= Len(windows)
    BY <1>3, <2>1, SweepFits
  <2>3. Len(SweepWindows(s)) \in Nat /\ Len(windows) \in Nat /\ MaxTrackedIps \in Nat
    BY <2>1, <2>2, LimitAssumption DEF WindowsFit
  <2>4. QED BY <1>1, <2>1, <2>2, <2>3 DEF PrunedWindows
<1>5. Counters(dayCounts', ChatSessions \X Buckets)
  <2>1. Counters(dayCounts, ChatSessions \X Buckets)
    BY DEF TypeOK, LimitInv, StoresInv, Counters
  <2>2. QED BY <1>1, <1>2, <2>1, PrunedCounters
<1>6. /\ Counters(createCounts', Ips \X Buckets) /\ DaysInv'
      /\ created' \in [Ips -> [Buckets -> Nat]]
  <2>1. DaysInv /\ StoresInv /\ ok \in BOOLEAN
    BY DEF LimitInv
  <2>2. QED BY <1>1, <1>2, <2>1, LockDays
<1>7. QED BY <1>1, <1>3, <1>4, <1>5, <1>6, LockStep

LEMMA AdvancePreserves ==
    ASSUME TypeOK, LimitInv, Advance
    PROVE  TypeOK' /\ LimitInv'
<1>1. /\ clock \in Times /\ clock' \in Times /\ clock <= clock' /\ clock \in Nat /\ clock' \in Nat
      /\ clock' \in Int /\ clock \in Int /\ 0..clock \subseteq 0..clock'
  BY LimitAssumption DEF Advance, TypeOK, Times
<1>2. UNCHANGED <<call, windows, dayCounts, createCounts, lastPruned, created, since>>
      /\ admitted' = [k \in WindowKeys |-> PruneLeft(admitted[k], clock')]
  BY DEF Advance
<1>3. admitted' \in Given
  <2>1. ASSUME NEW k \in WindowKeys PROVE PruneLeft(admitted[k], clock') \in Seq(Times)
    <3>1. admitted[k] \in Seq(Times)
      BY DEF TypeOK
    <3>2. QED BY <1>1, <3>1, Pruning, TimeTypes
  <2>2. QED BY <1>2, <2>1 DEF Given
<1>4. Pending \subseteq Pending'
  BY <1>1 DEF Pending
<1>5. TypeOK'
  <2>1. call' \in [Threads -> Pending' \cup {NoCall}]
    BY <1>2, <1>4 DEF TypeOK
  <2>2. QED BY <1>1, <1>2, <1>3, <2>1 DEF TypeOK, Given
<1>6. WindowsFit(windows, admitted', since, clock')
  <2>1. WindowsFit(windows, admitted, since, clock) /\ windows \in Seq(Window)
    BY DEF LimitInv, WindowsInv, WindowsFit
  <2>2. ASSUME NEW i \in DOMAIN windows
        PROVE  Covers(windows[i].times, admitted'[windows[i].key], clock')
    <3>1. windows[i].key \in WindowKeys /\ windows[i].times \in Seq(Times)
      BY <2>1, WindowTypes
    <3>2. admitted[windows[i].key] \in Seq(Times)
      BY <3>1 DEF TypeOK
    <3>3. Covers(windows[i].times, admitted[windows[i].key], clock)
      BY <2>1 DEF WindowsFit
    <3>4. Covers(windows[i].times, PruneLeft(admitted[windows[i].key], clock'), clock')
      BY <1>1, <3>1, <3>2, <3>3, CoversLater, TimeTypes
    <3>5. QED BY <1>2, <3>1, <3>4
  <2>3. ASSUME NEW k \in WindowKeys \ KeysOf(windows) PROVE Live(admitted'[k], clock') = {}
    <3>1. Live(admitted[k], clock) = {} /\ admitted[k] \in Seq(Times)
      BY <2>1 DEF WindowsFit, TypeOK
    <3>2. Covers(<<>>, admitted[k], clock) /\ <<>> \in Seq(Times)
      BY <3>1, CoversNothing
    <3>3. Covers(<<>>, PruneLeft(admitted[k], clock'), clock')
      BY <1>1, <3>1, <3>2, CoversLater, TimeTypes
    <3>4. Live(PruneLeft(admitted[k], clock'), clock') = {}
      BY <3>2, <3>3, CoversCount
    <3>5. QED BY <1>2, <3>4
  <2>4. QED BY <2>1, <2>2, <2>3 DEF WindowsFit
<1>7. WindowsInv'
  BY <1>2, <1>6 DEF WindowsInv
<1>8. StoresInv'
  BY <1>2 DEF LimitInv, StoresInv
<1>9. DaysInv'
  <2>1. \A b : WaitingOn(b)' = WaitingOn(b)
    BY <1>2 DEF WaitingOn
  <2>2. DayBucket(clock) \in Nat /\ DayBucket(clock') \in Nat /\ DayBucket(clock) <= DayBucket(clock')
    BY <1>1, DayTypes
  <2>3. ASSUME NEW i \in Ips, NEW b \in Buckets PROVE DayOf(i, b)'
    <3>1. DayOf(i, b) /\ b \in Int
      BY DEF LimitInv, DaysInv, Buckets
    <3>2. Count(createCounts, <<i, b>>)' = Count(createCounts, <<i, b>>)
      BY <1>2 DEF Count
    <3>3. b < DayBucket(clock) => b < DayBucket(clock)'
      BY <2>2, <3>1
    <3>4. QED BY <1>2, <2>1, <3>1, <3>2, <3>3 DEF DayOf
  <2>4. QED BY <2>3 DEF DaysInv
<1>10. QED BY <1>5, <1>7, <1>8, <1>9 DEF LimitInv

LEMMA ReadClockPreserves ==
    ASSUME TypeOK, LimitInv, NEW t \in Threads, NEW c \in Calls, ReadClock(t, c)
    PROVE  TypeOK' /\ LimitInv'
<1> DEFINE read == [op |-> c.op, ip |-> c.ip, session |-> c.session, now |-> clock]
<1>1. /\ call[t] = NoCall /\ call' = [call EXCEPT ![t] = read]
      /\ UNCHANGED <<clock, windows, dayCounts, createCounts, lastPruned, admitted, created, since>>
  BY DEF ReadClock
<1>2. clock \in 0..clock
  BY LimitAssumption DEF TypeOK, Times
<1>3. read \in Pending
  BY <1>2 DEF Pending, Calls
<1>4. TypeOK'
  <2>1. call' \in [Threads -> Pending' \cup {NoCall}]
    BY <1>1, <1>3 DEF TypeOK, Pending
  <2>2. QED BY <1>1, <2>1 DEF TypeOK
<1>5. WindowsInv' /\ StoresInv'
  BY <1>1 DEF LimitInv, WindowsInv, StoresInv
<1>6. DaysInv'
  <2> SUFFICES ASSUME NEW i \in Ips, NEW b \in Buckets PROVE DayOf(i, b)'
    BY DEF DaysInv
  <2>1. Count(createCounts, <<i, b>>)' = Count(createCounts, <<i, b>>)
    BY <1>1 DEF Count
  <2>2. DayBucket(clock)' = DayBucket(clock)
    BY <1>1
  <2>3. b < DayBucket(clock) => WaitingOn(b)' = WaitingOn(b)
    <3>1. SUFFICES ASSUME b < DayBucket(clock) PROVE WaitingOn(b)' = WaitingOn(b)
      OBVIOUS
    <3>2. b # DayBucket(clock)
      <4>1. b \in Int /\ DayBucket(clock) \in Int
        BY BucketTypes DEF TypeOK, Buckets
      <4>2. QED BY <3>1, <4>1
    <3>3. ASSUME NEW u \in Threads PROVE u \in WaitingOn(b)' <=> u \in WaitingOn(b)
      <4>1. CASE u = t
        BY <1>1, <3>2, <4>1 DEF WaitingOn, TypeOK
      <4>2. CASE u # t
        BY <1>1, <4>2 DEF WaitingOn, TypeOK
      <4>3. QED BY <4>1, <4>2
    <3>4. QED BY <3>3 DEF WaitingOn
  <2>4. QED BY <1>1, <2>1, <2>2, <2>3 DEF LimitInv, DaysInv, DayOf
<1>7. QED BY <1>4, <1>5, <1>6 DEF LimitInv

LEMMA LimitSteps == TypeOK /\ LimitInv /\ [Next]_vars => TypeOK' /\ LimitInv'
<1> SUFFICES ASSUME TypeOK, LimitInv, [Next]_vars PROVE TypeOK' /\ LimitInv'
  OBVIOUS
<1>1. CASE Advance
  BY <1>1, AdvancePreserves
<1>2. ASSUME NEW t \in Threads, NEW c \in Calls, ReadClock(t, c) PROVE TypeOK' /\ LimitInv'
  BY <1>2, ReadClockPreserves
<1>3. ASSUME NEW t \in Threads, CheckMessage(t) \/ CheckOauthRequest(t)
      PROVE  TypeOK' /\ LimitInv'
  BY <1>3, CheckPreserves
<1>4. ASSUME NEW t \in Threads, ReserveSessionCreate(t) PROVE TypeOK' /\ LimitInv'
  BY <1>4, ReservePreserves
<1>5. CASE UNCHANGED vars
  <2>1. UNCHANGED vars
    BY <1>5
  <2> USE <2>1 DEF vars
  <2>2. TypeOK'
    BY DEF TypeOK, Pending
  <2>3. WindowsInv' /\ StoresInv'
    BY DEF LimitInv, WindowsInv, StoresInv
  <2>4. DaysInv'
    BY DEF LimitInv, DaysInv, DayOf, WaitingOn, Count
  <2>5. QED BY <2>2, <2>3, <2>4 DEF LimitInv
<1>6. QED BY <1>1, <1>2, <1>3, <1>4, <1>5 DEF Next

LEMMA LimitInit == Init => TypeOK /\ LimitInv
<1> SUFFICES ASSUME Init PROVE TypeOK /\ LimitInv
  OBVIOUS
<1>1. 0 \in Times /\ MaxTrackedIps \in Nat /\ MaxTrackedDayKeys \in Nat
  BY LimitAssumption DEF Times
<1>2. TypeOK
  BY <1>1 DEF Init, TypeOK
<1>3. WindowsInv
  BY DEF Init, WindowsInv, WindowsFit, Live, KeysOf
<1>4. StoresInv
  <2>1. DOMAIN dayCounts = {} /\ DOMAIN createCounts = {} /\ Len(windows) = 0
    BY DEF Init
  <2>2. QED BY <1>1, <2>1, FS_EmptySet DEF StoresInv
<1>5. DaysInv
  BY CapTypes DEF Init, DaysInv, DayOf, Count
<1>6. QED BY <1>2, <1>3, <1>4, <1>5 DEF LimitInv

\* Every variable of the limiter stays in its range.
THEOREM LimitTypes == Spec => []TypeOK
<1>1. QED BY LimitInit, LimitSteps, PTL DEF Spec

\* The stores answer for the admissions of the last minute and of the day.
THEOREM LimitSafety == Spec => []LimitInv
<1>1. QED BY LimitInit, LimitSteps, PTL DEF Spec

\* No more than a window's rate is admitted in a minute, whatever the clocks of
\* the threads that prune it.
THEOREM MinuteCap == Spec => []MinuteCapHolds
<1>1. TypeOK /\ LimitInv => MinuteCapHolds
  <2> SUFFICES ASSUME TypeOK, LimitInv, NEW k \in WindowKeys
               PROVE  Cardinality(Live(admitted[k], clock)) <= RateOf(k)
    BY DEF MinuteCapHolds
  <2>1. WindowsFit(windows, admitted, since, clock) /\ RateOf(k) \in Nat
    BY RateTypes DEF LimitInv, WindowsInv
  <2>2. CASE k \notin KeysOf(windows)
    <3>1. Live(admitted[k], clock) = {}
      BY <2>1, <2>2 DEF WindowsFit
    <3>2. QED BY <2>1, <3>1, FS_EmptySet
  <2>3. CASE k \in KeysOf(windows)
    <3>1. PICK i \in DOMAIN windows : windows[i].key = k
      BY <2>3 DEF KeysOf
    <3>2. /\ windows[i].times \in Seq(Times) /\ Len(windows[i].times) <= RateOf(k)
          /\ Covers(windows[i].times, admitted[k], clock)
      BY <2>1, <3>1, WindowTypes DEF WindowsFit
    <3>3. /\ IsFiniteSet(Live(admitted[k], clock))
          /\ Cardinality(Live(admitted[k], clock)) <= Len(windows[i].times)
      BY <3>2, CoversCount
    <3>4. Cardinality(Live(admitted[k], clock)) \in Nat /\ Len(windows[i].times) \in Nat
      BY <3>2, <3>3, FS_CardinalityType
    <3>5. QED BY <2>1, <3>2, <3>3, <3>4
  <2>4. QED BY <2>2, <2>3
<1>2. QED BY <1>1, LimitTypes, LimitSafety, PTL

\* Beyond the daily cap an ip creates at most one session for each thread that
\* still waits when the day is pruned.
THEOREM OverAdmission == Spec => []OverAdmissionBounded
<1>1. TypeOK /\ LimitInv => OverAdmissionBounded
  <2> SUFFICES ASSUME TypeOK, LimitInv, NEW i \in Ips, NEW b \in Buckets
               PROVE  created[i][b] <= Max({CreatePerDay, 1}) + Cardinality(Threads) - 1
    BY DEF OverAdmissionBounded
  <2>1. Max({CreatePerDay, 1}) = CreateCap
    BY LimitAssumption DEF Max, CreateCap
  <2>2. PICK n, w, c, T : /\ n = created[i][b] /\ w = Cardinality(WaitingOn(b))
                          /\ c = Count(createCounts, <<i, b>>) /\ T = Cardinality(Threads)
    OBVIOUS
  <2>3. n \in Nat /\ w \in Nat /\ T \in Nat /\ CreateCap \in Nat \ {0}
    BY <2>2, WaitingTypes, CapTypes DEF TypeOK
  <2>4. c <= CreateCap /\ (n = c \/ n + w <= CreateCap + T - 1)
    BY <2>2 DEF LimitInv, DaysInv, DayOf
  <2>5. T # 0
    BY <2>2, WaitingTypes, FS_EmptySet, LimitAssumption
  <2>6. n <= CreateCap + T - 1
    BY <2>3, <2>4, <2>5
  <2>7. QED BY <2>1, <2>2, <2>6
<1>2. QED BY <1>1, LimitTypes, LimitSafety, PTL

\* A window loses its live admissions only to MaxTrackedIps other keys, all
\* touched since it was.
THEOREM EvictionTakesFlood == Spec => EvictionNeedsFlood
<1>1. TypeOK /\ LimitInv /\ [Next]_vars =>
          [\A k \in WindowKeys :
              clock' = clock /\ Live(admitted[k], clock) # {} /\ Live(admitted'[k], clock) = {}
              => Cardinality(since'[k]) >= MaxTrackedIps]_vars
  <2> SUFFICES ASSUME TypeOK, LimitInv, Next, NEW k \in WindowKeys, clock' = clock,
                      Live(admitted[k], clock) # {}, Live(admitted'[k], clock) = {}
               PROVE  Cardinality(since'[k]) >= MaxTrackedIps
    OBVIOUS
  <2>1. admitted' # admitted /\ ~Advance
    <3>1. admitted' # admitted
      OBVIOUS
    <3>2. clock' # clock + 1
      BY LimitAssumption DEF TypeOK, Times
    <3>3. QED BY <3>1, <3>2 DEF Advance
  <2>2. PICK t \in Threads : CheckMessage(t) \/ CheckOauthRequest(t)
    BY <2>1 DEF Next, ReadClock, ReserveSessionCreate
  <2>3. PICK key \in WindowKeys, s \in 0..clock, ok \in BOOLEAN :
            Record(key, s, ok) /\ (ok => ~WindowFull(key, s))
    <3> DEFINE c == call[t]
    <3>1. c # NoCall
      BY <2>2 DEF CheckMessage, CheckOauthRequest, NoCall
    <3>2. c.now \in 0..clock /\ c.ip \in Ips
      BY <3>1, CallTypes
    <3>3. CASE CheckMessage(t)
      <4> DEFINE key == <<"message", c.ip>>
                 ok  == ~WindowFull(key, c.now) /\ ~DayFull(c.session, c.now)
      <4>1. key \in WindowKeys /\ Record(key, c.now, ok)
        BY <3>2, <3>3 DEF CheckMessage, WindowKeys
      <4>2. ok \in BOOLEAN /\ (ok => ~WindowFull(key, c.now))
        OBVIOUS
      <4> HIDE DEF ok, key
      <4>3. QED BY <3>2, <4>1, <4>2
    <3>4. CASE CheckOauthRequest(t)
      <4> DEFINE key == <<"oauth", c.ip>>
                 ok  == ~WindowFull(key, c.now)
      <4>1. key \in WindowKeys /\ Record(key, c.now, ok)
        BY <3>2, <3>4 DEF CheckOauthRequest, WindowKeys
      <4>2. ok \in BOOLEAN /\ (ok => ~WindowFull(key, c.now))
        OBVIOUS
      <4> HIDE DEF ok, key
      <4>3. QED BY <3>2, <4>1, <4>2
    <3>5. QED BY <2>2, <3>3, <3>4
  <2>4. PICK ws \in Seq(Window) :
            /\ WindowsFit(ws, admitted, since, clock)
            /\ Len(ws) = MaxTrackedIps /\ k = ws[1].key /\ key \notin KeysOf(ws)
            /\ since' = After(since, key)
    BY <2>3, RecordFits DEF LimitInv
  <2>5. PICK n \in Nat \ {0} : n = MaxTrackedIps /\ DOMAIN ws = 1..n
    BY <2>4, LimitAssumption
  <2> DEFINE S == since'[k]
             f == [i \in 1..n |-> IF i = 1 THEN key ELSE ws[i].key]
  <2>6. k # key /\ S = since[k] \cup {key}
    BY <2>4, <2>5 DEF After, KeysOf
  <2>7. ASSUME NEW i \in 2..n PROVE ws[i].key \in S /\ ws[i].key # key
    BY <2>4, <2>5, <2>6 DEF WindowsFit, KeysOf
  <2>8. f \in Injection(1..n, S)
    <3>1. f \in [1..n -> S]
      BY <2>6, <2>7
    <3>2. ASSUME NEW i \in 1..n, NEW j \in 1..n, f[i] = f[j] PROVE i = j
      <4>1. CASE i = 1 \/ j = 1
        BY <2>7, <3>2, <4>1
      <4>2. CASE i # 1 /\ j # 1
        <5>1. ws[i].key = ws[j].key
          BY <3>2, <4>2
        <5>2. QED BY <2>4, <2>5, <5>1 DEF WindowsFit
      <4>3. QED BY <4>1, <4>2
    <3>3. QED BY <3>1, <3>2 DEF Injection, IsInjective
  <2>9. IsFiniteSet(S)
    <3>1. IsFiniteSet({"message", "oauth"}) /\ IsFiniteSet(Ips)
      <4>1. IsFiniteSet({"message"}) /\ IsFiniteSet({"message"} \cup {"oauth"})
        BY FS_Singleton, FS_AddElement
      <4>2. {"message", "oauth"} = {"message"} \cup {"oauth"}
        OBVIOUS
      <4>3. QED BY <4>1, <4>2, LimitAssumption
    <3>2. IsFiniteSet(WindowKeys)
      BY <3>1, FS_Product DEF WindowKeys
    <3>3. S \subseteq WindowKeys
      BY <2>6 DEF TypeOK
    <3>4. QED BY <3>2, <3>3, FS_Subset
  <2>10. Cardinality(1..n) = n /\ Cardinality(1..n) <= Cardinality(S) /\ Cardinality(S) \in Nat
    <3> HIDE DEF S, f
    <3>1. Cardinality(1..n) = n
      BY FS_Interval
    <3>2. QED BY <2>8, <2>9, <3>1, FS_Injection, FS_CardinalityType
  <2>11. QED BY <2>5, <2>10
<1>2. QED BY <1>1, LimitTypes, LimitSafety, PTL DEF Spec, EvictionNeedsFlood
==============================================================================
