----------------------------- MODULE RateLimiter -----------------------------
(***************************************************************************)
(* The in-memory rate limiter of the public routes                         *)
(* (app/routes/ratelimit.py), shared by the threads that serve requests.   *)
(*                                                                         *)
(* A call reads the clock first and takes the lock second; what it does    *)
(* under the lock is one step.  Time is a counter, a minute and a day are  *)
(* Minute and Day ticks of it, and a day bucket is clock \div Day.         *)
(***************************************************************************)
EXTENDS Integers, Sequences, FiniteSets, SequencesExt

CONSTANTS
    Ips, ChatSessions, Threads,
    RatePerMin,         \* settings.rate_limit_per_min, keyed by ip
    OauthRatePerMin,    \* settings.oauth_rate_limit_per_min, keyed by ip
    RatePerDay,         \* settings.rate_limit_per_day, keyed by session
    CreatePerDay,       \* settings.session_create_per_day, keyed by ip
    MaxTrackedIps,      \* _MAX_TRACKED_IPS
    MaxTrackedDayKeys,  \* _MAX_TRACKED_DAY_KEYS
    Minute, Day,
    MaxClock,           \* bound on time
    NoSession           \* the first message of a session that does not exist yet

ASSUME LimitAssumption ==
    /\ {RatePerMin, OauthRatePerMin, RatePerDay, CreatePerDay} \subseteq Nat
    /\ {MaxTrackedIps, MaxTrackedDayKeys, Minute, Day} \subseteq Nat \ {0}
    /\ MaxClock \in Nat
    /\ NoSession \notin ChatSessions
    /\ IsFiniteSet(Ips) /\ IsFiniteSet(ChatSessions) /\ IsFiniteSet(Threads)
    /\ Threads # {}

VARIABLES
    clock,
    call,           \* the call of each thread, between its clock read and the lock
    windows,        \* _minute_windows, oldest touched first
    dayCounts,      \* _session_day_counts
    createCounts,   \* _session_create_counts
    lastPruned,     \* _last_pruned_day_bucket, -1 for None
    admitted,       \* history: the last minute's admissions of each window key, and
                    \* those behind them, since its window was last evicted
    created,        \* history: session creations admitted per ip and day
    since           \* history: the other window keys touched since each was

vars == <<clock, call, windows, dayCounts, createCounts, lastPruned,
          admitted, created, since>>

Times      == 0..MaxClock
DayBucket(now) == now \div Day
Buckets    == 0..DayBucket(MaxClock)
WindowKeys == {"message", "oauth"} \X Ips
RateOf(key) == IF key[1] = "message" THEN RatePerMin ELSE OauthRatePerMin

Calls == [op : {"message"}, ip : Ips, session : ChatSessions \cup {NoSession}]
         \cup [op : {"oauth", "create"}, ip : Ips, session : {NoSession}]

NoCall == [op |-> "none"]

-----------------------------------------------------------------------------
(***************************************************************************)
(* The stores.                                                             *)
(***************************************************************************)
Expired(stamp, now) == now - stamp >= Minute

Live(times, now) == {k \in DOMAIN times : ~Expired(times[k], now)}

\* popleft while the oldest entry has expired: what stands behind a younger
\* entry stays.
PruneLeft(times, now) ==
    LET live == Live(times, now) IN
    IF live = {} THEN <<>> ELSE SubSeq(times, Min(live), Len(times))

Count(counts, key) == IF key \in DOMAIN counts THEN counts[key] ELSE 0
Bump(counts, key)  == [k \in DOMAIN counts \cup {key} |->
                          IF k = key THEN Count(counts, k) + 1 ELSE counts[k]]

DropOlder(counts, bucket) == [k \in {l \in DOMAIN counts : l[2] >= bucket} |-> counts[k]]

\* The entries of s at the positions of S, in their order.
Rank(S, n)     == Cardinality({m \in S : m <= n})
Selected(s, S) == [j \in 1..Cardinality(S) |-> s[CHOOSE n \in S : Rank(S, n) = j]]

SweepWindows(now) ==
    LET pruned == [k \in DOMAIN windows |->
                      [windows[k] EXCEPT !.times = PruneLeft(@, now)]]
    IN  Selected(pruned, {k \in DOMAIN windows : pruned[k].times # <<>>})

Find(ws, key) == {k \in DOMAIN ws : ws[k].key = key}

\* Mutant: popitem(last=True), the newest makes room.
TouchDropsNewest(ws, key, now) ==
    IF Find(ws, key) # {}
    THEN LET k == CHOOSE k \in Find(ws, key) : TRUE IN
         Append(RemoveAt(ws, k), [ws[k] EXCEPT !.times = PruneLeft(@, now)])
    ELSE Append(IF Len(ws) >= MaxTrackedIps THEN Front(ws) ELSE ws,
                [key |-> key, times |-> <<>>])

\* The windows with key's at the most recently used end, pruned; a new one
\* makes room by dropping the least recently touched.
Touch(ws, key, now) ==
    IF Find(ws, key) # {}
    THEN LET k == CHOOSE k \in Find(ws, key) : TRUE IN
         Append(RemoveAt(ws, k), [ws[k] EXCEPT !.times = PruneLeft(@, now)])
    ELSE Append(IF Len(ws) >= MaxTrackedIps THEN Tail(ws) ELSE ws,
                [key |-> key, times |-> <<>>])

KeysOf(ws) == {ws[k].key : k \in DOMAIN ws}

Admit(ws, now) == [ws EXCEPT ![Len(ws)].times = Append(@, now)]

-----------------------------------------------------------------------------
Init ==
    /\ clock = 0
    /\ call = [t \in Threads |-> NoCall]
    /\ windows = <<>>
    /\ dayCounts = <<>> /\ createCounts = <<>>
    /\ lastPruned = -1
    /\ admitted = [k \in WindowKeys |-> <<>>]
    /\ created = [i \in Ips |-> [b \in Buckets |-> 0]]
    /\ since = [k \in WindowKeys |-> {}]

Advance ==
    /\ clock < MaxClock
    /\ clock' = clock + 1
    /\ admitted' = [k \in WindowKeys |-> PruneLeft(admitted[k], clock')]
    /\ UNCHANGED <<call, windows, dayCounts, createCounts, lastPruned, created, since>>

\* now = self._clock(), before the lock.
ReadClock(t, c) ==
    /\ call[t] = NoCall
    /\ call' = [call EXCEPT ![t] = [op |-> c.op, ip |-> c.ip, session |-> c.session,
                                    now |-> clock]]
    /\ UNCHANGED <<clock, windows, dayCounts, createCounts, lastPruned, admitted, created, since>>

\* _prune_stale_entries: what the stores are when the checks begin.
Stale(now)        == lastPruned # DayBucket(now)
PrunedWindows(now) == IF Stale(now) THEN SweepWindows(now) ELSE windows
PrunedCounts(counts, now) == IF Stale(now) THEN DropOlder(counts, DayBucket(now)) ELSE counts

Return(t) == /\ call' = [call EXCEPT ![t] = NoCall]
             /\ lastPruned' = DayBucket(call[t].now)
             /\ UNCHANGED clock

\* What of the sliding window is common to check_message and check_oauth_request.
\* Mutant: > for >=.
WindowOverfull(key, now) ==
    Len(Last(Touch(PrunedWindows(now), key, now)).times) > RateOf(key)

WindowFull(key, now) ==
    Len(Last(Touch(PrunedWindows(now), key, now)).times) >= RateOf(key)

Record(key, now, ok) ==
    LET old == PrunedWindows(now)
        ws  == Touch(old, key, now)
        dropped == KeysOf(old) \ KeysOf(ws)
    IN
    /\ windows' = IF ok THEN Admit(ws, now) ELSE ws
    /\ admitted' = [k \in WindowKeys |->
           IF k \in dropped THEN <<>>
           ELSE IF k = key /\ ok /\ ~Expired(now, clock) THEN Append(admitted[k], now)
           ELSE admitted[k]]
    /\ since' = [k \in WindowKeys |-> IF k = key THEN {} ELSE since[k] \cup {key}]

DayFull(session, now) ==
    LET counts == PrunedCounts(dayCounts, now)
        count  == Count(counts, <<session, DayBucket(now)>>)
    IN  /\ session # NoSession
        /\ \/ count >= RatePerDay
           \/ count = 0 /\ Cardinality(DOMAIN counts) >= MaxTrackedDayKeys

CheckMessage(t) ==
    LET c == call[t]
        key == <<"message", c.ip>>
        ok == ~WindowFull(key, c.now) /\ ~DayFull(c.session, c.now)
        counts == PrunedCounts(dayCounts, c.now)
    IN  /\ c.op = "message"
        /\ Record(key, c.now, ok)
        /\ dayCounts' = IF ok /\ c.session # NoSession
                        THEN Bump(counts, <<c.session, DayBucket(c.now)>>) ELSE counts
        /\ createCounts' = PrunedCounts(createCounts, c.now)
        /\ Return(t)
        /\ UNCHANGED created

CheckOauthRequest(t) ==
    LET c == call[t]
        key == <<"oauth", c.ip>>
    IN  /\ c.op = "oauth"
        /\ Record(key, c.now, ~WindowFull(key, c.now))
        /\ dayCounts' = PrunedCounts(dayCounts, c.now)
        /\ createCounts' = PrunedCounts(createCounts, c.now)
        /\ Return(t)
        /\ UNCHANGED created

\* Mutant: > for >=.
CreateOverfull(counts, key) ==
    IF key \in DOMAIN counts THEN counts[key] > CreatePerDay
                             ELSE Cardinality(DOMAIN counts) >= MaxTrackedDayKeys

\* _session_create_full_locked: an unseen key asks only for room.
CreateFull(counts, key) ==
    IF key \in DOMAIN counts THEN counts[key] >= CreatePerDay
                             ELSE Cardinality(DOMAIN counts) >= MaxTrackedDayKeys

ReserveSessionCreate(t) ==
    LET c == call[t]
        key == <<c.ip, DayBucket(c.now)>>
        counts == PrunedCounts(createCounts, c.now)
        ok == ~CreateFull(counts, key)
    IN  /\ c.op = "create"
        /\ createCounts' = IF ok THEN Bump(counts, key) ELSE counts
        /\ created' = IF ok THEN [created EXCEPT ![c.ip][key[2]] = @ + 1] ELSE created
        /\ windows' = PrunedWindows(c.now)
        /\ dayCounts' = PrunedCounts(dayCounts, c.now)
        /\ Return(t)
        /\ UNCHANGED <<admitted, since>>

Next ==
    \/ Advance
    \/ \E t \in Threads : \/ \E c \in Calls : ReadClock(t, c)
                          \/ CheckMessage(t)
                          \/ CheckOauthRequest(t)
                          \/ ReserveSessionCreate(t)

Spec == Init /\ [][Next]_vars

-----------------------------------------------------------------------------
Window  == [key : WindowKeys, times : Seq(Times)]
Pending == [op : {"message"}, ip : Ips, session : ChatSessions \cup {NoSession}, now : 0..clock]
           \cup [op : {"oauth", "create"}, ip : Ips, session : {NoSession}, now : 0..clock]

\* Every variable stays in its range.
TypeOK ==
    /\ clock \in Times
    /\ call \in [Threads -> Pending \cup {NoCall}]
    /\ windows \in Seq(Window)
    /\ dayCounts \in [DOMAIN dayCounts -> Nat \ {0}]
    /\ DOMAIN dayCounts \subseteq ChatSessions \X Buckets
    /\ createCounts \in [DOMAIN createCounts -> Nat \ {0}]
    /\ DOMAIN createCounts \subseteq Ips \X Buckets
    /\ lastPruned \in Buckets \cup {-1}
    /\ admitted \in [WindowKeys -> Seq(Times)]
    /\ created \in [Ips -> [Buckets -> Nat]]
    /\ since \in [WindowKeys -> SUBSET WindowKeys]

\* No window admits more than its rate in any minute since it was last evicted,
\* though the threads that prune it may have read the clock long ago.
MinuteCapHolds ==
    \A k \in WindowKeys : Cardinality(Live(admitted[k], clock)) <= RateOf(k)

\* The cap costs a window its live admissions only when at least MaxTrackedIps
\* other keys were touched since it was: a refused caller that keeps retrying
\* keeps its window.
EvictionNeedsFlood ==
    [][\A k \in WindowKeys :
          clock' = clock /\ Live(admitted[k], clock) # {} /\ Live(admitted'[k], clock) = {}
          => Cardinality(since'[k]) >= MaxTrackedIps]_vars

\* An ip creates at most CreatePerDay sessions a day (one where that is 0: an
\* unseen key is asked for room only), but for the threads that read the clock
\* before midnight and took the lock after another had pruned the day: each of
\* them may add one.
OverAdmissionBounded ==
    \A i \in Ips, b \in Buckets :
        created[i][b] <= Max({CreatePerDay, 1}) + Cardinality(Threads) - 1
==============================================================================
