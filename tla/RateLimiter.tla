----------------------------- MODULE RateLimiter -----------------------------
(***************************************************************************)
(* rate_limit_middleware (main.py): a sliding window of admission times    *)
(* per principal, in a dictionary that is swept now and then and bounded   *)
(* by evicting the stalest principal.                                      *)
(*                                                                         *)
(* The body has no await before the time is recorded, so one request is    *)
(* one step.  Every request leaves the bucket of its principal non-empty   *)
(* (it was appended to, or it holds at least Limit times), so the empty    *)
(* sequence stands for a principal without a bucket.  Time is counted in   *)
(* ticks and does not go back; requests to exempt paths, and a limit of 0, *)
(* never get here.  Which requests do is the business of Gateway.          *)
(***************************************************************************)
EXTENDS Integers, Sequences, FiniteSets

CONSTANTS
    Principal,      \* key ids, "admin", or client addresses
    Limit,          \* config.rate_limit_per_minute
    Window,         \* the 60 seconds
    MaxTracked,     \* MAX_TRACKED_PRINCIPALS
    SweepInterval,  \* SWEEP_INTERVAL
    MaxTime         \* bound of the model: the clock stops here

ASSUME PrincipalAssumption == IsFiniteSet(Principal)
ASSUME LimitAssumption == Limit \in Nat \ {0}
ASSUME WindowAssumption == Window \in Nat \ {0}
ASSUME MaxTrackedAssumption == MaxTracked \in Nat \ {0}
ASSUME SweepAssumption == SweepInterval \in Nat \ {0}
ASSUME MaxTimeAssumption == MaxTime \in Nat

VARIABLES
    now,                    \* time.time()
    rate_limit_buckets,     \* principal -> the times it was admitted
    rate_limit_counter,     \* requests so far, modulo SweepInterval
    admitted                \* history: every admission since the principal was last
                            \* evicted or the process started

limiterVars == <<now, rate_limit_buckets, rate_limit_counter, admitted>>

-----------------------------------------------------------------------------
LastOf(ts) == ts[Len(ts)]

Tracked(bs) == {q \in Principal : bs[q] # <<>>}

Stale(ts) == ts # <<>> /\ LastOf(ts) < now - Window

\* Every SWEEP_INTERVAL requests the stale buckets go.
Swept ==
    IF (rate_limit_counter + 1) % SweepInterval = 0
    THEN [q \in Principal |->
            IF Stale(rate_limit_buckets[q]) THEN <<>> ELSE rate_limit_buckets[q]]
    ELSE rate_limit_buckets

\* Mutant: min over the first time of a bucket, not the last.
Stalest_ByFirst(bs) == {q \in Tracked(bs) : \A r \in Tracked(bs) : bs[q][1] <= bs[r][1]}

Stalest(bs) == {q \in Tracked(bs) : \A r \in Tracked(bs) : LastOf(bs[q]) <= LastOf(bs[r])}

\* Mutant: off by one.
Victims_OffByOne(p) ==
    IF Swept[p] = <<>> /\ Cardinality(Tracked(Swept)) > MaxTracked
    THEN {{q} : q \in Stalest(Swept)}
    ELSE {{}}

\* Who is evicted to make room for p: nobody, or one of the stalest (the first
\* of them in the dictionary's order, which is left open).
Victims(p) ==
    IF Swept[p] = <<>> /\ Cardinality(Tracked(Swept)) >= MaxTracked
    THEN {{q} : q \in Stalest(Swept)}
    ELSE {{}}

Without(victims) ==
    LET swept == Swept
    IN  [q \in Principal |-> IF q \in victims THEN <<>> ELSE swept[q]]

\* Mutant: a time exactly one window old is dropped too.
Pruned_TooEarly(ts) ==
    SubSeq(ts, 1 + Cardinality({i \in DOMAIN ts : \A k \in 1..i : ts[k] <= now - Window}), Len(ts))

\* while timestamps and timestamps[0] < now - window: timestamps.pop(0)
Pruned(ts) ==
    SubSeq(ts, 1 + Cardinality({i \in DOMAIN ts : \A k \in 1..i : ts[k] < now - Window}), Len(ts))

\* Mutant: off by one.
Spent_OffByOne(ts) == Len(ts) > Limit

Spent(ts) == Len(ts) >= Limit

-----------------------------------------------------------------------------
LimiterInit ==
    /\ now = 0
    /\ rate_limit_buckets = [q \in Principal |-> <<>>]
    /\ rate_limit_counter = 0
    /\ admitted = [q \in Principal |-> <<>>]

\* Every request is counted, admitted or not.
CountRequest == rate_limit_counter' = (rate_limit_counter + 1) % SweepInterval

Record(p, victims, timestamps, history) ==
    /\ rate_limit_buckets' = [Without(victims) EXCEPT ![p] = timestamps]
    /\ admitted' = [q \in Principal |->
                        IF q = p THEN history ELSE IF q \in victims THEN <<>> ELSE admitted[q]]
    /\ UNCHANGED now

\* The request goes on to the handler.
Admit(p) ==
    /\ CountRequest
    /\ \E victims \in Victims(p) :
          LET timestamps == Pruned(Without(victims)[p])
          IN  /\ ~Spent(timestamps)
              /\ Record(p, victims, Append(timestamps, now), Append(admitted[p], now))

\* 429 "Rate limit exceeded".
Refuse(p) ==
    /\ CountRequest
    /\ \E victims \in Victims(p) :
          LET timestamps == Pruned(Without(victims)[p])
          IN  /\ Spent(timestamps)
              /\ Record(p, victims, timestamps, admitted[p])

Tick ==
    /\ now < MaxTime
    /\ now' = now + 1
    /\ UNCHANGED <<rate_limit_buckets, rate_limit_counter, admitted>>

LimiterNext == Tick \/ \E p \in Principal : Admit(p) \/ Refuse(p)


-----------------------------------------------------------------------------
LimiterTypeOK ==
    /\ now \in Nat
    /\ rate_limit_buckets \in [Principal -> Seq(0..now)]
    /\ \A q \in Principal : Len(rate_limit_buckets[q]) <= Limit
    /\ rate_limit_counter \in 0..(SweepInterval - 1)
    /\ admitted \in [Principal -> Seq(0..now)]

(* The sliding window is one: between two admissions of a principal that are *)
(* Limit apart more than a window has passed, so no window of that length    *)
(* holds more than Limit of them, however pruning, the sweep, refusals and   *)
(* the evictions of others fall in between.  Only the eviction of the        *)
(* principal itself starts its count anew.                                   *)
WindowBound ==
    \A q \in Principal : \A i \in DOMAIN admitted[q] :
        i + Limit \in DOMAIN admitted[q] => admitted[q][i + Limit] > admitted[q][i] + Window

(* The dictionary never tracks more principals than its cap, whatever mix of *)
(* principals sends the requests (main.py 231-239).                          *)
TrackedWithinCap == Cardinality(Tracked(rate_limit_buckets)) <= MaxTracked
=============================================================================
