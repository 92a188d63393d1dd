---------------------------- MODULE GatewayProofs ----------------------------
(***************************************************************************)
(* Proofs about Gateway, and about the limiter inside it, for any sets of  *)
(* keys, clients and requests and any limit, window, table and sweep.      *)
(***************************************************************************)
EXTENDS Gateway, SequenceTheorems, FiniteSetTheorems, TLAPS

-----------------------------------------------------------------------------
(* The limiter: its inductive invariant *)

\* The bucket b is the end of the history a; what it lost lies before the
\* window that ends at t.
Fits(b, a, t) ==
    /\ Len(b) <= Len(a)
    /\ \A i \in 1..Len(b) : b[i] = a[i + (Len(a) - Len(b))]
    /\ \A i \in 1..(Len(a) - Len(b)) : a[i] < t - Window

Sorted(a) == \A i, j \in 1..Len(a) : i <= j => a[i] <= a[j]

\* WindowBound for one history.
Spread(a) == \A i \in DOMAIN a : i + Limit \in DOMAIN a => a[i + Limit] > a[i] + Window

BucketsFit == \A q \in Principal : Fits(rate_limit_buckets[q], admitted[q], now)

HistoriesSorted == \A q \in Principal : Sorted(admitted[q])

LInv ==
    /\ LimiterTypeOK
    /\ BucketsFit
    /\ HistoriesSorted
    /\ WindowBound
    /\ TrackedWithinCap

-----------------------------------------------------------------------------
(* One history and its bucket *)

\* A principal without a bucket has nothing to fit.
LEMMA EmptyFits ==
    ASSUME NEW T, NEW t
    PROVE  /\ <<>> \in Seq(T) /\ Len(<<>>) = 0
           /\ Fits(<<>>, <<>>, t) /\ Sorted(<<>>) /\ Spread(<<>>)
  BY DEF Fits, Sorted, Spread

\* How many indices there are up to n.
LEMMA UpTo ==
    ASSUME NEW n \in Nat
    PROVE  IsFiniteSet(1..n) /\ Cardinality(1..n) = n
  <1>1. /\ IsFiniteSet(1..n)
        /\ Cardinality(1..n) = IF 1 > n THEN 0 ELSE n - 1 + 1
    <2>1. 1 \in Int /\ n \in Int
      OBVIOUS
    <2>2. QED
      BY <2>1, FS_Interval
  <1>2. QED
    BY <1>1

\* What is dropped is the longest beginning of the bucket that is too old.
LEMMA PrunedCount ==
    ASSUME now \in Nat, NEW ts \in Seq(0..now),
           NEW S, S = {i \in DOMAIN ts : \A k \in 1..i : ts[k] < now - Window}
    PROVE  /\ Cardinality(S) \in 0..Len(ts)
           /\ \A i \in 1..Len(ts) : i <= Cardinality(S) <=> i \in S
  <1> DEFINE c == Cardinality(S)
  <1>1. Len(ts) \in Nat /\ DOMAIN ts = 1..Len(ts)
    OBVIOUS
  <1>2. S \subseteq 1..Len(ts)
    BY <1>1
  <1>3. IsFiniteSet(1..Len(ts)) /\ Cardinality(1..Len(ts)) = Len(ts)
    BY <1>1, UpTo
  <1>4. IsFiniteSet(S) /\ c \in Nat /\ c <= Len(ts)
    BY <1>2, <1>3, FS_Subset, FS_CardinalityType
  <1>5. ASSUME NEW i \in 1..Len(ts), i \in S
        PROVE  i <= c
    <2>1. 1..i \subseteq S
      BY <1>1, <1>5
    <2>2. Cardinality(1..i) = i
      BY <1>1, UpTo
    <2>3. QED
      BY <1>4, <2>1, <2>2, FS_Subset
  <1>6. ASSUME NEW i \in 1..Len(ts), i \notin S
        PROVE  ~(i <= c)
    <2>1. S \subseteq 1..(i - 1)
      <3> SUFFICES ASSUME NEW j \in S, j >= i PROVE FALSE
        BY <1>1, <1>2
      <3>1. i \in S
        BY <1>1
      <3>2. QED
        BY <3>1, <1>6
    <2>2. IsFiniteSet(1..(i - 1)) /\ Cardinality(1..(i - 1)) = i - 1
      <3>1. i - 1 \in Nat
        BY <1>1
      <3>2. QED
        BY <3>1, UpTo
    <2>3. c <= i - 1
      BY <2>1, <2>2, FS_Subset
    <2>4. QED
      BY <1>1, <1>4, <2>3
  <1>7. c \in 0..Len(ts)
    BY <1>1, <1>4
  <1>8. \A i \in 1..Len(ts) : i <= c <=> i \in S
    BY <1>5, <1>6
  <1>9. QED
    BY <1>7, <1>8

\* Pruning keeps the end of a bucket, nothing of it too old.
LEMMA PrunedFacts ==
    ASSUME now \in Nat, NEW ts \in Seq(0..now), Sorted(ts)
    PROVE  /\ Pruned(ts) \in Seq(0..now)
           /\ Len(Pruned(ts)) <= Len(ts)
           /\ \A i \in 1..Len(Pruned(ts)) :
                 /\ Pruned(ts)[i] = ts[i + (Len(ts) - Len(Pruned(ts)))]
                 /\ Pruned(ts)[i] >= now - Window
           /\ \A i \in 1..(Len(ts) - Len(Pruned(ts))) : ts[i] < now - Window
  <1>1. PICK S : S = {i \in DOMAIN ts : \A k \in 1..i : ts[k] < now - Window}
    OBVIOUS
  <1>2. PICK c : c = Cardinality(S)
    OBVIOUS
  <1>3. c \in 0..Len(ts) /\ \A i \in 1..Len(ts) : i <= c <=> i \in S
    BY <1>1, <1>2, PrunedCount
  <1>4. Len(ts) \in Nat /\ DOMAIN ts = 1..Len(ts) /\ \A i \in 1..Len(ts) : ts[i] \in 0..now
    OBVIOUS
  <1>5. Pruned(ts) = SubSeq(ts, 1 + c, Len(ts))
    BY <1>1, <1>2 DEF Pruned
  <1>6. /\ Pruned(ts) \in Seq(0..now)
        /\ Len(Pruned(ts)) = Len(ts) - c
        /\ \A i \in 1..(Len(ts) - c) : Pruned(ts)[i] = ts[i + c]
    <2>1. \A i \in (1 + c)..Len(ts) : ts[i] \in 0..now
      BY <1>3, <1>4
    <2>2. 1 + c \in Int /\ Len(ts) \in Int
      BY <1>3, <1>4
    <2>3. /\ SubSeq(ts, 1 + c, Len(ts)) \in Seq(0..now)
          /\ Len(SubSeq(ts, 1 + c, Len(ts))) =
                IF 1 + c <= Len(ts) THEN Len(ts) - (1 + c) + 1 ELSE 0
          /\ \A i \in 1..(Len(ts) - (1 + c) + 1) :
                SubSeq(ts, 1 + c, Len(ts))[i] = ts[(1 + c) + i - 1]
      BY <2>1, <2>2, SubSeqProperties
    <2>4. Pruned(ts) \in Seq(0..now)
      BY <1>5, <2>3
    <2>5. Len(Pruned(ts)) = Len(ts) - c
      <3>1. CASE 1 + c <= Len(ts)
        BY <1>3, <1>4, <1>5, <2>3, <3>1
      <3>2. CASE ~(1 + c <= Len(ts))
        <4>1. c = Len(ts)
          <5>1. c \in Int /\ Len(ts) \in Int /\ c <= Len(ts)
            BY <1>3, <1>4
          <5>2. QED
            BY <3>2, <5>1
        <4>2. Len(Pruned(ts)) = 0
          BY <1>5, <2>3, <3>2
        <4>3. QED
          BY <1>4, <4>1, <4>2
      <3>3. QED
        BY <3>1, <3>2
    <2>6. \A i \in 1..(Len(ts) - c) : Pruned(ts)[i] = ts[i + c]
      <3> SUFFICES ASSUME NEW i \in 1..(Len(ts) - c) PROVE Pruned(ts)[i] = ts[i + c]
        OBVIOUS
      <3>1. i \in 1..(Len(ts) - (1 + c) + 1) /\ (1 + c) + i - 1 = i + c
        BY <1>3, <1>4
      <3>2. Pruned(ts)[i] = ts[(1 + c) + i - 1]
        BY <1>5, <2>3, <3>1
      <3>3. QED
        BY <3>1, <3>2
    <2>7. QED
      BY <2>4, <2>5, <2>6
  <1>7. \A i \in 1..c : ts[i] < now - Window
    BY <1>1, <1>3, <1>4
  <1>8. \A i \in (c + 1)..Len(ts) : ts[i] >= now - Window
    <2> SUFFICES ASSUME NEW i \in (c + 1)..Len(ts) PROVE ts[i] >= now - Window
      OBVIOUS
    <2>1. c + 1 \in 1..Len(ts) /\ c + 1 \notin S
      BY <1>3, <1>4
    <2>2. PICK k \in 1..(c + 1) : ~(ts[k] < now - Window)
      BY <1>1, <1>4, <2>1
    <2>3. k = c + 1
      BY <1>3, <1>7, <2>2
    <2>4. ts[c + 1] <= ts[i]
      BY <1>3, <1>4, <2>1 DEF Sorted
    <2>5. QED
      BY <1>3, <1>4, <2>1, <2>2, <2>3, <2>4, WindowAssumption
  <1>9. QED
    BY <1>3, <1>4, <1>6, <1>7, <1>8

\* What is too old stays too old.
LEMMA LaterFits ==
    ASSUME NEW t \in Nat, NEW b \in Seq(0..t), NEW a \in Seq(0..t), Fits(b, a, t)
    PROVE  Fits(b, a, t + 1)
  <1>1. Len(a) \in Nat /\ Len(b) \in Nat /\ \A i \in 1..Len(a) : a[i] \in 0..t
    OBVIOUS
  <1>2. ASSUME NEW i \in 1..(Len(a) - Len(b))
        PROVE  a[i] < (t + 1) - Window
    <2>1. i \in 1..Len(a)
      BY <1>1
    <2>2. a[i] < t - Window
      BY DEF Fits
    <2>3. QED
      BY <1>1, <2>1, <2>2, WindowAssumption
  <1>3. QED
    BY <1>2 DEF Fits

\* The bucket of a sorted history is sorted.
LEMMA BucketSorted ==
    ASSUME NEW T \in SUBSET Int, NEW b \in Seq(T), NEW a \in Seq(T), NEW t,
           Fits(b, a, t), Sorted(a)
    PROVE  Sorted(b)
  <1>1. Len(a) \in Nat /\ Len(b) \in Nat /\ Len(b) <= Len(a)
    BY DEF Fits
  <1> SUFFICES ASSUME NEW i \in 1..Len(b), NEW j \in 1..Len(b), i <= j
               PROVE  b[i] <= b[j]
    BY DEF Sorted
  <1> DEFINE k == i + (Len(a) - Len(b))
             l == j + (Len(a) - Len(b))
  <1>2. k \in 1..Len(a) /\ l \in 1..Len(a) /\ k <= l
    BY <1>1
  <1>3. k <= l /\ b[i] = a[k] /\ b[j] = a[l]
    BY <1>1, <1>2 DEF Fits
  <1> HIDE DEF k, l
  <1>4. QED
    BY <1>2, <1>3 DEF Sorted

\* A pruned bucket still fits its history.
LEMMA PrunedFits ==
    ASSUME now \in Nat, NEW b \in Seq(0..now), NEW a \in Seq(0..now),
           Fits(b, a, now), Sorted(a)
    PROVE  /\ Pruned(b) \in Seq(0..now)
           /\ Len(Pruned(b)) <= Len(b)
           /\ Fits(Pruned(b), a, now)
           /\ \A i \in 1..Len(Pruned(b)) : Pruned(b)[i] >= now - Window
  <1>1. Sorted(b)
    BY BucketSorted
  <1>2. PICK ts : ts = Pruned(b)
    OBVIOUS
  <1>3. /\ ts \in Seq(0..now) /\ Len(ts) <= Len(b)
        /\ \A i \in 1..Len(ts) : ts[i] = b[i + (Len(b) - Len(ts))] /\ ts[i] >= now - Window
        /\ \A i \in 1..(Len(b) - Len(ts)) : b[i] < now - Window
    BY <1>1, <1>2, PrunedFacts
  <1>4. Len(a) \in Nat /\ Len(b) \in Nat /\ Len(ts) \in Nat /\ Len(b) <= Len(a)
    BY <1>3 DEF Fits
  <1>5. \A i \in 1..Len(ts) : ts[i] = a[i + (Len(a) - Len(ts))]
    <2> SUFFICES ASSUME NEW i \in 1..Len(ts) PROVE ts[i] = a[i + (Len(a) - Len(ts))]
      OBVIOUS
    <2> DEFINE k == i + (Len(b) - Len(ts))
    <2>1. k \in 1..Len(b)
      BY <1>3, <1>4
    <2>2. ts[i] = b[k] /\ b[k] = a[k + (Len(a) - Len(b))]
      BY <1>3, <2>1 DEF Fits
    <2>3. k + (Len(a) - Len(b)) = i + (Len(a) - Len(ts))
      BY <1>4
    <2>4. QED
      BY <2>2, <2>3
  <1>6. \A i \in 1..(Len(a) - Len(ts)) : a[i] < now - Window
    <2> SUFFICES ASSUME NEW i \in 1..(Len(a) - Len(ts)) PROVE a[i] < now - Window
      OBVIOUS
    <2>1. CASE i <= Len(a) - Len(b)
      BY <1>4, <2>1 DEF Fits
    <2>2. CASE ~(i <= Len(a) - Len(b))
      <3> DEFINE k == i - (Len(a) - Len(b))
      <3>1. k \in 1..(Len(b) - Len(ts))
        BY <1>3, <1>4, <2>2
      <3>2. b[k] < now - Window
        BY <1>3, <3>1
      <3>3. k \in 1..Len(b) /\ k + (Len(a) - Len(b)) = i
        BY <1>3, <1>4, <3>1
      <3>4. QED
        BY <3>2, <3>3 DEF Fits
    <2>3. QED
      BY <2>1, <2>2
  <1>7. QED
    BY <1>2, <1>3, <1>4, <1>5, <1>6 DEF Fits

\* An admission while less than Limit of the history lies in the window.
LEMMA AppendFits ==
    ASSUME NEW t \in Nat, NEW b \in Seq(0..t), NEW a \in Seq(0..t),
           Fits(b, a, t), Sorted(a), Spread(a), Len(b) < Limit
    PROVE  /\ Append(b, t) \in Seq(0..t) /\ Append(a, t) \in Seq(0..t)
           /\ Len(Append(b, t)) <= Limit
           /\ Fits(Append(b, t), Append(a, t), t)
           /\ Sorted(Append(a, t))
           /\ Spread(Append(a, t))
  <1>1. PICK b1, a1 : b1 = Append(b, t) /\ a1 = Append(a, t)
    OBVIOUS
  <1>2. t \in 0..t
    OBVIOUS
  <1>3. /\ b1 \in Seq(0..t) /\ Len(b1) = Len(b) + 1 /\ b1[Len(b) + 1] = t
        /\ \A i \in 1..Len(b) : b1[i] = b[i]
    BY <1>1, <1>2, AppendProperties
  <1>4. /\ a1 \in Seq(0..t) /\ Len(a1) = Len(a) + 1 /\ a1[Len(a) + 1] = t
        /\ \A i \in 1..Len(a) : a1[i] = a[i] /\ a[i] \in 0..t
    BY <1>1, <1>2, AppendProperties
  <1>5. /\ Len(a) \in Nat /\ Len(b) \in Nat /\ Len(b) <= Len(a) /\ Limit \in Nat
        /\ DOMAIN a = 1..Len(a) /\ DOMAIN a1 = 1..(Len(a) + 1)
    BY <1>4, LimitAssumption DEF Fits
  <1>6. Len(b1) <= Limit
    BY <1>3, <1>5
  <1>7. Fits(b1, a1, t)
    <2>1. \A i \in 1..Len(b1) : b1[i] = a1[i + (Len(a1) - Len(b1))]
      <3> SUFFICES ASSUME NEW i \in 1..Len(b1) PROVE b1[i] = a1[i + (Len(a1) - Len(b1))]
        OBVIOUS
      <3>1. CASE i = Len(b) + 1
        BY <1>3, <1>4, <1>5, <3>1
      <3>2. CASE i \in 1..Len(b)
        <4>1. b[i] = a[i + (Len(a) - Len(b))]
          BY <3>2 DEF Fits
        <4>2. i + (Len(a) - Len(b)) \in 1..Len(a)
          BY <1>5, <3>2
        <4>3. Len(a1) - Len(b1) = Len(a) - Len(b)
          BY <1>3, <1>4, <1>5
        <4>4. QED
          BY <1>3, <1>4, <3>2, <4>1, <4>2, <4>3
      <3>3. QED
        BY <1>3, <1>5, <3>1, <3>2
    <2>2. \A i \in 1..(Len(a1) - Len(b1)) : a1[i] < t - Window
      <3> SUFFICES ASSUME NEW i \in 1..(Len(a1) - Len(b1)) PROVE a1[i] < t - Window
        OBVIOUS
      <3>1. i \in 1..(Len(a) - Len(b)) /\ i \in 1..Len(a)
        BY <1>3, <1>4, <1>5
      <3>2. QED
        BY <1>4, <3>1 DEF Fits
    <2>3. QED
      BY <1>3, <1>4, <1>5, <2>1, <2>2 DEF Fits
  <1>8. Sorted(a1)
    <2> SUFFICES ASSUME NEW i \in 1..Len(a1), NEW j \in 1..Len(a1), i <= j
                 PROVE  a1[i] <= a1[j]
      BY DEF Sorted
    <2>1. CASE j \in 1..Len(a)
      <3>1. i \in 1..Len(a)
        BY <1>4, <1>5, <2>1
      <3>2. a[i] <= a[j]
        BY <2>1, <3>1 DEF Sorted
      <3>3. QED
        BY <1>4, <2>1, <3>1, <3>2
    <2>2. CASE j = Len(a) + 1
      BY <1>4, <1>5, <2>2
    <2>3. QED
      BY <1>4, <1>5, <2>1, <2>2
  <1>9. Spread(a1)
    <2> SUFFICES ASSUME NEW i \in 1..(Len(a) + 1), i + Limit \in 1..(Len(a) + 1)
                 PROVE  a1[i + Limit] > a1[i] + Window
      BY <1>5 DEF Spread
    <2>0. Limit > 0 /\ i \in 1..Len(a) /\ Window \in Nat
      BY <1>5, LimitAssumption, WindowAssumption
    <2>1. CASE i + Limit \in 1..Len(a)
      BY <1>4, <1>5, <2>0, <2>1 DEF Spread
    <2>2. CASE i + Limit = Len(a) + 1
      <3>1. i \in 1..(Len(a) - Len(b))
        BY <1>5, <2>0, <2>2
      <3>2. a[i] < t - Window
        BY <3>1 DEF Fits
      <3>3. a1[i] = a[i] /\ a[i] \in 0..t /\ a1[i + Limit] = t
        BY <1>4, <2>0, <2>2
      <3>4. QED
        BY <2>0, <3>2, <3>3
    <2>3. QED
      BY <1>5, <2>1, <2>2
  <1>10. QED
    BY <1>1, <1>3, <1>4, <1>6, <1>7, <1>8, <1>9

-----------------------------------------------------------------------------
(* Sweep and eviction *)

\* A bucket is swept only if nothing of its history is in the window.
LEMMA StaleFits ==
    ASSUME now \in Nat, NEW b \in Seq(0..now), NEW a \in Seq(0..now),
           Fits(b, a, now), Sorted(a), Stale(b)
    PROVE  Fits(<<>>, a, now)
  <1>1. Len(a) \in Nat /\ Len(b) \in Nat /\ Len(b) <= Len(a) /\ Len(b) # 0
    BY DEF Fits, Stale
  <1>2. \A i \in 1..Len(a) : a[i] \in 0..now
    OBVIOUS
  <1>3. b[Len(b)] = a[Len(b) + (Len(a) - Len(b))]
    BY <1>1 DEF Fits
  <1>4. a[Len(a)] < now - Window
    <2>1. Len(b) + (Len(a) - Len(b)) = Len(a)
      BY <1>1
    <2>2. b[Len(b)] < now - Window
      BY DEF Stale, LastOf
    <2>3. QED
      BY <1>3, <2>1, <2>2
  <1>5. \A i \in 1..Len(a) : a[i] < now - Window
    <2> SUFFICES ASSUME NEW i \in 1..Len(a) PROVE a[i] < now - Window
      OBVIOUS
    <2>1. Len(a) \in 1..Len(a) /\ i <= Len(a)
      BY <1>1
    <2>2. a[i] <= a[Len(a)]
      BY <2>1 DEF Sorted
    <2>3. QED
      BY <1>2, <1>4, <2>1, <2>2, WindowAssumption
  <1>6. QED
    BY <1>1, <1>5 DEF Fits

\* After a sweep every bucket, swept or not, fits its history.
LEMMA SweptFacts ==
    ASSUME LInv
    PROVE  /\ Swept \in [Principal -> Seq(0..now)]
           /\ \A q \in Principal :
                 /\ Swept[q] \in {rate_limit_buckets[q], <<>>}
                 /\ Len(Swept[q]) <= Limit
                 /\ Fits(Swept[q], admitted[q], now)
           /\ Tracked(Swept) \subseteq Tracked(rate_limit_buckets)
  <1>1. /\ now \in Nat
        /\ rate_limit_buckets \in [Principal -> Seq(0..now)]
        /\ admitted \in [Principal -> Seq(0..now)]
        /\ \A q \in Principal : Len(rate_limit_buckets[q]) <= Limit
    BY DEF LInv, LimiterTypeOK
  <1>2. /\ <<>> \in Seq(0..now) /\ Len(<<>>) <= Limit
    BY LimitAssumption
  <1>3. Swept \in [Principal -> Seq(0..now)]
    BY <1>1, <1>2 DEF Swept
  <1>4. ASSUME NEW q \in Principal
        PROVE  /\ Swept[q] \in {rate_limit_buckets[q], <<>>}
               /\ Len(Swept[q]) <= Limit
               /\ Fits(Swept[q], admitted[q], now)
    <2>1. Fits(rate_limit_buckets[q], admitted[q], now) /\ Sorted(admitted[q])
      BY DEF LInv, BucketsFit, HistoriesSorted
    <2>2. \/ Swept[q] = rate_limit_buckets[q]
          \/ Swept[q] = <<>> /\ Stale(rate_limit_buckets[q])
      BY DEF Swept
    <2>3. CASE Swept[q] = rate_limit_buckets[q]
      BY <1>1, <2>1, <2>3
    <2>4. CASE Swept[q] = <<>> /\ Stale(rate_limit_buckets[q])
      <3>1. rate_limit_buckets[q] \in Seq(0..now) /\ admitted[q] \in Seq(0..now)
        BY <1>1
      <3>2. Fits(<<>>, admitted[q], now)
        BY <1>1, <2>1, <2>4, <3>1, StaleFits
      <3>3. QED
        BY <1>2, <2>4, <3>2
    <2>5. QED
      BY <2>2, <2>3, <2>4
  <1>5. Tracked(Swept) \subseteq Tracked(rate_limit_buckets)
    BY <1>4 DEF Tracked
  <1>6. QED
    BY <1>3, <1>4, <1>5

\* After an eviction there is room for the principal of the request.
LEMMA VictimFacts ==
    ASSUME LInv, NEW p \in Principal, NEW v \in Victims(p)
    PROVE  /\ v \subseteq Principal /\ p \notin v
           /\ IsFiniteSet((Tracked(Swept) \ v) \cup {p})
           /\ Cardinality((Tracked(Swept) \ v) \cup {p}) <= MaxTracked
  <1> DEFINE T == Tracked(Swept)
  <1>1. IsFiniteSet(Tracked(rate_limit_buckets))
    BY PrincipalAssumption, FS_Subset DEF Tracked
  <1>2. IsFiniteSet(T) /\ Cardinality(T) \in Nat /\ Cardinality(T) <= MaxTracked
    <2>1. T \in SUBSET Tracked(rate_limit_buckets)
      BY SweptFacts
    <2>2. /\ IsFiniteSet(T) /\ Cardinality(T) <= Cardinality(Tracked(rate_limit_buckets))
          /\ Cardinality(T) \in Nat /\ Cardinality(Tracked(rate_limit_buckets)) \in Nat
      BY <1>1, <2>1, FS_Subset, FS_CardinalityType
    <2>3. Cardinality(Tracked(rate_limit_buckets)) <= MaxTracked
      BY DEF LInv, TrackedWithinCap
    <2>4. QED
      BY <2>2, <2>3, MaxTrackedAssumption
  <1>3. T \subseteq Principal /\ (p \in T <=> Swept[p] # <<>>)
    BY DEF Tracked
  <1>4. CASE v = {} /\ Swept[p] # <<>>
    <2>1. (T \ v) \cup {p} = T
      BY <1>3, <1>4
    <2>2. QED
      BY <1>2, <1>4, <2>1
  <1>5. CASE v = {} /\ Swept[p] = <<>> /\ ~(Cardinality(T) >= MaxTracked)
    <2>1. (T \ v) \cup {p} = T \cup {p} /\ p \notin T
      BY <1>3, <1>5
    <2>2. IsFiniteSet(T \cup {p}) /\ Cardinality(T \cup {p}) = Cardinality(T) + 1
      BY <1>2, <2>1, FS_AddElement
    <2>3. Cardinality(T) + 1 <= MaxTracked
      BY <1>2, <1>5, MaxTrackedAssumption
    <2>4. QED
      BY <1>5, <2>1, <2>2, <2>3
  <1>6. ASSUME NEW q \in T, v = {q}, Swept[p] = <<>>
        PROVE  /\ v \subseteq Principal /\ p \notin v
               /\ IsFiniteSet((T \ v) \cup {p})
               /\ Cardinality((T \ v) \cup {p}) <= MaxTracked
    <2>1. v \subseteq Principal /\ p \notin v /\ p \notin T \ v
      BY <1>3, <1>6
    <2>2. IsFiniteSet(T \ v) /\ Cardinality(T \ v) = Cardinality(T) - 1
      BY <1>2, <1>6, FS_RemoveElement
    <2>3. /\ IsFiniteSet((T \ v) \cup {p})
          /\ Cardinality((T \ v) \cup {p}) = Cardinality(T \ v) + 1
      BY <2>1, <2>2, FS_AddElement
    <2>4. QED
      BY <1>2, <2>1, <2>2, <2>3
  <1>7. \/ v = {} /\ Swept[p] # <<>>
        \/ v = {} /\ Swept[p] = <<>> /\ ~(Cardinality(T) >= MaxTracked)
        \/ Swept[p] = <<>> /\ \E q \in T : v = {q}
    BY DEF Victims, Stalest
  <1>8. QED
    BY <1>4, <1>5, <1>6, <1>7

-----------------------------------------------------------------------------
(* The steps of the limiter preserve the invariant *)

\* Whatever a request records for its principal, if it fits, keeps LInv.
LEMMA RecordStep ==
    ASSUME LInv, NEW p \in Principal, NEW v \in Victims(p),
           NEW ts \in Seq(0..now), NEW h \in Seq(0..now),
           Len(ts) <= Limit, Fits(ts, h, now), Sorted(h), Spread(h),
           CountRequest, Record(p, v, ts, h)
    PROVE  LInv'
  <1>1. /\ now \in Nat /\ now' = now
        /\ rate_limit_counter \in 0..(SweepInterval - 1)
        /\ admitted \in [Principal -> Seq(0..now)]
    BY DEF LInv, LimiterTypeOK, Record
  <1>2. /\ Swept \in [Principal -> Seq(0..now)]
        /\ \A q \in Principal : Len(Swept[q]) <= Limit /\ Fits(Swept[q], admitted[q], now)
    BY SweptFacts
  <1>3. v \subseteq Principal /\ p \notin v
    BY VictimFacts
  <1>4. rate_limit_buckets' = [q \in Principal |->
            IF q = p THEN ts ELSE IF q \in v THEN <<>> ELSE Swept[q]]
    BY DEF Record, Without
  <1>5. admitted' = [q \in Principal |->
            IF q = p THEN h ELSE IF q \in v THEN <<>> ELSE admitted[q]]
    BY DEF Record
  <1>6. /\ <<>> \in Seq(0..now) /\ Len(<<>>) <= Limit
        /\ Fits(<<>>, <<>>, now) /\ Sorted(<<>>) /\ Spread(<<>>)
    BY EmptyFits, LimitAssumption
  <1>7. ASSUME NEW q \in Principal
        PROVE  /\ rate_limit_buckets'[q] \in Seq(0..now) /\ admitted'[q] \in Seq(0..now)
               /\ Len(rate_limit_buckets'[q]) <= Limit
               /\ Fits(rate_limit_buckets'[q], admitted'[q], now)
               /\ Sorted(admitted'[q]) /\ Spread(admitted'[q])
    <2>1. CASE q = p
      BY <1>4, <1>5, <2>1
    <2>2. CASE q # p /\ q \in v
      BY <1>4, <1>5, <1>6, <2>2
    <2>3. CASE q # p /\ q \notin v
      <3>1. rate_limit_buckets'[q] = Swept[q] /\ admitted'[q] = admitted[q]
        BY <1>4, <1>5, <2>3
      <3>2. Sorted(admitted[q]) /\ Spread(admitted[q])
        BY DEF LInv, HistoriesSorted, WindowBound, Spread
      <3>3. QED
        BY <1>1, <1>2, <3>1, <3>2
    <2>4. QED
      BY <2>1, <2>2, <2>3
  <1>8. LimiterTypeOK'
    <2>1. rate_limit_counter' \in 0..(SweepInterval - 1)
      BY <1>1, SweepAssumption DEF CountRequest
    <2>2. /\ rate_limit_buckets' \in [Principal -> Seq(0..now)]
          /\ admitted' \in [Principal -> Seq(0..now)]
      BY <1>4, <1>5, <1>7
    <2>3. QED
      BY <1>1, <1>7, <2>1, <2>2 DEF LimiterTypeOK
  <1>9. BucketsFit' /\ HistoriesSorted'
    BY <1>1, <1>7 DEF BucketsFit, HistoriesSorted
  <1>10. WindowBound'
    BY <1>7 DEF WindowBound, Spread
  <1>11. TrackedWithinCap'
    <2> DEFINE B == (Tracked(Swept) \ v) \cup {p}
    <2>1. IsFiniteSet(B) /\ Cardinality(B) <= MaxTracked
      BY VictimFacts
    <2>2. Tracked(rate_limit_buckets)' \in SUBSET B
      BY <1>4 DEF Tracked
    <2>3. /\ Cardinality(Tracked(rate_limit_buckets)') <= Cardinality(B)
          /\ Cardinality(Tracked(rate_limit_buckets)') \in Nat /\ Cardinality(B) \in Nat
      BY <2>1, <2>2, FS_Subset, FS_CardinalityType
    <2>4. QED
      BY <2>1, <2>3, MaxTrackedAssumption DEF TrackedWithinCap
  <1>12. QED
    BY <1>8, <1>9, <1>10, <1>11 DEF LInv

\* What a request finds after sweep, eviction and pruning.
LEMMA RequestFacts ==
    ASSUME LInv, NEW p \in Principal, NEW v \in Victims(p),
           NEW ts, ts = Pruned(Without(v)[p])
    PROVE  /\ ts \in Seq(0..now) /\ Len(ts) <= Limit
           /\ Fits(ts, admitted[p], now)
           /\ \A i \in 1..Len(ts) : ts[i] >= now - Window
           /\ admitted[p] \in Seq(0..now) /\ Sorted(admitted[p]) /\ Spread(admitted[p])
  <1>1. Without(v)[p] = Swept[p]
    BY VictimFacts DEF Without
  <1>2. now \in Nat /\ admitted[p] \in Seq(0..now)
    BY DEF LInv, LimiterTypeOK
  <1>3. Sorted(admitted[p]) /\ Spread(admitted[p])
    BY DEF LInv, HistoriesSorted, WindowBound, Spread
  <1>4. Swept[p] \in Seq(0..now) /\ Len(Swept[p]) <= Limit /\ Fits(Swept[p], admitted[p], now)
    BY SweptFacts
  <1>5. /\ ts \in Seq(0..now) /\ Len(ts) <= Len(Swept[p])
        /\ Fits(ts, admitted[p], now)
        /\ \A i \in 1..Len(ts) : ts[i] >= now - Window
    BY <1>1, <1>2, <1>3, <1>4, PrunedFits
  <1>6. Len(ts) <= Limit
    BY <1>4, <1>5, LimitAssumption
  <1>7. QED
    BY <1>2, <1>3, <1>5, <1>6

\* An admitted request preserves LInv.
LEMMA AdmitStep ==
    ASSUME LInv, NEW p \in Principal, Admit(p)
    PROVE  LInv'
  <1>1. PICK v \in Victims(p) :
            /\ ~Spent(Pruned(Without(v)[p]))
            /\ Record(p, v, Append(Pruned(Without(v)[p]), now), Append(admitted[p], now))
    BY DEF Admit
  <1>2. PICK ts : ts = Pruned(Without(v)[p])
    OBVIOUS
  <1>3. /\ ts \in Seq(0..now) /\ Fits(ts, admitted[p], now)
        /\ admitted[p] \in Seq(0..now) /\ Sorted(admitted[p]) /\ Spread(admitted[p])
    BY <1>2, RequestFacts
  <1>4. Len(ts) < Limit
    BY <1>1, <1>2, <1>3, LimitAssumption DEF Spent
  <1>5. now \in Nat
    BY DEF LInv, LimiterTypeOK
  <1>6. /\ Append(ts, now) \in Seq(0..now) /\ Append(admitted[p], now) \in Seq(0..now)
        /\ Len(Append(ts, now)) <= Limit
        /\ Fits(Append(ts, now), Append(admitted[p], now), now)
        /\ Sorted(Append(admitted[p], now)) /\ Spread(Append(admitted[p], now))
    BY <1>3, <1>4, <1>5, AppendFits
  <1>7. CountRequest /\ Record(p, v, Append(ts, now), Append(admitted[p], now))
    BY <1>1, <1>2 DEF Admit
  <1>8. QED
    BY <1>6, <1>7, RecordStep

\* A refused request preserves LInv.
LEMMA RefuseStep ==
    ASSUME LInv, NEW p \in Principal, Refuse(p)
    PROVE  LInv'
  <1>1. PICK v \in Victims(p) : Record(p, v, Pruned(Without(v)[p]), admitted[p])
    BY DEF Refuse
  <1>2. PICK ts : ts = Pruned(Without(v)[p])
    OBVIOUS
  <1>3. CountRequest /\ Record(p, v, ts, admitted[p])
    BY <1>1, <1>2 DEF Refuse
  <1>4. QED
    BY <1>2, <1>3, RequestFacts, RecordStep

\* The clock preserves LInv.
LEMMA TickStep ==
    ASSUME LInv, Tick
    PROVE  LInv'
  <1>1. /\ now \in Nat /\ now' = now + 1
        /\ rate_limit_buckets' = rate_limit_buckets
        /\ rate_limit_counter' = rate_limit_counter /\ admitted' = admitted
    BY DEF LInv, LimiterTypeOK, Tick
  <1>2. 0..now \subseteq 0..now'
    BY <1>1
  <1>3. LimiterTypeOK'
    BY <1>1, <1>2 DEF LInv, LimiterTypeOK
  <1>4. BucketsFit'
    <2>1. ASSUME NEW q \in Principal
          PROVE  Fits(rate_limit_buckets[q], admitted[q], now + 1)
      <3>1. PICK b \in Seq(0..now), a \in Seq(0..now) :
                b = rate_limit_buckets[q] /\ a = admitted[q]
        BY DEF LInv, LimiterTypeOK
      <3>2. Fits(b, a, now)
        BY <3>1 DEF LInv, BucketsFit
      <3>3. Fits(b, a, now + 1)
        BY <1>1, <3>2, LaterFits
      <3>4. QED
        BY <3>1, <3>3
    <2>2. QED
      BY <1>1, <2>1 DEF BucketsFit
  <1>5. HistoriesSorted' /\ WindowBound' /\ TrackedWithinCap'
    BY <1>1 DEF LInv, HistoriesSorted, WindowBound, TrackedWithinCap, Tracked
  <1>6. QED
    BY <1>3, <1>4, <1>5 DEF LInv

\* Every step of the limiter preserves LInv.
LEMMA LimiterStep ==
    ASSUME LInv, [LimiterNext]_limiterVars
    PROVE  LInv'
  <1>1. CASE UNCHANGED limiterVars
    BY <1>1 DEF limiterVars, LInv, LimiterTypeOK, BucketsFit, HistoriesSorted, WindowBound,
                TrackedWithinCap, Tracked
  <1>2. CASE LimiterNext
    BY <1>2, TickStep, AdmitStep, RefuseStep DEF LimiterNext
  <1>3. QED
    BY <1>1, <1>2

\* The limiter of a new process.
LimiterEmpty ==
    /\ rate_limit_buckets = [q \in Principal |-> <<>>]
    /\ rate_limit_counter = 0
    /\ admitted = [q \in Principal |-> <<>>]

\* An empty limiter satisfies LInv at any time.
LEMMA EmptyLimiter == now \in Nat /\ LimiterEmpty => LInv
  <1> SUFFICES ASSUME now \in Nat, LimiterEmpty PROVE LInv
    OBVIOUS
  <1> USE DEF LimiterEmpty
  <1>1. ASSUME NEW q \in Principal
        PROVE  /\ rate_limit_buckets[q] = <<>> /\ admitted[q] = <<>>
               /\ Fits(<<>>, <<>>, now) /\ Sorted(<<>>) /\ Spread(<<>>)
    BY EmptyFits
  <1>2. LimiterTypeOK
    <2>1. <<>> \in Seq(0..now) /\ Len(<<>>) <= Limit
      BY LimitAssumption
    <2>2. 0 \in 0..(SweepInterval - 1)
      BY SweepAssumption
    <2>3. QED
      BY <1>1, <2>1, <2>2 DEF LimiterTypeOK
  <1>3. BucketsFit /\ HistoriesSorted /\ WindowBound
    BY <1>1 DEF BucketsFit, HistoriesSorted, WindowBound, Spread
  <1>4. TrackedWithinCap
    <2>1. Tracked(rate_limit_buckets) = {}
      BY DEF Tracked
    <2>2. Cardinality({}) = 0
      BY FS_EmptySet
    <2>3. QED
      BY <2>1, <2>2, MaxTrackedAssumption DEF TrackedWithinCap
  <1>5. QED
    BY <1>2, <1>3, <1>4 DEF LInv

\* What pruning leaves of a bucket are the admissions in the window, all of them.
LEMMA WindowCount ==
    ASSUME LInv, NEW p \in Principal, NEW v \in Victims(p),
           NEW ts, ts = Pruned(Without(v)[p])
    PROVE  Cardinality({i \in DOMAIN admitted[p] : admitted[p][i] >= now - Window}) = Len(ts)
  <1>1. /\ ts \in Seq(0..now) /\ Fits(ts, admitted[p], now)
        /\ \A i \in 1..Len(ts) : ts[i] >= now - Window
        /\ admitted[p] \in Seq(0..now)
    BY RequestFacts
  <1> DEFINE n == Len(admitted[p])
             S == {i \in DOMAIN admitted[p] : admitted[p][i] >= now - Window}
  <1>2. /\ n \in Nat /\ Len(ts) \in Nat /\ Len(ts) <= n /\ DOMAIN admitted[p] = 1..n
        /\ now \in Nat /\ \A i \in 1..n : admitted[p][i] \in 0..now
    BY <1>1 DEF Fits, LInv, LimiterTypeOK
  <1>3. (n - Len(ts) + 1)..n \subseteq S
    <2> SUFFICES ASSUME NEW i \in (n - Len(ts) + 1)..n PROVE i \in S
      OBVIOUS
    <2> DEFINE k == i - (n - Len(ts))
    <2>1. k \in 1..Len(ts) /\ k + (n - Len(ts)) = i /\ i \in 1..n
      BY <1>2
    <2>2. ts[k] = admitted[p][k + (n - Len(ts))] /\ ts[k] >= now - Window
      BY <1>1, <2>1 DEF Fits
    <2>3. QED
      BY <1>2, <2>1, <2>2
  <1>4. S \subseteq (n - Len(ts) + 1)..n
    <2> SUFFICES ASSUME NEW i \in 1..n, admitted[p][i] >= now - Window
                 PROVE  i \in (n - Len(ts) + 1)..n
      BY <1>2
    <2>1. ~(admitted[p][i] < now - Window)
      BY <1>2, WindowAssumption
    <2>2. i \notin 1..(n - Len(ts))
      BY <1>1, <2>1 DEF Fits
    <2>3. QED
      BY <1>2, <2>2
  <1>5. Cardinality((n - Len(ts) + 1)..n) = Len(ts)
    <2> HIDE DEF n
    <2>1. n \in Nat /\ Len(ts) \in Nat /\ Len(ts) <= n
      BY <1>2
    <2>2. n - Len(ts) + 1 \in Int /\ n \in Int
      BY <2>1
    <2>3. Cardinality((n - Len(ts) + 1)..n) =
              IF n - Len(ts) + 1 > n THEN 0 ELSE n - (n - Len(ts) + 1) + 1
      BY <2>2, FS_Interval
    <2>4. QED
      BY <2>1, <2>3
  <1>6. S = (n - Len(ts) + 1)..n
    BY <1>3, <1>4
  <1>7. QED
    BY <1>5, <1>6

\* A refusal finds Limit admissions of its principal in the window.
LEMMA RefusalIsJust ==
    ASSUME LInv, NEW p \in Principal, Refuse(p)
    PROVE  Cardinality({i \in DOMAIN admitted[p] : admitted[p][i] >= now - Window}) >= Limit
  <1>1. PICK v \in Victims(p) : Spent(Pruned(Without(v)[p]))
    BY DEF Refuse
  <1>2. PICK ts : ts = Pruned(Without(v)[p])
    OBVIOUS
  <1>3. Len(ts) >= Limit
    BY <1>1, <1>2 DEF Spent
  <1>4. QED
    BY <1>2, <1>3, WindowCount

-----------------------------------------------------------------------------
(* The gateway: its inductive invariant *)

\* A principal that the configured way to authenticate can produce.
LetIn(q) ==
    /\ q \in Client <=> mode = "open"
    /\ q = "legacy" <=> mode = "legacy"
    /\ q \in Key => api_keys[q] # "absent"

RequestsLetIn == \A r \in Request : requests[r] # NoRequest => LetIn(requests[r].principal)

GTypeOK ==
    /\ mode \in Mode
    /\ api_keys \in [Key -> {"absent", "active", "revoked"}]
    /\ requests \in [Request -> [at: {"limiter", "handler"}, principal: Principal] \cup {NoRequest}]

GInv == LInv /\ GTypeOK /\ RequestsLetIn /\ ChargedWereLetIn

-----------------------------------------------------------------------------
(* The gateway: single steps *)

\* A request at one of the two stations is in flight, with a known principal.
LEMMA AtStation ==
    ASSUME GTypeOK, NEW r \in Request, requests[r].at \in {"limiter", "handler"}
    PROVE  /\ requests[r] # NoRequest
           /\ requests[r] \in [at: {"limiter", "handler"}, principal: Principal]
  BY DEF GTypeOK, NoRequest

\* Authentication produces only principals that are let in.
LEMMA AcceptedLetIn ==
    ASSUME GTypeOK, NEW p \in Accepted
    PROVE  p \in Principal /\ LetIn(p)
  BY PrincipalsAssumption, KindsAssumption DEF GTypeOK, Mode, Accepted, authenticate, LetIn

\* One limiter step at most adds the principal of the request to the table.
LEMMA ChargeTracks ==
    ASSUME LInv, NEW p \in Principal, Admit(p) \/ Refuse(p)
    PROVE  Tracked(rate_limit_buckets)' \subseteq Tracked(rate_limit_buckets) \cup {p}
  <1>1. PICK v \in Victims(p) : \E ts, h : Record(p, v, ts, h)
    BY DEF Admit, Refuse
  <1>2. PICK ts, h : Record(p, v, ts, h)
    BY <1>1
  <1>3. rate_limit_buckets' = [q \in Principal |->
            IF q = p THEN ts ELSE IF q \in v THEN <<>> ELSE Swept[q]]
    BY <1>2, SweptFacts DEF Record, Without
  <1>4. \A q \in Principal : Swept[q] \in {rate_limit_buckets[q], <<>>}
    BY SweptFacts
  <1>5. QED
    BY <1>3, <1>4 DEF Tracked

\* The history of a principal grows by its own requests only.
LEMMA ChargeKeepsOthers ==
    ASSUME NEW p \in Principal, Admit(p) \/ Refuse(p), NEW q \in Principal, q # p
    PROVE  admitted'[q] \in {admitted[q], <<>>}
  BY DEF Admit, Refuse, Record

\* GInv holds at the start.
LEMMA InitInv == Init => GInv
  <1> SUFFICES ASSUME Init PROVE GInv
    OBVIOUS
  <1>1. LInv
    BY EmptyLimiter DEF Init, LimiterInit, LimiterEmpty
  <1>2. GTypeOK /\ RequestsLetIn
    BY DEF Init, GTypeOK, RequestsLetIn
  <1>3. ChargedWereLetIn
    BY DEF Init, LimiterInit, ChargedWereLetIn, Tracked
  <1>4. QED
    BY <1>1, <1>2, <1>3 DEF GInv

\* Authentication preserves GInv.
LEMMA AuthenticateStep ==
    ASSUME GInv, NEW r \in Request, Authenticate(r)
    PROVE  GInv'
  <1>1. PICK p \in Accepted :
            requests' = [requests EXCEPT ![r] = [at |-> "limiter", principal |-> p]]
    BY DEF Authenticate
  <1>2. UNCHANGED <<limiterVars, mode, api_keys>>
    BY DEF Authenticate
  <1>3. p \in Principal /\ LetIn(p)
    BY AcceptedLetIn DEF GInv
  <1>4. LInv'
    BY <1>2, LimiterStep DEF GInv
  <1>5. GTypeOK'
    BY <1>1, <1>2, <1>3 DEF GInv, GTypeOK
  <1>6. RequestsLetIn'
    BY <1>1, <1>2, <1>3 DEF GInv, GTypeOK, RequestsLetIn, LetIn
  <1>7. ChargedWereLetIn'
    BY <1>2 DEF GInv, ChargedWereLetIn, Tracked, limiterVars
  <1>8. QED
    BY <1>4, <1>5, <1>6, <1>7 DEF GInv

\* The limiter preserves GInv.
LEMMA ChargeStep ==
    ASSUME GInv, NEW r \in Request, Charge(r)
    PROVE  GInv'
  <1>1. UNCHANGED <<mode, api_keys>> /\ requests[r].at = "limiter"
    BY DEF Charge
  <1>2. PICK p : p = requests[r].principal
    OBVIOUS
  <1>3. /\ requests[r] # NoRequest
        /\ requests[r] \in [at: {"limiter", "handler"}, principal: Principal]
        /\ p \in Principal /\ LetIn(p)
    BY <1>1, <1>2, AtStation DEF GInv, RequestsLetIn
  <1>4. Admit(p) \/ Refuse(p)
    BY <1>2 DEF Charge
  <1>5. LInv'
    BY <1>3, <1>4, AdmitStep, RefuseStep DEF GInv
  <1>6. \/ requests' = [requests EXCEPT ![r].at = "handler"]
        \/ requests' = [requests EXCEPT ![r] = NoRequest]
    BY DEF Charge
  <1>7. GTypeOK'
    BY <1>1, <1>3, <1>6 DEF GInv, GTypeOK
  <1>8. RequestsLetIn'
    <2>1. ASSUME NEW s \in Request, requests'[s] # NoRequest
          PROVE  requests[s] # NoRequest /\ requests'[s].principal = requests[s].principal
      BY <1>3, <1>6, <2>1 DEF GInv, GTypeOK
    <2>2. QED
      BY <1>1, <2>1 DEF GInv, RequestsLetIn, LetIn
  <1>9. ChargedWereLetIn'
    <2>1. Tracked(rate_limit_buckets)' \subseteq Tracked(rate_limit_buckets) \cup {p}
      BY <1>3, <1>4, ChargeTracks DEF GInv
    <2>2. \A q \in Tracked(rate_limit_buckets) \cup {p} : LetIn(q)
      BY <1>3 DEF GInv, ChargedWereLetIn, LetIn
    <2>3. QED
      BY <1>1, <2>1, <2>2 DEF ChargedWereLetIn, LetIn
  <1>10. QED
    BY <1>5, <1>7, <1>8, <1>9 DEF GInv

\* What the steps of a handler have in common.
LEMMA HandlerStep ==
    ASSUME GInv, NEW r \in Request, Leaves(r),
           api_keys' \in [Key -> {"absent", "active", "revoked"}],
           \A k \in Key : api_keys[k] # "absent" => api_keys'[k] # "absent"
    PROVE  GInv'
  <1>1. UNCHANGED <<limiterVars, mode>> /\ requests' = [requests EXCEPT ![r] = NoRequest]
    BY DEF Leaves
  <1>2. LInv'
    BY <1>1, LimiterStep DEF GInv
  <1>3. GTypeOK'
    BY <1>1 DEF GInv, GTypeOK
  <1>4. ASSUME NEW q, LetIn(q)
        PROVE  LetIn(q)'
    BY <1>1, <1>4 DEF LetIn
  <1>5. RequestsLetIn'
    <2>1. ASSUME NEW s \in Request, requests'[s] # NoRequest
          PROVE  requests'[s] = requests[s]
      BY <1>1, <2>1 DEF GInv, GTypeOK
    <2>2. QED
      BY <1>4, <2>1 DEF GInv, RequestsLetIn
  <1>6. ChargedWereLetIn'
    <2>1. Tracked(rate_limit_buckets)' = Tracked(rate_limit_buckets)
      BY <1>1 DEF limiterVars, Tracked
    <2>2. \A q \in Tracked(rate_limit_buckets) : LetIn(q)
      BY DEF GInv, ChargedWereLetIn, LetIn
    <2>3. QED
      BY <1>4, <2>1, <2>2 DEF ChargedWereLetIn, LetIn
  <1>7. QED
    BY <1>2, <1>3, <1>5, <1>6 DEF GInv

\* How the key table changes.
LEMMA KeysStep ==
    ASSUME GTypeOK, NEW r \in Request, create_key(r) \/ revoke_key(r) \/ OtherHandler(r)
    PROVE  /\ Leaves(r)
           /\ api_keys' \in [Key -> {"absent", "active", "revoked"}]
           /\ \A k \in Key : api_keys'[k] # api_keys[k] =>
                 /\ <<api_keys[k], api_keys'[k]>> \in {<<"absent", "active">>, <<"active", "revoked">>}
                 /\ _check_admin_key(r)
  <1>1. CASE create_key(r)
    BY <1>1 DEF create_key, GTypeOK
  <1>2. CASE revoke_key(r)
    BY <1>2 DEF revoke_key, GTypeOK
  <1>3. CASE OtherHandler(r)
    BY <1>3 DEF OtherHandler, GTypeOK
  <1>4. QED
    BY <1>1, <1>2, <1>3

\* A restart preserves GInv.
LEMMA RestartStep ==
    ASSUME GInv, Restart
    PROVE  GInv'
  <1>1. LInv'
    <2>1. (now \in Nat /\ LimiterEmpty)' => LInv'
      BY EmptyLimiter, PTL
    <2>2. (now \in Nat /\ LimiterEmpty)'
      BY DEF GInv, LInv, LimiterTypeOK, Restart, LimiterEmpty
    <2>3. QED
      BY <2>1, <2>2
  <1>2. GTypeOK' /\ RequestsLetIn'
    BY DEF Restart, GInv, GTypeOK, RequestsLetIn
  <1>3. ChargedWereLetIn'
    BY DEF Restart, ChargedWereLetIn, Tracked
  <1>4. QED
    BY <1>1, <1>2, <1>3 DEF GInv

\* Every step preserves GInv.
LEMMA NextInv == GInv /\ [Next]_vars => GInv'
  <1> SUFFICES ASSUME GInv, [Next]_vars PROVE GInv'
    OBVIOUS
  <1>1. CASE UNCHANGED <<mode, api_keys, requests>> /\ (Tick \/ UNCHANGED limiterVars)
    <2>1. LInv'
      BY <1>1, LimiterStep DEF GInv, LimiterNext
    <2>2. rate_limit_buckets' = rate_limit_buckets
      BY <1>1 DEF Tick, limiterVars
    <2>3. QED
      BY <1>1, <2>1, <2>2 DEF GInv, GTypeOK, RequestsLetIn, ChargedWereLetIn, LetIn, Tracked
  <1>2. ASSUME NEW r \in Request, create_key(r) \/ revoke_key(r) \/ OtherHandler(r)
        PROVE  GInv'
    <2>1. \A k \in Key : api_keys[k] # "absent" => api_keys'[k] # "absent"
      BY <1>2, KeysStep DEF GInv
    <2>2. QED
      BY <1>2, <2>1, KeysStep, HandlerStep DEF GInv
  <1>3. QED
    BY <1>1, <1>2, AuthenticateStep, ChargeStep, RestartStep DEF Next, vars

-----------------------------------------------------------------------------
(* The gateway implements SlidingWindow *)

\* The instance counts as this module does.
LEMMA SameCount ==
    ASSUME NEW S
    PROVE  Promise!Cardinality(S) = Cardinality(S)
  BY Zenon DEF Promise!Cardinality, Cardinality

\* The last time of a bucket is the last admission of its principal.
LEMMA SweptLatest ==
    ASSUME LInv, NEW q \in Tracked(Swept)
    PROVE  admitted[q] # <<>> /\ LastOf(Swept[q]) = Promise!Latest(q)
  <1>1. q \in Principal /\ Swept[q] # <<>>
    BY DEF Tracked
  <1>2. PICK b, a : b = Swept[q] /\ a = admitted[q]
    OBVIOUS
  <1>3. b \in Seq(0..now) /\ a \in Seq(0..now) /\ Fits(b, a, now) /\ b # <<>>
    BY <1>1, <1>2, SweptFacts DEF LInv, LimiterTypeOK
  <1>4. Len(b) \in Nat \ {0} /\ Len(a) \in Nat /\ Len(b) <= Len(a)
    BY <1>3 DEF Fits
  <1>5. Len(b) \in 1..Len(b) /\ Len(b) + (Len(a) - Len(b)) = Len(a)
    BY <1>4
  <1>6. b[Len(b)] = a[Len(a)]
    <2>1. b[Len(b)] = a[Len(b) + (Len(a) - Len(b))]
      BY <1>3, <1>5 DEF Fits
    <2>2. QED
      BY <1>5, <2>1
  <1>7. a # <<>>
    BY <1>4
  <1>8. QED
    BY <1>2, <1>6, <1>7 DEF LastOf, Promise!Latest

\* Whoever is evicted may be forgotten.
LEMMA EvictionIsJust ==
    ASSUME LInv, NEW p \in Principal, NEW v \in Victims(p), v # {}
    PROVE  /\ Promise!Recent(p) = {}
           /\ \E q \in Principal : v = {q} /\ Promise!MayForget(p, q)
  <1>1. PICK q \in Stalest(Swept) : v = {q}
    BY DEF Victims
  <1>2. Swept[p] = <<>> /\ Cardinality(Tracked(Swept)) >= MaxTracked
    BY DEF Victims
  <1>3. /\ q \in Principal /\ q \in Tracked(Swept) /\ q # p
        /\ \A s \in Tracked(Swept) : LastOf(Swept[q]) <= LastOf(Swept[s])
    BY <1>1, <1>2 DEF Stalest, Tracked
  <1>4. Promise!Recent(p) = {}
    <2>1. Fits(<<>>, admitted[p], now)
      BY <1>2, SweptFacts
    <2>2. now \in Nat
      BY DEF LInv, LimiterTypeOK
    <2>3. PICK a \in Seq(0..now) : a = admitted[p]
      BY DEF LInv, LimiterTypeOK
    <2>4. Len(a) \in Nat /\ DOMAIN a = 1..Len(a) /\ \A i \in 1..Len(a) : a[i] \in 0..now
      BY <2>2
    <2>5. Len(<<>>) = 0 /\ Len(a) - 0 = Len(a)
      BY <2>4
    <2>6. \A i \in 1..Len(a) : a[i] < now - Window
      BY <2>1, <2>3, <2>5 DEF Fits
    <2>7. \A i \in 1..Len(a) : ~(a[i] >= now - Window)
      BY <2>2, <2>4, <2>6, WindowAssumption
    <2>8. QED
      BY <2>3, <2>4, <2>7 DEF Promise!Recent
  <1>5. Tracked(Swept) \subseteq Promise!AsFresh(p, q)
    <2> SUFFICES ASSUME NEW s \in Tracked(Swept) PROVE s \in Promise!AsFresh(p, q)
      OBVIOUS
    <2>1. s \in Principal \ {p}
      BY <1>2 DEF Tracked
    <2>2. LastOf(Swept[q]) <= LastOf(Swept[s])
      BY <1>3
    <2>3. admitted[s] # <<>> /\ LastOf(Swept[s]) = Promise!Latest(s)
      BY SweptLatest
    <2>4. LastOf(Swept[q]) = Promise!Latest(q)
      BY <1>3, SweptLatest
    <2>5. Promise!Latest(q) <= Promise!Latest(s)
      BY <2>2, <2>3, <2>4
    <2>6. QED
      BY <2>1, <2>3, <2>5 DEF Promise!AsFresh
  <1>6. Cardinality(Promise!AsFresh(p, q)) >= MaxTracked
    <2>1. PICK F : F = Promise!AsFresh(p, q)
      OBVIOUS
    <2>2. F \subseteq Principal
      BY <2>1 DEF Promise!AsFresh
    <2>3. IsFiniteSet(F)
      BY <2>2, PrincipalAssumption, FS_Subset
    <2>4. PICK T : T = Tracked(Swept)
      OBVIOUS
    <2>5. T \in SUBSET F
      BY <1>5, <2>1, <2>4
    <2>6. /\ Cardinality(T) \in Nat /\ Cardinality(F) \in Nat
          /\ Cardinality(T) <= Cardinality(F)
      BY <2>3, <2>5, FS_Subset, FS_CardinalityType
    <2>7. Cardinality(T) >= MaxTracked
      BY <1>2, <2>4
    <2>8. QED
      BY <2>1, <2>6, <2>7, MaxTrackedAssumption
  <1>7. admitted[q] # <<>>
    BY <1>3, SweptLatest
  <1>8. Promise!MayForget(p, q)
    BY <1>3, <1>4, <1>6, <1>7, SameCount DEF Promise!MayForget
  <1>9. QED
    BY <1>1, <1>3, <1>4, <1>8

\* A request that the limiter admits is granted.
LEMMA AdmitIsGrant ==
    ASSUME LInv, NEW r \in Request, requests[r].at = "limiter",
           requests[r].principal \in Principal, Admit(requests[r].principal),
           requests' = [requests EXCEPT ![r].at = "handler"]
    PROVE  Promise!Grant(r)
  <1>1. PICK p \in Principal : p = requests[r].principal
    OBVIOUS
  <1>2. PICK v \in Victims(p) :
            /\ ~Spent(Pruned(Without(v)[p]))
            /\ Record(p, v, Append(Pruned(Without(v)[p]), now), Append(admitted[p], now))
    BY <1>1 DEF Admit
  <1>3. PICK ts : ts = Pruned(Without(v)[p])
    OBVIOUS
  <1>4. Cardinality(Promise!Recent(p)) < Limit
    <2>1. Cardinality(Promise!Recent(p)) = Len(ts)
      BY <1>3, WindowCount DEF Promise!Recent
    <2>2. ts \in Seq(0..now) /\ ~(Len(ts) >= Limit)
      BY <1>2, <1>3, RequestFacts DEF Spent
    <2>3. QED
      BY <2>1, <2>2, LimitAssumption
  <1>5. v \in {{}} \cup {{q} : q \in {s \in Principal : Promise!MayForget(p, s)}}
    BY EvictionIsJust
  <1>6. /\ now' = now
        /\ admitted' = [q \in Principal |->
                IF q = p THEN Append(admitted[p], now)
                ELSE IF q \in v THEN <<>> ELSE admitted[q]]
    BY <1>2 DEF Record
  <1>7. QED
    BY <1>1, <1>4, <1>5, <1>6, SameCount DEF Promise!Grant

\* A request that the limiter refuses is denied, and nobody is evicted for it.
LEMMA RefuseIsDeny ==
    ASSUME LInv, NEW r \in Request, requests[r].at = "limiter",
           requests[r].principal \in Principal, Refuse(requests[r].principal),
           requests' = [requests EXCEPT ![r] = NoRequest]
    PROVE  Promise!Deny(r)
  <1>1. PICK p \in Principal : p = requests[r].principal
    OBVIOUS
  <1>2. PICK v \in Victims(p) : Record(p, v, Pruned(Without(v)[p]), admitted[p])
    BY <1>1 DEF Refuse
  <1>3. Cardinality(Promise!Recent(p)) >= Limit
    BY <1>1, RefusalIsJust DEF Promise!Recent
  <1>4. v = {}
    <2>1. Promise!Recent(p) # {}
      BY <1>3, FS_EmptySet, LimitAssumption
    <2>2. QED
      BY <2>1, EvictionIsJust
  <1>5. now' = now /\ admitted' = admitted
    <2>1. admitted \in [Principal -> Seq(0..now)]
      BY DEF LInv, LimiterTypeOK
    <2>2. admitted' = [q \in Principal |-> admitted[q]] /\ now' = now
      BY <1>2, <1>4 DEF Record
    <2>3. QED
      BY <2>1, <2>2
  <1>6. QED
    BY <1>1, <1>3, <1>5, SameCount DEF Promise!Deny, Promise!Outside, NoRequest

\* Every step of the gateway is one of SlidingWindow, or shows nothing there.
LEMMA StepKeepsPromise ==
    ASSUME GInv, [Next]_vars
    PROVE  [Promise!Next]_(Promise!vars)
  <1> USE DEF Promise!vars
  <1>1. CASE UNCHANGED vars
    BY <1>1 DEF vars, limiterVars
  <1>2. ASSUME NEW r \in Request, Authenticate(r)
        PROVE  Promise!Next
    <2>1. Promise!Arrive(r)
      BY <1>2, AcceptedLetIn
      DEF Authenticate, GInv, limiterVars, NoRequest, Promise!Arrive, Promise!Outside
    <2>2. QED
      BY <2>1 DEF Promise!Next
  <1>3. ASSUME NEW r \in Request, Charge(r)
        PROVE  Promise!Next
    <2>1. requests[r].at = "limiter" /\ requests[r].principal \in Principal
      BY <1>3, AtStation DEF Charge, GInv
    <2>2. Promise!Grant(r) \/ Promise!Deny(r)
      BY <1>3, <2>1, AdmitIsGrant, RefuseIsDeny DEF Charge, GInv
    <2>3. QED
      BY <2>2 DEF Promise!Next
  <1>4. ASSUME NEW r \in Request, create_key(r) \/ revoke_key(r) \/ OtherHandler(r)
        PROVE  Promise!Next
    <2>1. Leaves(r)
      BY <1>4, KeysStep DEF GInv
    <2>2. Promise!Leave(r)
      BY <2>1 DEF Leaves, limiterVars, NoRequest, Promise!Leave, Promise!Outside
    <2>3. QED
      BY <2>2 DEF Promise!Next
  <1>5. CASE Tick /\ UNCHANGED <<mode, api_keys, requests>>
    BY <1>5 DEF Tick, Promise!Tick, Promise!Next
  <1>6. CASE Restart
    BY <1>6 DEF Restart, NoRequest, Promise!Restart, Promise!Nothing, Promise!Outside, Promise!Next
  <1>7. QED
    BY <1>1, <1>2, <1>3, <1>4, <1>5, <1>6 DEF Next

-----------------------------------------------------------------------------
(* Theorems *)

(* The strengthened invariant holds in every state.                          *)
THEOREM GatewayInvariance == Spec => []GInv
  <1>1. QED
    BY InitInv, NextInv, PTL DEF Spec

(* Type correctness of the gateway and its limiter.                          *)
THEOREM GatewayTypeCorrect == Spec => []TypeOK
  <1>1. GInv => TypeOK
    BY DEF GInv, LInv, GTypeOK, TypeOK
  <1>2. QED
    BY <1>1, GatewayInvariance, PTL

(* No principal but those let in is ever charged (main.py 125-134).          *)
THEOREM ChargedWereLetInHolds == Spec => []ChargedWereLetIn
  <1>1. GInv => ChargedWereLetIn
    BY DEF GInv
  <1>2. QED
    BY <1>1, GatewayInvariance, PTL

(* The sliding window is exact: admissions that are Limit apart are more     *)
(* than a window apart (main.py 211-256).                                    *)
THEOREM WindowBoundHolds == Spec => []WindowBound
  <1>1. GInv => WindowBound
    BY DEF GInv, LInv
  <1>2. QED
    BY <1>1, GatewayInvariance, PTL

(* The table of principals stays within its cap (main.py 231-239).           *)
THEOREM TrackedWithinCapHolds == Spec => []TrackedWithinCap
  <1>1. GInv => TrackedWithinCap
    BY DEF GInv, LInv
  <1>2. QED
    BY <1>1, GatewayInvariance, PTL

(* A revoked key is cut off for good (auth/keystore.py 92-134).              *)
THEOREM RevokedIsCutOffHolds == Spec => RevokedIsCutOff
  <1>1. ASSUME GInv, [Next]_vars, NEW k \in Key, api_keys[k] = "revoked", ~InFlight(k)
        PROVE  /\ api_keys'[k] = "revoked"
               /\ ~InFlight(k)'
               /\ admitted'[k] \in {admitted[k], <<>>}
    <2>1. GTypeOK /\ k \in Principal
      BY <1>1, PrincipalsAssumption DEF GInv
    <2>2. CASE UNCHANGED <<mode, api_keys, requests>> /\ (Tick \/ UNCHANGED limiterVars)
      BY <1>1, <2>2 DEF Tick, limiterVars, InFlight
    <2>3. ASSUME NEW r \in Request, Authenticate(r)
          PROVE  /\ api_keys'[k] = "revoked"
                 /\ ~InFlight(k)'
                 /\ admitted'[k] \in {admitted[k], <<>>}
      <3>1. PICK p \in Accepted :
                requests' = [requests EXCEPT ![r] = [at |-> "limiter", principal |-> p]]
        BY <2>3 DEF Authenticate
      <3>2. p # k
        BY <1>1, <2>1, KindsAssumption DEF Accepted, authenticate, GTypeOK, Mode
      <3>3. ~InFlight(k)'
        BY <1>1, <2>1, <3>1, <3>2 DEF InFlight, GTypeOK
      <3>4. QED
        BY <1>1, <2>3, <3>3 DEF Authenticate, limiterVars
    <2>4. ASSUME NEW r \in Request, Charge(r)
          PROVE  /\ api_keys'[k] = "revoked"
                 /\ ~InFlight(k)'
                 /\ admitted'[k] \in {admitted[k], <<>>}
      <3>1. /\ requests[r] # NoRequest /\ requests[r].principal \in Principal
            /\ requests[r].principal # k
        BY <1>1, <2>1, <2>4, AtStation DEF Charge, InFlight
      <3>2. admitted'[k] \in {admitted[k], <<>>}
        BY <2>1, <2>4, <3>1, ChargeKeepsOthers DEF Charge
      <3>3. \/ requests' = [requests EXCEPT ![r].at = "handler"]
            \/ requests' = [requests EXCEPT ![r] = NoRequest]
        BY <2>4 DEF Charge
      <3>4. ~InFlight(k)'
        BY <1>1, <2>1, <3>1, <3>3 DEF InFlight, GTypeOK
      <3>5. QED
        BY <1>1, <2>4, <3>2, <3>4 DEF Charge
    <2>5. ASSUME NEW r \in Request, create_key(r) \/ revoke_key(r) \/ OtherHandler(r)
          PROVE  /\ api_keys'[k] = "revoked"
                 /\ ~InFlight(k)'
                 /\ admitted'[k] \in {admitted[k], <<>>}
      <3>1. /\ Leaves(r)
            /\ api_keys'[k] # api_keys[k] =>
                 <<api_keys[k], api_keys'[k]>> \in {<<"absent", "active">>, <<"active", "revoked">>}
        BY <2>1, <2>5, KeysStep
      <3>2. api_keys'[k] = "revoked"
        BY <1>1, <3>1
      <3>3. ~InFlight(k)' /\ admitted' = admitted
        BY <1>1, <2>1, <3>1 DEF Leaves, limiterVars, InFlight, GTypeOK
      <3>4. QED
        BY <3>2, <3>3
    <2>6. CASE Restart
      BY <1>1, <2>1, <2>6 DEF Restart, InFlight
    <2>7. QED
      BY <1>1, <2>2, <2>3, <2>4, <2>5, <2>6 DEF Next, vars
  <1>2. GInv /\ [Next]_vars =>
            [\A k \in Key : api_keys[k] = "revoked" /\ ~InFlight(k) =>
               /\ api_keys'[k] = "revoked"
               /\ ~InFlight(k)'
               /\ admitted'[k] \in {admitted[k], <<>>}]_vars
    BY <1>1
  <1>3. QED
    BY <1>2, GatewayInvariance, PTL DEF Spec, RevokedIsCutOff

(* Only a charged request with the admin key changes the key table           *)
(* (auth/router.py 28-34).                                                   *)
THEOREM KeysChangeByAdminOnlyHolds == Spec => KeysChangeByAdminOnly
  <1>1. ASSUME GInv, [Next]_vars, NEW k \in Key, api_keys'[k] # api_keys[k]
        PROVE  /\ <<api_keys[k], api_keys'[k]>> \in {<<"absent", "active">>, <<"active", "revoked">>}
               /\ \E r \in Request : requests[r] = [at |-> "handler", principal |-> "admin"]
    <2>1. PICK r \in Request : create_key(r) \/ revoke_key(r) \/ OtherHandler(r)
      BY <1>1 DEF Next, vars, Authenticate, Charge, Restart
    <2>2. /\ Leaves(r) /\ _check_admin_key(r)
          /\ <<api_keys[k], api_keys'[k]>> \in {<<"absent", "active">>, <<"active", "revoked">>}
      BY <1>1, <2>1, KeysStep DEF GInv
    <2>3. requests[r].at = "handler" /\ requests[r].principal = "admin"
      BY <2>2 DEF Leaves, _check_admin_key
    <2>4. requests[r] = [at |-> "handler", principal |-> "admin"]
      BY <1>1, <2>3, AtStation DEF GInv
    <2>5. QED
      BY <2>2, <2>4
  <1>2. GInv /\ [Next]_vars =>
            [\A k \in Key : api_keys'[k] # api_keys[k] =>
               /\ <<api_keys[k], api_keys'[k]>> \in {<<"absent", "active">>, <<"active", "revoked">>}
               /\ \E r \in Request : requests[r] = [at |-> "handler", principal |-> "admin"]]_vars
    BY <1>1
  <1>3. QED
    BY <1>2, GatewayInvariance, PTL DEF Spec, KeysChangeByAdminOnly

(* The service implements SlidingWindow: served and denied exactly by the    *)
(* grants of the last window, and only the principal seen longest ago in a   *)
(* full table is ever forgotten (main.py 211-256).                           *)
THEOREM ImplementsWindowHolds == Spec => ImplementsWindow
  <1>1. Init => Promise!Init
    BY DEF Init, LimiterInit, NoRequest, Promise!Init, Promise!Nothing, Promise!Outside
  <1>2. GInv /\ [Next]_vars => [Promise!Next]_(Promise!vars)
    BY StepKeepsPromise
  <1>3. QED
    BY <1>1, <1>2, GatewayInvariance, PTL DEF Spec, ImplementsWindow, Promise!Spec
=============================================================================
