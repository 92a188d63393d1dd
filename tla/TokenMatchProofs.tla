-------------------------- MODULE TokenMatchProofs --------------------------
(***************************************************************************)
(* Proofs about TokenMatch, for any tokens, logprobs, k and rows: the loop *)
(* with its two dictionaries computes what the docstring says.             *)
(***************************************************************************)
EXTENDS TokenMatch, SequenceTheorems, FiniteSetTheorems, TLAPS

-----------------------------------------------------------------------------
(* Counting the occurrences of a token *)

Where(tokens, t, n) == {j \in 1..n : tokens[j] = t}
Count(tokens, t, n) == Cardinality(Where(tokens, t, n))

LEMMA WhereFinite ==
    ASSUME NEW tokens, NEW t, NEW n \in Nat
    PROVE  IsFiniteSet(Where(tokens, t, n)) /\ Count(tokens, t, n) \in Nat
  <1>1. IsFiniteSet(1..n)
    BY FS_Interval
  <1>2. Where(tokens, t, n) \subseteq 1..n
    BY DEF Where
  <1>3. IsFiniteSet(Where(tokens, t, n))
    BY <1>1, <1>2, FS_Subset
  <1>4. QED
    BY <1>3, FS_CardinalityType DEF Count

\* The count goes up by one where the token stands.
LEMMA CountStep ==
    ASSUME NEW tokens, NEW t, NEW n \in Nat
    PROVE  /\ Count(tokens, t, 0) = 0
           /\ tokens[n + 1] = t => Count(tokens, t, n + 1) = Count(tokens, t, n) + 1
           /\ tokens[n + 1] # t => Count(tokens, t, n + 1) = Count(tokens, t, n)
  <1>1. Count(tokens, t, 0) = 0
    <2>1. Where(tokens, t, 0) = {}
      BY DEF Where
    <2>2. QED
      BY <2>1, FS_EmptySet DEF Count
  <1>2. ASSUME tokens[n + 1] = t
        PROVE  Count(tokens, t, n + 1) = Count(tokens, t, n) + 1
    <2>1. /\ Where(tokens, t, n + 1) = Where(tokens, t, n) \cup {n + 1}
          /\ n + 1 \notin Where(tokens, t, n)
      BY <1>2 DEF Where
    <2>2. QED
      BY <2>1, WhereFinite, FS_AddElement DEF Count
  <1>3. ASSUME tokens[n + 1] # t
        PROVE  Count(tokens, t, n + 1) = Count(tokens, t, n)
    <2>1. Where(tokens, t, n + 1) = Where(tokens, t, n)
      BY <1>3 DEF Where
    <2>2. QED
      BY <2>1 DEF Count
  <1>4. QED
    BY <1>1, <1>2, <1>3

LEMMA CountGrows ==
    ASSUME NEW tokens, NEW t, NEW m \in Nat, NEW n \in Nat, m <= n
    PROVE  Count(tokens, t, m) <= Count(tokens, t, n)
  <1>1. Where(tokens, t, m) \subseteq Where(tokens, t, n)
    BY DEF Where
  <1>2. QED
    BY <1>1, WhereFinite, FS_Subset DEF Count

LEMMA NthIsCount ==
    ASSUME NEW tokens, NEW i \in Nat
    PROVE  Nth(tokens, i) = Count(tokens, tokens[i], i)
  BY DEF Nth, Count, Where

\* The occurrences of a token are told apart by their number.
LEMMA NthTellsApart ==
    ASSUME NEW tokens, NEW i \in Nat \ {0}, NEW j \in Nat \ {0},
           tokens[i] = tokens[j], Nth(tokens, i) = Nth(tokens, j)
    PROVE  i = j
  <1>1. ASSUME NEW m \in Nat \ {0}, NEW n \in Nat \ {0}, m < n, tokens[m] = tokens[n],
               Nth(tokens, m) = Nth(tokens, n)
        PROVE  FALSE
    <2> DEFINE t == tokens[n]
    <2>1. n - 1 \in Nat /\ m <= n - 1 /\ (n - 1) + 1 = n
      BY <1>1
    <2>2. Count(tokens, t, n) = Count(tokens, t, n - 1) + 1
      BY <2>1, CountStep
    <2>3. Count(tokens, t, m) <= Count(tokens, t, n - 1)
      BY <2>1, CountGrows
    <2>4. Count(tokens, t, m) = Count(tokens, t, n)
      BY <1>1, NthIsCount
    <2>5. Count(tokens, t, m) \in Nat /\ Count(tokens, t, n - 1) \in Nat
      BY <2>1, WhereFinite
    <2>6. QED
      BY <2>2, <2>3, <2>4, <2>5
  <1>2. i < j \/ j < i \/ i = j
    OBVIOUS
  <1>3. QED
    BY <1>1, <1>2

-----------------------------------------------------------------------------
(* Rows, probabilities and shifts *)

\* The two lists of a row are as long as each other.
LEMMA RowOK ==
    ASSUME NEW r \in Row
    PROVE  /\ Limit(r) \in 0..MaxRow /\ Limit(r) \in Nat
           /\ Len(r.tokens) = Limit(r) /\ DOMAIN r.tokens = 1..Limit(r)
           /\ Len(r.logs) = Limit(r)
           /\ \A i \in 1..Limit(r) : r.tokens[i] \in Token /\ r.logs[i] \in Logprob
  <1>1. PICK n \in 0..MaxRow : r \in [tokens : [1..n -> Token], logs : [1..n -> Logprob]]
    BY DEF Row
  <1>2. n \in Nat /\ r.tokens \in [1..n -> Token] /\ r.logs \in [1..n -> Logprob]
    BY <1>1, RowAssumption
  <1>3. /\ r.tokens \in Seq(Token) /\ Len(r.tokens) = n
        /\ r.logs \in Seq(Logprob) /\ Len(r.logs) = n
    BY <1>2
  <1>4. Limit(r) = n
    BY <1>3, <1>2 DEF Limit
  <1>5. QED
    BY <1>1, <1>2, <1>3, <1>4

Probability == 0..One \cup {NaN}

LEMMA ProbOK == \A l \in Logprob : Prob(l) \in Probability
  BY LevelAssumption, OneAssumption DEF Prob, Probability, Logprob

LEMMA ShiftOK ==
    ASSUME NEW p \in Probability, NEW q \in Probability
    PROVE  /\ Shift(p, q) \subseteq 0..One
           /\ Shift(p, q) = {} \/ \E d \in 0..One : Shift(p, q) = {d}
           /\ Shift(p, p) \subseteq {0}
  <1>1. CASE p = NaN \/ q = NaN
    BY <1>1, LevelAssumption DEF Shift, Distance, Probability
  <1>2. CASE p # NaN /\ q # NaN
    <2>1. p \in 0..One /\ q \in 0..One
      BY <1>2 DEF Probability
    <2>2. Distance(p, q) \in 0..One /\ Distance(p, p) = 0
      BY <2>1, OneAssumption DEF Distance
    <2>3. QED
      BY <1>2, <2>2 DEF Shift
  <1>3. QED
    BY <1>1, <1>2

\* max() of the worst so far and a difference that may be NaN.
LEMMA LargerOK ==
    ASSUME NEW w \in Nat, NEW S, S = {} \/ \E d \in 0..One : S = {d}
    PROVE  /\ Larger(w, S) \in S \cup {w}
           /\ Larger(w, S) \in Nat
           /\ w <= Larger(w, S) /\ \A s \in S : s <= Larger(w, S)
  <1>1. CASE S = {}
    BY <1>1 DEF Larger
  <1>2. CASE \E d \in 0..One : S = {d}
    <2>1. PICK d \in 0..One : S = {d}
      BY <1>2
    <2>2. d \in Nat
      BY <2>1, OneAssumption
    <2>3. CASE d > w
      <3>1. (CHOOSE s \in S : s > w) = d
        BY <2>1, <2>3
      <3>2. QED
        BY <2>1, <2>2, <2>3, <3>1 DEF Larger
    <2>4. CASE ~(d > w)
      BY <2>1, <2>2, <2>4 DEF Larger
    <2>5. QED
      BY <2>3, <2>4
  <1>3. QED
    BY <1>1, <1>2

\* An entry that has a partner has only that one.
LEMMA OnePartner ==
    ASSUME NEW ra \in Row, NEW rb \in Row, NEW i \in 1..Limit(ra), NEW j \in Partners(ra, rb, i)
    PROVE  /\ Partners(ra, rb, i) = {j}
           /\ ShiftAt(ra, rb, i) = Shift(Prob(ra.logs[i]), Prob(rb.logs[j]))
  <1>1. j \in 1..Limit(rb) /\ rb.tokens[j] = ra.tokens[i] /\ Nth(rb.tokens, j) = Nth(ra.tokens, i)
    BY DEF Partners
  <1>2. Limit(rb) \in Nat
    BY RowOK
  <1>3. ASSUME NEW m \in Partners(ra, rb, i) PROVE m = j
    <2>1. m \in 1..Limit(rb) /\ rb.tokens[m] = ra.tokens[i] /\ Nth(rb.tokens, m) = Nth(ra.tokens, i)
      BY DEF Partners
    <2>2. QED
      BY <1>1, <1>2, <2>1, NthTellsApart
  <1>4. Partners(ra, rb, i) = {j}
    BY <1>3
  <1>5. QED
    BY <1>4 DEF ShiftAt

\* Rows that say the same have no shift.
LEMMA AgreementHasNoShift ==
    ASSUME NEW ra \in Row, NEW rb \in Row, Agree(ra, rb), NEW i \in 1..Limit(ra)
    PROVE  ShiftAt(ra, rb, i) \subseteq {0}
  <1> DEFINE p == Prob(ra.logs[i])
  <1>1. /\ Limit(ra) \in Nat /\ i \in Nat \ {0} /\ i <= Limit(ra)
        /\ ra.logs[i] \in Logprob /\ p \in Probability
    BY RowOK, ProbOK
  <1>2. ASSUME NEW j \in Partners(ra, rb, i), rb.logs[j] = ra.logs[i]
        PROVE  ShiftAt(ra, rb, i) \subseteq {0}
    BY <1>1, <1>2, OnePartner, ShiftOK
  <1>3. CASE ra = rb
    <2>1. i \in Partners(ra, rb, i)
      BY <1>3 DEF Partners
    <2>2. QED
      BY <1>2, <1>3, <2>1
  <1>4. CASE Distinct(ra.tokens) /\ Distinct(rb.tokens) /\ Entries(ra) = Entries(rb)
    <2>1. <<ra.tokens[i], ra.logs[i]>> \in Entries(rb)
      BY <1>4 DEF Entries
    <2>2. PICK j \in 1..Limit(rb) : rb.tokens[j] = ra.tokens[i] /\ rb.logs[j] = ra.logs[i]
      BY <2>1 DEF Entries
    <2>3. ASSUME NEW r \in Row, Distinct(r.tokens), NEW n \in 1..Limit(r)
          PROVE  Nth(r.tokens, n) = 1
      <3>1. /\ Limit(r) \in Nat /\ DOMAIN r.tokens = 1..Limit(r)
        BY RowOK
      <3>2. {m \in 1..n : r.tokens[m] = r.tokens[n]} = {n}
        <4>1. n \in 1..n
          BY <3>1
        <4>2. ASSUME NEW m \in 1..n, r.tokens[m] = r.tokens[n] PROVE m = n
          BY <2>3, <3>1, <4>2 DEF Distinct
        <4>3. QED
          BY <4>1, <4>2
      <3>3. QED
        BY <3>2, FS_Singleton DEF Nth
    <2>4. j \in Partners(ra, rb, i)
      BY <1>4, <2>2, <2>3 DEF Partners
    <2>5. QED
      BY <1>2, <2>2, <2>4
  <1>5. QED
    BY <1>3, <1>4 DEF Agree

-----------------------------------------------------------------------------
(* The inductive invariant *)

\* The dictionary of the candidate's row holds, of its first n entries, every
\* token's logprobs in their order.
Buckets(n) ==
    \A t \in Token :
        /\ Len(occurrences_b[t]) = Count(b.tokens, t, n)
        /\ \A m \in 1..Len(occurrences_b[t]) : \E j \in 1..n :
              b.tokens[j] = t /\ Nth(b.tokens, j) = m /\ occurrences_b[t][m] = b.logs[j]

\* The dictionary of the reference's row counts its first n entries.
SeenOK(n) == \A t \in Token : seen[t] = Count(a.tokens, t, n)

LoopsOK ==
    /\ stage = "collect" => index <= Limit(b) /\ Buckets(index) /\ SeenOK(0)
    /\ stage = "match" => index <= Limit(a) /\ Buckets(Limit(b)) /\ SeenOK(index)
    /\ stage \in {"next", "returned"} =>
          /\ index = 0
          /\ occurrences_b = [t \in Token |-> <<>>]
          /\ seen = [t \in Token |-> 0]

\* The shifts of the entries that were compared, those of this row included.
Compared == shifts \cup IF stage = "match"
                        THEN UNION {ShiftAt(a, b, i) : i \in {i \in 1..index : i <= K}}
                        ELSE {}

WorstOK ==
    /\ \A s \in Compared : s <= worst
    /\ worst \in Compared \cup {0}
    /\ Compared \subseteq 0..One

AgreedOK == agreeing => shifts \subseteq {0}

IInv ==
    /\ TypeOK
    /\ LoopsOK
    /\ WorstOK
    /\ AgreedOK

-----------------------------------------------------------------------------
(* The loops *)

\* What the loop compares an entry with is what it is meant to: the entry of
\* the same number, if the candidate's row has one.
LEMMA ComparesWithPartner ==
    ASSUME IInv, stage = "match", index < Limit(a)
    PROVE  LET i == index + 1
               p == Prob(a.logs[i])
               q == ProbB(a.tokens[i], seen[a.tokens[i]])
           IN  ShiftAt(a, b, i) = Shift(p, q) /\ p \in Probability /\ q \in Probability
  <1> DEFINE i == index + 1
             t == a.tokens[i]
             nth == seen[t]
             p == Prob(a.logs[i])
             q == ProbB(t, nth)
  <1>1. a \in Row /\ b \in Row /\ index \in Nat /\ Limit(a) \in Nat /\ Limit(b) \in Nat
    BY RowOK, RowAssumption DEF IInv, TypeOK
  <1>2. i \in 1..Limit(a) /\ t \in Token /\ a.logs[i] \in Logprob
    BY <1>1, RowOK
  <1>3. nth = Count(a.tokens, t, index) /\ nth \in Nat
    BY <1>1, <1>2, WhereFinite DEF IInv, LoopsOK, SeenOK
  <1>4. Nth(a.tokens, i) = nth + 1
    BY <1>1, <1>3, CountStep, NthIsCount
  <1>5. /\ Len(occurrences_b[t]) = Count(b.tokens, t, Limit(b))
        /\ \A m \in 1..Len(occurrences_b[t]) : \E j \in 1..Limit(b) :
              b.tokens[j] = t /\ Nth(b.tokens, j) = m /\ occurrences_b[t][m] = b.logs[j]
    BY <1>2 DEF IInv, LoopsOK, Buckets
  <1>6. p \in Probability
    BY <1>2, ProbOK
  <1>7. CASE nth < Len(occurrences_b[t])
    <2>1. nth + 1 \in 1..Len(occurrences_b[t])
      BY <1>1, <1>3, <1>5, <1>7, WhereFinite
    <2>2. PICK j \in 1..Limit(b) :
             b.tokens[j] = t /\ Nth(b.tokens, j) = nth + 1 /\ occurrences_b[t][nth + 1] = b.logs[j]
      BY <1>5, <2>1
    <2>3. j \in Partners(a, b, i)
      BY <1>4, <2>2 DEF Partners
    <2>4. q = Prob(b.logs[j])
      BY <1>7, <2>2 DEF ProbB
    <2>5. b.logs[j] \in Logprob
      BY <1>1, RowOK
    <2>6. QED
      BY <1>1, <1>2, <1>6, <2>3, <2>4, <2>5, OnePartner, ProbOK
  <1>8. CASE ~(nth < Len(occurrences_b[t]))
    <2>1. ASSUME NEW j \in Partners(a, b, i) PROVE FALSE
      <3>1. j \in 1..Limit(b) /\ b.tokens[j] = t /\ Nth(b.tokens, j) = nth + 1
        BY <1>4 DEF Partners
      <3>2. j \in Nat /\ j <= Limit(b)
        BY <1>1, <3>1
      <3>3. nth + 1 = Count(b.tokens, t, j)
        BY <3>1, <3>2, NthIsCount
      <3>4. Count(b.tokens, t, j) <= Count(b.tokens, t, Limit(b))
        BY <1>1, <3>2, CountGrows
      <3>5. QED
        BY <1>1, <1>3, <1>5, <1>8, <3>2, <3>3, <3>4, WhereFinite
    <2>2. Partners(a, b, i) = {}
      BY <2>1
    <2>3. q = 0 /\ 0 \in Probability
      BY <1>8, OneAssumption DEF ProbB, Probability
    <2>4. QED
      BY <1>6, <2>2, <2>3 DEF ShiftAt
  <1>9. QED
    BY <1>7, <1>8

LEMMA CollectStep == IInv /\ Collect => IInv'
  <1> SUFFICES ASSUME IInv, Collect
               PROVE  IInv'
    OBVIOUS
  <1> USE DEF Collect
  <1> DEFINE i == index + 1
             t == b.tokens[i]
  <1>1. b \in Row /\ index \in Nat /\ Limit(b) \in 0..MaxRow /\ index < Limit(b)
    BY RowOK, RowAssumption DEF IInv, TypeOK
  <1>2. i \in 1..Limit(b) /\ t \in Token /\ b.logs[i] \in Logprob
    BY <1>1, RowOK, RowAssumption
  <1>3. /\ occurrences_b \in [Token -> Seq(Logprob)]
        /\ occurrences_b' = [occurrences_b EXCEPT ![t] = Append(@, b.logs[i])]
        /\ index' = i
    BY DEF IInv, TypeOK
  <1>4. TypeOK'
    BY <1>1, <1>2, <1>3, RowAssumption DEF IInv, TypeOK
  <1>5. Buckets(index)'
    <2>1. SUFFICES ASSUME NEW u \in Token
                   PROVE  /\ Len(occurrences_b'[u]) = Count(b.tokens, u, i)
                          /\ \A m \in 1..Len(occurrences_b'[u]) : \E j \in 1..i :
                                /\ b.tokens[j] = u /\ Nth(b.tokens, j) = m
                                /\ occurrences_b'[u][m] = b.logs[j]
      BY <1>3 DEF Buckets
    <2>2. /\ Len(occurrences_b[u]) = Count(b.tokens, u, index)
          /\ \A m \in 1..Len(occurrences_b[u]) : \E j \in 1..index :
                b.tokens[j] = u /\ Nth(b.tokens, j) = m /\ occurrences_b[u][m] = b.logs[j]
      BY DEF IInv, LoopsOK, Buckets
    <2>3. \A j \in 1..index : j \in 1..i
      BY <1>1
    <2>4. CASE u # t
      <3>1. occurrences_b'[u] = occurrences_b[u]
        BY <1>3, <2>4
      <3>2. Count(b.tokens, u, i) = Count(b.tokens, u, index)
        BY <1>1, <2>4, CountStep
      <3>3. QED
        BY <2>2, <2>3, <3>1, <3>2
    <2>5. CASE u = t
      <3> DEFINE l == Len(occurrences_b[t])
      <3>1. /\ l \in Nat /\ Len(occurrences_b'[t]) = l + 1
            /\ occurrences_b'[t][l + 1] = b.logs[i]
            /\ \A m \in 1..l : occurrences_b'[t][m] = occurrences_b[t][m]
        BY <1>2, <1>3
      <3>2. Count(b.tokens, t, i) = l + 1 /\ Nth(b.tokens, i) = l + 1
        BY <1>1, <2>2, <2>5, CountStep, NthIsCount
      <3>3. ASSUME NEW m \in 1..(l + 1)
            PROVE  \E j \in 1..i : /\ b.tokens[j] = t /\ Nth(b.tokens, j) = m
                                   /\ occurrences_b'[t][m] = b.logs[j]
        <4>1. CASE m = l + 1
          BY <1>1, <3>1, <3>2, <4>1
        <4>2. CASE m \in 1..l
          BY <2>2, <2>3, <2>5, <3>1, <4>2
        <4>3. QED
          BY <3>1, <4>1, <4>2
      <3>4. QED
        BY <2>5, <3>1, <3>2, <3>3
    <2>6. QED
      BY <2>4, <2>5
  <1>6. LoopsOK'
    BY <1>1, <1>3, <1>5 DEF IInv, LoopsOK, SeenOK, Limit
  <1>7. WorstOK' /\ AgreedOK'
    BY DEF IInv, WorstOK, AgreedOK, Compared
  <1>8. QED
    BY <1>4, <1>6, <1>7 DEF IInv

\* A shift more, or one that does not count.
LEMMA MatchStep == IInv /\ Match => IInv'
  <1> SUFFICES ASSUME IInv, Match
               PROVE  IInv'
    OBVIOUS
  <1> USE DEF Match
  <1> DEFINE i == index + 1
             t == a.tokens[i]
             S == ShiftAt(a, b, i)
  <1>1. /\ a \in Row /\ index \in Nat /\ Limit(a) \in 0..MaxRow /\ index < Limit(a)
        /\ stage = "match" /\ stage' = stage /\ K \in Nat /\ worst \in Nat
        /\ UNCHANGED <<row, a, b, occurrences_b, shifts, agreeing>>
    BY RowOK, RowAssumption, KAssumption DEF IInv, TypeOK
  <1>2. i \in 1..Limit(a) /\ t \in Token /\ index' = i
    BY <1>1, RowOK, RowAssumption
  <1>3. /\ seen \in [Token -> Nat] /\ seen' = [seen EXCEPT ![t] = seen[t] + 1]
        /\ worst' = IF index >= K THEN worst ELSE Larger(worst, S)
    BY <1>1, ComparesWithPartner DEF IInv, TypeOK
  <1>4. S \subseteq 0..One /\ (S = {} \/ \E d \in 0..One : S = {d})
    BY <1>1, ComparesWithPartner, ShiftOK
  <1>5. /\ Larger(worst, S) \in S \cup {worst} /\ Larger(worst, S) \in Nat
        /\ worst <= Larger(worst, S) /\ \A s \in S : s <= Larger(worst, S)
    BY <1>1, <1>4, LargerOK
  <1>6. TypeOK'
    BY <1>1, <1>2, <1>3, <1>5, RowAssumption DEF IInv, TypeOK
  <1>7. SeenOK(index)'
    <2>1. ASSUME NEW u \in Token PROVE seen'[u] = Count(a.tokens, u, i)
      <3>1. seen[u] = Count(a.tokens, u, index)
        BY <1>1 DEF IInv, LoopsOK, SeenOK
      <3>2. QED
        BY <1>1, <1>2, <1>3, <3>1, CountStep
    <2>2. QED
      BY <1>1, <1>2, <2>1 DEF SeenOK
  <1>8. LoopsOK'
    BY <1>1, <1>2, <1>7 DEF IInv, LoopsOK, Buckets, Limit
  <1>9. WorstOK'
    <2>1. Compared' = Compared \cup IF index >= K THEN {} ELSE S
      <3> DEFINE R(n) == {j \in 1..n : j <= K}
      <3>1. R(i) = R(index) \cup IF index >= K THEN {} ELSE {i}
        BY <1>1
      <3>2. Compared' = shifts \cup UNION {ShiftAt(a, b, j) : j \in R(i)}
        BY <1>1, <1>2 DEF Compared, ShiftAt, Partners, Limit, Prob, Shift, Nth
      <3>3. Compared = shifts \cup UNION {ShiftAt(a, b, j) : j \in R(index)}
        BY <1>1 DEF Compared
      <3> HIDE DEF R
      <3>4. QED
        BY <3>1, <3>2, <3>3
    <2>2. CASE index >= K
      BY <1>3, <2>1, <2>2 DEF IInv, WorstOK
    <2>3. CASE ~(index >= K)
      <3>1. Compared' = Compared \cup S /\ worst' = Larger(worst, S)
        BY <1>3, <2>1, <2>3
      <3>2. /\ \A s \in Compared : s <= worst /\ s \in 0..One
            /\ worst \in Compared \cup {0}
        BY DEF IInv, WorstOK
      <3>3. \A s \in Compared : s <= worst'
        BY <1>1, <1>5, <3>1, <3>2, OneAssumption
      <3>4. worst' \in Compared' \cup {0}
        BY <1>5, <3>1, <3>2
      <3>5. QED
        BY <1>4, <1>5, <3>1, <3>2, <3>3, <3>4 DEF WorstOK
    <2>4. QED
      BY <2>2, <2>3
  <1>10. AgreedOK'
    BY <1>1 DEF IInv, AgreedOK
  <1>11. QED
    BY <1>6, <1>8, <1>9, <1>10 DEF IInv

LEMMA CollectedStep == IInv /\ Collected => IInv'
  <1> SUFFICES ASSUME IInv, Collected
               PROVE  IInv'
    OBVIOUS
  <1> USE DEF Collected
  <1>1. TypeOK'
    BY RowAssumption DEF IInv, TypeOK
  <1>2. LoopsOK'
    <2>1. Limit(a) \in Nat
      BY RowOK DEF IInv, TypeOK
    <2>2. QED
      BY <2>1 DEF IInv, LoopsOK, Buckets, SeenOK, Limit
  <1>3. WorstOK'
    <2>1. Compared' = Compared
      BY DEF Compared
    <2>2. QED
      BY <2>1 DEF IInv, WorstOK
  <1>4. AgreedOK'
    BY DEF IInv, AgreedOK
  <1>5. QED
    BY <1>1, <1>2, <1>3, <1>4 DEF IInv

LEMMA EmptyRow == NoRow \in Row
  <1>1. 0 \in 0..MaxRow /\ <<>> \in [1..0 -> Token] /\ <<>> \in [1..0 -> Logprob]
    BY RowAssumption
  <1>2. NoRow \in [tokens : [1..0 -> Token], logs : [1..0 -> Logprob]]
    BY <1>1 DEF NoRow
  <1>3. QED
    BY <1>1, <1>2 DEF Row

LEMMA MatchedStep == IInv /\ Matched => IInv'
  <1> SUFFICES ASSUME IInv, Matched
               PROVE  IInv'
    OBVIOUS
  <1> USE DEF Matched
  <1>1. /\ a \in Row /\ b \in Row /\ index = Limit(a) /\ stage = "match" /\ stage' = "next"
        /\ worst' = worst /\ shifts' = shifts \cup Shifts(a, b)
    BY DEF IInv, TypeOK
  <1>2. Compared = shifts \cup Shifts(a, b)
    BY <1>1 DEF Compared, Shifts
  <1>3. Compared' = Compared
    BY <1>1, <1>2 DEF Compared
  <1>4. WorstOK'
    BY <1>1, <1>3 DEF IInv, WorstOK
  <1>5. shifts' \subseteq 0..One
    BY <1>1, <1>2 DEF IInv, WorstOK
  <1>6. TypeOK'
    BY <1>1, <1>5, EmptyRow, RowAssumption, OneAssumption DEF IInv, TypeOK, Agree
  <1>7. LoopsOK'
    BY <1>1 DEF LoopsOK
  <1>8. AgreedOK'
    <2>1. ASSUME Agree(a, b), agreeing PROVE shifts' \subseteq {0}
      <3>1. \A i \in 1..Limit(a) : ShiftAt(a, b, i) \subseteq {0}
        BY <1>1, <2>1, AgreementHasNoShift
      <3>2. Shifts(a, b) \subseteq {0}
        BY <3>1 DEF Shifts
      <3>3. QED
        BY <1>1, <2>1, <3>2 DEF IInv, AgreedOK
    <2>2. QED
      BY <2>1 DEF AgreedOK
  <1>9. QED
    BY <1>4, <1>6, <1>7, <1>8 DEF IInv

LEMMA NextRowStep == IInv /\ NextRow => IInv'
  <1> SUFFICES ASSUME IInv, NextRow
               PROVE  IInv'
    OBVIOUS
  <1> USE DEF NextRow
  <1>1. /\ stage = "next" /\ stage' \in {"next", "collect"}
        /\ a' \in Row /\ b' \in Row
        /\ index = 0 /\ occurrences_b = [t \in Token |-> <<>>] /\ seen = [t \in Token |-> 0]
        /\ UNCHANGED <<index, occurrences_b, seen, worst, shifts, agreeing>>
    BY DEF IInv, TypeOK, LoopsOK
  <1>2. TypeOK'
    BY <1>1, RowAssumption DEF IInv, TypeOK
  <1>3. LoopsOK'
    <2>1. Limit(b') \in Nat
      BY <1>1, RowOK
    <2>2. Buckets(0)'
      <3>1. ASSUME NEW t \in Token
            PROVE  /\ Len(occurrences_b'[t]) = Count(b'.tokens, t, 0)
                   /\ Len(occurrences_b'[t]) = 0
        BY <1>1, CountStep
      <3>2. QED
        BY <3>1 DEF Buckets
    <2>3. SeenOK(0)'
      BY <1>1, CountStep DEF SeenOK
    <2>4. Limit(b)' = Limit(b')
      BY DEF Limit
    <2>5. QED
      BY <1>1, <2>1, <2>2, <2>3, <2>4 DEF LoopsOK
  <1>4. WorstOK'
    BY <1>1 DEF IInv, WorstOK, Compared
  <1>5. AgreedOK'
    BY <1>1 DEF IInv, AgreedOK
  <1>6. QED
    BY <1>2, <1>3, <1>4, <1>5 DEF IInv

LEMMA ReturnStep == IInv /\ Return => IInv'
  BY DEF IInv, TypeOK, LoopsOK, WorstOK, AgreedOK, Compared, Return

-----------------------------------------------------------------------------
(* The theorems *)

LEMMA InitOK == Init => IInv
  <1> SUFFICES ASSUME Init
               PROVE  IInv
    OBVIOUS
  <1> USE DEF Init
  <1>1. TypeOK
    BY EmptyRow, RowAssumption DEF TypeOK
  <1>2. LoopsOK /\ WorstOK /\ AgreedOK
    BY DEF LoopsOK, WorstOK, AgreedOK, Compared
  <1>3. QED
    BY <1>1, <1>2 DEF IInv

\* Every step keeps the invariant.
LEMMA NextOK == IInv /\ [Next]_vars => IInv'
  <1> SUFFICES ASSUME IInv, [Next]_vars
               PROVE  IInv'
    OBVIOUS
  <1>1. CASE UNCHANGED vars
    <2> USE <1>1 DEF vars
    <2>1. TypeOK' /\ AgreedOK'
      BY DEF IInv, TypeOK, AgreedOK
    <2>2. LoopsOK'
      BY DEF IInv, LoopsOK, Buckets, SeenOK, Limit
    <2>3. Compared' = Compared
      BY DEF Compared, ShiftAt, Partners, Limit, Shift, Prob, Nth
    <2>4. WorstOK'
      BY <2>3 DEF IInv, WorstOK
    <2>5. QED
      BY <2>1, <2>2, <2>4 DEF IInv
  <1>2. QED
    BY <1>1, NextRowStep, CollectStep, CollectedStep, MatchStep, MatchedStep, ReturnStep
       DEF Next, Done

\* IInv is inductive: it holds in every state of every execution.
THEOREM Invariance == Spec => []IInv
  BY InitOK, NextOK, PTL DEF Spec

\* Every variable keeps its type.
THEOREM TypeCorrect == Spec => []TypeOK
  <1>1. IInv => TypeOK
    BY DEF IInv
  <1>2. QED
    BY <1>1, Invariance, PTL

\* token_matched_prob_diff returns the worst shift of any of the reference's
\* first k tokens, equal tokens paired by order of appearance, for any rows.
THEOREM WorstIsExactHolds == Spec => []WorstIsExact
  <1>1. IInv => WorstIsExact
    BY DEF IInv, WorstOK, WorstIsExact, Compared
  <1>2. QED
    BY <1>1, Invariance, PTL

\* Tensors that agree score zero, whatever is in them.
THEOREM AgreementScoresZeroHolds == Spec => []AgreementScoresZero
  <1>1. IInv => AgreementScoresZero
    BY DEF IInv, WorstOK, AgreedOK, AgreementScoresZero, Compared
  <1>2. QED
    BY <1>1, Invariance, PTL

\* The result is within [0, 1], whatever the logprobs are.
THEOREM WithinUnitHolds == Spec => []WithinUnit
  <1>1. IInv => WithinUnit
    BY OneAssumption DEF IInv, WorstOK, WithinUnit
  <1>2. QED
    BY <1>1, Invariance, PTL
=============================================================================
