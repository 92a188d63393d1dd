--------------------------- MODULE CorporaProofs ---------------------------
(***************************************************************************)
(* Proofs about Corpora, for any number of prompts, tokens, probabilities, *)
(* positions, thresholds and losses of the cache.                          *)
(***************************************************************************)
EXTENDS Corpora, SequenceTheorems, FiniteSetTheorems, WellFoundedInduction, TLAPS

-----------------------------------------------------------------------------
(* The inductive invariant *)

EntryType == [temperature: {"missing", "warm", "cold"}, reproducible: BOOLEAN]
FileType == [age: {"none", "committed", "fresh", "unsteady"}, entries: [PromptId -> EntryType]]
RowType == [positions: Nat, shift: Nat, mass: Nat, top1: Nat]

CaptureTypeOK ==
    /\ prompt \in 1..(Prompts + 1)
    /\ fetches \in 0..2 /\ attempt \in 0..Attempts
    /\ warm_a \in {"none", "warm", "cold"}
    /\ entries \in [PromptId -> EntryType]
    /\ cache \subseteq PromptId /\ restarts \in 0..MaxRestarts /\ cooled \in BOOLEAN

TypeOK ==
    /\ script \in {"by_hand", "one_pod", "two_pods"}
    /\ allowed \subseteq PromptId /\ models \in BOOLEAN /\ labels \in BOOLEAN
    /\ stage \in Corpus \cup {"load", "compare", "done"}
    /\ file \in [Corpus -> FileType]
    /\ CaptureTypeOK
    /\ warned \subseteq Corpus
    /\ rows \subseteq RowType /\ IsFiniteSet(rows)
    /\ outcome \in {"none", "raised", "refused", "not compared", "pass", "fail"}
    /\ apart \subseteq PromptId

\* An entry was asked for; a cold one is flagged, and without a loss of the
\* cache none is.
Trusted(e, steady) ==
    /\ e # Missing
    /\ e.temperature = "cold" => ~e.reproducible
    /\ steady => e.reproducible

\* The answers to the prompt at hand: it is in the cache unless the server lost it
\* since the first, and then the second was warm, if it was in already.
CaptureOK ==
    /\ stage \in Corpus => \A p \in PromptId : p < prompt => Trusted(entries[p], restarts = 0)
    /\ stage \notin Corpus => fetches = 0
    /\ fetches = 0 => ~cooled
    /\ fetches > 0 => prompt \in PromptId /\ (prompt \in cache \/ cooled)
    /\ fetches = 2 => warm_a # "none" /\ (warm_a = "cold" => cooled /\ prompt \in cache)
    /\ cooled => restarts > 0

\* What a file holds: nothing cold that is not flagged, nothing flagged if the
\* server kept its cache, and every prompt if a capture of this run wrote it.
FilesOK ==
    \A c \in Corpus :
        /\ \A p \in PromptId :
              file[c].entries[p].temperature = "cold" => ~file[c].entries[p].reproducible
        /\ file[c].age \in {"fresh", "unsteady"} =>
              \A p \in PromptId : Trusted(file[c].entries[p], file[c].age = "fresh")

\* Once a two-pod script is past a capture, its file is of this run.
ProgressOK ==
    script = "two_pods" =>
        /\ stage \in {"candidate", "load", "compare"} => file["reference"].age \in {"fresh", "unsteady"}
        /\ stage \in {"load", "compare"} => file["candidate"].age \in {"fresh", "unsteady"}

WarnedOK ==
    stage = "compare" \/ outcome \in Verdicts =>
        warned = {c \in Corpus : \E p \in PromptId : ~file[c].entries[p].reproducible}

\* A row says what Close says of the answers it was made of.
Within(r) ==
    /\ r.shift <= ProbMax
    /\ r.mass <= MassMax * r.positions
    /\ 100 * r.top1 >= Top1Min * r.positions

RowsOK ==
    /\ stage \in Corpus \cup {"load"} => rows = {} /\ apart = {}
    /\ stage = "compare" => (apart = {} <=> \A r \in Scored : Within(r))

OutcomeOK ==
    /\ stage # "done" => outcome = "none"
    /\ VerdictIsEarned

IInv ==
    /\ TypeOK
    /\ CaptureOK
    /\ FilesOK
    /\ ProgressOK
    /\ WarnedOK
    /\ RowsOK
    /\ OutcomeOK

-----------------------------------------------------------------------------
(* Finite sets *)

\* Among the subsets of a finite set that have some property, one is minimal.
\* (What the proofs below use in the place of an induction.)
LEMMA MinimalSubset ==
    ASSUME NEW S, IsFiniteSet(S), NEW T \in SUBSET SUBSET S, T # {}
    PROVE  \E A \in T : \A B \in T : B \subseteq A => B = A
  <1>1. IsWellFoundedOn(StrictSubsetOrdering(S), FiniteSubsetsOf(S))
    BY FS_StrictSubsetOrderingWellFounded
  <1>2. FiniteSubsetsOf(S) = SUBSET S
    BY FS_FiniteSubsetsOfFinite
  <1>3. \E A \in T : \A B \in T : ~ (<<B, A>> \in StrictSubsetOrdering(S))
    BY <1>1, <1>2, WFMin
  <1>4. PICK A \in T : \A B \in T : ~ (<<B, A>> \in StrictSubsetOrdering(S))
    BY <1>3
  <1>5. ASSUME NEW B \in T, B \subseteq A
        PROVE  B = A
    BY <1>4, <1>5 DEF StrictSubsetOrdering
  <1>6. QED
    BY <1>4, <1>5

\* A finite set has a greatest element, by any order that compares all of them.
LEMMA Greatest ==
    ASSUME NEW S, IsFiniteSet(S), S # {}, NEW R,
           \A x, y \in S : <<x, y>> \in R \/ <<y, x>> \in R,
           \A x, y, z \in S : <<x, y>> \in R /\ <<y, z>> \in R => <<x, z>> \in R
    PROVE  \E m \in S : \A x \in S : <<x, m>> \in R
  <1> DEFINE T == {A \in SUBSET S : A # {} /\ ~\E m \in A : \A x \in A : <<x, m>> \in R}
  <1>1. SUFFICES ASSUME S \in T
                 PROVE  FALSE
    OBVIOUS
  <1>2. PICK A \in T : \A B \in T : B \subseteq A => B = A
    <2>1. T \in SUBSET SUBSET S /\ T # {}
      BY <1>1
    <2> HIDE DEF T
    <2>2. QED
      BY <2>1, MinimalSubset
  <1>3. PICK y \in A : TRUE
    BY <1>2
  <1> DEFINE B == A \ {y}
  <1>4. B \subseteq A /\ B # A /\ B \in SUBSET S /\ y \in S /\ A = B \cup {y} /\ <<y, y>> \in R
    BY <1>2, <1>3
  <1>5. CASE B = {}
    BY <1>2, <1>4, <1>5
  <1>6. CASE B # {}
    <2>1. PICK m \in B : \A x \in B : <<x, m>> \in R
      <3>1. B \notin T
        <4> HIDE DEF T, B
        <4>1. QED
          BY <1>2, <1>4
      <3>2. B \in SUBSET S
        BY <1>4
      <3> HIDE DEF B
      <3>3. QED
        BY <1>6, <3>1, <3>2
    <2>2. CASE <<m, y>> \in R
      <3>1. \A x \in A : <<x, y>> \in R
        BY <1>4, <2>1, <2>2
      <3>2. QED
        BY <1>2, <1>3, <3>1
    <2>3. CASE <<y, m>> \in R
      <3>1. \A x \in A : <<x, m>> \in R
        BY <1>4, <2>1, <2>3
      <3>2. QED
        BY <1>2, <1>4, <2>1, <3>1
    <2>4. QED
      BY <1>4, <2>1, <2>2, <2>3
  <1>7. QED
    BY <1>5, <1>6

\* The values a function takes on a finite set are finitely many.
LEMMA ImageIsFinite ==
    ASSUME NEW S, IsFiniteSet(S), NEW f
    PROVE  IsFiniteSet({f[x] : x \in S})
  <1> DEFINE T == {f[x] : x \in S}
             g == [x \in S |-> f[x]]
  <1>1. g \in Surjection(S, T)
    BY DEF Surjection
  <1> HIDE DEF T, g
  <1>2. IsFiniteSet(T)
    BY <1>1, FS_Surjection
  <1>3. QED
    BY <1>2 DEF T

\* So Largest is what its name says.
LEMMA LargestIs ==
    ASSUME NEW S, IsFiniteSet(S), S # {}, \A x \in S : x \in Int
    PROVE  Largest(S) \in S /\ \A x \in S : x <= Largest(S)
  <1> DEFINE R == {q \in S \X S : q[1] <= q[2]}
  <1>1. \A x, y \in S : <<x, y>> \in R <=> x <= y
    OBVIOUS
  <1> HIDE DEF R
  <1>2. ASSUME NEW x \in S, NEW y \in S
        PROVE  <<x, y>> \in R \/ <<y, x>> \in R
    <2>1. x \in Int /\ y \in Int
      OBVIOUS
    <2>2. x <= y \/ y <= x
      BY <2>1
    <2>3. QED
      BY <1>1, <2>2
  <1>3. ASSUME NEW x \in S, NEW y \in S, NEW z \in S, <<x, y>> \in R, <<y, z>> \in R
        PROVE  <<x, z>> \in R
    <2>1. x \in Int /\ y \in Int /\ z \in Int
      OBVIOUS
    <2>2. x <= y /\ y <= z
      BY <1>1, <1>3
    <2>3. x <= z
      BY <2>1, <2>2
    <2>4. QED
      BY <1>1, <2>3
  <1>4. \E m \in S : \A x \in S : <<x, m>> \in R
    BY <1>2, <1>3, Greatest
  <1>5. \E m \in S : \A x \in S : x <= m
    BY <1>1, <1>4
  <1>6. QED
    BY <1>5 DEF Largest

-----------------------------------------------------------------------------
(* The probability mass of an answer *)

\* The recursion behind the folds of the community modules, for sums: an element
\* of the set is chosen, and its value added to the sum over the others.
Chosen(s) == CHOOSE x \in s : TRUE
Rest(s) == s \ {Chosen(s)}

PartialSums(v, S) ==
    CHOOSE g : g = [s \in SUBSET S |-> IF s = {} THEN 0 ELSE v[Chosen(s)] + g[Rest(s)]]

\* What makes a function the sums over the subsets of S.
Solves(g, v, S) == g = [s \in SUBSET S |-> IF s = {} THEN 0 ELSE v[Chosen(s)] + g[Rest(s)]]

\* The chosen element is of the set and not of the rest.
LEMMA RestFacts ==
    ASSUME NEW s, s # {}
    PROVE  Chosen(s) \in s /\ Rest(s) \subseteq s /\ Rest(s) # s /\ Chosen(s) \notin Rest(s)
  <1>1. Chosen(s) \in s
    BY DEF Chosen
  <1>2. QED
    BY <1>1 DEF Rest

\* The equation at one subset.
LEMMA SolvesAt ==
    ASSUME NEW g, NEW v, NEW S, Solves(g, v, S), NEW s \in SUBSET S
    PROVE  g[s] = IF s = {} THEN 0 ELSE v[Chosen(s)] + g[Rest(s)]
  BY DEF Solves

\* Two solutions agree where both are defined and their values are the same.
LEMMA SolutionsAgree ==
    ASSUME NEW S, IsFiniteSet(S), NEW v, NEW w, \A i \in S : v[i] = w[i],
           NEW A, NEW B, S \subseteq A, S \subseteq B,
           NEW g, NEW h, Solves(g, v, A), Solves(h, w, B)
    PROVE  g[S] = h[S]
  <1> DEFINE T == {s \in SUBSET S : g[s] # h[s]}
  <1>1. SUFFICES ASSUME T # {}
                 PROVE  FALSE
    OBVIOUS
  <1>2. PICK s \in T : \A t \in T : t \subseteq s => t = s
    <2>1. T \in SUBSET SUBSET S
      OBVIOUS
    <2> HIDE DEF T
    <2>2. QED
      BY <1>1, <2>1, MinimalSubset
  <1>3. s \in SUBSET A /\ s \in SUBSET B /\ s \subseteq S /\ g[s] # h[s]
    BY <1>2
  <1>4. /\ g[s] = IF s = {} THEN 0 ELSE v[Chosen(s)] + g[Rest(s)]
        /\ h[s] = IF s = {} THEN 0 ELSE w[Chosen(s)] + h[Rest(s)]
    BY <1>3 DEF Solves
  <1>5. s # {}
    BY <1>3, <1>4
  <1>6. Rest(s) \notin T /\ Rest(s) \in SUBSET S /\ Chosen(s) \in S
    BY <1>2, <1>3, <1>5, RestFacts
  <1>7. QED
    BY <1>3, <1>4, <1>5, <1>6

\* The recursion has a solution: the sum is defined.
LEMMA SolutionExists ==
    ASSUME NEW S, IsFiniteSet(S), NEW v
    PROVE  \E g : Solves(g, v, S)
  <1> DEFINE T == {s \in SUBSET S : ~\E g : Solves(g, v, s)}
             G(s) == CHOOSE g : Solves(g, v, s)
  <1>1. SUFFICES ASSUME T # {}
                 PROVE  FALSE
    OBVIOUS
  <1>2. PICK A \in T : \A t \in T : t \subseteq A => t = A
    <2>1. T \in SUBSET SUBSET S
      OBVIOUS
    <2> HIDE DEF T
    <2>2. QED
      BY <1>1, <2>1, MinimalSubset
  <1>3. \A s \in SUBSET A : s # A => Solves(G(s), v, s)
    BY <1>2
  <1> HIDE DEF G
  <1> DEFINE h == [s \in SUBSET A |-> IF s = {} THEN 0 ELSE v[Chosen(s)] + G(Rest(s))[Rest(s)]]
  <1>4. ASSUME NEW s \in SUBSET A, s # {}
        PROVE  h[Rest(s)] = G(Rest(s))[Rest(s)]
    <2> DEFINE t == Rest(s)
    <2>1. t \in SUBSET A /\ t # A
      BY <1>4, RestFacts
    <2>2. Solves(G(t), v, t) /\ t \in SUBSET t
      BY <1>3, <2>1
    <2>3. G(t)[t] = IF t = {} THEN 0 ELSE v[Chosen(t)] + G(t)[Rest(t)]
      BY <2>2 DEF Solves
    <2>4. h[t] = IF t = {} THEN 0 ELSE v[Chosen(t)] + G(Rest(t))[Rest(t)]
      BY <2>1
    <2>5. ASSUME t # {}
          PROVE  G(t)[Rest(t)] = G(Rest(t))[Rest(t)]
      <3>1. Rest(t) \subseteq t /\ Rest(t) # A /\ Rest(t) \in SUBSET A
        BY <2>1, <2>5, RestFacts
      <3>2. Solves(G(Rest(t)), v, Rest(t))
        BY <1>3, <3>1
      <3>3. IsFiniteSet(Rest(t))
        BY <1>2, <3>1, FS_Subset
      <3>4. QED
        BY <2>2, <3>1, <3>2, <3>3, SolutionsAgree
    <2>6. QED
      BY <2>3, <2>4, <2>5
  <1>5. h = [s \in SUBSET A |-> IF s = {} THEN 0 ELSE v[Chosen(s)] + h[Rest(s)]]
    BY <1>4
  <1> HIDE DEF h
  <1>6. Solves(h, v, A)
    BY <1>5 DEF Solves
  <1>7. QED
    BY <1>2, <1>6

\* So the recursion the fold stands for holds of its values.
LEMMA PartialSumsDef ==
    ASSUME NEW S, IsFiniteSet(S), NEW v
    PROVE  Solves(PartialSums(v, S), v, S)
  BY SolutionExists DEF Solves, PartialSums

\* The mass is a number: a sum of numbers.
LEMMA MassIsNat ==
    ASSUME NEW a, NEW n \in Nat, \A i \in 1..n : P(a[i].top) \in Nat
    PROVE  MassOf(a, n) \in Nat
  <1> DEFINE v == [i \in 1..n |-> P(a[i].top)]
             g == PartialSums(v, 1..n)
             T == {s \in SUBSET (1..n) : g[s] \notin Nat}
  <1>1. MassOf(a, n) = g[1..n]
    BY DEF MassOf, FoldFunctionOnSet, MapThenFoldSet, PartialSums, Chosen, Rest
  <1>2. IsFiniteSet(1..n)
    BY FS_Interval
  <1>3. Solves(g, v, 1..n)
    BY <1>2, PartialSumsDef
  <1>4. \A i \in 1..n : v[i] \in Nat
    OBVIOUS
  <1> HIDE DEF v, g
  <1>5. SUFFICES ASSUME T # {}
                 PROVE  FALSE
    BY <1>1
  <1>6. PICK s \in T : \A t \in T : t \subseteq s => t = s
    <2> DEFINE D == 1..n
    <2>1. T \in SUBSET SUBSET D /\ IsFiniteSet(D)
      BY <1>2
    <2> HIDE DEF T, D
    <2>2. QED
      BY <1>5, <2>1, MinimalSubset
  <1>7. g[s] = IF s = {} THEN 0 ELSE v[Chosen(s)] + g[Rest(s)]
    BY <1>3, <1>6, SolvesAt
  <1>8. s # {}
    BY <1>6, <1>7
  <1>9. Rest(s) \notin T /\ Rest(s) \in SUBSET (1..n) /\ Chosen(s) \in 1..n
    BY <1>6, <1>8, RestFacts
  <1>10. QED
    BY <1>4, <1>6, <1>7, <1>8, <1>9

-----------------------------------------------------------------------------
(* Two answers and their row *)

\* An answer is a sequence of positions, each with a row.
LEMMA AnswerFacts ==
    ASSUME NEW sampled, NEW a \in Answers(sampled)
    PROVE  /\ Len(a) \in Nat /\ DOMAIN a = 1..Len(a)
           /\ \A i \in 1..Len(a) : a[i].top \in Row
  <1>1. PICK n \in 0..MaxPositions : a \in [1..n -> [sampled : sampled, top : Row]]
    BY DEF Answers
  <1>2. n \in Nat
    BY <1>1, AnswerAssumption
  <1>3. Len(a) = n
    BY <1>1, <1>2
  <1>4. QED
    BY <1>1, <1>2, <1>3

\* What the tokens and probabilities at one position add up to.
LEMMA RowFacts ==
    ASSUME NEW x \in Row, NEW y \in Row
    PROVE  /\ P(x) \in Nat /\ Shift(x, y) \in Nat /\ TopMatches(x, y) \in BOOLEAN
           /\ Shift(x, y) <= ProbMax <=>
                IF TopMatches(x, y) THEN AbsDiff(P(x), P(y)) <= ProbMax ELSE P(x) <= ProbMax
  <1>1. ProbMax \in Nat /\ \A q \in Level : q \in Nat
    BY BoundsAssumption, AnswerAssumption
  <1>2. /\ x = <<>> \/ (x # <<>> /\ x[1].p \in Nat)
        /\ y = <<>> \/ (y # <<>> /\ y[1].p \in Nat)
    BY <1>1 DEF Row
  <1>3. TopMatches(x, y) => x # <<>> /\ y # <<>>
    BY DEF TopMatches
  <1>4. TopMatches(x, y) \in BOOLEAN
    BY DEF TopMatches
  <1>5. P(x) \in Nat /\ P(y) \in Nat
    BY <1>2 DEF P
  <1>6. CASE x = <<>>
    BY <1>1, <1>3, <1>4, <1>5, <1>6 DEF Shift, P
  <1>7. CASE x # <<>> /\ TopMatches(x, y)
    <2>1. Shift(x, y) = AbsDiff(P(x), P(y))
      BY <1>3, <1>7 DEF Shift, P
    <2>2. AbsDiff(P(x), P(y)) \in Nat
      BY <1>5 DEF AbsDiff
    <2>3. QED
      BY <1>5, <1>7, <2>1, <2>2
  <1>8. CASE x # <<>> /\ ~TopMatches(x, y)
    <2>1. Shift(x, y) = P(x)
      BY <1>8 DEF Shift, P
    <2>2. Shift(x, y) \in Nat
      BY <1>5, <2>1
    <2>3. (IF TopMatches(x, y) THEN AbsDiff(P(x), P(y)) <= ProbMax ELSE P(x) <= ProbMax)
             <=> P(x) <= ProbMax
      BY <1>8
    <2>4. QED
      BY <1>4, <1>5, <2>1, <2>2, <2>3
  <1>9. QED
    BY <1>4, <1>6, <1>7, <1>8

\* Usable is where the answers part.
LEMMA UsableFacts ==
    ASSUME NEW s, NEW t, NEW a \in Answers(s), NEW b \in Answers(t)
    PROVE  /\ Usable(a, b) \in 0..Shorter(a, b) /\ (Shorter(a, b) = 0 => Usable(a, b) = 0)
           /\ Shorter(a, b) \in Nat /\ Shorter(a, b) <= Len(a) /\ Shorter(a, b) <= Len(b)
           /\ {i \in 1..Shorter(a, b) : \A j \in 1..i : a[j].sampled = b[j].sampled}
                 = 1..Usable(a, b)
  <1> DEFINE n == Shorter(a, b)
             same == {m \in 0..n : \A i \in 1..m : a[i].sampled = b[i].sampled}
             u == Usable(a, b)
  <1>1. n \in Nat /\ n <= Len(a) /\ n <= Len(b)
    BY AnswerFacts DEF Shorter
  <1>2. u = Largest(same)
    BY DEF Usable, Largest
  <1> HIDE DEF n, u
  <1>3. 0 \in same /\ same \subseteq 0..n /\ \A x \in same : x \in Int
    BY <1>1
  <1>4. IsFiniteSet(same)
    <2>1. IsFiniteSet(0..n)
      BY <1>1, FS_Interval
    <2> HIDE DEF same
    <2>2. QED
      BY <1>3, <2>1, FS_Subset
  <1>5. Largest(same) \in same /\ \A x \in same : x <= Largest(same)
    <2> HIDE DEF same
    <2>1. QED
      BY <1>3, <1>4, LargestIs
  <1>6. u \in same /\ \A x \in same : x <= u
    BY <1>2, <1>5
  <1>7. u \in 0..n /\ \A i \in 1..u : a[i].sampled = b[i].sampled
    BY <1>6
  <1>8. ASSUME NEW i \in 1..n, \A j \in 1..i : a[j].sampled = b[j].sampled
        PROVE  i \in 1..u
    <2>1. i \in same
      BY <1>1, <1>8
    <2>2. QED
      BY <1>1, <1>6, <1>7, <2>1
  <1>9. ASSUME NEW i \in 1..u
        PROVE  i \in 1..n /\ \A j \in 1..i : a[j].sampled = b[j].sampled
    BY <1>1, <1>7
  <1>10. {i \in 1..n : \A j \in 1..i : a[j].sampled = b[j].sampled} = 1..u
    BY <1>8, <1>9
  <1>11. n = 0 => u = 0
    BY <1>1, <1>7
  <1>12. QED
    BY <1>1, <1>7, <1>10, <1>11 DEF n, u

\* The row of a prompt is within the thresholds exactly when its answers are
\* close; answers that part at once are.
LEMMA CloseIsWithin ==
    ASSUME NEW s, NEW t, NEW a \in Answers(s), NEW b \in Answers(t)
    PROVE  /\ Usable(a, b) = 0 => Close(a, b)
           /\ Usable(a, b) > 0 =>
                /\ Metrics(a, b, Usable(a, b)) \in RowType
                /\ Metrics(a, b, Usable(a, b)).positions > 0
                /\ Within(Metrics(a, b, Usable(a, b))) <=> Close(a, b)
  <1> DEFINE n == Usable(a, b)
             alike == {i \in 1..n : TopMatches(a[i].top, b[i].top)}
             shifts == {Shift(a[i].top, b[i].top) : i \in 1..n}
             m == Metrics(a, b, n)
  <1>1. n \in Nat /\ \A i \in 1..n : a[i].top \in Row /\ b[i].top \in Row
    <2>1. n \in 0..Shorter(a, b) /\ Shorter(a, b) \in Nat /\ Shorter(a, b) <= Len(a) /\ Shorter(a, b) <= Len(b)
      BY UsableFacts
    <2>2. Len(a) \in Nat /\ Len(b) \in Nat
      BY AnswerFacts
    <2> HIDE DEF n
    <2>3. \A i \in 1..n : i \in 1..Len(a) /\ i \in 1..Len(b)
      BY <2>1, <2>2
    <2>4. QED
      BY <2>1, <2>3, AnswerFacts
  <1> DEFINE together == {i \in 1..Shorter(a, b) : \A j \in 1..i : a[j].sampled = b[j].sampled}
  <1>2. together = 1..n
    BY UsableFacts
  <1>3. Close(a, b) <=>
          \/ together = {}
          \/ /\ 100 * Cardinality({i \in together : TopMatches(a[i].top, b[i].top)})
                    >= Top1Min * Cardinality(together)
             /\ \A i \in {i \in together : TopMatches(a[i].top, b[i].top)} :
                    AbsDiff(P(a[i].top), P(b[i].top)) <= ProbMax
             /\ \A i \in together \ {i \in together : TopMatches(a[i].top, b[i].top)} :
                    P(a[i].top) <= ProbMax
             /\ AbsDiff(MassOf(a, Cardinality(together)), MassOf(b, Cardinality(together)))
                    <= MassMax * Cardinality(together)
    BY DEF Close
  <1> HIDE DEF together, n
  <1>4. Close(a, b) <=>
          \/ 1..n = {}
          \/ /\ 100 * Cardinality(alike) >= Top1Min * Cardinality(1..n)
             /\ \A i \in alike : AbsDiff(P(a[i].top), P(b[i].top)) <= ProbMax
             /\ \A i \in 1..n \ alike : P(a[i].top) <= ProbMax
             /\ AbsDiff(MassOf(a, Cardinality(1..n)), MassOf(b, Cardinality(1..n)))
                    <= MassMax * Cardinality(1..n)
    BY <1>2, <1>3
  <1>5. Cardinality(1..n) = n /\ IsFiniteSet(1..n) /\ (n = 0 <=> 1..n = {})
    <2>1. 1 \in Int /\ n \in Int
      BY <1>1
    <2>2. IsFiniteSet(1..n) /\ Cardinality(1..n) = IF 1 > n THEN 0 ELSE n - 1 + 1
      BY <2>1, FS_Interval
    <2>3. n = 0 <=> 1..n = {}
      BY <1>1
    <2>4. QED
      BY <1>1, <2>2, <2>3
  <1>6. n = 0 => Close(a, b)
    BY <1>4, <1>5
  <1>7. ASSUME n > 0
        PROVE  m \in RowType /\ m.positions > 0 /\ (Within(m) <=> Close(a, b))
    <2>1. m = [positions |-> n, shift |-> Largest(shifts),
               mass |-> AbsDiff(MassOf(a, n), MassOf(b, n)), top1 |-> Cardinality(alike)]
      BY DEF Metrics
    <2>2. IsFiniteSet(alike) /\ Cardinality(alike) \in Nat
      BY <1>5, FS_Subset, FS_CardinalityType
    <2>3. AbsDiff(MassOf(a, n), MassOf(b, n)) \in Nat
      <3>1. \A i \in 1..n : P(a[i].top) \in Nat /\ P(b[i].top) \in Nat
        BY <1>1, RowFacts
      <3>2. MassOf(a, n) \in Nat /\ MassOf(b, n) \in Nat
        BY <1>1, <3>1, MassIsNat
      <3>3. QED
        BY <3>2 DEF AbsDiff
    <2>4. \A x \in shifts : x \in Nat
      BY <1>1, RowFacts
    <2>5. IsFiniteSet(shifts) /\ shifts # {}
      <3>1. IsFiniteSet(shifts)
        <4> DEFINE f == [i \in 1..n |-> Shift(a[i].top, b[i].top)]
        <4>1. shifts = {f[i] : i \in 1..n} /\ DOMAIN f = 1..n
          OBVIOUS
        <4> HIDE DEF f, shifts
        <4>2. QED
          BY <1>5, <4>1, ImageIsFinite
      <3>2. Shift(a[1].top, b[1].top) \in shifts
        BY <1>1, <1>7
      <3>3. QED
        BY <3>1, <3>2
    <2>6. Largest(shifts) \in shifts /\ \A x \in shifts : x <= Largest(shifts)
      <3>1. \A x \in shifts : x \in Int
        BY <2>4
      <3> HIDE DEF shifts
      <3>2. QED
        BY <2>5, <3>1, LargestIs
    <2>7. Largest(shifts) \in Nat
      BY <2>4, <2>6
    <2>8. Largest(shifts) <= ProbMax <=> \A i \in 1..n : Shift(a[i].top, b[i].top) <= ProbMax
      <3>1. ProbMax \in Nat
        BY BoundsAssumption
      <3>2. Largest(shifts) <= ProbMax <=> \A x \in shifts : x <= ProbMax
        BY <2>4, <2>6, <2>7, <3>1
      <3>3. QED
        BY <3>2
    <2>9. (\A i \in 1..n : Shift(a[i].top, b[i].top) <= ProbMax) <=>
             /\ \A i \in alike : AbsDiff(P(a[i].top), P(b[i].top)) <= ProbMax
             /\ \A i \in 1..n \ alike : P(a[i].top) <= ProbMax
      BY <1>1, RowFacts
    <2> HIDE DEF alike, shifts
    <2>10. m \in RowType /\ m.positions > 0
      BY <1>1, <1>7, <2>1, <2>2, <2>3, <2>7 DEF RowType
    <2>11. Within(m) <=>
             /\ Largest(shifts) <= ProbMax
             /\ AbsDiff(MassOf(a, n), MassOf(b, n)) <= MassMax * n
             /\ 100 * Cardinality(alike) >= Top1Min * n
      BY <2>1 DEF Within
    <2>12. QED
      BY <1>4, <1>5, <1>7, <2>8, <2>9, <2>10, <2>11
  <1>8. QED
    BY <1>1, <1>6, <1>7 DEF n

-----------------------------------------------------------------------------
(* The worst rows *)

\* Products of natural numbers: what the solver needs spelled out of them.
LEMMA TimesIsNat ==
    ASSUME NEW x \in Nat, NEW y \in Nat
    PROVE  x * y \in Nat
  BY SMT

LEMMA TimesMonotone ==
    ASSUME NEW x \in Nat, NEW y \in Nat, NEW z \in Nat, x <= y
    PROVE  x * z \in Nat /\ x * z <= y * z
  <1>1. PICK d \in Nat : y = x + d
    BY SMT
  <1>2. y * z = x * z + d * z /\ d * z \in Nat /\ x * z \in Nat
    BY <1>1, SMT
  <1>3. QED
    BY <1>2, SMT

LEMMA TimesCancels ==
    ASSUME NEW x \in Nat, NEW y \in Nat, NEW z \in Nat, z > 0, x * z <= y * z
    PROVE  x <= y
  <1>1. SUFFICES ASSUME y + 1 <= x
                 PROVE  FALSE
    BY SMT
  <1>2. y + 1 \in Nat
    BY SMT
  <1>3. (y + 1) * z <= x * z
    BY <1>1, <1>2, TimesMonotone
  <1>4. (y + 1) * z = y * z + z
    BY SMT
  <1>5. x * z \in Nat /\ y * z \in Nat
    BY SMT
  <1>6. QED
    BY <1>3, <1>4, <1>5, SMT

\* Fractions compared crosswise are ordered: x/p <= y/q <= z/r.
LEMMA FractionsOrdered ==
    ASSUME NEW x \in Nat, NEW y \in Nat, NEW z \in Nat,
           NEW p \in Nat, NEW q \in Nat, NEW r \in Nat, q > 0,
           x * q <= y * p, y * r <= z * q
    PROVE  x * r <= z * p
  <1>1. x * q \in Nat /\ y * p \in Nat /\ y * r \in Nat /\ z * q \in Nat /\ x * r \in Nat /\ z * p \in Nat
    BY SMT
  <1>2. (x * q) * r <= (y * p) * r
    BY <1>1, TimesMonotone
  <1>3. (y * r) * p <= (z * q) * p
    BY <1>1, TimesMonotone
  <1>4. (x * q) * r = (x * r) * q /\ (y * p) * r = (y * r) * p /\ (z * q) * p = (z * p) * q
    BY SMT
  <1>5. (x * r) * q \in Nat /\ (z * p) * q \in Nat /\ (y * r) * p \in Nat
    BY <1>1, SMT
  <1>6. (x * r) * q <= (z * p) * q
    BY <1>2, <1>3, <1>4, <1>5, SMT
  <1>7. QED
    BY <1>1, <1>6, TimesCancels

\* A finite set of rows with positions has one whose fraction is the greatest;
\* num names the numerators.
LEMMA GreatestFraction ==
    ASSUME NEW S, IsFiniteSet(S), S # {}, NEW num, NEW den,
           \A x \in S : num[x] \in Nat /\ den[x] \in Nat /\ den[x] > 0
    PROVE  \E m \in S : \A x \in S : num[x] * den[m] <= num[m] * den[x]
  <1> DEFINE R == {q \in S \X S : num[q[1]] * den[q[2]] <= num[q[2]] * den[q[1]]}
  <1>1. \A x, y \in S : <<x, y>> \in R <=> num[x] * den[y] <= num[y] * den[x]
    OBVIOUS
  <1> HIDE DEF R
  <1>2. ASSUME NEW x \in S, NEW y \in S
        PROVE  <<x, y>> \in R \/ <<y, x>> \in R
    <2>1. num[x] * den[y] \in Nat /\ num[y] * den[x] \in Nat
      BY TimesIsNat
    <2>2. num[x] * den[y] <= num[y] * den[x] \/ num[y] * den[x] <= num[x] * den[y]
      BY <2>1, SMT
    <2>3. QED
      BY <1>1, <2>2
  <1>3. ASSUME NEW x \in S, NEW y \in S, NEW z \in S, <<x, y>> \in R, <<y, z>> \in R
        PROVE  <<x, z>> \in R
    <2>1. num[x] * den[y] <= num[y] * den[x] /\ num[y] * den[z] <= num[z] * den[y]
      BY <1>1, <1>3
    <2>2. /\ num[x] \in Nat /\ num[y] \in Nat /\ num[z] \in Nat
          /\ den[x] \in Nat /\ den[y] \in Nat /\ den[z] \in Nat /\ den[y] > 0
      OBVIOUS
    <2>3. num[x] * den[z] <= num[z] * den[x]
      BY <2>1, <2>2, FractionsOrdered
    <2>4. QED
      BY <1>1, <2>3
  <1>4. \E m \in S : \A x \in S : <<x, m>> \in R
    BY <1>2, <1>3, Greatest
  <1>5. QED
    BY <1>1, <1>4

\* And one whose fraction is the least.
LEMMA LeastFraction ==
    ASSUME NEW S, IsFiniteSet(S), S # {}, NEW num, NEW den,
           \A x \in S : num[x] \in Nat /\ den[x] \in Nat /\ den[x] > 0
    PROVE  \E m \in S : \A x \in S : num[m] * den[x] <= num[x] * den[m]
  <1> DEFINE R == {q \in S \X S : num[q[2]] * den[q[1]] <= num[q[1]] * den[q[2]]}
  <1>1. \A x, y \in S : <<x, y>> \in R <=> num[y] * den[x] <= num[x] * den[y]
    OBVIOUS
  <1> HIDE DEF R
  <1>2. ASSUME NEW x \in S, NEW y \in S
        PROVE  <<x, y>> \in R \/ <<y, x>> \in R
    <2>1. num[x] * den[y] \in Nat /\ num[y] * den[x] \in Nat
      BY TimesIsNat
    <2>2. num[x] * den[y] <= num[y] * den[x] \/ num[y] * den[x] <= num[x] * den[y]
      BY <2>1, SMT
    <2>3. QED
      BY <1>1, <2>2
  <1>3. ASSUME NEW x \in S, NEW y \in S, NEW z \in S, <<x, y>> \in R, <<y, z>> \in R
        PROVE  <<x, z>> \in R
    <2>1. num[z] * den[y] <= num[y] * den[z] /\ num[y] * den[x] <= num[x] * den[y]
      BY <1>1, <1>3
    <2>2. /\ num[x] \in Nat /\ num[y] \in Nat /\ num[z] \in Nat
          /\ den[x] \in Nat /\ den[y] \in Nat /\ den[z] \in Nat /\ den[y] > 0
      OBVIOUS
    <2>3. num[z] * den[x] <= num[x] * den[z]
      BY <2>1, <2>2, FractionsOrdered
    <2>4. QED
      BY <1>1, <2>3
  <1>4. \E m \in S : \A x \in S : <<x, m>> \in R
    BY <1>2, <1>3, Greatest
  <1>5. QED
    BY <1>1, <1>4

\* compare_corpora.py looks at the three worst rows only: that is enough.
LEMMA WorstRowsDecide ==
    ASSUME TypeOK, Scored # {}
    PROVE  (/\ WorstShift <= ProbMax
            /\ WorstMass.mass <= MassMax * WorstMass.positions
            /\ 100 * WorstTop1.top1 >= Top1Min * WorstTop1.positions)
              <=> \A r \in Scored : Within(r)
  <1>1. /\ \A r \in Scored : r \in RowType /\ r.positions \in Nat /\ r.positions > 0
                               /\ r.shift \in Nat /\ r.mass \in Nat /\ r.top1 \in Nat
        /\ IsFiniteSet(Scored)
    <2>1. Scored \subseteq rows /\ \A r \in Scored : r.positions > 0
      BY DEF Scored
    <2>2. rows \subseteq RowType /\ IsFiniteSet(rows)
      BY DEF TypeOK
    <2>3. IsFiniteSet(Scored)
      BY <2>1, <2>2, FS_Subset
    <2>4. QED
      BY <2>1, <2>2, <2>3 DEF RowType
  <1>2. MassMax \in Nat /\ ProbMax \in Nat /\ Top1Min \in Nat /\ 100 \in Nat
    BY BoundsAssumption DEF Top1Min
  <1> DEFINE pos == [r \in Scored |-> r.positions]
             mass == [r \in Scored |-> r.mass]
             top1 == [r \in Scored |-> r.top1]
             shift == [r \in Scored |-> r.shift]
  <1>3. WorstMass \in Scored /\ \A r \in Scored : r.mass * WorstMass.positions <= WorstMass.mass * r.positions
    <2>1. \A r \in Scored : mass[r] \in Nat /\ pos[r] \in Nat /\ pos[r] > 0
      BY <1>1
    <2>2. \A r \in Scored : mass[r] = r.mass /\ pos[r] = r.positions
      OBVIOUS
    <2> HIDE DEF mass, pos
    <2>3. \E m \in Scored : \A r \in Scored : mass[r] * pos[m] <= mass[m] * pos[r]
      BY <1>1, <2>1, GreatestFraction
    <2>4. \E m \in Scored : \A r \in Scored : m.mass * r.positions >= r.mass * m.positions
      <3>1. PICK m \in Scored : \A r \in Scored : mass[r] * pos[m] <= mass[m] * pos[r]
        BY <2>3
      <3>2. ASSUME NEW r \in Scored
            PROVE  m.mass * r.positions >= r.mass * m.positions
        <4>1. r.mass * m.positions <= m.mass * r.positions
          BY <2>2, <3>1
        <4>2. r.mass * m.positions \in Nat /\ m.mass * r.positions \in Nat
          BY <1>1, TimesIsNat
        <4>3. QED
          BY <4>1, <4>2
      <3>3. QED
        BY <3>2
    <2>5. WorstMass \in Scored /\ \A r \in Scored : WorstMass.mass * r.positions >= r.mass * WorstMass.positions
      BY <2>4 DEF WorstMass
    <2>6. \A r \in Scored : /\ r.mass * WorstMass.positions \in Nat
                            /\ WorstMass.mass * r.positions \in Nat
      BY <1>1, <2>5, TimesIsNat
    <2>7. QED
      BY <2>5, <2>6
  <1>4. WorstTop1 \in Scored /\ \A r \in Scored : WorstTop1.top1 * r.positions <= r.top1 * WorstTop1.positions
    <2>1. \A r \in Scored : top1[r] \in Nat /\ pos[r] \in Nat /\ pos[r] > 0
      BY <1>1
    <2>2. \A r \in Scored : top1[r] = r.top1 /\ pos[r] = r.positions
      OBVIOUS
    <2> HIDE DEF top1, pos
    <2>3. \E m \in Scored : \A r \in Scored : top1[m] * pos[r] <= top1[r] * pos[m]
      BY <1>1, <2>1, LeastFraction
    <2>4. \E m \in Scored : \A r \in Scored : m.top1 * r.positions <= r.top1 * m.positions
      BY <2>2, <2>3
    <2>5. QED
      BY <2>4 DEF WorstTop1
  <1>5. WorstShift \in Nat /\ (\E r \in Scored : WorstShift = r.shift) /\ \A r \in Scored : r.shift <= WorstShift
    <2> DEFINE T == {shift[r] : r \in Scored}
    <2>1. T = {r.shift : r \in Scored}
      OBVIOUS
    <2>2. \A x \in T : x \in Nat /\ x \in Int
      BY <1>1
    <2>3. IsFiniteSet(T)
      <3> HIDE DEF shift
      <3>1. QED
        BY <1>1, ImageIsFinite
    <2>4. T # {}
      OBVIOUS
    <2>5. WorstShift = Largest(T)
      BY <2>1 DEF WorstShift
    <2>6. (\A r \in Scored : r.shift \in T) /\ \A x \in T : \E r \in Scored : x = r.shift
      OBVIOUS
    <2> HIDE DEF T
    <2>7. Largest(T) \in T /\ \A x \in T : x <= Largest(T)
      BY <2>2, <2>3, <2>4, LargestIs
    <2>8. QED
      BY <2>2, <2>5, <2>6, <2>7
  <1> HIDE DEF pos, mass, top1, shift
  <1>6. WorstShift <= ProbMax <=> \A r \in Scored : r.shift <= ProbMax
    <2>1. ASSUME WorstShift <= ProbMax, NEW r \in Scored
          PROVE  r.shift <= ProbMax
      <3>1. r.shift \in Nat /\ r.shift <= WorstShift /\ WorstShift \in Nat
        BY <1>1, <1>5
      <3>2. QED
        BY <1>2, <2>1, <3>1
    <2>2. QED
      BY <1>5, <2>1
  <1>7. WorstMass.mass <= MassMax * WorstMass.positions <=> \A r \in Scored : r.mass <= MassMax * r.positions
    <2> DEFINE w == WorstMass
    <2>1. w \in Scored /\ w.mass \in Nat /\ w.positions \in Nat /\ w.positions > 0
      BY <1>1, <1>3
    <2> HIDE DEF w
    <2>2. ASSUME w.mass <= MassMax * w.positions, NEW r \in Scored
          PROVE  r.mass <= MassMax * r.positions
      <3>1. r.mass \in Nat /\ r.positions \in Nat /\ r.mass * w.positions <= w.mass * r.positions
        BY <1>1, <1>3 DEF w
      <3>2. w.mass * 1 <= MassMax * w.positions /\ 1 \in Nat
        BY <2>1, <2>2
      <3>3. r.mass * 1 <= MassMax * r.positions
        BY <1>2, <2>1, <3>1, <3>2, FractionsOrdered
      <3>4. QED
        BY <3>1, <3>3
    <2>3. QED
      BY <2>1, <2>2 DEF w
  <1>8. 100 * WorstTop1.top1 >= Top1Min * WorstTop1.positions
          <=> \A r \in Scored : 100 * r.top1 >= Top1Min * r.positions
    <2> DEFINE w == WorstTop1
    <2>1. w \in Scored /\ w.top1 \in Nat /\ w.positions \in Nat /\ w.positions > 0
      BY <1>1, <1>4
    <2> HIDE DEF w
    <2>2. ASSUME 100 * w.top1 >= Top1Min * w.positions, NEW r \in Scored
          PROVE  100 * r.top1 >= Top1Min * r.positions
      <3>1. r.top1 \in Nat /\ r.positions \in Nat /\ w.top1 * r.positions <= r.top1 * w.positions
        BY <1>1, <1>4 DEF w
      <3>2. Top1Min * w.positions <= w.top1 * 100
        BY <2>1, <2>2 DEF Top1Min
      <3>3. Top1Min * r.positions <= r.top1 * 100
        BY <1>2, <2>1, <3>1, <3>2, FractionsOrdered
      <3>4. QED
        BY <3>1, <3>3 DEF Top1Min
    <2>3. QED
      BY <2>1, <2>2 DEF w
  <1>9. QED
    BY <1>6, <1>7, <1>8 DEF Within

-----------------------------------------------------------------------------
(* Every step keeps the invariant *)

\* The bounds of the counters, and what is to be shown of them.
LEMMA Numbers ==
    /\ Prompts \in Nat /\ Prompts >= 1 /\ MaxRestarts \in Nat
    /\ \A p \in PromptId : p \in Nat /\ p >= 1 /\ p <= Prompts
    /\ \A p \in Nat : p \in PromptId <=> p >= 1 /\ p <= Prompts
    /\ CaptureTypeOK =>
         /\ prompt \in Nat /\ prompt >= 1 /\ prompt <= Prompts + 1
         /\ fetches \in {0, 1, 2}
         /\ attempt \in Nat /\ attempt <= 5
         /\ restarts \in Nat /\ restarts <= MaxRestarts
  BY BoundsAssumption DEF CaptureTypeOK, PromptId, Attempts

\* The types of a capture after a step, from the bounds of its counters.
LEMMA CaptureTypes ==
    ASSUME prompt' \in Nat, prompt' >= 1, prompt' <= Prompts + 1, fetches' \in {0, 1, 2},
           attempt' \in Nat, attempt' <= 5, restarts' \in Nat, restarts' <= MaxRestarts,
           warm_a' \in {"none", "warm", "cold"}, entries' \in [PromptId -> EntryType],
           cache' \subseteq PromptId, cooled' \in BOOLEAN
    PROVE  CaptureTypeOK'
  BY BoundsAssumption DEF CaptureTypeOK, Attempts

\* The invariant holds at first.
LEMMA InitOK == Init => IInv
  <1> SUFFICES ASSUME Init PROVE IInv
    OBVIOUS
  <1>1. /\ script \in {"by_hand", "one_pod", "two_pods"} /\ stage \in {"load", "candidate", "reference"}
        /\ allowed \subseteq PromptId /\ models \in BOOLEAN /\ labels \in BOOLEAN
        /\ script = "two_pods" => stage = "reference"
        /\ file \in [Corpus -> Committed({Steady, Varied}) \cup {NoFile}]
    <2>1. CASE script = "by_hand"
      BY <2>1 DEF Init
    <2>2. CASE script \in {"one_pod", "two_pods"}
      <3>1. Whole \in Committed({Steady, Varied})
        BY DEF Whole, Committed
      <3>2. file \in [Corpus -> {Whole, NoFile}]
        BY <2>2 DEF Init
      <3>3. QED
        BY <2>2, <3>1, <3>2 DEF Init
    <2>3. QED
      BY <2>1, <2>2 DEF Init
  <1>2. /\ prompt = 1 /\ fetches = 0 /\ attempt = 0 /\ warm_a = "none"
        /\ entries = NoEntries /\ cache = {} /\ restarts = 0 /\ cooled = FALSE
        /\ warned = {} /\ rows = {} /\ outcome = "none" /\ apart = {}
    BY DEF Init
  <1>3. Prompts \in Nat /\ Prompts >= 1 /\ MaxRestarts \in Nat
    BY BoundsAssumption
  <1>4. /\ Missing \in EntryType /\ Steady \in EntryType /\ Varied \in EntryType
        /\ Missing.temperature # "cold" /\ Steady.temperature # "cold" /\ Varied.temperature # "cold"
    BY DEF Missing, Steady, Varied, Entry, EntryType
  <1>5. \A f \in Committed({Steady, Varied}) \cup {NoFile} :
           /\ f \in FileType /\ f.age \in {"committed", "none"}
           /\ \A p \in PromptId : f.entries[p].temperature # "cold"
    <2>1. ASSUME NEW es \in [PromptId -> {Missing, Steady, Varied}],
                 NEW age \in {"committed", "none"}, NEW f, f = File(age, es)
          PROVE  /\ f \in FileType /\ f.age \in {"committed", "none"}
                 /\ \A p \in PromptId : f.entries[p].temperature # "cold"
      BY <1>4, <2>1 DEF File, FileType
    <2>2. NoFile = File("none", NoEntries) /\ NoEntries \in [PromptId -> {Missing, Steady, Varied}]
      BY DEF NoFile, NoEntries
    <2>3. QED
      BY <2>1, <2>2 DEF Committed
  <1>6. TypeOK
    <2>1. entries \in [PromptId -> EntryType]
      BY <1>2, <1>4 DEF NoEntries
    <2>2. file \in [Corpus -> FileType]
      BY <1>1, <1>5
    <2>3. IsFiniteSet(rows)
      BY <1>2, FS_EmptySet
    <2>4. CaptureTypeOK
      <3>1. prompt \in 1..(Prompts + 1) /\ fetches \in 0..2 /\ attempt \in 0..5 /\ restarts \in 0..MaxRestarts
        BY <1>2, <1>3
      <3>2. cooled \in BOOLEAN /\ cache \subseteq PromptId /\ warm_a \in {"none", "warm", "cold"}
        BY <1>2
      <3>3. QED
        BY <2>1, <3>1, <3>2 DEF CaptureTypeOK, Attempts
    <2>5. QED
      BY <1>1, <1>2, <2>2, <2>3, <2>4 DEF TypeOK, Corpus
  <1>7. CaptureOK
    BY <1>2, <1>3 DEF CaptureOK, PromptId
  <1>8. FilesOK
    BY <1>1, <1>5 DEF FilesOK
  <1>9. ProgressOK
    BY <1>1 DEF ProgressOK
  <1>10. WarnedOK
    BY <1>1, <1>2 DEF WarnedOK, Verdicts
  <1>11. RowsOK /\ OutcomeOK
    BY <1>1, <1>2 DEF RowsOK, OutcomeOK, VerdictIsEarned
  <1>12. QED
    BY <1>6, <1>7, <1>8, <1>9, <1>10, <1>11 DEF IInv

\* Steps of a capture: they touch neither files nor the comparison.
LEMMA CaptureTouchesNoFile ==
    ASSUME IInv, stage \in Corpus, UNCHANGED <<asked, stage, file, compared>>,
           CaptureTypeOK', CaptureOK'
    PROVE  IInv'
  <1>1. /\ UNCHANGED <<script, stage, file, warned, rows, outcome, apart>>
        /\ UNCHANGED <<allowed, models, labels>>
        /\ TypeOK /\ FilesOK /\ ProgressOK /\ WarnedOK /\ RowsOK /\ OutcomeOK
    BY DEF asked, compared, IInv
  <1>2. FilesOK' /\ ProgressOK' /\ WarnedOK'
    BY <1>1 DEF FilesOK, ProgressOK, WarnedOK
  <1>3. RowsOK'
    BY <1>1 DEF RowsOK, Corpus
  <1>4. OutcomeOK'
    BY <1>1 DEF OutcomeOK, VerdictIsEarned, Scored
  <1>5. TypeOK'
    BY <1>1 DEF TypeOK
  <1>6. QED
    BY <1>2, <1>3, <1>4, <1>5 DEF IInv

\* An answer: the third one settles the entry, and is cold only if the second was warm.
LEMMA FetchReturnsOK == IInv /\ FetchReturns => IInv'
  <1> SUFFICES ASSUME IInv, FetchReturns PROVE IInv'
    OBVIOUS
  <1>1. CaptureTypeOK /\ CaptureOK
    BY DEF IInv, TypeOK
  <1>2. stage \in Corpus /\ prompt <= Prompts /\ prompt \in PromptId
    BY <1>1, Numbers DEF FetchReturns
  <1>3. cache' = cache \cup {prompt} /\ attempt' = 0 /\ restarts' = restarts
    BY DEF FetchReturns
  <1>4. PICK t \in Temperature :
          \/ /\ fetches < 2 /\ fetches' = fetches + 1
             /\ warm_a' = IF fetches = 1 THEN t ELSE "none"
             /\ UNCHANGED <<prompt, entries, cooled>>
          \/ /\ fetches = 2 /\ fetches' = 0 /\ warm_a' = "none"
             /\ entries' = [entries EXCEPT ![prompt] = Entry(t, warm_a = t)]
             /\ prompt' = prompt + 1 /\ cooled' = FALSE
    BY DEF FetchReturns
  <1>5. t \in {"warm", "cold"} /\ (prompt \in cache => t = "warm")
    BY DEF Temperature
  <1>6. /\ fetches \in {0, 1, 2} /\ restarts \in Nat /\ restarts <= MaxRestarts
        /\ prompt \in Nat /\ prompt >= 1 /\ prompt + 1 <= Prompts + 1 /\ prompt <= Prompts + 1
        /\ cache' \subseteq PromptId /\ prompt \in cache'
        /\ warm_a \in {"none", "warm", "cold"} /\ entries \in [PromptId -> EntryType]
        /\ cooled \in BOOLEAN
    <2>1. cache \subseteq PromptId /\ warm_a \in {"none", "warm", "cold"} /\ cooled \in BOOLEAN
          /\ entries \in [PromptId -> EntryType]
      BY <1>1 DEF CaptureTypeOK
    <2>2. QED
      BY <1>1, <1>2, <1>3, <2>1, Numbers
  <1>7. ASSUME fetches < 2
        PROVE  CaptureTypeOK' /\ CaptureOK'
    <2>1. /\ fetches' = fetches + 1 /\ warm_a' = IF fetches = 1 THEN t ELSE "none"
          /\ prompt' = prompt /\ entries' = entries /\ cooled' = cooled
      BY <1>4, <1>7
    <2>2. fetches \in {0, 1} /\ fetches' \in {1, 2} /\ (fetches' = 2 => fetches = 1)
      BY <1>6, <1>7, <2>1
    <2>3. warm_a' \in {"none", "warm", "cold"}
      BY <1>5, <2>1
    <2>4. CaptureTypeOK'
      BY <1>3, <1>6, <2>1, <2>2, <2>3, CaptureTypes
    <2>5. fetches' = 2 => warm_a' # "none" /\ (warm_a' = "cold" => cooled)
      <3>1. fetches' = 2 => fetches = 1 /\ warm_a' = t
        BY <2>1, <2>2
      <3>2. fetches = 1 => prompt \in cache \/ cooled
        BY <1>1 DEF CaptureOK
      <3>3. QED
        BY <1>5, <3>1, <3>2
    <2>6. CaptureOK'
      <3>1. \A p \in PromptId : stage' \in Corpus /\ p < prompt' => Trusted(entries'[p], restarts' = 0)
        BY <1>1, <1>2, <1>3, <2>1 DEF CaptureOK
      <3>2. cooled' => restarts' > 0
        BY <1>1, <1>3, <2>1 DEF CaptureOK
      <3>3. fetches' # 0 /\ prompt' \in PromptId /\ prompt' \in cache' /\ stage' \in Corpus
        <4>1. stage' = stage
          BY DEF FetchReturns
        <4>2. QED
          BY <1>2, <1>6, <2>1, <2>2, <4>1
      <3>4. QED
        BY <2>1, <2>5, <3>1, <3>2, <3>3 DEF CaptureOK
    <2>7. QED
      BY <2>4, <2>6
  <1>8. ASSUME fetches = 2
        PROVE  CaptureTypeOK' /\ CaptureOK'
    <2>1. /\ fetches' = 0 /\ warm_a' = "none" /\ prompt' = prompt + 1 /\ cooled' = FALSE
          /\ entries' = [entries EXCEPT ![prompt] = Entry(t, warm_a = t)]
      BY <1>4, <1>8
    <2>2. Entry(t, warm_a = t) \in EntryType
      BY <1>5 DEF Entry, EntryType
    <2>3. CaptureTypeOK'
      <3>1. entries' \in [PromptId -> EntryType]
        BY <1>6, <2>1, <2>2
      <3>2. prompt' \in Nat /\ prompt' >= 1 /\ prompt' <= Prompts + 1
        BY <1>6, <2>1
      <3>3. /\ restarts' \in Nat /\ restarts' <= MaxRestarts /\ cache' \subseteq PromptId
            /\ fetches' \in {0, 1, 2} /\ attempt' \in Nat /\ attempt' <= 5
            /\ warm_a' \in {"none", "warm", "cold"}
        BY <1>3, <1>6, <2>1
      <3>4. cooled' \in BOOLEAN
        BY <2>1
      <3>5. QED
        BY <3>1, <3>2, <3>3, <3>4, CaptureTypes
    <2>4. Trusted(entries'[prompt], restarts = 0)
      <3>1. entries'[prompt] = Entry(t, warm_a = t)
        BY <1>2, <1>6, <2>1
      <3>2. Entry(t, warm_a = t).temperature = t /\ Entry(t, warm_a = t).reproducible = (warm_a = t)
        BY DEF Entry
      <3>3. Entry(t, warm_a = t) # Missing
        BY <1>5 DEF Entry, Missing
      <3>4. warm_a # "none" /\ (warm_a = "cold" => cooled /\ prompt \in cache) /\ (prompt \in cache \/ cooled)
        BY <1>1, <1>8 DEF CaptureOK
      <3>5. t = "cold" => warm_a # t
        BY <1>5, <3>4
      <3>6. restarts = 0 => warm_a = t
        <4>1. restarts = 0 => ~cooled
          BY <1>1, <1>6 DEF CaptureOK
        <4>2. QED
          BY <1>5, <1>6, <3>4, <4>1
      <3>7. QED
        BY <3>1, <3>2, <3>3, <3>5, <3>6 DEF Trusted
    <2>5. ASSUME NEW p \in PromptId, p < prompt'
          PROVE  Trusted(entries'[p], restarts' = 0)
      <3>1. CASE p = prompt
        BY <1>3, <2>4, <3>1
      <3>2. CASE p # prompt
        <4>1. p < prompt
          BY <1>6, <2>1, <2>5, <3>2, Numbers
        <4>2. entries'[p] = entries[p]
          BY <1>6, <2>1, <3>2
        <4>3. QED
          BY <1>1, <1>2, <1>3, <4>1, <4>2 DEF CaptureOK
      <3>3. QED
        BY <3>1, <3>2
    <2>6. CaptureOK'
      BY <2>1, <2>5 DEF CaptureOK
    <2>7. QED
      BY <2>3, <2>6
  <1>9. UNCHANGED <<asked, stage, file, compared>>
    BY DEF FetchReturns
  <1>10. fetches < 2 \/ fetches = 2
    BY <1>6
  <1>11. QED
    BY <1>2, <1>7, <1>8, <1>9, <1>10, CaptureTouchesNoFile

\* A failed attempt at most warms the cache.
LEMMA AttemptFailsOK == IInv /\ AttemptFails => IInv'
  <1> SUFFICES ASSUME IInv, AttemptFails PROVE IInv'
    OBVIOUS
  <1>1. CaptureTypeOK /\ CaptureOK
    BY DEF IInv, TypeOK
  <1>2. /\ stage \in Corpus /\ prompt <= Prompts
        /\ attempt < 5 /\ attempt' = attempt + 1
        /\ cache' \in {cache, cache \cup {prompt}}
        /\ UNCHANGED <<asked, stage, file, compared>>
        /\ prompt' = prompt /\ fetches' = fetches /\ warm_a' = warm_a /\ entries' = entries
        /\ restarts' = restarts /\ cooled' = cooled
    BY DEF AttemptFails, Attempts
  <1>3. CaptureTypeOK'
    <2>1. cache \subseteq PromptId /\ warm_a \in {"none", "warm", "cold"} /\ cooled \in BOOLEAN
          /\ entries \in [PromptId -> EntryType]
      BY <1>1 DEF CaptureTypeOK
    <2>2. /\ prompt \in Nat /\ prompt >= 1 /\ prompt <= Prompts + 1 /\ fetches \in {0, 1, 2}
          /\ attempt \in Nat /\ restarts \in Nat /\ restarts <= MaxRestarts /\ prompt \in PromptId
      BY <1>1, <1>2, Numbers
    <2>3. attempt' \in Nat /\ attempt' <= 5 /\ cache' \subseteq PromptId
      BY <1>2, <2>1, <2>2
    <2>4. QED
      BY <1>2, <2>1, <2>2, <2>3, CaptureTypes
  <1>4. CaptureOK'
    <2>1. cache \subseteq cache'
      BY <1>2
    <2>2. stage' = stage
      BY <1>2
    <2>3. QED
      BY <1>1, <1>2, <2>1, <2>2 DEF CaptureOK
  <1>5. QED
    BY <1>2, <1>3, <1>4, CaptureTouchesNoFile

\* A loss of the cache: it may make one of the answers cold, not both of those compared.
LEMMA ServerCoolsOK == IInv /\ ServerCools => IInv'
  <1> SUFFICES ASSUME IInv, ServerCools PROVE IInv'
    OBVIOUS
  <1>1. CaptureTypeOK /\ CaptureOK
    BY DEF IInv, TypeOK
  <1>2. /\ stage \in Corpus /\ restarts < MaxRestarts /\ ~cooled
        /\ restarts' = restarts + 1 /\ cooled' = (fetches > 0) /\ cache' = {}
        /\ UNCHANGED <<asked, stage, file, compared>>
        /\ prompt' = prompt /\ fetches' = fetches /\ warm_a' = warm_a /\ entries' = entries
        /\ attempt' = attempt
    BY DEF ServerCools
  <1>3. /\ prompt \in Nat /\ prompt >= 1 /\ prompt <= Prompts + 1 /\ fetches \in {0, 1, 2}
        /\ attempt \in Nat /\ attempt <= 5 /\ restarts \in Nat
        /\ restarts' \in Nat /\ restarts' > 0 /\ restarts' # 0 /\ restarts' <= MaxRestarts
    BY <1>1, <1>2, Numbers
  <1>4. CaptureTypeOK'
    <2>1. warm_a \in {"none", "warm", "cold"} /\ entries \in [PromptId -> EntryType]
      BY <1>1 DEF CaptureTypeOK
    <2>2. QED
      BY <1>2, <1>3, <2>1, CaptureTypes
  <1>5. CaptureOK'
    <2>1. ASSUME NEW p \in PromptId, p < prompt
          PROVE  Trusted(entries[p], FALSE)
      BY <1>1, <1>2, <2>1 DEF CaptureOK, Trusted
    <2>2. \A p \in PromptId : p < prompt' => Trusted(entries'[p], restarts' = 0)
      BY <1>2, <1>3, <2>1
    <2>3. fetches = 2 => warm_a # "none" /\ warm_a # "cold"
      BY <1>1, <1>2 DEF CaptureOK
    <2>4. fetches > 0 => prompt \in PromptId
      BY <1>1 DEF CaptureOK
    <2>5. fetches' = 0 => ~cooled'
      <3>1. fetches' = 0 => (fetches > 0) = FALSE
        BY <1>2, <1>3
      <3>2. QED
        BY <1>2, <3>1
    <2>6. fetches' > 0 => cooled'
      BY <1>2
    <2>7. QED
      BY <1>2, <1>3, <2>2, <2>3, <2>4, <2>5, <2>6 DEF CaptureOK
  <1>6. QED
    BY <1>2, <1>4, <1>5, CaptureTouchesNoFile

\* A new capture, or the comparison, starts with nothing in.
LEMMA AfreshOK ==
    ASSUME Afresh
    PROVE  CaptureTypeOK' /\ CaptureOK'
  <1>1. /\ prompt' = 1 /\ fetches' = 0 /\ attempt' = 0 /\ warm_a' = "none"
        /\ entries' = NoEntries /\ cache' = {} /\ restarts' = 0 /\ cooled' = FALSE
    BY DEF Afresh
  <1>2. CaptureOK'
    BY <1>1, Numbers DEF CaptureOK
  <1>3. entries' \in [PromptId -> EntryType]
    BY <1>1 DEF NoEntries, Missing, Entry, EntryType
  <1>4. /\ prompt' \in Nat /\ prompt' >= 1 /\ prompt' <= Prompts + 1
        /\ restarts' \in Nat /\ restarts' <= MaxRestarts
        /\ fetches' \in {0, 1, 2} /\ attempt' \in Nat /\ attempt' <= 5
        /\ warm_a' \in {"none", "warm", "cold"} /\ cache' \subseteq PromptId
    BY <1>1, Numbers
  <1>5. cooled' \in BOOLEAN
    BY <1>1
  <1>6. QED
    BY <1>2, <1>3, <1>4, <1>5, CaptureTypes

\* The file has the entries as they were captured.
LEMMA WriteOK == IInv /\ Write => IInv'
  <1> SUFFICES ASSUME IInv, Write PROVE IInv'
    OBVIOUS
  <1>1. TypeOK /\ CaptureOK /\ FilesOK /\ ProgressOK /\ WarnedOK /\ RowsOK /\ OutcomeOK
    BY DEF IInv
  <1> DEFINE new == File(IF restarts = 0 THEN "fresh" ELSE "unsteady", entries)
  <1>2. /\ stage \in Corpus /\ prompt > Prompts
        /\ file' = [file EXCEPT ![stage] = new]
        /\ stage' = Then /\ Afresh
        /\ UNCHANGED <<script, allowed, models, labels, warned, rows, outcome, apart>>
    BY DEF Write, asked, compared
  <1>3. stage' \in {"candidate", "load"} /\ (stage' = "candidate" <=> stage = "reference")
    BY <1>2 DEF Then, Corpus
  <1>4. /\ new \in FileType /\ new.entries = entries
        /\ new.age = IF restarts = 0 THEN "fresh" ELSE "unsteady"
    <2>1. entries \in [PromptId -> EntryType]
      BY <1>1 DEF TypeOK, CaptureTypeOK
    <2>2. QED
      BY <2>1 DEF File, FileType
  <1> HIDE DEF new
  <1>5. \A c \in Corpus : file'[c] = IF c = stage THEN new ELSE file[c]
    BY <1>1, <1>2 DEF TypeOK
  <1>6. \A p \in PromptId : Trusted(entries[p], restarts = 0)
    <2>1. \A p \in PromptId : p < prompt
      <3>1. prompt \in Nat /\ Prompts \in Nat
        BY <1>1, Numbers DEF TypeOK
      <3>2. QED
        BY <1>2, <3>1, Numbers
    <2>2. QED
      BY <1>1, <1>2, <2>1 DEF CaptureOK
  <1>7. TypeOK'
    <2>1. file' \in [Corpus -> FileType]
      BY <1>1, <1>2, <1>4 DEF TypeOK
    <2>2. QED
      BY <1>1, <1>2, <1>3, <2>1, AfreshOK DEF TypeOK, Corpus
  <1>8. FilesOK'
    <2>1. ASSUME NEW c \in Corpus
          PROVE  /\ \A p \in PromptId :
                      file'[c].entries[p].temperature = "cold" => ~file'[c].entries[p].reproducible
                 /\ file'[c].age \in {"fresh", "unsteady"} =>
                      \A p \in PromptId : Trusted(file'[c].entries[p], file'[c].age = "fresh")
      <3>1. CASE c = stage
        <4>1. new.age = "fresh" <=> restarts = 0
          BY <1>4
        <4>2. \A p \in PromptId : Trusted(new.entries[p], new.age = "fresh")
          BY <1>4, <1>6, <4>1
        <4>3. QED
          BY <1>5, <3>1, <4>2 DEF Trusted
      <3>2. CASE c # stage
        BY <1>1, <1>5, <3>2 DEF FilesOK
      <3>3. QED
        BY <3>1, <3>2
    <2>2. QED
      BY <2>1 DEF FilesOK
  <1>9. ProgressOK'
    <2>1. new.age \in {"fresh", "unsteady"}
      BY <1>4
    <2>2. \A c \in Corpus : file'[c] = IF c = stage THEN new ELSE file[c]
      BY <1>5
    <2>3. QED
      BY <1>1, <1>2, <1>3, <2>1, <2>2 DEF ProgressOK, Corpus
  <1>10. WarnedOK' /\ OutcomeOK'
    <2>1. outcome = "none"
      BY <1>1, <1>2 DEF OutcomeOK, Corpus
    <2>2. QED
      BY <1>2, <1>3, <2>1 DEF WarnedOK, OutcomeOK, VerdictIsEarned, Verdicts
  <1>11. RowsOK'
    BY <1>1, <1>2, <1>3 DEF RowsOK
  <1>12. CaptureOK'
    BY <1>2, AfreshOK
  <1>13. QED
    BY <1>7, <1>8, <1>9, <1>10, <1>11, <1>12 DEF IInv

\* A capture that fails: the two-pod scripts end, the others keep the file they have.
LEMMA CaptureFailsOK == IInv /\ CaptureFails => IInv'
  <1> SUFFICES ASSUME IInv, CaptureFails PROVE IInv'
    OBVIOUS
  <1>1. TypeOK /\ CaptureOK /\ FilesOK /\ ProgressOK /\ WarnedOK /\ RowsOK /\ OutcomeOK
    BY DEF IInv
  <1>2. /\ stage \in Corpus /\ Afresh
        /\ UNCHANGED <<script, allowed, models, labels, warned, rows, apart>>
        /\ file' = file \/ file' = [file EXCEPT ![stage] = NoFile]
    BY DEF CaptureFails, asked
  <1>3. /\ script = "two_pods" => stage' = "done" /\ outcome' = "not compared"
        /\ script # "two_pods" => stage' \in {"candidate", "load"} /\ outcome' = outcome
    BY DEF CaptureFails, Then
  <1>4. outcome = "none"
    BY <1>1, <1>2 DEF OutcomeOK, Corpus
  <1>5. TypeOK'
    <2>1. NoFile \in FileType
      BY DEF NoFile, File, NoEntries, Missing, Entry, FileType, EntryType
    <2>2. file' \in [Corpus -> FileType]
      BY <1>1, <1>2, <2>1 DEF TypeOK
    <2>3. QED
      BY <1>1, <1>2, <1>3, <2>2, AfreshOK DEF TypeOK, Corpus
  <1>6. FilesOK' /\ ProgressOK'
    <2>1. NoFile.age = "none" /\ \A p \in PromptId : NoFile.entries[p].temperature = "missing"
      BY DEF NoFile, File, NoEntries, Missing, Entry
    <2>2. \A c \in Corpus : file'[c] = file[c] \/ file'[c] = NoFile
      BY <1>1, <1>2 DEF TypeOK
    <2>3. FilesOK'
      BY <1>1, <2>1, <2>2 DEF FilesOK
    <2>4. \A c \in Corpus : c # stage => file'[c] = file[c]
      BY <1>1, <1>2 DEF TypeOK
    <2>5. ProgressOK'
      BY <1>1, <1>2, <1>3, <2>4 DEF ProgressOK, Corpus
    <2>6. QED
      BY <2>3, <2>5
  <1>7. WarnedOK' /\ OutcomeOK'
    BY <1>3, <1>4 DEF WarnedOK, OutcomeOK, VerdictIsEarned, Verdicts
  <1>8. RowsOK'
    BY <1>1, <1>2, <1>3 DEF RowsOK
  <1>9. CaptureOK'
    BY <1>2, AfreshOK
  <1>10. QED
    BY <1>5, <1>6, <1>7, <1>8, <1>9 DEF IInv

\* Loading warns of what is flagged; nothing is compared yet.
LEMMA LoadOK == IInv /\ Load => IInv'
  <1> SUFFICES ASSUME IInv, Load PROVE IInv'
    OBVIOUS
  <1>1. TypeOK /\ CaptureOK /\ FilesOK /\ ProgressOK /\ WarnedOK /\ RowsOK /\ OutcomeOK
    BY DEF IInv
  <1>2. /\ stage = "load"
        /\ warned' = {c \in Corpus : \E p \in PromptId : ~file[c].entries[p].reproducible}
        /\ \/ stage' = "done" /\ outcome' \in {"raised", "refused"}
           \/ stage' = "compare" /\ outcome' = outcome
        /\ UNCHANGED <<script, allowed, models, labels, file, rows, apart, prompt, fetches, attempt,
                       warm_a, entries, cache, restarts, cooled>>
    BY DEF Load, End, asked, capturing
  <1>3. outcome = "none"
    BY <1>1, <1>2 DEF OutcomeOK
  <1>4. TypeOK'
    BY <1>1, <1>2, <1>3 DEF TypeOK, CaptureTypeOK
  <1>5. CaptureOK'
    BY <1>1, <1>2 DEF CaptureOK, Corpus
  <1>6. FilesOK' /\ ProgressOK'
    BY <1>1, <1>2 DEF FilesOK, ProgressOK
  <1>7. WarnedOK'
    BY <1>2 DEF WarnedOK
  <1>8. RowsOK'
    BY <1>1, <1>2 DEF RowsOK, Scored, Corpus
  <1>9. OutcomeOK'
    BY <1>2, <1>3 DEF OutcomeOK, VerdictIsEarned
  <1>10. QED
    BY <1>4, <1>5, <1>6, <1>7, <1>8, <1>9 DEF IInv

\* What a step of the comparison leaves alone.
LEMMA CompareTouchesNoFile ==
    ASSUME IInv, stage = "compare", stage' \in {"compare", "done"},
           UNCHANGED <<asked, file, fetches, attempt, warm_a, entries, cache, restarts, cooled, warned>>
    PROVE  CaptureOK' /\ FilesOK' /\ ProgressOK' /\ WarnedOK'
  <1>1. /\ UNCHANGED <<script, file, fetches, warm_a, cache, restarts, cooled, warned>>
    BY DEF asked
  <1>2. CaptureOK /\ FilesOK /\ ProgressOK /\ WarnedOK
    BY DEF IInv
  <1>3. FilesOK' /\ ProgressOK'
    BY <1>1, <1>2 DEF FilesOK, ProgressOK
  <1>4. WarnedOK'
    BY <1>1, <1>2 DEF WarnedOK
  <1>5. CaptureOK'
    <2>1. fetches = 0 /\ ~cooled /\ stage' \notin Corpus
      BY <1>2 DEF CaptureOK, Corpus
    <2>2. QED
      BY <1>1, <2>1 DEF CaptureOK
  <1>6. QED
    BY <1>3, <1>4, <1>5

\* A prompt that diverged at once has a row, which does not count.
LEMMA DivergedIsUnscored == Diverged \in RowType /\ ~(Diverged.positions > 0)
  <1>1. Diverged.positions = 0 /\ Diverged \in RowType
    BY DEF Diverged, RowType
  <1>2. QED
    BY <1>1

\* A prompt adds a row that is within the thresholds exactly if its answers are close.
LEMMA CompareOK == IInv /\ Compare => IInv'
  <1> SUFFICES ASSUME IInv, Compare PROVE IInv'
    OBVIOUS
  <1>1. TypeOK /\ CaptureTypeOK /\ CaptureOK /\ RowsOK /\ OutcomeOK /\ outcome = "none"
    BY DEF IInv, TypeOK, OutcomeOK, Compare
  <1>2. /\ stage = "compare" /\ prompt <= Prompts
        /\ UNCHANGED <<asked, file, fetches, attempt, warm_a, entries, cache, restarts, cooled, warned>>
        /\ UNCHANGED <<script, allowed, models, labels>>
    BY DEF Compare, asked
  <1>3. apart = {} <=> \A r \in Scored : Within(r)
    BY <1>1, <1>2 DEF RowsOK
  <1>4. rows \subseteq RowType /\ IsFiniteSet(rows) /\ apart \subseteq PromptId /\ prompt \in PromptId
    BY <1>1, <1>2, Numbers DEF TypeOK
  <1> DEFINE Goes == prompt' = prompt + 1 /\ stage' = "compare" /\ outcome' = outcome
             Ends == stage' = "done" /\ outcome' = "raised" /\ prompt' = prompt
             Kept == rows' \subseteq RowType /\ IsFiniteSet(rows') /\ apart' \subseteq PromptId
             Match == apart' = {} <=> \A r \in Scored' : Within(r)
  <1>5. ASSUME Kept, (Goes /\ Match) \/ Ends
        PROVE  IInv'
    <2>1. stage' \in {"compare", "done"} /\ outcome' \in {"none", "raised"}
      BY <1>1, <1>5
    <2>2. CaptureTypeOK'
      <3>1. prompt' \in Nat /\ prompt' >= 1 /\ prompt' <= Prompts + 1
        BY <1>1, <1>2, <1>5, Numbers
      <3>2. /\ warm_a \in {"none", "warm", "cold"} /\ entries \in [PromptId -> EntryType]
            /\ cache \subseteq PromptId /\ cooled \in BOOLEAN
        BY <1>1 DEF CaptureTypeOK
      <3>3. fetches \in {0, 1, 2} /\ attempt \in Nat /\ attempt <= 5 /\ restarts \in Nat /\ restarts <= MaxRestarts
        BY <1>1, Numbers
      <3>4. QED
        BY <1>2, <3>1, <3>2, <3>3, CaptureTypes
    <2>3. TypeOK'
      BY <1>1, <1>2, <1>5, <2>1, <2>2 DEF TypeOK
    <2>4. CaptureOK' /\ FilesOK' /\ ProgressOK' /\ WarnedOK'
      BY <1>2, <2>1, CompareTouchesNoFile
    <2>5. RowsOK'
      BY <1>5, <2>1 DEF RowsOK, Corpus
    <2>6. OutcomeOK'
      BY <1>1, <1>5, <2>1 DEF OutcomeOK, VerdictIsEarned
    <2>7. QED
      BY <2>3, <2>4, <2>5, <2>6 DEF IInv
  <1>6. CASE /\ prompt \notin allowed \/ \E c \in Corpus : file[c].entries[prompt] = Missing
             /\ NextPrompt(prompt)
             /\ UNCHANGED <<rows, apart>>
    <2>1. Goes /\ rows' = rows /\ apart' = apart
      BY <1>2, <1>6 DEF NextPrompt
    <2>2. Match
      BY <1>3, <2>1 DEF Scored
    <2>3. QED
      BY <1>4, <1>5, <2>1, <2>2
  <1>7. CASE \E a \in Answers({"as the reference"}), b \in Answers(Sampled) :
               /\ apart' = IF Close(a, b) THEN apart ELSE apart \cup {prompt}
               /\ LET n == Usable(a, b)
                  IN  \/ Shorter(a, b) = 0 /\ NextPrompt(prompt) /\ UNCHANGED rows
                      \/ /\ Shorter(a, b) > 0 /\ n = 0
                         /\ NextPrompt(prompt) /\ rows' = rows \cup {Diverged}
                      \/ n > 0 /\ ~Even(a, b, n) /\ End("raised") /\ UNCHANGED <<prompt, rows>>
                      \/ /\ n > 0 /\ Even(a, b, n)
                         /\ NextPrompt(prompt) /\ rows' = rows \cup {Metrics(a, b, n)}
    <2>1. PICK a \in Answers({"as the reference"}), b \in Answers(Sampled) :
               /\ apart' = IF Close(a, b) THEN apart ELSE apart \cup {prompt}
               /\ \/ Shorter(a, b) = 0 /\ NextPrompt(prompt) /\ UNCHANGED rows
                  \/ /\ Shorter(a, b) > 0 /\ Usable(a, b) = 0
                     /\ NextPrompt(prompt) /\ rows' = rows \cup {Diverged}
                  \/ Usable(a, b) > 0 /\ ~Even(a, b, Usable(a, b)) /\ End("raised") /\ UNCHANGED <<prompt, rows>>
                  \/ /\ Usable(a, b) > 0 /\ Even(a, b, Usable(a, b))
                     /\ NextPrompt(prompt) /\ rows' = rows \cup {Metrics(a, b, Usable(a, b))}
      BY <1>7
    <2> DEFINE n == Usable(a, b)
               m == Metrics(a, b, n)
    <2>2. Shorter(a, b) = 0 => n = 0
      BY UsableFacts
    <2>3. /\ n = 0 => Close(a, b)
          /\ n > 0 => m \in RowType /\ m.positions > 0 /\ (Within(m) <=> Close(a, b))
      BY CloseIsWithin
    <2> HIDE DEF n, m
    <2>4. apart' \subseteq PromptId
      BY <1>4, <2>1
    <2>5. CASE NextPrompt(prompt) /\ n = 0 /\ rows' \in {rows, rows \cup {Diverged}}
      <3>1. Goes /\ apart' = apart
        BY <1>2, <2>1, <2>3, <2>5 DEF NextPrompt
      <3>2. Diverged \in RowType /\ ~(Diverged.positions > 0)
        BY DivergedIsUnscored
      <3>3. Kept
        BY <1>4, <2>4, <2>5, <3>2, FS_AddElement
      <3>4. Scored' = Scored
        BY <2>5, <3>2 DEF Scored
      <3>5. QED
        BY <1>3, <1>5, <3>1, <3>3, <3>4
    <2>6. CASE Ends /\ rows' = rows
      BY <1>4, <1>5, <2>4, <2>6
    <2>7. CASE NextPrompt(prompt) /\ n > 0 /\ rows' = rows \cup {m}
      <3>1. Goes
        BY <1>2, <2>7 DEF NextPrompt
      <3>2. Kept
        BY <1>4, <2>3, <2>4, <2>7, FS_AddElement
      <3>3. Scored' = Scored \cup {m}
        BY <2>3, <2>7 DEF Scored
      <3>4. (\A r \in Scored' : Within(r)) <=> apart = {} /\ Close(a, b)
        BY <1>3, <2>3, <2>7, <3>3
      <3>5. apart' = {} <=> apart = {} /\ Close(a, b)
        BY <2>1
      <3>6. QED
        BY <1>5, <3>1, <3>2, <3>4, <3>5
    <2>8. QED
      BY <2>1, <2>2, <2>5, <2>6, <2>7 DEF End, n, m
  <1>8. QED
    BY <1>6, <1>7 DEF Compare

\* What the verdict leaves alone.
LEMMA VerdictKeeps ==
    ASSUME IInv, stage = "compare", stage' = "done",
           UNCHANGED <<asked, file, capturing, warned, rows, apart>>,
           outcome' \in {"refused", "pass", "fail"}, VerdictIsEarned'
    PROVE  IInv'
  <1>1. /\ UNCHANGED <<script, allowed, models, labels, file, warned, rows, apart>>
        /\ UNCHANGED <<prompt, fetches, attempt, warm_a, entries, cache, restarts, cooled>>
    BY DEF asked, capturing
  <1>2. CaptureOK' /\ FilesOK' /\ ProgressOK' /\ WarnedOK'
    BY CompareTouchesNoFile DEF capturing
  <1>3. TypeOK'
    BY <1>1 DEF IInv, TypeOK, CaptureTypeOK
  <1>4. RowsOK' /\ OutcomeOK'
    BY DEF RowsOK, OutcomeOK, Corpus
  <1>5. QED
    BY <1>2, <1>3, <1>4 DEF IInv

\* The verdict of the worst rows is the verdict of all.
LEMMA VerdictOK == IInv /\ Verdict => IInv'
  <1> SUFFICES ASSUME IInv, Verdict PROVE IInv'
    OBVIOUS
  <1>1. TypeOK /\ RowsOK
    BY DEF IInv
  <1>2. /\ stage = "compare" /\ stage' = "done"
        /\ UNCHANGED <<asked, file, capturing, warned, rows, apart>>
    BY DEF Verdict, End
  <1>3. /\ UNCHANGED <<script, allowed, models, labels, file, warned, rows, apart>>
        /\ UNCHANGED <<prompt, fetches, attempt, warm_a, entries, cache, restarts, cooled>>
    BY <1>2 DEF asked, capturing
  <1>4. apart = {} <=> \A r \in Scored : Within(r)
    BY <1>1, <1>2 DEF RowsOK
  <1>5. CASE Scored = {}
    <2>1. outcome' = "refused"
      BY <1>5 DEF Verdict, End
    <2>2. VerdictIsEarned'
      BY <2>1 DEF VerdictIsEarned
    <2>3. QED
      BY <1>2, <2>1, <2>2, VerdictKeeps
  <1>6. CASE Scored # {}
    <2>1. outcome' = IF \A r \in Scored : Within(r) THEN "pass" ELSE "fail"
      BY <1>1, <1>6, WorstRowsDecide DEF Verdict, End
    <2>2. outcome' \in {"pass", "fail"} /\ (outcome' = "pass" <=> apart = {})
      BY <1>4, <2>1
    <2>3. Scored' = Scored
      BY <1>3 DEF Scored
    <2>4. VerdictIsEarned'
      BY <1>3, <1>6, <2>2, <2>3 DEF VerdictIsEarned
    <2>5. QED
      BY <1>2, <2>2, <2>4, VerdictKeeps
  <1>7. QED
    BY <1>5, <1>6

\* Nothing changes, or the script is done.
LEMMA StutterOK == IInv /\ UNCHANGED vars => IInv'
  <1> SUFFICES ASSUME IInv, UNCHANGED vars PROVE IInv'
    OBVIOUS
  <1>1. /\ UNCHANGED <<script, allowed, models, labels, stage, file, warned, rows, outcome, apart>>
        /\ UNCHANGED <<prompt, fetches, attempt, warm_a, entries, cache, restarts, cooled>>
    BY DEF vars, asked, capturing, compared
  <1>2. TypeOK'
    BY <1>1 DEF IInv, TypeOK, CaptureTypeOK
  <1>3. CaptureOK'
    BY <1>1 DEF IInv, CaptureOK
  <1>4. FilesOK' /\ ProgressOK' /\ WarnedOK'
    BY <1>1 DEF IInv, FilesOK, ProgressOK, WarnedOK
  <1>5. RowsOK' /\ OutcomeOK'
    BY <1>1 DEF IInv, RowsOK, OutcomeOK, VerdictIsEarned, Scored
  <1>6. QED
    BY <1>2, <1>3, <1>4, <1>5 DEF IInv

-----------------------------------------------------------------------------
(* The theorems *)

\* Whatever the servers answer, however often an attempt fails, a capture fails or
\* a server loses its cache, the inductive invariant holds.
THEOREM Invariance == Spec => []IInv
  <1>1. IInv /\ [Next]_vars => IInv'
    BY FetchReturnsOK, AttemptFailsOK, ServerCoolsOK, WriteOK, CaptureFailsOK, LoadOK, CompareOK,
       VerdictOK, StutterOK DEF Next, Done
  <1>2. QED
    BY InitOK, <1>1, PTL DEF Spec

\* Every variable of the tools keeps its type, in particular a row is a row of
\* numbers and there are finitely many.
THEOREM TypeCorrect == Spec => []TypeOK
  BY Invariance, PTL DEF IInv

\* capture_corpus.py's two answers and the flag it writes: what compare_corpora.py
\* compares was captured warm or _load has warned of it, and it warns of a new
\* corpus only if the server did lose its cache.
THEOREM ColdIsWarnedHolds == Spec => []ColdIsWarned
  <1>1. IInv => ColdIsWarned
    <2>1. ASSUME IInv, outcome \in Verdicts, NEW c \in Corpus
          PROVE  /\ (\E p \in PromptId : file[c].entries[p].temperature = "cold") => c \in warned
                 /\ c \in warned => file[c].age # "fresh"
      <3>1. c \in warned <=> \E p \in PromptId : ~file[c].entries[p].reproducible
        BY <2>1 DEF IInv, WarnedOK
      <3>2. \A p \in PromptId :
               file[c].entries[p].temperature = "cold" => ~file[c].entries[p].reproducible
        BY <2>1 DEF IInv, FilesOK
      <3>3. file[c].age = "fresh" => \A p \in PromptId : file[c].entries[p].reproducible
        BY <2>1 DEF IInv, FilesOK, Trusted
      <3>4. QED
        BY <3>1, <3>2, <3>3
    <2>2. QED
      BY <2>1 DEF ColdIsWarned
  <1>2. QED
    BY <1>1, Invariance, PTL

\* The scripts that rent two pods: whatever fails, what they compare was captured
\* in this run, with every prompt.
THEOREM ComparedAreOfThisRunHolds == Spec => []ComparedAreOfThisRun
  <1>1. IInv => ComparedAreOfThisRun
    <2>1. ASSUME IInv, script = "two_pods", stage \in {"load", "compare"}, NEW c \in Corpus
          PROVE  /\ file[c].age \in {"fresh", "unsteady"}
                 /\ \A p \in PromptId : file[c].entries[p] # Missing
      <3>1. file[c].age \in {"fresh", "unsteady"}
        BY <2>1 DEF IInv, ProgressOK, Corpus
      <3>2. QED
        BY <2>1, <3>1 DEF IInv, FilesOK, Trusted
    <2>2. QED
      BY <2>1 DEF ComparedAreOfThisRun
  <1>2. QED
    BY <1>1, Invariance, PTL

\* compare_corpora.py's exit code: for any number of prompts and any answers, pass
\* and fail say whether some prompt's answers are beyond the tolerances before
\* they part, though only the three worst rows are looked at.
THEOREM VerdictIsEarnedHolds == Spec => []VerdictIsEarned
  BY Invariance, PTL DEF IInv, OutcomeOK

=============================================================================
