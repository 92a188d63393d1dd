--------------------------- MODULE PortCliProofs ---------------------------
(***************************************************************************)
(* Proofs about PortCli and the run it starts, for any number of prompts,  *)
(* any levels of agreement and any servers.                                *)
(***************************************************************************)
EXTENDS PortCli, SequenceTheorems, FiniteSetTheorems, WellFoundedInduction, TLAPS

-----------------------------------------------------------------------------
(* The inductive invariant *)

Event == [a: Answer \cup {"skipped"}, b: Answer \cup {"skipped"},
          cmp: Comparison \cup {NotComputed}]

Lost(e) == "failed" \in {e.a, e.b}

\* What a prompt's result says agrees with what happened to it.
EntryOK(mode, e) ==
    /\ mode = "error" <=> Lost(e)
    /\ mode = "logprob" <=> e.a = "logprobs" /\ e.b = "logprobs"

\* The results and the history grow together, up to the number of prompts.
TurnsOK ==
    /\ history \in Seq(Event)
    /\ Len(per_prompt) = Len(history)
    /\ IF step \in {"aggregate", "finished"} THEN Len(history) = Prompts
                                             ELSE Len(history) < Prompts
    /\ \A n \in 1..Len(history) : EntryOK(per_prompt[n], history[n])

\* An await that is reached has the answers of those before it.
AnswersOK ==
    /\ step = "chat_b" => answer["a"] # "failed"
    /\ step = "grade" => answer["a"] # "failed" /\ answer["b"] # "failed"

\* The lists of the gate hold what was compared, no more and no less.
EvidenceOK ==
    /\ \A n \in 1..Len(history) : history[n].cmp # NotComputed =>
          \E k \in 1..Len(measured) : measured[k] = history[n].cmp
    /\ \A k \in 1..Len(measured) :
          \E n \in 1..Len(history) : history[n].cmp = measured[k]

\* The recursion behind the folds of the community modules, for sums: an element
\* of the set is chosen, and its value added to the sum over the others.
Chosen(s) == CHOOSE x \in s : TRUE
Rest(s) == s \ {Chosen(s)}

PartialSums(v, S) ==
    CHOOSE g : g = [s \in SUBSET S |-> IF s = {} THEN 0 ELSE v[Chosen(s)] + g[Rest(s)]]

\* The sum of v[x] over the x of S.
Total(v, S) == PartialSums(v, S)[S]

\* The prompts of a history that could be compared, those of them at a level, and
\* what a level adds to the sum.
Compared(h) == {n \in DOMAIN h : h[n].cmp # NotComputed}
AtLevel(h, level) == {n \in Compared(h) : h[n].cmp.top1 = level}
Weights(h) == [level \in Top1Levels |-> level * Cardinality(AtLevel(h, level))]

\* One entry of the lists for each prompt compared, and the sum of the one by
\* entries is the sum of the other by levels.
MeanOK ==
    /\ Len(measured) = Cardinality(Comparable)
    /\ Sum(measured) = Total(Weights(history), Top1Levels)

ReportOK == report = IF step = "finished" THEN Report(per_prompt, measured) ELSE NoReport

\* How the command ended: it never ran, or it ran to its end.
EndOK ==
    /\ exit = Running => output = "none"
    /\ exit # Running =>
          \/ exit = EXIT_CANNOT_RUN /\ output = "none"
          \/ Finished /\ exit = ExitCode /\ output \in {"none", payload}

\* Nothing is measured before the backends are chosen, and between two fixtures
\* nothing that comes up to the threshold on the mean.
FixturesOK ==
    /\ backend["a"] = "none" => measured = <<>>
    /\ Fixtures => measured = <<>> \/ Sum(measured) < Top1Min * Len(measured)

IInv ==
    /\ TypeOK
    /\ TurnsOK
    /\ AnswersOK
    /\ EvidenceOK
    /\ MeanOK
    /\ ReportOK
    /\ EndOK

-----------------------------------------------------------------------------
(* Sums over finite sets *)

\* Among the subsets of a finite set that have some property, one is minimal.
\* (What the proofs below use in the place of an induction.)
LEMMA MinimalSubset ==
    ASSUME NEW S, IsFiniteSet(S), NEW T \in SUBSET SUBSET S, T # {}
    PROVE  \E A \in T : \A B \in T : B \subseteq A => B = A
  <1>1. IsWellFoundedOn(StrictSubsetOrdering(S), FiniteSubsetsOf(S))
    BY FS_StrictSubsetOrderingWellFounded
  <1>2. FiniteSubsetsOf(S) = SUBSET S
    BY FS_FiniteSubsetsOfFinite
  <1>3. \E A \in T : \A B \in T : ~ (<<B, A>> \in StrictSubsetOrdering(S))
    BY <1>1, <1>2, WFMin
  <1>4. PICK A \in T : \A B \in T : ~ (<<B, A>> \in StrictSubsetOrdering(S))
    BY <1>3
  <1>5. ASSUME NEW B \in T, B \subseteq A
        PROVE  B = A
    BY <1>4, <1>5 DEF StrictSubsetOrdering
  <1>6. QED
    BY <1>4, <1>5

\* What makes a function the sums over the subsets of S.
Solves(g, v, S) == g = [s \in SUBSET S |-> IF s = {} THEN 0 ELSE v[Chosen(s)] + g[Rest(s)]]

\* The chosen element is of the set and not of the rest.
LEMMA RestFacts ==
    ASSUME NEW s, s # {}
    PROVE  Chosen(s) \in s /\ Rest(s) \subseteq s /\ Rest(s) # s /\ Chosen(s) \notin Rest(s)
  <1>1. Chosen(s) \in s
    BY DEF Chosen
  <1>2. QED
    BY <1>1 DEF Rest

\* The equation at one subset.
LEMMA SolvesAt ==
    ASSUME NEW g, NEW v, NEW S, Solves(g, v, S), NEW s \in SUBSET S
    PROVE  g[s] = IF s = {} THEN 0 ELSE v[Chosen(s)] + g[Rest(s)]
  BY DEF Solves

\* Two solutions agree where both are defined and their values are the same.
LEMMA SolutionsAgree ==
    ASSUME NEW S, IsFiniteSet(S), NEW v, NEW w, \A i \in S : v[i] = w[i],
           NEW A, NEW B, S \subseteq A, S \subseteq B,
           NEW g, NEW h, Solves(g, v, A), Solves(h, w, B)
    PROVE  g[S] = h[S]
  <1> DEFINE T == {s \in SUBSET S : g[s] # h[s]}
  <1>1. SUFFICES ASSUME T # {}
                 PROVE  FALSE
    OBVIOUS
  <1>2. PICK s \in T : \A t \in T : t \subseteq s => t = s
    <2>1. T \in SUBSET SUBSET S
      OBVIOUS
    <2> HIDE DEF T
    <2>2. QED
      BY <1>1, <2>1, MinimalSubset
  <1>3. s \in SUBSET A /\ s \in SUBSET B /\ s \subseteq S /\ g[s] # h[s]
    BY <1>2
  <1>4. /\ g[s] = IF s = {} THEN 0 ELSE v[Chosen(s)] + g[Rest(s)]
        /\ h[s] = IF s = {} THEN 0 ELSE w[Chosen(s)] + h[Rest(s)]
    BY <1>3 DEF Solves
  <1>5. s # {}
    BY <1>3, <1>4
  <1>6. Rest(s) \notin T /\ Rest(s) \in SUBSET S /\ Chosen(s) \in S
    BY <1>2, <1>3, <1>5, RestFacts
  <1>7. QED
    BY <1>3, <1>4, <1>5, <1>6

\* The recursion has a solution: the sum is defined.
LEMMA SolutionExists ==
    ASSUME NEW S, IsFiniteSet(S), NEW v
    PROVE  \E g : Solves(g, v, S)
  <1> DEFINE T == {s \in SUBSET S : ~\E g : Solves(g, v, s)}
             G(s) == CHOOSE g : Solves(g, v, s)
  <1>1. SUFFICES ASSUME T # {}
                 PROVE  FALSE
    OBVIOUS
  <1>2. PICK A \in T : \A t \in T : t \subseteq A => t = A
    <2>1. T \in SUBSET SUBSET S
      OBVIOUS
    <2> HIDE DEF T
    <2>2. QED
      BY <1>1, <2>1, MinimalSubset
  <1>3. \A s \in SUBSET A : s # A => Solves(G(s), v, s)
    BY <1>2
  <1> HIDE DEF G
  <1> DEFINE h == [s \in SUBSET A |-> IF s = {} THEN 0 ELSE v[Chosen(s)] + G(Rest(s))[Rest(s)]]
  <1>4. ASSUME NEW s \in SUBSET A, s # {}
        PROVE  h[Rest(s)] = G(Rest(s))[Rest(s)]
    <2> DEFINE t == Rest(s)
    <2>1. t \in SUBSET A /\ t # A
      BY <1>4, RestFacts
    <2>2. Solves(G(t), v, t) /\ t \in SUBSET t
      BY <1>3, <2>1
    <2>3. G(t)[t] = IF t = {} THEN 0 ELSE v[Chosen(t)] + G(t)[Rest(t)]
      BY <2>2 DEF Solves
    <2>4. h[t] = IF t = {} THEN 0 ELSE v[Chosen(t)] + G(Rest(t))[Rest(t)]
      BY <2>1
    <2>5. ASSUME t # {}
          PROVE  G(t)[Rest(t)] = G(Rest(t))[Rest(t)]
      <3>1. Rest(t) \subseteq t /\ Rest(t) # A /\ Rest(t) \in SUBSET A
        BY <2>1, <2>5, RestFacts
      <3>2. Solves(G(Rest(t)), v, Rest(t))
        BY <1>3, <3>1
      <3>3. IsFiniteSet(Rest(t))
        BY <1>2, <3>1, FS_Subset
      <3>4. QED
        BY <2>2, <3>1, <3>2, <3>3, SolutionsAgree
    <2>6. QED
      BY <2>3, <2>4, <2>5
  <1>5. h = [s \in SUBSET A |-> IF s = {} THEN 0 ELSE v[Chosen(s)] + h[Rest(s)]]
    BY <1>4
  <1> HIDE DEF h
  <1>6. Solves(h, v, A)
    BY <1>5 DEF Solves
  <1>7. QED
    BY <1>2, <1>6

\* So the recursion the fold stands for holds of its values.
LEMMA PartialSumsDef ==
    ASSUME NEW S, IsFiniteSet(S), NEW v
    PROVE  Solves(PartialSums(v, S), v, S)
  BY SolutionExists DEF Solves, PartialSums

\* A part of the sums over a set is the sum over the part.
LEMMA TotalUnfolds ==
    ASSUME NEW S, IsFiniteSet(S), NEW v
    PROVE  Total(v, S) = IF S = {} THEN 0 ELSE v[Chosen(S)] + Total(v, Rest(S))
  <1>1. PartialSums(v, S)[S]
          = IF S = {} THEN 0 ELSE v[Chosen(S)] + PartialSums(v, S)[Rest(S)]
    BY PartialSumsDef, SolvesAt
  <1>2. ASSUME S # {}
        PROVE  PartialSums(v, S)[Rest(S)] = Total(v, Rest(S))
    <2>1. Rest(S) \subseteq S
      BY <1>2, RestFacts
    <2>2. IsFiniteSet(Rest(S))
      BY <2>1, FS_Subset
    <2>3. QED
      BY <2>1, <2>2, PartialSumsDef, SolutionsAgree DEF Total
  <1>3. QED
    BY <1>1, <1>2 DEF Total

\* A sum is determined by the values summed.
LEMMA TotalCongruence ==
    ASSUME NEW S, IsFiniteSet(S), NEW v, NEW w, \A i \in S : v[i] = w[i]
    PROVE  Total(v, S) = Total(w, S)
  BY PartialSumsDef, SolutionsAgree DEF Total

\* A total of integers is one.
LEMMA TotalType ==
    ASSUME NEW S, IsFiniteSet(S), NEW v, \A i \in S : v[i] \in Int
    PROVE  Total(v, S) \in Int
  <1> DEFINE T == {s \in SUBSET S : Total(v, s) \notin Int}
  <1>1. SUFFICES ASSUME T # {}
                 PROVE  FALSE
    OBVIOUS
  <1>2. PICK s \in T : \A t \in T : t \subseteq s => t = s
    <2>1. T \in SUBSET SUBSET S
      OBVIOUS
    <2> HIDE DEF T
    <2>2. QED
      BY <1>1, <2>1, MinimalSubset
  <1>3. IsFiniteSet(s)
    BY <1>2, FS_Subset
  <1>4. Total(v, s) = IF s = {} THEN 0 ELSE v[Chosen(s)] + Total(v, Rest(s))
    BY <1>3, TotalUnfolds
  <1>5. s # {}
    BY <1>2, <1>4
  <1>6. Rest(s) \notin T /\ Rest(s) \in SUBSET S /\ Chosen(s) \in S
    BY <1>2, <1>5, RestFacts
  <1>7. QED
    BY <1>2, <1>4, <1>5, <1>6

\* A total of zeros is zero.
LEMMA TotalOfZeros ==
    ASSUME NEW S, IsFiniteSet(S), NEW v, \A i \in S : v[i] = 0
    PROVE  Total(v, S) = 0
  <1> DEFINE T == {s \in SUBSET S : Total(v, s) # 0}
  <1>1. SUFFICES ASSUME T # {}
                 PROVE  FALSE
    OBVIOUS
  <1>2. PICK s \in T : \A t \in T : t \subseteq s => t = s
    <2>1. T \in SUBSET SUBSET S
      OBVIOUS
    <2> HIDE DEF T
    <2>2. QED
      BY <1>1, <2>1, MinimalSubset
  <1>3. IsFiniteSet(s)
    BY <1>2, FS_Subset
  <1>4. Total(v, s) = IF s = {} THEN 0 ELSE v[Chosen(s)] + Total(v, Rest(s))
    BY <1>3, TotalUnfolds
  <1>5. s # {}
    BY <1>2, <1>4
  <1>6. Rest(s) \notin T /\ Rest(s) \in SUBSET S /\ Chosen(s) \in S
    BY <1>2, <1>5, RestFacts
  <1>7. QED
    BY <1>2, <1>4, <1>5, <1>6

\* Any element may be taken out first.
LEMMA TotalRemove ==
    ASSUME NEW S, IsFiniteSet(S), NEW v, \A i \in S : v[i] \in Int, NEW x \in S
    PROVE  Total(v, S) = v[x] + Total(v, S \ {x})
  <1> DEFINE T == {s \in SUBSET S : \E y \in s : Total(v, s) # v[y] + Total(v, s \ {y})}
  <1>1. SUFFICES ASSUME T # {}
                 PROVE  FALSE
    OBVIOUS
  <1>2. PICK s \in T : \A t \in T : t \subseteq s => t = s
    <2>1. T \in SUBSET SUBSET S
      OBVIOUS
    <2> HIDE DEF T
    <2>2. QED
      BY <1>1, <2>1, MinimalSubset
  <1>3. PICK y \in s : Total(v, s) # v[y] + Total(v, s \ {y})
    BY <1>2
  <1> DEFINE c == Chosen(s)
             u == (s \ {c}) \ {y}
  <1>4. s \subseteq S /\ s # {} /\ IsFiniteSet(s) /\ c \in s
    BY <1>2, <1>3, FS_Subset, RestFacts
  <1>5. Total(v, s) = v[c] + Total(v, s \ {c})
    BY <1>4, TotalUnfolds DEF Rest
  <1> HIDE DEF c
  <1>6. c # y
    BY <1>3, <1>5
  <1>7. s \ {c} \notin T /\ s \ {y} \notin T
    BY <1>2, <1>3, <1>4
  <1>8. Total(v, s \ {c}) = v[y] + Total(v, u)
    BY <1>3, <1>4, <1>6, <1>7
  <1>9. Total(v, s \ {y}) = v[c] + Total(v, u)
    <2>1. (s \ {y}) \ {c} = u
      OBVIOUS
    <2>2. QED
      BY <1>3, <1>4, <1>6, <1>7, <2>1
  <1>10. IsFiniteSet(u) /\ u \subseteq S
    BY <1>4, FS_Subset
  <1>11. Total(v, u) \in Int /\ v[c] \in Int /\ v[y] \in Int
    BY <1>3, <1>4, <1>10, TotalType
  <1> HIDE DEF u
  <1>12. QED
    BY <1>3, <1>5, <1>8, <1>9, <1>11

-----------------------------------------------------------------------------
(* The mean of the gate *)

\* The levels of agreement are a finite set of numbers.
LEMMA LevelsFinite == IsFiniteSet(Top1Levels) /\ \A level \in Top1Levels : level \in Int
  <1>1. \A level \in Top1Levels : level \in 0..100
    BY Top1Assumption
  <1>2. Top1Levels \in SUBSET Nat /\ 100 \in Nat /\ \A level \in Top1Levels : level <= 100
    BY <1>1
  <1>3. QED
    BY <1>2, FS_BoundedSetOfNaturals

\* The sum of the gate is the sum of the numbers in its list.
Top1Of(lists) == [n \in DOMAIN lists |-> lists[n].top1]

\* The sum over a sequence is the total over its positions.
LEMMA SumIsTotal ==
    ASSUME NEW lists
    PROVE  Sum(lists) = Total(Top1Of(lists), DOMAIN lists)
  BY DEF Sum, FoldSeq, FoldFunction, FoldFunctionOnSet, MapThenFoldSet,
         Total, PartialSums, Top1Of, Chosen, Rest

\* Nothing adds up to nothing.
LEMMA SumOfEmpty == Sum(<<>>) = 0
  <1>1. DOMAIN <<>> = {} /\ IsFiniteSet({})
    BY FS_EmptySet
  <1>2. QED
    BY <1>1, SumIsTotal, TotalUnfolds

\* An entry more adds its number.
LEMMA SumOfAppend ==
    ASSUME NEW lists \in Seq(Comparison), NEW cmp \in Comparison
    PROVE  Sum(lists) \in Int /\ Sum(Append(lists, cmp)) = Sum(lists) + cmp.top1
  <1> DEFINE k == Len(lists)
             longer == Append(lists, cmp)
  <1>2. /\ k \in Nat /\ DOMAIN lists = 1..k /\ DOMAIN longer = 1..(k + 1)
        /\ \A n \in 1..k : longer[n] = lists[n]
        /\ longer[k + 1] = cmp /\ k + 1 \in 1..(k + 1)
        /\ 1..(k + 1) \ {k + 1} = 1..k
        /\ longer \in Seq(Comparison)
    OBVIOUS
  <1>3. IsFiniteSet(1..k) /\ IsFiniteSet(1..(k + 1))
    BY <1>2, FS_Interval
  <1>4. \A x \in Comparison : x.top1 \in Int
    BY LevelsFinite DEF Comparison
  <1>5. /\ \A n \in 1..k : Top1Of(lists)[n] \in Int /\ Top1Of(longer)[n] = Top1Of(lists)[n]
        /\ \A n \in 1..(k + 1) : Top1Of(longer)[n] \in Int
        /\ Top1Of(longer)[k + 1] = cmp.top1
    BY <1>2, <1>4 DEF Top1Of
  <1> HIDE DEF longer, k
  <1>6. Sum(lists) = Total(Top1Of(lists), 1..k) /\ Sum(longer) = Total(Top1Of(longer), 1..(k + 1))
    BY <1>2, SumIsTotal
  <1>7. Total(Top1Of(lists), 1..k) \in Int
    BY <1>3, <1>5, TotalType
  <1>8. Total(Top1Of(longer), 1..(k + 1)) = cmp.top1 + Total(Top1Of(longer), 1..k)
    BY <1>2, <1>3, <1>5, TotalRemove
  <1>9. Total(Top1Of(longer), 1..k) = Total(Top1Of(lists), 1..k)
    BY <1>3, <1>5, TotalCongruence
  <1>10. cmp.top1 \in Int
    BY <1>4
  <1>11. QED
    BY <1>6, <1>7, <1>8, <1>9, <1>10 DEF longer

\* They are finitely many.
LEMMA ComparedFinite ==
    ASSUME NEW h \in Seq(Event), NEW level
    PROVE  /\ IsFiniteSet(Compared(h)) /\ Cardinality(Compared(h)) \in Nat
           /\ IsFiniteSet(AtLevel(h, level)) /\ Cardinality(AtLevel(h, level)) \in Nat
  <1>1. IsFiniteSet(DOMAIN h)
    BY FS_Interval
  <1>2. IsFiniteSet(Compared(h))
    BY <1>1, FS_Subset DEF Compared
  <1>3. IsFiniteSet(AtLevel(h, level))
    BY <1>2, FS_Subset DEF AtLevel
  <1>4. QED
    BY <1>2, <1>3, FS_CardinalityType

\* A prompt without a comparison changes nothing, one with a comparison counts
\* once, at its level.
LEMMA HistoryGrows ==
    ASSUME NEW h \in Seq(Event), NEW e \in Event
    PROVE  /\ e.cmp = NotComputed =>
                /\ Compared(Append(h, e)) = Compared(h)
                /\ Weights(Append(h, e)) = Weights(h)
           /\ e.cmp \in Comparison =>
                /\ Cardinality(Compared(Append(h, e))) = Cardinality(Compared(h)) + 1
                /\ Total(Weights(Append(h, e)), Top1Levels)
                      = Total(Weights(h), Top1Levels) + e.cmp.top1
  <1> DEFINE l == Len(h)
             longer == Append(h, e)
  <1>1. /\ l \in Nat /\ DOMAIN h = 1..l /\ DOMAIN longer = 1..(l + 1)
        /\ \A n \in 1..l : longer[n] = h[n] /\ n # l + 1
        /\ longer[l + 1] = e
        /\ \A n \in 1..(l + 1) : n \in 1..l \/ n = l + 1
        /\ longer \in Seq(Event)
    OBVIOUS
  <1> HIDE DEF l, longer
  <1>2. ASSUME e.cmp = NotComputed
        PROVE  Compared(longer) = Compared(h) /\ Weights(longer) = Weights(h)
    <2>1. Compared(longer) = Compared(h)
      BY <1>1, <1>2 DEF Compared
    <2>2. ASSUME NEW level
          PROVE  AtLevel(longer, level) = AtLevel(h, level)
      BY <1>1, <2>1 DEF AtLevel, Compared
    <2>3. QED
      BY <2>1, <2>2 DEF Weights
  <1>3. ASSUME e.cmp \in Comparison
        PROVE  /\ Cardinality(Compared(longer)) = Cardinality(Compared(h)) + 1
               /\ Total(Weights(longer), Top1Levels) = Total(Weights(h), Top1Levels) + e.cmp.top1
    <2> DEFINE t == e.cmp.top1
    <2>1. e.cmp # NotComputed /\ t \in Top1Levels
      BY <1>3 DEF Comparison, NotComputed
    <2>2. Compared(longer) = Compared(h) \cup {l + 1} /\ l + 1 \notin Compared(h)
      BY <1>1, <2>1 DEF Compared
    <2>3. Cardinality(Compared(longer)) = Cardinality(Compared(h)) + 1
      BY <2>2, ComparedFinite, FS_AddElement
    <2>4. AtLevel(longer, t) = AtLevel(h, t) \cup {l + 1} /\ l + 1 \notin AtLevel(h, t)
      BY <1>1, <2>2 DEF AtLevel, Compared
    <2>5. ASSUME NEW level, level # t
          PROVE  AtLevel(longer, level) = AtLevel(h, level)
      BY <1>1, <2>2, <2>5 DEF AtLevel, Compared
    <2> HIDE DEF t
    <2>6. Cardinality(AtLevel(longer, t)) = Cardinality(AtLevel(h, t)) + 1
      BY <2>4, ComparedFinite, FS_AddElement
    <2>7. \A level \in Top1Levels : level \in Int
      BY LevelsFinite
    <2>8. ASSUME NEW hh \in Seq(Event), NEW level \in Top1Levels
          PROVE  Weights(hh)[level] \in Int
      BY <2>7, ComparedFinite DEF Weights
    <2>9. Weights(longer)[t] = Weights(h)[t] + t
      <3>1. Cardinality(AtLevel(h, t)) \in Nat /\ t \in Int
        BY <2>1, <2>7, ComparedFinite
      <3>2. t * (Cardinality(AtLevel(h, t)) + 1) = t * Cardinality(AtLevel(h, t)) + t
        BY <3>1
      <3>3. QED
        BY <2>1, <2>6, <3>2 DEF Weights, t
    <2>10. \A level \in Top1Levels \ {t} : Weights(longer)[level] = Weights(h)[level]
      BY <2>5 DEF Weights
    <2> DEFINE others == Top1Levels \ {t}
    <2>11. IsFiniteSet(others)
      BY LevelsFinite, FS_Subset
    <2>12. Total(Weights(longer), others) = Total(Weights(h), others)
      BY <2>10, <2>11, TotalCongruence
    <2>13. ASSUME NEW hh \in Seq(Event)
           PROVE  Total(Weights(hh), Top1Levels) = Weights(hh)[t] + Total(Weights(hh), others)
      <3>1. \A level \in Top1Levels : Weights(hh)[level] \in Int
        BY <2>8
      <3>2. t \in Top1Levels
        BY <2>1 DEF t
      <3>3. QED
        BY <3>1, <3>2, LevelsFinite, TotalRemove
    <2>14. Total(Weights(h), others) \in Int /\ Weights(h)[t] \in Int /\ t \in Int
      BY <2>1, <2>7, <2>8, <2>11, TotalType DEF t
    <2> HIDE DEF others
    <2>15. Total(Weights(longer), Top1Levels) = Total(Weights(h), Top1Levels) + t
      BY <1>1, <2>9, <2>12, <2>13, <2>14
    <2>16. QED
      BY <2>3, <2>15 DEF t
  <1>4. QED
    BY <1>2, <1>3 DEF longer

-----------------------------------------------------------------------------
(* Counting errors *)

\* The errors are a finite set of prompts.
LEMMA CountOK ==
    ASSUME NEW modes \in Seq(Mode), NEW mode
    PROVE  /\ Count(modes, mode) \in 0..Len(modes)
           /\ Count(modes, mode) = 0 => \A n \in 1..Len(modes) : modes[n] # mode
           /\ (\A n \in 1..Len(modes) : modes[n] = mode) => Count(modes, mode) = Len(modes)
  <1> DEFINE S == {n \in DOMAIN modes : modes[n] = mode}
  <1>1. DOMAIN modes = 1..Len(modes) /\ Len(modes) \in Nat
    OBVIOUS
  <1>2. IsFiniteSet(1..Len(modes)) /\ Cardinality(1..Len(modes)) = Len(modes)
    BY <1>1, FS_Interval
  <1>3. S \subseteq 1..Len(modes)
    BY <1>1
  <1>4. IsFiniteSet(S) /\ Cardinality(S) <= Len(modes)
    BY <1>2, <1>3, FS_Subset
  <1>5. Cardinality(S) \in Nat /\ (Cardinality(S) = 0 <=> S = {})
    BY <1>4, FS_CardinalityType, FS_EmptySet
  <1>6. (\A n \in 1..Len(modes) : modes[n] = mode) => S = 1..Len(modes)
    BY <1>1
  <1>7. S = {} => \A n \in 1..Len(modes) : modes[n] # mode
    BY <1>1
  <1>8. Count(modes, mode) = Cardinality(S)
    BY DEF Count
  <1> HIDE DEF S
  <1>9. QED
    BY <1>1, <1>2, <1>4, <1>5, <1>6, <1>7, <1>8

\* The report counts the prompts that lost a measured call.
LEMMA ReportCounts ==
    ASSUME IInv, Finished
    PROVE  /\ report.errored = Count(per_prompt, "error")
           /\ report.compared = Prompts - Count(per_prompt, "error")
           /\ report.passed = Passed(measured)
           /\ Count(per_prompt, "error") \in 0..Prompts
           /\ per_prompt \in Seq(Mode) /\ Len(per_prompt) = Prompts /\ Len(history) = Prompts
  <1>1. report = Report(per_prompt, measured)
    BY DEF IInv, ReportOK, Finished
  <1>2. per_prompt \in Seq(Mode) /\ Len(per_prompt) = Prompts /\ Len(history) = Prompts
    BY DEF IInv, TypeOK, RunTypeOK, TurnsOK, Finished
  <1>3. Count(per_prompt, "error") \in 0..Prompts
    BY <1>2, CountOK
  <1>4. QED
    BY <1>1, <1>2, <1>3 DEF Report

-----------------------------------------------------------------------------
(* The steps of the run *)

Elsewhere == <<backend, synthetic, output, exit>>

\* The exit code and the file speak of a run that is over: they stay true while
\* the command runs.
LEMMA StillRunning ==
    ASSUME IInv, exit = Running, UNCHANGED Elsewhere
    PROVE  /\ EndOK'
           /\ backend' \in [Side -> Url \cup {"fixture", "none"}] /\ synthetic' \in BOOLEAN
           /\ output' \in {"none", "pass", "fail"}
           /\ exit' \in {Running, EXIT_PASS, EXIT_GATE_FAILED, EXIT_CANNOT_RUN}
  BY DEF IInv, TypeOK, EndOK, Elsewhere

\* The end of a turn keeps the invariant if its result agrees with what
\* happened and the lists got what was compared.
LEMMA EndPromptStep ==
    ASSUME IInv, exit = Running, UNCHANGED Elsewhere,
           step \notin {"aggregate", "finished"},
           NEW mode \in Mode, NEW lists \in Seq(Comparison), NEW e \in Event,
           EndPrompt(mode, lists, e), EntryOK(mode, e),
           \/ e.cmp = NotComputed /\ lists = measured
           \/ e.cmp \in Comparison /\ lists = Append(measured, e.cmp)
    PROVE  IInv'
  <1> DEFINE l == Len(history)
  <1>1. /\ per_prompt \in Seq(Mode) /\ history \in Seq(Event) /\ measured \in Seq(Comparison)
        /\ Len(per_prompt) = l /\ l \in Nat /\ Prompts \in Nat /\ l < Prompts
        /\ Len(measured) <= l
    BY PromptsAssumption DEF IInv, TypeOK, RunTypeOK, TurnsOK
  <1>2. /\ per_prompt' = Append(per_prompt, mode) /\ history' = Append(history, e)
        /\ measured' = lists /\ report' = report
        /\ answer' = [s \in Side |-> "failed"]
        /\ step' = IF l + 1 = Prompts THEN "aggregate" ELSE "warm_a"
    BY <1>1 DEF EndPrompt
  <1>3. /\ per_prompt' \in Seq(Mode) /\ history' \in Seq(Event)
        /\ Len(per_prompt') = l + 1 /\ Len(history') = l + 1
        /\ \A n \in 1..l : per_prompt'[n] = per_prompt[n] /\ history'[n] = history[n]
        /\ per_prompt'[l + 1] = mode /\ history'[l + 1] = e
        /\ \A n \in 1..(l + 1) : n \in 1..l \/ n = l + 1
        /\ \A n \in 1..l : n \in 1..(l + 1)
    BY <1>1, <1>2
  <1>4. report' = NoReport
    BY <1>2 DEF IInv, ReportOK
  <1>5. Len(lists) <= l + 1
    BY <1>1
  <1>6. TypeOK'
    BY <1>1, <1>2, <1>3, <1>4, <1>5, StillRunning DEF TypeOK, RunTypeOK, Answer
  <1>7. TurnsOK'
    BY <1>1, <1>2, <1>3 DEF IInv, TurnsOK
  <1>8. AnswersOK' /\ ReportOK'
    BY <1>2, <1>4 DEF AnswersOK, ReportOK
  <1>9. EvidenceOK'
    <2>1. CASE e.cmp = NotComputed /\ lists = measured
      BY <1>1, <1>2, <1>3, <2>1 DEF IInv, EvidenceOK
    <2>2. CASE e.cmp \in Comparison /\ lists = Append(measured, e.cmp)
      <3> DEFINE k == Len(measured)
      <3>1. /\ k \in Nat /\ Len(measured') = k + 1 /\ measured'[k + 1] = e.cmp
            /\ \A i \in 1..k : measured'[i] = measured[i]
            /\ \A i \in 1..(k + 1) : i \in 1..k \/ i = k + 1
            /\ \A i \in 1..k : i \in 1..(k + 1)
        BY <1>1, <1>2, <2>2
      <3>2. ASSUME NEW n \in 1..(l + 1), history'[n].cmp # NotComputed
            PROVE  \E i \in 1..(k + 1) : measured'[i] = history'[n].cmp
        <4>1. CASE n = l + 1
          BY <4>1, <1>3, <3>1
        <4>2. CASE n \in 1..l
          <5>1. PICK i \in 1..k : measured[i] = history[n].cmp
            BY <4>2, <3>2, <1>3 DEF IInv, EvidenceOK
          <5>2. i \in 1..(k + 1) /\ measured'[i] = measured[i]
            BY <3>1
          <5>3. history'[n] = history[n]
            BY <4>2, <1>3
          <5>4. QED
            BY <5>1, <5>2, <5>3
        <4>3. QED
          BY <4>1, <4>2, <1>3
      <3>3. ASSUME NEW i \in 1..(k + 1)
            PROVE  \E n \in 1..(l + 1) : history'[n].cmp = measured'[i]
        <4>1. CASE i = k + 1
          BY <4>1, <1>1, <1>3, <3>1
        <4>2. CASE i \in 1..k
          <5>1. PICK n \in 1..l : history[n].cmp = measured[i]
            BY <4>2 DEF IInv, EvidenceOK
          <5>2. n \in 1..(l + 1) /\ history'[n] = history[n]
            BY <5>1, <1>3
          <5>3. history'[n].cmp = measured'[i]
            BY <5>1, <5>2, <4>2, <3>1
          <5>4. QED
            BY <5>2, <5>3
        <4>3. QED
          BY <4>1, <4>2, <3>1
      <3>4. QED
        BY <1>3, <3>1, <3>2, <3>3 DEF EvidenceOK
    <2>3. QED
      BY <2>1, <2>2
  <1>10. MeanOK'
    <2>1. /\ Comparable = Compared(history) /\ Comparable' = Compared(Append(history, e))
          /\ history' = Append(history, e)
      BY <1>2 DEF Comparable, Compared
    <2>2. Cardinality(Comparable) \in Nat
      BY <1>1, <2>1, ComparedFinite
    <2>3. CASE e.cmp = NotComputed /\ lists = measured
      BY <1>1, <1>2, <2>1, <2>3, HistoryGrows DEF IInv, MeanOK
    <2>4. CASE e.cmp \in Comparison /\ lists = Append(measured, e.cmp)
      <3>1. /\ Len(measured') = Len(measured) + 1
            /\ Sum(measured') = Sum(measured) + e.cmp.top1
        BY <1>1, <1>2, <2>4, SumOfAppend
      <3>2. QED
        BY <1>1, <2>1, <2>2, <2>4, <3>1, HistoryGrows DEF IInv, MeanOK
    <2>5. QED
      BY <2>3, <2>4
  <1>11. QED
    BY <1>6, <1>7, <1>8, <1>9, <1>10, StillRunning DEF IInv

\* A warm-up changes nothing but the place, and an answer that arrives is kept.
LEMMA AwaitStep ==
    ASSUME IInv, exit = Running, UNCHANGED Elsewhere,
           step \in {"warm_a", "warm_b", "chat_a", "chat_b"},
           step' \in {"warm_b", "chat_a", "chat_b", "grade"},
           answer' \in [Side -> Answer],
           UNCHANGED <<per_prompt, measured, report, history>>,
           AnswersOK'
    PROVE  IInv'
  <1>1. TypeOK'
    BY StillRunning DEF IInv, TypeOK, RunTypeOK
  <1>2. TurnsOK' /\ EvidenceOK' /\ MeanOK' /\ ReportOK'
    BY DEF IInv, TurnsOK, EvidenceOK, MeanOK, Comparable, ReportOK
  <1>3. QED
    BY <1>1, <1>2, StillRunning DEF IInv

LEMMA WarmStep ==
    ASSUME IInv, exit = Running, UNCHANGED Elsewhere,
           Warm("warm_a", "warm_b") \/ Warm("warm_b", "chat_a")
    PROVE  IInv'
  <1>1. AnswersOK'
    BY DEF Warm, AnswersOK
  <1>2. QED
    BY <1>1, AwaitStep DEF Warm, IInv, TypeOK, RunTypeOK

LEMMA HappenedOK ==
    ASSUME NEW a \in Answer \cup {"skipped"}, NEW b \in Answer \cup {"skipped"},
           NEW cmp \in Comparison \cup {NotComputed}
    PROVE  /\ Happened(a, b, cmp) \in Event /\ Happened(a, b, cmp).a = a
           /\ Happened(a, b, cmp).b = b /\ Happened(a, b, cmp).cmp = cmp
  BY DEF Happened, Event

LEMMA ChatStep ==
    ASSUME IInv, exit = Running, UNCHANGED Elsewhere,
           Chat("a", "chat_a", "chat_b") \/ Chat("b", "chat_b", "grade")
    PROVE  IInv'
  <1>1. answer \in [Side -> Answer] /\ "failed" \in Answer /\ measured \in Seq(Comparison)
    BY DEF IInv, TypeOK, RunTypeOK, Answer
  <1>2. ASSUME NEW s \in Side, NEW x \in Answer \ {"failed"},
               step = (IF s = "a" THEN "chat_a" ELSE "chat_b"),
               step' = (IF s = "a" THEN "chat_b" ELSE "grade"),
               answer' = [answer EXCEPT ![s] = x],
               UNCHANGED <<per_prompt, measured, report, history>>
        PROVE  IInv'
    <2>1. AnswersOK'
      BY <1>1, <1>2 DEF IInv, AnswersOK, Side
    <2>2. QED
      BY <1>1, <1>2, <2>1, AwaitStep
  <1>3. CASE /\ step = "chat_a"
             /\ EndPrompt("error", measured, Happened("failed", "skipped", NotComputed))
    <2> DEFINE e == Happened("failed", "skipped", NotComputed)
    <2>1. e \in Event /\ e.cmp = NotComputed /\ EntryOK("error", e)
      BY <1>1 DEF EntryOK, Lost, Happened, Event
    <2> HIDE DEF e
    <2>2. QED
      BY <1>1, <1>3, <2>1, EndPromptStep DEF Mode, e
  <1>4. CASE /\ step = "chat_b"
             /\ EndPrompt("error", measured, Happened(answer["a"], "failed", NotComputed))
    <2>1. answer["a"] \in Answer
      BY <1>1 DEF Side
    <2>2. EntryOK("error", Happened(answer["a"], "failed", NotComputed))
      BY HappenedOK, <1>1, <2>1 DEF EntryOK, Lost
    <2>3. QED
      BY <1>1, <1>4, <2>1, <2>2, HappenedOK, EndPromptStep DEF Mode
  <1>5. CASE Chat("a", "chat_a", "chat_b")
    <2>1. CASE \E x \in Answer \ {"failed"} :
                  /\ answer' = [answer EXCEPT !["a"] = x] /\ step' = "chat_b"
                  /\ UNCHANGED <<per_prompt, measured, report, history>>
      <3>1. PICK x \in Answer \ {"failed"} :
                  /\ answer' = [answer EXCEPT !["a"] = x] /\ step' = "chat_b"
                  /\ UNCHANGED <<per_prompt, measured, report, history>>
        BY <2>1
      <3>2. step = "chat_a" /\ "a" \in Side
        BY <1>5 DEF Chat, Side
      <3>3. QED
        BY <1>2, <3>1, <3>2
    <2>2. QED
      BY <1>3, <1>5, <2>1 DEF Chat
  <1>6. CASE Chat("b", "chat_b", "grade")
    <2>1. CASE \E x \in Answer \ {"failed"} :
                  /\ answer' = [answer EXCEPT !["b"] = x] /\ step' = "grade"
                  /\ UNCHANGED <<per_prompt, measured, report, history>>
      BY <1>2, <1>6, <2>1 DEF Chat, Side
    <2>2. QED
      BY <1>4, <1>6, <2>1 DEF Chat
  <1>7. QED
    BY <1>5, <1>6

LEMMA GradeStep ==
    ASSUME IInv, exit = Running, UNCHANGED Elsewhere,
           GradeText \/ GradeUnusable \/ GradeLogprobs
    PROVE  IInv'
  <1> DEFINE a == answer["a"]
             b == answer["b"]
  <1>1. /\ step = "grade" /\ measured \in Seq(Comparison)
        /\ a \in Answer /\ b \in Answer /\ a # "failed" /\ b # "failed"
    BY DEF IInv, TypeOK, RunTypeOK, AnswersOK, Side, GradeText, GradeUnusable, GradeLogprobs
  <1>2. CASE GradeText \/ GradeUnusable
    <2>1. PICK mode \in {"task_parity", "unusable"} :
             EndPrompt(mode, measured, Happened(a, b, NotComputed))
      BY <1>2 DEF GradeText, GradeUnusable
    <2>2. ~(a = "logprobs" /\ b = "logprobs")
      BY <1>2 DEF GradeText, GradeUnusable, Answered
    <2>3. EntryOK(mode, Happened(a, b, NotComputed))
      BY <1>1, <2>2, HappenedOK DEF EntryOK, Lost
    <2>4. QED
      BY <1>1, <2>1, <2>3, HappenedOK, EndPromptStep DEF Mode
  <1>3. CASE GradeLogprobs
    <2>1. a = "logprobs" /\ b = "logprobs" /\ "logprobs" \in Answer
      BY <1>3 DEF GradeLogprobs, Side, Answer
    <2>2. ASSUME NEW cmp \in Comparison \cup {NotComputed}
          PROVE  EntryOK("logprob", Happened("logprobs", "logprobs", cmp))
      BY <2>1, HappenedOK DEF EntryOK, Lost
    <2>3. CASE EndPrompt("logprob", measured, Happened("logprobs", "logprobs", NotComputed))
      BY <1>1, <2>1, <2>2, <2>3, HappenedOK, EndPromptStep DEF Mode
    <2>4. ASSUME NEW cmp \in Comparison,
                 EndPrompt("logprob", Append(measured, cmp), Happened("logprobs", "logprobs", cmp))
          PROVE  IInv'
      <3>1. Append(measured, cmp) \in Seq(Comparison)
        BY <1>1
      <3> DEFINE e == Happened("logprobs", "logprobs", cmp)
      <3>2. e \in Event /\ e.cmp = cmp /\ EntryOK("logprob", e)
        BY <2>1, <2>2, HappenedOK
      <3> HIDE DEF e
      <3>3. QED
        BY <1>1, <2>4, <3>1, <3>2, EndPromptStep DEF Mode, e
    <2>5. QED
      BY <1>3, <2>3, <2>4 DEF GradeLogprobs
  <1>4. QED
    BY <1>2, <1>3

LEMMA AggregateStep ==
    ASSUME IInv, exit = Running, UNCHANGED Elsewhere, Aggregate
    PROVE  IInv'
  <1> USE DEF Aggregate
  <1>1. /\ per_prompt \in Seq(Mode) /\ Len(per_prompt) = Prompts /\ Prompts \in Nat
        /\ measured \in Seq(Comparison)
    BY PromptsAssumption DEF IInv, TypeOK, RunTypeOK, TurnsOK
  <1>2. Count(per_prompt, "error") \in 0..Prompts
    BY <1>1, CountOK
  <1>3. Prompts - Count(per_prompt, "error") \in 0..Prompts
    BY <1>1, <1>2
  <1>4. Passed(measured) \in BOOLEAN
    BY DEF Passed
  <1>5. report' \in [mode: {"logprob", "task_parity"}, total: {Prompts}, compared: 0..Prompts,
                     errored: 0..Prompts, passed: BOOLEAN]
    BY <1>2, <1>3, <1>4 DEF Report
  <1>6. TypeOK'
    BY <1>5, StillRunning DEF IInv, TypeOK, RunTypeOK
  <1>7. TurnsOK' /\ AnswersOK' /\ EvidenceOK' /\ MeanOK' /\ ReportOK'
    BY DEF IInv, TurnsOK, AnswersOK, EvidenceOK, MeanOK, Comparable, ReportOK
  <1>8. QED
    BY <1>6, <1>7, StillRunning DEF IInv

-----------------------------------------------------------------------------
(* The steps of the command *)

LEMMA ChooseStep == IInv /\ ChooseBackends => IInv'
  <1> SUFFICES ASSUME IInv, ChooseBackends
               PROVE  IInv'
    OBVIOUS
  <1>1. exit = Running /\ output = "none" /\ UNCHANGED <<runVars, output>>
    BY DEF ChooseBackends, IInv, EndOK
  <1>2. /\ backend' \in [Side -> Url \cup {"fixture", "none"}] /\ synthetic' \in BOOLEAN
        /\ exit' \in {Running, EXIT_CANNOT_RUN}
    <2>1. backend \in [Side -> Url \cup {"fixture", "none"}] /\ synthetic \in BOOLEAN
      BY DEF IInv, TypeOK
    <2>2. ASSUME NEW one \in Option, NEW other \in Option, NEW distinctNames \in BOOLEAN,
                 ChooseNamed(one, other, distinctNames), UNCHANGED synthetic
          PROVE  /\ backend' \in [Side -> Url \cup {"fixture", "none"}]
                 /\ synthetic' \in BOOLEAN /\ exit' \in {Running, EXIT_CANNOT_RUN}
      BY <1>1, <2>1, <2>2 DEF ChooseNamed, Side
    <2>3. ASSUME NEW one \in Option, NEW other \in Option, make_backends(one, other)
          PROVE  /\ backend' \in [Side -> Url \cup {"fixture", "none"}]
                 /\ synthetic' \in BOOLEAN /\ exit' \in {Running, EXIT_CANNOT_RUN}
      BY <1>1, <2>1, <2>3 DEF make_backends, Side
    <2>4. QED
      BY <2>2, <2>3 DEF ChooseBackends
  <1>3. TypeOK'
    BY <1>1, <1>2 DEF IInv, TypeOK, RunTypeOK, runVars
  <1>4. TurnsOK' /\ AnswersOK' /\ EvidenceOK' /\ MeanOK' /\ ReportOK'
    BY <1>1 DEF runVars, IInv, TurnsOK, AnswersOK, EvidenceOK, MeanOK, Comparable, ReportOK
  <1>5. EndOK'
    BY <1>1, <1>2 DEF EndOK
  <1>6. QED
    BY <1>3, <1>4, <1>5 DEF IInv

LEMMA ConcludeStep == IInv /\ Conclude => IInv'
  <1> SUFFICES ASSUME IInv, Conclude
               PROVE  IInv'
    OBVIOUS
  <1> USE DEF Conclude
  <1>1. /\ payload' = payload /\ ExitCode' = ExitCode /\ Finished'
        /\ payload \in {"pass", "fail"}
        /\ ExitCode \in {EXIT_PASS, EXIT_GATE_FAILED, EXIT_CANNOT_RUN}
    BY DEF payload, ExitCode, passed, incomplete, nothing_compared, runVars, Finished
  <1>2. EndOK'
    BY <1>1 DEF EndOK, Running, EXIT_PASS, EXIT_GATE_FAILED, EXIT_CANNOT_RUN
  <1>3. TypeOK'
    BY <1>1 DEF IInv, TypeOK, RunTypeOK, runVars
  <1>4. TurnsOK' /\ AnswersOK' /\ EvidenceOK' /\ MeanOK' /\ ReportOK'
    BY DEF runVars, IInv, TurnsOK, AnswersOK, EvidenceOK, MeanOK, Comparable, ReportOK
  <1>5. QED
    BY <1>2, <1>3, <1>4 DEF IInv

LEMMA RaisesStep == IInv /\ RunRaises => IInv'
  <1> SUFFICES ASSUME IInv, RunRaises
               PROVE  IInv'
    OBVIOUS
  <1> USE DEF RunRaises
  <1>1. TypeOK'
    BY DEF IInv, TypeOK, RunTypeOK, runVars
  <1>2. EndOK'
    BY DEF IInv, EndOK, Running, EXIT_CANNOT_RUN
  <1>3. TurnsOK' /\ AnswersOK' /\ EvidenceOK' /\ MeanOK' /\ ReportOK'
    BY DEF runVars, IInv, TurnsOK, AnswersOK, EvidenceOK, MeanOK, Comparable, ReportOK
  <1>4. QED
    BY <1>1, <1>2, <1>3 DEF IInv

\* The invariant holds at first.
LEMMA InitOK == Init => IInv
  <1> SUFFICES ASSUME Init
               PROVE  IInv
    OBVIOUS
  <1> USE DEF Init, RunInit
  <1>1. <<>> \in Seq(Mode) /\ <<>> \in Seq(Comparison) /\ <<>> \in Seq(Event) /\ Len(<<>>) = 0
    OBVIOUS
  <1>2. TypeOK
    <2>1. RunTypeOK
      BY <1>1, PromptsAssumption DEF RunTypeOK, Answer
    <2>2. /\ backend \in [Side -> Url \cup {"fixture", "none"}]
          /\ exit \in {Running, EXIT_PASS, EXIT_GATE_FAILED, EXIT_CANNOT_RUN}
      OBVIOUS
    <2>3. QED
      BY <2>1, <2>2 DEF TypeOK
  <1>3. TurnsOK /\ AnswersOK /\ EvidenceOK /\ ReportOK /\ EndOK
    BY <1>1, PromptsAssumption DEF TurnsOK, AnswersOK, EvidenceOK, ReportOK, EndOK
  <1>4. MeanOK
    <2>1. DOMAIN <<>> = {}
      OBVIOUS
    <2>2. Comparable = {} /\ \A level : AtLevel(history, level) = {}
      BY <2>1 DEF Comparable, AtLevel, Compared
    <2>3. Cardinality({}) = 0
      BY FS_EmptySet
    <2>4. ASSUME NEW level \in Top1Levels
          PROVE  Weights(history)[level] = 0
      <3>1. Weights(history)[level] = level * 0
        BY <2>2, <2>3 DEF Weights
      <3>2. QED
        BY <3>1, LevelsFinite
    <2>5. Total(Weights(history), Top1Levels) = 0
      BY <2>4, LevelsFinite, TotalOfZeros
    <2>6. Sum(measured) = 0
      BY SumOfEmpty
    <2>7. QED
      BY <1>1, <2>2, <2>3, <2>5, <2>6 DEF MeanOK
  <1>5. QED
    BY <1>2, <1>3, <1>4 DEF IInv

\* Every step keeps the invariant.
LEMMA NextOK == IInv /\ [Next]_vars => IInv'
  <1> SUFFICES ASSUME IInv, [Next]_vars
               PROVE  IInv'
    OBVIOUS
  <1>1. CASE ChooseBackends
    BY <1>1, ChooseStep
  <1>2. CASE Compare
    <2>1. exit = Running /\ RunNext /\ UNCHANGED Elsewhere
      BY <1>2 DEF Compare, Elsewhere
    <2>2. QED
      BY <2>1, WarmStep, ChatStep, GradeStep, AggregateStep DEF RunNext
  <1>3. CASE Conclude
    BY <1>3, ConcludeStep
  <1>4. CASE RunRaises
    BY <1>4, RaisesStep
  <1>5. CASE UNCHANGED vars
    <2> USE <1>5 DEF vars, runVars
    <2>1. TypeOK' /\ TurnsOK' /\ AnswersOK'
      BY DEF IInv, TypeOK, RunTypeOK, TurnsOK, AnswersOK
    <2>2. EvidenceOK' /\ MeanOK' /\ ReportOK'
      BY DEF IInv, EvidenceOK, MeanOK, Comparable, ReportOK
    <2>3. EndOK'
      BY DEF IInv, EndOK, Finished, ExitCode, payload, passed, incomplete, nothing_compared
    <2>4. QED
      BY <2>1, <2>2, <2>3 DEF IInv
  <1>6. QED
    BY <1>1, <1>2, <1>3, <1>4, <1>5 DEF Next

-----------------------------------------------------------------------------
(* Two fixtures *)

\* A turn of the loop leaves the lists of the gate, or appends one comparison.
LEMMA MeasuredGrows ==
    ASSUME IInv, RunNext
    PROVE  measured' = measured \/ \E cmp \in Comparison : measured' = Append(measured, cmp)
  BY DEF RunNext, Warm, Chat, GradeText, GradeUnusable, GradeLogprobs, Aggregate, EndPrompt

\* A mean over entries below the threshold is below it.
LEMMA BelowStaysBelow ==
    ASSUME NEW lists \in Seq(Comparison), NEW cmp \in Comparison, cmp.top1 < Top1Min,
           lists = <<>> \/ Sum(lists) < Top1Min * Len(lists)
    PROVE  LET longer == Append(lists, cmp) IN Sum(longer) < Top1Min * Len(longer)
  <1> DEFINE longer == Append(lists, cmp)
             n == Len(lists)
  <1>1. cmp.top1 \in Int /\ Top1Min \in Int /\ n \in Nat
    <2>1. cmp.top1 \in Top1Levels
      BY DEF Comparison
    <2>2. cmp.top1 \in Int
      BY <2>1, LevelsFinite
    <2>3. Top1Min \in Int
      BY Top1Assumption
    <2>4. QED
      BY <2>2, <2>3
  <1>2. Sum(lists) \in Int /\ Sum(longer) = Sum(lists) + cmp.top1 /\ Len(longer) = n + 1
    BY SumOfAppend
  <1>3. Top1Min * (n + 1) = Top1Min * n + Top1Min /\ Top1Min * n \in Int
    BY <1>1
  <1>4. Sum(lists) <= Top1Min * n
    <2>1. CASE lists = <<>>
      <3>1. n = 0 /\ Sum(lists) = 0
        BY <2>1, SumOfEmpty
      <3>2. Top1Min * 0 = 0
        BY <1>1
      <3>3. QED
        BY <3>1, <3>2
    <2>2. CASE Sum(lists) < Top1Min * n
      BY <1>2, <1>3, <2>2
    <2>3. QED
      BY <2>1, <2>2
  <1> HIDE DEF longer, n
  <1>5. Sum(longer) < Top1Min * Len(longer)
    BY <1>1, <1>2, <1>3, <1>4
  <1>6. QED
    BY <1>5 DEF longer

\* A turn of the run between two fixtures measures nothing that comes up to the
\* threshold.
LEMMA FixturesCompare == IInv /\ FixturesOK /\ Compare => FixturesOK'
  <1> SUFFICES ASSUME IInv, FixturesOK, Compare
               PROVE  FixturesOK'
    OBVIOUS
  <1>1. backend' = backend /\ backend["a"] # "none" /\ Fixtures' = Fixtures /\ RunNext
    BY DEF Compare, Fixtures
  <1>2. measured \in Seq(Comparison)
    BY DEF IInv, TypeOK, RunTypeOK
  <1>3. CASE measured' = measured
    BY <1>1, <1>3 DEF FixturesOK
  <1>4. ASSUME NEW cmp \in Comparison, measured' = Append(measured, cmp), Fixtures
        PROVE  Sum(measured') < Top1Min * Len(measured')
    <2>1. measured'[Len(measured) + 1] = cmp /\ Len(measured) + 1 \in DOMAIN measured'
      BY <1>2, <1>4
    <2>2. cmp.top1 < Top1Min
      BY <1>4, <2>1 DEF Compare
    <2>3. QED
      BY <1>2, <1>4, <2>2, BelowStaysBelow DEF FixturesOK
  <1>5. QED
    BY <1>1, <1>3, <1>4, MeasuredGrows DEF FixturesOK

\* The other steps measure nothing.
LEMMA FixturesNext == IInv /\ FixturesOK /\ [Next]_vars => FixturesOK'
  <1> SUFFICES ASSUME IInv, FixturesOK, [Next]_vars
               PROVE  FixturesOK'
    OBVIOUS
  <1>1. CASE ChooseBackends
    <2>1. measured' = measured /\ measured = <<>>
      BY <1>1 DEF ChooseBackends, runVars, FixturesOK
    <2>2. QED
      BY <2>1 DEF FixturesOK
  <1>2. CASE Compare
    BY <1>2, FixturesCompare
  <1>3. CASE RunRaises \/ Conclude \/ UNCHANGED vars
    <2>1. measured' = measured /\ backend' = backend
      BY <1>3 DEF RunRaises, Conclude, vars, runVars
    <2>2. QED
      BY <2>1 DEF FixturesOK, Fixtures
  <1>4. QED
    BY <1>1, <1>2, <1>3 DEF Next

-----------------------------------------------------------------------------
(* The theorems *)

\* IInv is inductive: it holds in every state of every execution.
THEOREM Invariance == Spec => []IInv
  BY InitOK, NextOK, PTL DEF Spec

\* FixturesOK holds as well.
LEMMA FixturesInvariance == Spec => []FixturesOK
  <1>1. Init => FixturesOK
    BY DEF Init, RunInit, FixturesOK
  <1>2. QED
    BY <1>1, FixturesNext, Invariance, PTL DEF Spec

\* Every variable keeps its type.
THEOREM TypeCorrect == Spec => []TypeOK
  <1>1. IInv => TypeOK
    BY DEF IInv
  <1>2. QED
    BY <1>1, Invariance, PTL

\* A report that has errors in it, or not, is one in which a prompt lost a call.
LEMMA LostPrompts ==
    ASSUME IInv, Finished
    PROVE  Count(per_prompt, "error") = Cardinality({n \in DOMAIN history : Lost(history[n])})
  <1>1. /\ DOMAIN per_prompt = DOMAIN history /\ DOMAIN history = 1..Len(history)
        /\ \A n \in 1..Len(history) : per_prompt[n] = "error" <=> Lost(history[n])
    BY DEF IInv, TypeOK, RunTypeOK, TurnsOK, EntryOK
  <1>2. {n \in DOMAIN per_prompt : per_prompt[n] = "error"}
          = {n \in DOMAIN history : Lost(history[n])}
    BY <1>1
  <1>3. QED
    BY <1>2 DEF Count

\* The report accounts for every prompt once, as errored or as compared
\* (EquivalenceRunner.run).
THEOREM CoverageIsExactHolds == Spec => []CoverageIsExact
  <1>1. IInv => CoverageIsExact
    <2>1. SUFFICES ASSUME IInv
                   PROVE  CoverageIsExact
      OBVIOUS
    <2>2. /\ Len(per_prompt) = Len(history)
          /\ \A n \in DOMAIN history :
                /\ per_prompt[n] = "error" <=> "failed" \in {history[n].a, history[n].b}
                /\ per_prompt[n] = "logprob" <=>
                      history[n].a = "logprobs" /\ history[n].b = "logprobs"
      BY <2>1 DEF IInv, TurnsOK, EntryOK, Lost
    <2>3. ASSUME Finished
          PROVE  /\ report.errored + report.compared = Prompts
                 /\ report.errored = Cardinality({n \in DOMAIN history :
                                         "failed" \in {history[n].a, history[n].b}})
      <3>1. report.errored + report.compared = Prompts
        BY <2>1, <2>3, ReportCounts, PromptsAssumption
      <3>2. report.errored = Cardinality({n \in DOMAIN history : Lost(history[n])})
        BY <2>1, <2>3, ReportCounts, LostPrompts
      <3>3. QED
        BY <3>1, <3>2 DEF Lost
    <2>4. QED
      BY <2>2, <2>3 DEF CoverageIsExact
  <1>2. QED
    BY <1>1, Invariance, PTL

\* The sum by levels that the property names.
LEMMA EvidenceIsTotal ==
    LET top1(level) == Cardinality({n \in Comparable : history[n].cmp.top1 = level})
    IN  FoldSet(LAMBDA level, acc : level * top1(level) + acc, 0, Top1Levels)
            = Total(Weights(history), Top1Levels)
  BY DEF FoldSet, MapThenFoldSet, Total, PartialSums, Chosen, Rest,
         Weights, AtLevel, Comparable, Compared

\* The verdict of a finished run is what the gate says of the comparable prompts:
\* there is one, none is beyond the thresholds, and the mean of the top-1
\* agreement reaches its threshold (the gate in EquivalenceRunner.run).
THEOREM VerdictMatchesEvidenceHolds == Spec => []VerdictMatchesEvidence
  <1>1. IInv => VerdictMatchesEvidence
    <2> DEFINE total == Total(Weights(history), Top1Levels)
               Within(cmp) == cmp.tmpd = "within" /\ cmp.mass = "within"
    <2>1. SUFFICES ASSUME IInv, Finished
                   PROVE  report.passed <=>
                            /\ Comparable # {}
                            /\ \A n \in Comparable : Within(history[n].cmp)
                            /\ total >= Top1Min * Cardinality(Comparable)
      BY EvidenceIsTotal DEF VerdictMatchesEvidence
    <2>2. /\ measured \in Seq(Comparison) /\ DOMAIN measured = 1..Len(measured)
          /\ history \in Seq(Event) /\ DOMAIN history = 1..Len(history)
      BY <2>1 DEF IInv, TypeOK, RunTypeOK, TurnsOK
    <2>3. report.passed = Passed(measured)
      BY <2>1, ReportCounts
    <2>4. Len(measured) = Cardinality(Comparable) /\ Sum(measured) = total
      BY <2>1 DEF IInv, MeanOK
    <2>5. measured # <<>> <=> Comparable # {}
      <3>1. IsFiniteSet(Comparable)
        BY <2>2, ComparedFinite DEF Comparable, Compared
      <3>2. Len(measured) = 0 <=> Comparable = {}
        BY <2>4, <3>1, FS_EmptySet
      <3>3. QED
        BY <2>2, <3>2
    <2>6. (\A k \in DOMAIN measured : Within(measured[k]))
            <=> \A n \in Comparable : Within(history[n].cmp)
      <3>1. ASSUME NEW n \in Comparable, \A k \in DOMAIN measured : Within(measured[k])
            PROVE  Within(history[n].cmp)
        <4>1. PICK k \in 1..Len(measured) : measured[k] = history[n].cmp
          BY <2>1, <2>2 DEF Comparable, IInv, EvidenceOK
        <4>2. QED
          BY <2>2, <3>1, <4>1
      <3>2. ASSUME NEW k \in DOMAIN measured, \A n \in Comparable : Within(history[n].cmp)
            PROVE  Within(measured[k])
        <4>1. PICK n \in 1..Len(history) : history[n].cmp = measured[k]
          BY <2>1, <2>2 DEF IInv, EvidenceOK
        <4>2. measured[k] # NotComputed
          BY <2>2 DEF Comparison, NotComputed
        <4>3. n \in Comparable
          BY <2>2, <4>1, <4>2 DEF Comparable
        <4>4. QED
          BY <3>2, <4>1, <4>3
      <3> HIDE DEF Within
      <3>3. QED
        BY <3>1, <3>2
    <2> HIDE DEF total
    <2>7. QED
      BY <2>3, <2>4, <2>5, <2>6 DEF Passed
  <1>2. QED
    BY <1>1, Invariance, PTL

\* What a report that passed without errors says of the prompts.
LEMMA PassedMeans ==
    ASSUME IInv, Finished, passed
    PROVE  /\ ~synthetic /\ Passed(measured)
           /\ Count(per_prompt, "error") = 0 /\ report.compared # 0
           /\ \A n \in 1..Len(per_prompt) : per_prompt[n] # "error"
           /\ Comparable # {}
           /\ \A n \in Comparable : history[n].cmp.tmpd = "within" /\ history[n].cmp.mass = "within"
  <1>1. /\ Passed(measured) /\ ~synthetic /\ Count(per_prompt, "error") = 0
        /\ report.compared = Prompts
    <2>1. /\ report.passed /\ ~(report.errored > 0) /\ ~synthetic
      BY DEF passed, incomplete
    <2>2. /\ report.errored = Count(per_prompt, "error") /\ Prompts \in Nat
          /\ report.compared = Prompts - Count(per_prompt, "error")
          /\ report.passed = Passed(measured) /\ Count(per_prompt, "error") \in 0..Prompts
      BY ReportCounts, PromptsAssumption
    <2>3. QED
      BY <2>1, <2>2
  <1>2. /\ measured \in Seq(Comparison) /\ measured # <<>>
        /\ \A k \in 1..Len(measured) : measured[k].tmpd = "within" /\ measured[k].mass = "within"
    BY <1>1 DEF Passed, IInv, TypeOK, RunTypeOK
  <1>3. \A n \in 1..Len(per_prompt) : per_prompt[n] # "error"
    BY <1>1, ReportCounts, CountOK
  <1>4. history \in Seq(Event) /\ DOMAIN history = 1..Len(history)
    BY DEF IInv, TurnsOK
  <1>5. Comparable # {}
    <2>1. 1 \in 1..Len(measured)
      BY <1>2
    <2>2. PICK n \in 1..Len(history) : history[n].cmp = measured[1]
      BY <2>1 DEF IInv, EvidenceOK
    <2>3. measured[1] \in Comparison
      BY <1>2, <2>1
    <2>4. measured[1] # NotComputed
      BY <2>3 DEF Comparison, NotComputed
    <2>5. QED
      BY <1>4, <2>2, <2>4 DEF Comparable
  <1>6. ASSUME NEW n \in Comparable
        PROVE  history[n].cmp.tmpd = "within" /\ history[n].cmp.mass = "within"
    <2>1. PICK k \in 1..Len(measured) : measured[k] = history[n].cmp
      BY <1>4, <1>6 DEF Comparable, IInv, EvidenceOK
    <2>2. QED
      BY <1>2, <2>1
  <1>7. QED
    BY <1>1, <1>3, <1>5, <1>6, PromptsAssumption

\* Exit code 0 means a complete run whose prompts that could be compared are
\* within the thresholds, for which no endpoint option was left out and which did
\* not compare two fixtures, blank options or not (the end of _run_port).
THEOREM ExitZeroCertifiesHolds == Spec => []ExitZeroCertifies
  <1>1. IInv /\ FixturesOK => ExitZeroCertifies
    <2>1. SUFFICES ASSUME IInv, FixturesOK, exit = EXIT_PASS
                   PROVE  /\ "error" \notin Range(per_prompt)
                          /\ Comparable # {}
                          /\ \A n \in Comparable :
                                history[n].cmp.tmpd = "within" /\ history[n].cmp.mass = "within"
                          /\ ~synthetic
                          /\ ~Fixtures
      BY DEF ExitZeroCertifies
    <2>2. Finished /\ ExitCode = EXIT_PASS
      BY <2>1 DEF IInv, EndOK, EXIT_PASS, EXIT_CANNOT_RUN, Running
    <2>3. passed
      BY <2>2 DEF ExitCode, EXIT_PASS, EXIT_CANNOT_RUN, EXIT_GATE_FAILED
    <2>4. DOMAIN per_prompt = 1..Len(per_prompt)
      BY <2>1 DEF IInv, TypeOK, RunTypeOK
    <2>5. ~Fixtures
      <3>1. measured \in Seq(Comparison) /\ Passed(measured)
        BY <2>1, <2>2, <2>3, PassedMeans DEF IInv, TypeOK, RunTypeOK
      <3>2. /\ measured # <<>> /\ Sum(measured) >= Top1Min * Len(measured)
            /\ Sum(measured) \in Int /\ Top1Min * Len(measured) \in Int
        <4>1. measured # <<>> /\ Sum(measured) >= Top1Min * Len(measured)
          BY <3>1 DEF Passed
        <4>2. measured[1] \in Comparison
          BY <3>1, <4>1
        <4>3. Sum(measured) \in Int
          BY <3>1, <4>2, SumOfAppend
        <4>4. Top1Min \in Int /\ Len(measured) \in Int
          BY <3>1, Top1Assumption
        <4>5. QED
          BY <4>1, <4>3, <4>4
      <3>3. QED
        BY <2>1, <3>2 DEF FixturesOK
    <2>6. QED
      BY <2>1, <2>2, <2>3, <2>4, <2>5, PassedMeans DEF Range
  <1>2. QED
    BY <1>1, Invariance, FixturesInvariance, PTL

\* When every prompt lost a measured call, the command could not run
\* (cli.py, the choice between EXIT_CANNOT_RUN and EXIT_GATE_FAILED).
THEOREM OutageIsNotFailureHolds == Spec => []OutageIsNotFailure
  <1>1. IInv => OutageIsNotFailure
    <2>1. SUFFICES ASSUME IInv, exit # Running, Finished, exit = ExitCode,
                          \A n \in DOMAIN history : Lost(history[n])
                   PROVE  exit = EXIT_CANNOT_RUN
      BY DEF IInv, EndOK, OutageIsNotFailure, Lost
    <2>2. \A n \in 1..Len(per_prompt) : per_prompt[n] = "error"
      BY <2>1 DEF IInv, TurnsOK, EntryOK
    <2>3. Count(per_prompt, "error") = Prompts
      BY <2>1, <2>2, ReportCounts, CountOK
    <2>4. report.compared = 0
      BY <2>1, <2>3, ReportCounts, PromptsAssumption
    <2>5. QED
      BY <2>1, <2>4 DEF ExitCode, nothing_compared
  <1>2. QED
    BY <1>1, Invariance, PTL

\* The archived verdict and the exit code agree (_run_port).
THEOREM FileAgreesWithExitHolds == Spec => []FileAgreesWithExit
  <1>1. IInv => FileAgreesWithExit
    <2>1. SUFFICES ASSUME IInv, Finished, exit = ExitCode, output = payload
                   PROVE  output = "pass" <=> exit = EXIT_PASS
      BY DEF IInv, EndOK, FileAgreesWithExit
    <2>2. output = "pass" <=> passed
      BY <2>1 DEF payload, passed
    <2>3. passed => ~nothing_compared
      BY <2>1, PassedMeans DEF nothing_compared
    <2>4. QED
      BY <2>1, <2>2, <2>3 DEF ExitCode, EXIT_PASS, EXIT_CANNOT_RUN, EXIT_GATE_FAILED
  <1>2. QED
    BY <1>1, Invariance, PTL
=============================================================================
