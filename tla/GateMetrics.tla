---------------------------- MODULE GateMetrics ----------------------------
(***************************************************************************)
(* What the offline tools compute of two answers: where they part, and the *)
(* metrics of equivalence/metrics.py over the positions before that.       *)
(***************************************************************************)
EXTENDS Integers, Sequences, FiniteSets, Functions

CONSTANTS
    Token,        \* decoded tokens
    Level,        \* probabilities, in units
    MaxPositions  \* bound of the model: positions of an answer

ASSUME AnswerAssumption == Level \subseteq Nat /\ MaxPositions \in Nat

\* An answer: at every position the sampled token and the row of top tokens, of
\* which only the first is modelled; a row may be empty.
Row == {<<>>} \cup {<<[token |-> t, p |-> p]>> : t \in Token, p \in Level}
Answers(sampled) == UNION {[1..n -> [sampled : sampled, top : Row]] : n \in 0..MaxPositions}

\* Sampled tokens are only compared with each other, at one position of both
\* answers: what the reference sampled may always have the same name.
Sampled == {"as the reference", "another"}

AbsDiff(x, y) == IF x < y THEN y - x ELSE x - y

Shorter(a, b) == IF Len(a) < Len(b) THEN Len(a) ELSE Len(b)

\* Mutant: all positions count.
Usable_Everything(a, b) == Shorter(a, b)

\* How many positions lie before the first divergence.
Usable(a, b) ==
    LET n    == Shorter(a, b)
        same == {m \in 0..n : \A i \in 1..m : a[i].sampled = b[i].sampled}
    IN  CHOOSE m \in same : \A k \in same : k <= m

\* _ensure_lists: all rows are as long as the first.
Even(a, b, n) == \A i \in 1..n : Len(a[i].top) = Len(a[1].top) /\ Len(b[i].top) = Len(a[1].top)

TopMatches(x, y) == x # <<>> /\ y # <<>> /\ x[1].token = y[1].token

\* token_matched_prob_diff of rows of one token (TokenMatch has it in full).
Shift(x, y) ==
    CASE x = <<>>         -> 0
      [] TopMatches(x, y) -> AbsDiff(x[1].p, y[1].p)
      [] OTHER            -> x[1].p

P(x) == IF x = <<>> THEN 0 ELSE x[1].p

MassOf(a, n) == FoldFunctionOnSet(+, 0, [i \in 1..n |-> P(a[i].top)], 1..n)

Largest(S) == CHOOSE x \in S : \A y \in S : y <= x

\* The row of a prompt: the worst shift, and as fractions of the positions the
\* change of mass and the top-1 matches.
Metrics(a, b, n) ==
    [positions |-> n,
     shift     |-> Largest({Shift(a[i].top, b[i].top) : i \in 1..n}),
     mass      |-> AbsDiff(MassOf(a, n), MassOf(b, n)),
     top1      |-> Cardinality({i \in 1..n : TopMatches(a[i].top, b[i].top)})]
=============================================================================
