----------------------------- MODULE TokenMatch -----------------------------
(***************************************************************************)
(* token_matched_prob_diff (equivalence/metrics.py), the metric the gate   *)
(* rests on: the loop as it is written, with its two dictionaries, against *)
(* what its docstring says it computes.                                    *)
(*                                                                         *)
(* A logprob is a level: 0 stands for -inf, One for a logprob of 0, what   *)
(* is above One for a positive logprob, which exp(min(_, 0.0)) maps to     *)
(* probability 1, and NaN for NaN. The level of a logprob up to 0 is its   *)
(* probability in units of 1/One; exp is not modelled beyond that.         *)
(***************************************************************************)
EXTENDS Integers, Sequences, FiniteSets

CONSTANTS
    Token,    \* decoded token strings; many token ids share one
    Level,    \* the levels logprobs may have
    NaN,      \* the logprob that is not a number
    One,      \* the level of probability 1
    K,        \* the parameter k: how many ranks of the reference count
    MaxRow,   \* longest row considered (bound)
    MaxRows   \* most rows considered (bound)

ASSUME LevelAssumption == Level \subseteq Nat /\ NaN \notin Int
ASSUME OneAssumption == One \in Nat \ {0}
ASSUME KAssumption == K \in Nat
ASSUME RowAssumption == MaxRow \in Nat /\ MaxRows \in Nat

VARIABLES
    stage,         \* where the function is
    row,           \* how many rows of the zip are done
    a, b,          \* the current row of the reference and of the candidate
    index,         \* how many entries of the current inner loop are done
    occurrences_b, \* token -> logprobs in the order the candidate listed them
    seen,          \* token -> how often the reference row had it so far
    worst,         \* the result so far
    shifts,        \* history: every shift the rows done so far have, by definition
    agreeing       \* history: every row so far agreed

vars == <<stage, row, a, b, index, occurrences_b, seen, worst, shifts, agreeing>>

-----------------------------------------------------------------------------
Logprob == Level \cup {NaN}

\* A row of top-k tokens with its logprobs: two lists, made from the same entries
\* of an answer.
Row == UNION {[tokens : [1..n -> Token], logs : [1..n -> Logprob]] : n \in 0..MaxRow}

NoRow == [tokens |-> <<>>, logs |-> <<>>]

\* min(len(tokens), len(logs)), or what zip() makes of them.
Limit(r) == IF Len(r.tokens) < Len(r.logs) THEN Len(r.tokens) ELSE Len(r.logs)

\* Mutant: a positive logprob is not clamped.
Prob_NotClamped(logprob) == logprob

\* math.exp(min(logprob, 0.0))
Prob(logprob) == IF logprob = NaN THEN NaN ELSE IF logprob > One THEN One ELSE logprob

\* Mutant: abs() is left out.
Distance_Signed(p, q) == p - q

Distance(p, q) == IF p < q THEN q - p ELSE p - q

\* abs(p - q) as a set: a difference with NaN is NaN, which max() never prefers.
Shift(p, q) == IF p = NaN \/ q = NaN THEN {} ELSE {Distance(p, q)}

Larger(w, shift) == IF \E s \in shift : s > w THEN CHOOSE s \in shift : s > w ELSE w

-----------------------------------------------------------------------------
(* What the function is meant to compute *)

\* Which occurrence of its token the entry at i is.
Nth(tokens, i) == Cardinality({j \in 1..i : tokens[j] = tokens[i]})

\* The entry of the candidate that the reference's entry at i is paired with: the
\* n-th of a token with the n-th of the same token. There is at most one.
Partners(ra, rb, i) ==
    {j \in 1..Limit(rb) : /\ rb.tokens[j] = ra.tokens[i]
                          /\ Nth(rb.tokens, j) = Nth(ra.tokens, i)}

\* How far the probability of the entry at i moved; from a token the candidate
\* does not list, to zero.
ShiftAt(ra, rb, i) ==
    LET partners == Partners(ra, rb, i)
        p == Prob(ra.logs[i])
    IN  IF partners = {} THEN Shift(p, 0)
        ELSE UNION {Shift(p, Prob(rb.logs[j])) : j \in partners}

Shifts(ra, rb) == UNION {ShiftAt(ra, rb, i) : i \in {i \in 1..Limit(ra) : i <= K}}

Distinct(tokens) == \A i, j \in DOMAIN tokens : tokens[i] = tokens[j] => i = j
Entries(r) == {<<r.tokens[i], r.logs[i]>> : i \in 1..Limit(r)}

\* The two rows say the same: they are equal, or hold the same entries, of
\* distinct tokens, in another order.
Agree(ra, rb) ==
    \/ ra = rb
    \/ /\ Distinct(ra.tokens) /\ Distinct(rb.tokens)
       /\ Entries(ra) = Entries(rb)

-----------------------------------------------------------------------------
(* The function *)

Init ==
    /\ stage = "next" /\ row = 0
    /\ a = NoRow /\ b = NoRow /\ index = 0
    /\ occurrences_b = [t \in Token |-> <<>>]
    /\ seen = [t \in Token |-> 0]
    /\ worst = 0
    /\ shifts = {} /\ agreeing = TRUE

\* The next pair of rows; a reference row without tokens is passed over.
NextRow ==
    /\ stage = "next" /\ row < MaxRows
    /\ row' = row + 1
    /\ \/ UNCHANGED <<stage, a, b>>
       \/ a' \in {r \in Row : r.tokens # <<>>} /\ b' \in Row /\ stage' = "collect"
    /\ UNCHANGED <<index, occurrences_b, seen, worst, shifts, agreeing>>

\* Mutant: a plain dictionary, which keeps the last of equal tokens.
Collect_KeepsLast ==
    /\ stage = "collect" /\ index < Limit(b)
    /\ occurrences_b' = [occurrences_b EXCEPT ![b.tokens[index + 1]] = <<b.logs[index + 1]>>]
    /\ index' = index + 1
    /\ UNCHANGED <<stage, row, a, b, seen, worst, shifts, agreeing>>

\* occurrences_b.setdefault(token, []).append(logprob)
Collect ==
    /\ stage = "collect" /\ index < Limit(b)
    /\ occurrences_b' = [occurrences_b EXCEPT ![b.tokens[index + 1]] = Append(@, b.logs[index + 1])]
    /\ index' = index + 1
    /\ UNCHANGED <<stage, row, a, b, seen, worst, shifts, agreeing>>

Collected ==
    /\ stage = "collect" /\ index = Limit(b)
    /\ stage' = "match" /\ index' = 0
    /\ UNCHANGED <<row, a, b, occurrences_b, seen, worst, shifts, agreeing>>

\* The probability of the nth (from 0) occurrence of token, or zero.
ProbB(token, nth) ==
    IF nth < Len(occurrences_b[token]) THEN Prob(occurrences_b[token][nth + 1]) ELSE 0

\* Mutant: an entry is counted before it is looked up.
Match_CountsFirst ==
    /\ stage = "match" /\ index < Limit(a)
    /\ LET token == a.tokens[index + 1]
       IN  /\ seen' = [seen EXCEPT ![token] = @ + 1]
           /\ worst' = IF index >= K THEN worst
                       ELSE Larger(worst, Shift(Prob(a.logs[index + 1]), ProbB(token, seen'[token])))
    /\ index' = index + 1
    /\ UNCHANGED <<stage, row, a, b, occurrences_b, shifts, agreeing>>

\* One turn of the loop over the reference row: every entry is counted, those
\* of the first k ranks are compared.
Match ==
    /\ stage = "match" /\ index < Limit(a)
    /\ LET token == a.tokens[index + 1]
           nth   == seen[token]
       IN  /\ seen' = [seen EXCEPT ![token] = nth + 1]
           /\ worst' = IF index >= K THEN worst
                       ELSE Larger(worst, Shift(Prob(a.logs[index + 1]), ProbB(token, nth)))
    /\ index' = index + 1
    /\ UNCHANGED <<stage, row, a, b, occurrences_b, shifts, agreeing>>

\* The end of the row. The dictionaries are made anew for every row; they are
\* emptied here, and the row dropped, so that a state between two rows has
\* nothing in it that is not read again.
Matched ==
    /\ stage = "match" /\ index = Limit(a)
    /\ stage' = "next"
    /\ shifts' = shifts \cup Shifts(a, b)
    /\ agreeing' = (agreeing /\ Agree(a, b))
    /\ a' = NoRow /\ b' = NoRow /\ index' = 0
    /\ occurrences_b' = [t \in Token |-> <<>>]
    /\ seen' = [t \in Token |-> 0]
    /\ UNCHANGED <<row, worst>>

Return ==
    /\ stage = "next"
    /\ stage' = "returned"
    /\ UNCHANGED <<row, a, b, index, occurrences_b, seen, worst, shifts, agreeing>>

Done == stage = "returned" /\ UNCHANGED vars

Next == NextRow \/ Collect \/ Collected \/ Match \/ Matched \/ Return \/ Done

Spec == Init /\ [][Next]_vars

-----------------------------------------------------------------------------
TypeOK ==
    /\ stage \in {"next", "collect", "match", "returned"}
    /\ row \in 0..MaxRows
    /\ a \in Row /\ b \in Row
    /\ index \in 0..MaxRow
    /\ occurrences_b \in [Token -> Seq(Logprob)]
    /\ seen \in [Token -> Nat]
    /\ worst \in Nat
    /\ shifts \in SUBSET Nat
    /\ agreeing \in BOOLEAN

\* The function returns the worst shift of any of the reference's first k tokens
\* over all rows, equal tokens paired by order of appearance: no shift is larger,
\* and unless it is zero it is one of them.
WorstIsExact ==
    stage \in {"next", "returned"} =>
        /\ \A s \in shifts : s <= worst
        /\ worst \in shifts \cup {0}

\* A tensor compared with itself, or with one that only ranks the same distinct
\* tokens in another order, scores zero, repeated tokens and NaN included.
AgreementScoresZero == agreeing /\ stage \in {"next", "returned"} => worst = 0

\* The result is a difference of probabilities, whatever the servers sent.
WithinUnit == worst <= One
=============================================================================
