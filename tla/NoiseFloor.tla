----------------------------- MODULE NoiseFloor -----------------------------
(***************************************************************************)
(* tools/measure_noise_floor.py: the prompts are asked under four          *)
(* conditions -- twice one after the other, in one batch with filler       *)
(* prompts, and in that batch submitted back to front -- and each          *)
(* condition is compared with the first.                                   *)
(*                                                                         *)
(* A result is the prompt it answers, or NoAnswer; what an answer contains *)
(* is left open until the comparison reads it.                             *)
(***************************************************************************)
EXTENDS GateMetrics

CONSTANTS
    Prompts,  \* how many prompts are measured, at least one
    Fillers   \* how many more are in a batch

VARIABLES
    at,          \* the condition at hand, by number
    outstanding, \* the places of the condition that are not answered yet
    results,     \* the results of the condition at hand, in submission order
    conditions,  \* condition -> its results, in the order of the prompts
    compared,    \* how many pairs of the report are done
    outcome      \* how the program ended

vars == <<at, outstanding, results, conditions, compared, outcome>>

-----------------------------------------------------------------------------
Condition == <<"reference", "repeat", "batched", "reordered">>
InBatch(c) == c \in {"batched", "reordered"}

NoAnswer == 0

\* Which places a condition has, and which prompt is submitted at a place.
Places(c) == 1..(IF InBatch(c) THEN Prompts + Fillers ELSE Prompts)
PromptAt(c, i) == IF c = "reordered" THEN Prompts + Fillers + 1 - i ELSE i

\* The results in the order of the prompts: restored[original_index] = value.
Restored(c, rs) ==
    [p \in 1..Prompts |-> LET i == CHOOSE i \in Places(c) : PromptAt(c, i) = p IN rs[i]]

Init ==
    /\ at = 1
    /\ outstanding = Places(Condition[1])
    /\ results = [i \in Places(Condition[1]) |-> NoAnswer]
    /\ conditions = [c \in {} |-> <<>>]
    /\ compared = 0
    /\ outcome = "none"

Measuring == outcome = "none" /\ at <= Len(Condition)

\* A request ends, with logprobs or without: the next one in turn, or in a batch
\* any of them.
OneEnds(i) ==
    /\ Measuring
    /\ i \in outstanding
    /\ InBatch(Condition[at]) \/ \A j \in outstanding : i <= j
    /\ results' = [results EXCEPT ![i] = PromptAt(Condition[at], i)] \/ UNCHANGED results
    /\ outstanding' = outstanding \ {i}
    /\ UNCHANGED <<at, conditions, compared, outcome>>

\* An answer without choices or message: nothing catches that.
OneRaises ==
    /\ Measuring
    /\ outstanding # {}
    /\ outcome' = "malformed answer"
    /\ UNCHANGED <<at, outstanding, results, conditions, compared>>

ConditionEnds ==
    /\ Measuring
    /\ outstanding = {}
    /\ conditions' = [c \in DOMAIN conditions \cup {Condition[at]} |->
                        IF c = Condition[at] THEN Restored(c, results) ELSE conditions[c]]
    /\ at' = at + 1
    /\ LET places == IF at = Len(Condition) THEN {} ELSE Places(Condition[at + 1])
       IN  outstanding' = places /\ results' = [i \in places |-> NoAnswer]
    /\ UNCHANGED <<compared, outcome>>

-----------------------------------------------------------------------------
\* The pairs in the order of the report: condition by condition, prompt by prompt.
Pairs == (Len(Condition) - 1) * Prompts
ConditionOf(pair) == Condition[2 + (pair \div Prompts)]
PromptOf(pair) == 1 + (pair % Prompts)

\* _reject_flat_token_rows: what should be a row of tokens is a token.
RejectsFlatRows(rows) == rows # <<>> /\ rows[1] \in Token

\* What _compare gives top1_token_agreement: [row[0] for row in ta].
RankZero(a, n) == [i \in 1..n |-> a[i].top[1].token]

\* _compare: how the comparison of two answers ends.
Compare(a, b) ==
    LET n == Usable(a, b)
    IN  CASE n = 0                                     -> "compared"
          [] n > 0 /\ ~Even(a, b, n)                   -> "uneven rows"
          [] n > 0 /\ Even(a, b, n) /\ a[1].top = <<>> -> "empty rows"
          [] OTHER -> IF RejectsFlatRows(RankZero(a, n)) \/ RejectsFlatRows(RankZero(b, n))
                      THEN "TypeError" ELSE "compared"

\* A pair in which a result is missing is passed over.
ComparePair ==
    /\ outcome = "none"
    /\ at > Len(Condition)
    /\ compared < Pairs
    /\ LET p == PromptOf(compared)
           c == ConditionOf(compared)
       IN  IF NoAnswer \in {conditions["reference"][p], conditions[c][p]}
           THEN compared' = compared + 1 /\ UNCHANGED outcome
           ELSE \E a \in Answers({"as the reference"}), b \in Answers(Sampled) :
                  IF Compare(a, b) = "compared"
                  THEN compared' = compared + 1 /\ UNCHANGED outcome
                  ELSE outcome' = Compare(a, b) /\ UNCHANGED compared
    /\ UNCHANGED <<at, outstanding, results, conditions>>

WriteReport ==
    /\ outcome = "none"
    /\ at > Len(Condition)
    /\ compared = Pairs
    /\ outcome' = "report"
    /\ UNCHANGED <<at, outstanding, results, conditions, compared>>

Done == outcome # "none" /\ UNCHANGED vars

Next ==
    \/ \E i \in outstanding : OneEnds(i)
    \/ OneRaises \/ ConditionEnds
    \/ ComparePair \/ WriteReport \/ Done

Spec == Init /\ [][Next]_vars

-----------------------------------------------------------------------------
\* Two answers that agree on a position are compared with the gate's metrics, and
\* the program goes on: it does not end in an error of its own making.  (Rows a
\* server left uneven or empty, or an answer without choices, are the server's.)
ComparesWithTheGate == outcome # "TypeError"
=============================================================================
