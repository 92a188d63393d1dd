--------------------------- MODULE EquivalenceRun ---------------------------
(***************************************************************************)
(* EquivalenceRunner.run (equivalence/runner.py): every prompt is sent to  *)
(* both backends, warmed first, the two answers are graded, and the gate   *)
(* decides one verdict from what could be measured.                        *)
(*                                                                         *)
(* A backend may fail at each of the four awaits of a prompt, or answer in *)
(* any of the ways the runner tells apart (VllmHttpBackend.chat raises on  *)
(* an answer without choices, so the runner never sees one). Of a          *)
(* comparison of two usable answers only what the gate looks at is kept:   *)
(* whether the largest token-matched probability difference and the        *)
(* probability-mass delta are within their thresholds, and the share of    *)
(* positions (in percent) with the same first token. The metrics that are  *)
(* reported but not gated, the texts and the warnings are left out.        *)
(***************************************************************************)
EXTENDS Integers, Sequences, FiniteSets, SequencesExt

CONSTANTS
    Prompts,     \* how many prompts the run has
    Top1Levels,  \* values top1_agreement of a prompt may take, in percent
    Top1Min      \* Thresholds.TOP1_MIN in percent

ASSUME PromptsAssumption == Prompts \in Nat \ {0}
ASSUME Top1Assumption == Top1Levels \subseteq 0..100 /\ Top1Min \in 0..100

VARIABLES
    step,      \* where run() is: the await it waits at, or how it ended
    answer,    \* side -> the answer of its chat call for the current prompt
    per_prompt,\* the modes of the per-prompt results so far
    measured,  \* the comparisons appended to the metric lists so far
    report,    \* the report, or NoReport
    history    \* what the backends did for each prompt that was completed

runVars == <<step, answer, per_prompt, measured, report, history>>

-----------------------------------------------------------------------------
Side == {"a", "b"}

\* "failed": chat raised; "text": no logprobs, or an empty content array;
\* "degenerate" and "nonfinite": logprobs that show a defect of the server;
\* "logprobs": a usable matrix.
Answer == {"failed", "text", "degenerate", "nonfinite", "logprobs"}

Comparison == [tmpd: {"within", "beyond"}, mass: {"within", "beyond"}, top1: Top1Levels]

\* The metric functions raise, e.g. on matrices of different length.
NotComputed == [tmpd |-> "none", mass |-> "none", top1 |-> 0]

Mode == {"error", "unusable", "logprob", "task_parity"}

NoReport == [mode |-> "none"]

Count(seq, mode) == Cardinality({n \in DOMAIN seq : seq[n] = mode})

-----------------------------------------------------------------------------
(* The gate *)

Sum(levels) == FoldSeq(LAMBDA x, acc : x.top1 + acc, 0, levels)

\* Mutant: all() of an empty list.
Passed_WithoutEvidence(lists) ==
    /\ \A n \in DOMAIN lists : lists[n].tmpd = "within" /\ lists[n].mass = "within"
    /\ Sum(lists) >= Top1Min * Len(lists)

\* max() of the two differences, mean of the top-1 agreement, each gated only
\* when something was measured; and no pass without a gated metric.
Passed(lists) ==
    LET gated == lists # <<>>
    IN  /\ gated
        /\ \A n \in DOMAIN lists : lists[n].tmpd = "within"
        /\ \A n \in DOMAIN lists : lists[n].mass = "within"
        /\ Sum(lists) >= Top1Min * Len(lists)

Report(modes, lists) ==
    [mode |-> IF lists # <<>> THEN "logprob" ELSE "task_parity",
     total |-> Prompts,
     compared |-> Prompts - Count(modes, "error"),
     errored |-> Count(modes, "error"),
     passed |-> Passed(lists)]

-----------------------------------------------------------------------------
RunInit ==
    /\ step = "warm_a"
    /\ answer = [s \in Side |-> "failed"]
    /\ per_prompt = <<>>
    /\ measured = <<>>
    /\ report = NoReport
    /\ history = <<>>

\* Mutant: one turn of the loop too many.
EndPrompt_OffByOne(mode, lists, happened) ==
    /\ per_prompt' = Append(per_prompt, mode)
    /\ measured' = lists
    /\ history' = Append(history, happened)
    /\ answer' = [s \in Side |-> "failed"]
    /\ step' = IF Len(per_prompt) = Prompts THEN "aggregate" ELSE "warm_a"
    /\ UNCHANGED report

\* The end of a turn of the loop: append the result, and go on to the next
\* prompt or to the aggregation.
EndPrompt(mode, lists, happened) ==
    /\ per_prompt' = Append(per_prompt, mode)
    /\ measured' = lists
    /\ history' = Append(history, happened)
    /\ answer' = [s \in Side |-> "failed"]
    /\ step' = IF Len(per_prompt) + 1 = Prompts THEN "aggregate" ELSE "warm_a"
    /\ UNCHANGED report

Happened(a, b, cmp) == [a |-> a, b |-> b, cmp |-> cmp]

\* Mutant: the failure of a warm-up makes the prompt an error.
Warm_NotSwallowed(here, next) ==
    /\ step = here
    /\ \/ step' = next /\ UNCHANGED <<answer, per_prompt, measured, report, history>>
       \/ EndPrompt("error", measured, Happened("skipped", "skipped", NotComputed))

\* await self._warm(backend): an answer is dropped, a failure is swallowed.
Warm(here, next) ==
    /\ step = here
    /\ step' = next
    /\ UNCHANGED <<answer, per_prompt, measured, report, history>>

\* await backend.chat(request): a failure makes the prompt an error.
Chat(s, here, next) ==
    /\ step = here
    /\ \/ \E x \in Answer \ {"failed"} :
            /\ answer' = [answer EXCEPT ![s] = x]
            /\ step' = next
            /\ UNCHANGED <<per_prompt, measured, report, history>>
       \/ EndPrompt("error", measured,
                    IF s = "a" THEN Happened("failed", "skipped", NotComputed)
                               ELSE Happened(answer["a"], "failed", NotComputed))

Answered(x) == answer["a"] = x \/ answer["b"] = x

\* No logprobs on one side: compare the texts, for the report only.
GradeText ==
    /\ step = "grade"
    /\ Answered("text")
    /\ EndPrompt("task_parity", measured, Happened(answer["a"], answer["b"], NotComputed))

\* Degenerate token rows, then non-finite logprobs: refuse to grade.
GradeUnusable ==
    /\ step = "grade"
    /\ ~Answered("text")
    /\ Answered("degenerate") \/ Answered("nonfinite")
    /\ EndPrompt("unusable", measured, Happened(answer["a"], answer["b"], NotComputed))

\* Compute the metrics and append them to the lists, all of them or none.
GradeLogprobs ==
    /\ step = "grade"
    /\ \A s \in Side : answer[s] = "logprobs"
    /\ \/ \E cmp \in Comparison :
            EndPrompt("logprob", Append(measured, cmp), Happened("logprobs", "logprobs", cmp))
       \/ EndPrompt("logprob", measured, Happened("logprobs", "logprobs", NotComputed))

\* After the loop: the aggregates and the gate.
Aggregate ==
    /\ step = "aggregate"
    /\ report' = Report(per_prompt, measured)
    /\ step' = "finished"
    /\ UNCHANGED <<answer, per_prompt, measured, history>>

RunNext ==
    \/ Warm("warm_a", "warm_b")
    \/ Warm("warm_b", "chat_a")
    \/ Chat("a", "chat_a", "chat_b")
    \/ Chat("b", "chat_b", "grade")
    \/ GradeText
    \/ GradeUnusable
    \/ GradeLogprobs
    \/ Aggregate

-----------------------------------------------------------------------------
RunTypeOK ==
    /\ step \in {"warm_a", "warm_b", "chat_a", "chat_b", "grade", "aggregate", "finished"}
    /\ answer \in [Side -> Answer]
    /\ per_prompt \in Seq(Mode) /\ Len(per_prompt) <= Prompts
    /\ measured \in Seq(Comparison) /\ Len(measured) <= Len(per_prompt)
    /\ report = NoReport \/ report \in
         [mode: {"logprob", "task_parity"}, total: {Prompts}, compared: 0..Prompts,
          errored: 0..Prompts, passed: BOOLEAN]

Finished == step = "finished"

(* The prompts whose two answers could be compared.                          *)
Comparable == {n \in DOMAIN history : history[n].cmp # NotComputed}

(* The verdict is what the gate says of the comparable prompts, whatever     *)
(* happened to the others and in whatever order: at least one prompt was     *)
(* comparable, in each the differences stayed within their thresholds, and   *)
(* on average the first tokens agree.                                        *)
VerdictMatchesEvidence ==
    Finished =>
        LET top1(level) == Cardinality({n \in Comparable : history[n].cmp.top1 = level})
            total == FoldSet(LAMBDA level, acc : level * top1(level) + acc, 0, Top1Levels)
        IN  report.passed <=>
                /\ Comparable # {}
                /\ \A n \in Comparable : history[n].cmp.tmpd = "within" /\ history[n].cmp.mass = "within"
                /\ total >= Top1Min * Cardinality(Comparable)

(* Each prompt is accounted for once: it errored exactly when one of its two *)
(* measured calls failed, and it is graded only when both sides sent usable  *)
(* logprobs.                                                                 *)
CoverageIsExact ==
    /\ Len(per_prompt) = Len(history)
    /\ \A n \in DOMAIN history :
          /\ per_prompt[n] = "error" <=> "failed" \in {history[n].a, history[n].b}
          /\ per_prompt[n] = "logprob" <=> history[n].a = "logprobs" /\ history[n].b = "logprobs"
    /\ Finished =>
          /\ report.errored + report.compared = Prompts
          /\ report.errored = Cardinality({n \in DOMAIN history :
                                              "failed" \in {history[n].a, history[n].b}})

(* What the comment on the aggregates says, "worst case across prompts, not  *)
(* mean": a pass means no prompt fell below the gate, top-1 included.        *)
WorstPromptDecides ==
    Finished /\ report.passed => \A n \in Comparable : history[n].cmp.top1 >= Top1Min
=============================================================================
