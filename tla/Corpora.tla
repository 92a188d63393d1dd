------------------------------ MODULE Corpora ------------------------------
(***************************************************************************)
(* Measuring once and comparing offline: tools/capture_corpus.py asks a    *)
(* server every prompt three times and writes a corpus, tools/             *)
(* compare_corpora.py applies the gate to two corpora, and the scripts     *)
(* that rent GPUs run the one and then the other (PodRental has how they   *)
(* rent).                                                                  *)
(*                                                                         *)
(* The server is external: once it has run a prompt it answers it the same *)
(* way every time; an answer that differs from those is called cold, and   *)
(* only comes from a prompt that is not in its cache.  What an answer      *)
(* contains is left open until the comparison reads it.                    *)
(***************************************************************************)
EXTENDS GateMetrics

CONSTANTS
    Prompts,      \* how many prompts PROMPTS has
    MaxRestarts,  \* bound of the model: how often a server loses its cache in a capture
    ProbMax,      \* Thresholds.TOKEN_MATCHED_PROB_DIFF_MAX, in units
    MassMax       \* Thresholds.PROB_MASS_TOLERANCE, in units

ASSUME BoundsAssumption ==
    /\ Prompts \in Nat \ {0} /\ MaxRestarts \in Nat
    /\ ProbMax \in Nat /\ MassMax \in Nat

VARIABLES
    script,    \* who runs the tools
    allowed,   \* the prompts --subset-of leaves
    models,    \* the model names of the two corpora are equal
    labels,    \* their labels are equal
    stage,     \* where the script is
    file,      \* corpus -> the file
    prompt,    \* the prompt at hand, of the capture or of the comparison
    fetches,   \* how many of its three answers are in
    attempt,   \* how many attempts of the current fetch have failed
    warm_a,    \* the second answer
    entries,   \* the entries so far
    cache,     \* the prompts the server at hand has in its cache
    restarts,  \* how often it lost its cache during this capture
    cooled,    \* it lost it between the answers to the prompt at hand
    warned,    \* the corpora _load warned about
    rows,      \* the prompts compared so far, with their metrics
    outcome,   \* what came of the comparison
    apart      \* history: prompts whose answers differ by more than is allowed

capturing == <<prompt, fetches, attempt, warm_a, entries, cache, restarts, cooled>>
asked == <<script, allowed, models, labels>>
compared == <<warned, rows, outcome, apart>>

vars == <<asked, stage, file, capturing, compared>>

-----------------------------------------------------------------------------
Corpus == {"reference", "candidate"}
PromptId == 1..Prompts
Attempts == 5

\* An entry: what its answer was, and reproducible_when_warm.
Entry(temperature, flag) == [temperature |-> temperature, reproducible |-> flag]
Missing == Entry("missing", TRUE)
NoEntries == [p \in PromptId |-> Missing]

File(age, es) == [age |-> age, entries |-> es]

\* No file, or one that cannot be read: json.dump was cut short.
NoFile == File("none", NoEntries)

\* A corpus of an earlier day, of some of the prompts, with entries of these kinds.
Committed(kinds) == {File("committed", es) : es \in [PromptId -> {Missing} \cup kinds]}

Steady == Entry("warm", TRUE)
Varied == Entry("warm", FALSE)

\* By hand any two corpora are compared (of the candidate alone also one that was
\* not reproducible, to have fewer states); a script finds its files there from
\* an earlier run, or not.
Whole == File("committed", [p \in PromptId |-> Steady])

Init ==
    /\ \/ /\ script = "by_hand"
          /\ stage = "load"
          /\ file \in [Corpus -> Committed({Steady, Varied}) \cup {NoFile}]
          /\ file["reference"] \in Committed({Steady}) \cup {NoFile}
          /\ models \in BOOLEAN /\ labels \in BOOLEAN
          /\ allowed \in {PromptId, PromptId \ {1}}
       \/ /\ script \in {"one_pod", "two_pods"}
          /\ stage = IF script = "one_pod" THEN "candidate" ELSE "reference"
          /\ file \in [Corpus -> {Whole, NoFile}]
          /\ models = TRUE /\ labels = FALSE
          /\ allowed = PromptId
    /\ prompt = 1 /\ fetches = 0 /\ attempt = 0
    /\ warm_a = "none"
    /\ entries = NoEntries
    /\ cache = {} /\ restarts = 0 /\ cooled = FALSE
    /\ warned = {} /\ rows = {} /\ outcome = "none" /\ apart = {}

-----------------------------------------------------------------------------
(* capture_corpus.py, for the corpus the stage names *)

\* What the server may answer to the prompt at hand.
Temperature == IF prompt \in cache THEN {"warm"} ELSE {"warm", "cold"}

\* Mutant: two fetches; the first and the second are compared.
FetchReturns_TwoFetches ==
    /\ stage \in Corpus /\ prompt <= Prompts
    /\ attempt < Attempts
    /\ cache' = cache \cup {prompt}
    /\ attempt' = 0
    /\ \E t \in Temperature :
         \/ /\ fetches = 0
            /\ fetches' = 1
            /\ warm_a' = t
            /\ UNCHANGED <<prompt, entries, cooled>>
         \/ /\ fetches > 0
            /\ fetches' = 0
            /\ warm_a' = "none"
            /\ entries' = [entries EXCEPT ![prompt] = Entry(t, warm_a = t)]
            /\ prompt' = prompt + 1
            /\ cooled' = FALSE
    /\ UNCHANGED <<asked, stage, file, restarts, compared>>

\* An answer: the first is discarded, the second kept, the third made the entry,
\* with the flag that says whether it equals the second.
FetchReturns ==
    /\ stage \in Corpus /\ prompt <= Prompts
    /\ attempt < Attempts
    /\ cache' = cache \cup {prompt}
    /\ attempt' = 0
    /\ \E t \in Temperature :
         \/ /\ fetches < 2
            /\ fetches' = fetches + 1
            /\ warm_a' = IF fetches = 1 THEN t ELSE "none"
            /\ UNCHANGED <<prompt, entries, cooled>>
         \/ /\ fetches = 2
            /\ fetches' = 0
            /\ warm_a' = "none"
            /\ entries' = [entries EXCEPT ![prompt] = Entry(t, warm_a = t)]
            /\ prompt' = prompt + 1
            /\ cooled' = FALSE
    /\ UNCHANGED <<asked, stage, file, restarts, compared>>

\* An attempt fails with an HTTP error or without an answer; the server may have
\* run the prompt nevertheless.
AttemptFails ==
    /\ stage \in Corpus /\ prompt <= Prompts
    /\ attempt < Attempts
    /\ attempt' = attempt + 1
    /\ cache' \in {cache, cache \cup {prompt}}
    /\ UNCHANGED <<asked, stage, file, prompt, fetches, warm_a, entries, restarts, cooled, compared>>

\* The server restarts, or evicts what it had; as often as it likes, but at most
\* once from the first answer to a prompt to the third: otherwise all three could
\* be cold alike, and nothing would tell them from warm ones.
ServerCools ==
    /\ stage \in Corpus
    /\ restarts < MaxRestarts /\ ~cooled
    /\ restarts' = restarts + 1
    /\ cooled' = (fetches > 0)
    /\ cache' = {}
    /\ UNCHANGED <<asked, stage, file, prompt, fetches, attempt, warm_a, entries, compared>>

\* After a capture: the other one, or the comparison.
Then == IF stage = "reference" THEN "candidate" ELSE "load"

\* Each capture is a program of its own, against a server of its own.
Afresh ==
    /\ prompt' = 1 /\ fetches' = 0 /\ attempt' = 0
    /\ warm_a' = "none"
    /\ entries' = NoEntries
    /\ cache' = {} /\ restarts' = 0 /\ cooled' = FALSE

\* The file is written once everything is in.  (age keeps, for the properties,
\* whether the server lost its cache meanwhile.)
Write ==
    /\ stage \in Corpus /\ prompt > Prompts
    /\ file' = [file EXCEPT ![stage] = File(IF restarts = 0 THEN "fresh" ELSE "unsteady", entries)]
    /\ stage' = Then
    /\ Afresh
    /\ UNCHANGED <<asked, compared>>

\* Mutant: the two-pod scripts do not look at the exit code either.
CaptureFails_Unnoticed ==
    /\ stage \in Corpus
    /\ stage' = Then
    /\ UNCHANGED outcome
    /\ Afresh
    /\ UNCHANGED <<asked, file, warned, rows, apart>>

\* No attempt succeeded, an answer has no logprobs, or a signal ended the program.
\* The file is as before, or, if it was being written, cannot be read.  The two-pod
\* scripts exit (|| exit 1); grab_mi300x.sh goes on to the comparison.
CaptureFails ==
    /\ stage \in Corpus
    /\ \/ UNCHANGED file
       \/ prompt > Prompts /\ file' = [file EXCEPT ![stage] = NoFile]
    /\ IF script = "two_pods"
       THEN stage' = "done" /\ outcome' = "not compared"
       ELSE stage' = Then /\ UNCHANGED outcome
    /\ Afresh
    /\ UNCHANGED <<asked, warned, rows, apart>>

-----------------------------------------------------------------------------
(* compare_corpora.py *)

End(result) ==
    /\ outcome' = result
    /\ stage' = "done"

\* Both corpora are read, then the one --subset-of names, which may be unreadable
\* too; then they must be of one model and have different labels.
Load ==
    /\ stage = "load"
    /\ warned' = {c \in Corpus : \E p \in PromptId : ~file[c].entries[p].reproducible}
    /\ \/ /\ (\E c \in Corpus : file[c] = NoFile) \/ allowed # PromptId
          /\ End("raised")
       \/ /\ \A c \in Corpus : file[c] # NoFile
          /\ ~models \/ labels
          /\ End("refused")
       \/ /\ \A c \in Corpus : file[c] # NoFile
          /\ models /\ ~labels
          /\ stage' = "compare" /\ UNCHANGED outcome
    /\ UNCHANGED <<asked, file, capturing, rows, apart>>

\* A prompt that diverged on its first token counts, and has no metrics.
Diverged == [positions |-> 0, shift |-> 0, mass |-> 0, top1 |-> 0]

\* Thresholds.TOP1_MIN, in hundredths.
Top1Min == 99

\* What a comparison is meant to find: up to where the answers part, (nearly)
\* all positions name the same token first and give it a close enough
\* probability, what the others named first was not likely, and the probability
\* seen is on the whole unchanged.
Close(a, b) ==
    LET together == {i \in 1..Shorter(a, b) : \A j \in 1..i : a[j].sampled = b[j].sampled}
        alike    == {i \in together : TopMatches(a[i].top, b[i].top)}
        n        == Cardinality(together)
    IN  \/ together = {}
        \/ /\ 100 * Cardinality(alike) >= Top1Min * n
           /\ \A i \in alike : AbsDiff(P(a[i].top), P(b[i].top)) <= ProbMax
           /\ \A i \in together \ alike : P(a[i].top) <= ProbMax
           /\ AbsDiff(MassOf(a, n), MassOf(b, n)) <= MassMax * n

NextPrompt(p) == prompt' = p + 1 /\ UNCHANGED <<stage, outcome>>

\* A prompt of the reference, if the candidate has it too: its answers are
\* compared up to their first divergence.
Compare ==
    /\ stage = "compare" /\ prompt <= Prompts
    /\ \/ /\ prompt \notin allowed \/ \E c \in Corpus : file[c].entries[prompt] = Missing
          /\ NextPrompt(prompt)
          /\ UNCHANGED <<rows, apart>>
       \/ /\ prompt \in allowed /\ \A c \in Corpus : file[c].entries[prompt] # Missing
          /\ \E a \in Answers({"as the reference"}), b \in Answers(Sampled) :
               /\ apart' = IF Close(a, b) THEN apart ELSE apart \cup {prompt}
               /\ LET n == Usable(a, b)
                  IN  \/ /\ Shorter(a, b) = 0
                         /\ NextPrompt(prompt)
                         /\ UNCHANGED rows
                      \/ /\ Shorter(a, b) > 0 /\ n = 0
                         /\ NextPrompt(prompt)
                         /\ rows' = rows \cup {Diverged}
                      \/ /\ n > 0 /\ ~Even(a, b, n)
                         /\ End("raised")
                         /\ UNCHANGED <<prompt, rows>>
                      \/ /\ n > 0 /\ Even(a, b, n)
                         /\ NextPrompt(prompt)
                         /\ rows' = rows \cup {Metrics(a, b, n)}
    /\ UNCHANGED <<asked, file, fetches, attempt, warm_a, entries, cache, restarts, cooled, warned>>

Scored == {r \in rows : r.positions > 0}

\* The row with the least top-1 agreement.
WorstTop1 == CHOOSE r \in Scored : \A s \in Scored : r.top1 * s.positions <= s.top1 * r.positions

WorstShift == Largest({r.shift : r \in Scored})
WorstMass == CHOOSE r \in Scored : \A s \in Scored : r.mass * s.positions >= s.mass * r.positions

Verdict ==
    /\ stage = "compare" /\ prompt > Prompts
    /\ CASE Scored = {} -> End("refused")
         [] OTHER ->
              End(IF /\ WorstShift <= ProbMax
                     /\ WorstMass.mass <= MassMax * WorstMass.positions
                     /\ 100 * WorstTop1.top1 >= Top1Min * WorstTop1.positions
                  THEN "pass" ELSE "fail")
    /\ UNCHANGED <<asked, file, capturing, warned, rows, apart>>

Done == stage = "done" /\ UNCHANGED vars

Next ==
    \/ FetchReturns \/ AttemptFails \/ ServerCools \/ Write \/ CaptureFails
    \/ Load \/ Compare \/ Verdict \/ Done

Spec == Init /\ [][Next]_vars

-----------------------------------------------------------------------------
Verdicts == {"pass", "fail"}

\* What is compared was captured warm, or the comparison warned about it, and it
\* warns of a new corpus only if the server did lose its cache during the
\* capture.  (Within the assumption that ServerCools states.)
ColdIsWarned ==
    outcome \in Verdicts =>
        \A c \in Corpus :
            /\ (\E p \in PromptId : file[c].entries[p].temperature = "cold") => c \in warned
            /\ c \in warned => file[c].age # "fresh"

\* A script that captures both corpora never compares one that is left from an
\* earlier run, however a capture ends, and what it compares has every prompt.
\* (grab_mi300x.sh is exempt: its reference is an old one by design, and its
\* candidate may be, for want of the exit the others have.)
ComparedAreOfThisRun ==
    script = "two_pods" /\ stage \in {"load", "compare"} =>
        \A c \in Corpus :
            /\ file[c].age \in {"fresh", "unsteady"}
            /\ \A p \in PromptId : file[c].entries[p] # Missing

\* The verdict follows from what both servers said before they parted: pass means
\* that something was compared and no prompt is beyond the tolerances, fail
\* that one is.  No prompt is hidden by others, and none condemned by what came
\* after its divergence.
VerdictIsEarned ==
    /\ outcome = "pass" => Scored # {} /\ apart = {}
    /\ outcome = "fail" => apart # {}
=============================================================================
