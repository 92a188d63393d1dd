-------------------------- MODULE ValidateBackend --------------------------
(***************************************************************************)
(* tools/validate_backend.py: six checks of a server, each with requests   *)
(* of its own, and one exit code for all of them.  Nothing is carried from *)
(* a check to the next but its code, so the server may change in between.  *)
(*                                                                         *)
(* An action is one request.  Of an answer only what the checks look at is *)
(* kept: which parts it has and, of every position, what its top tokens    *)
(* are, the worst of its values and the sum of their probabilities.        *)
(***************************************************************************)
EXTENDS Naturals, Sequences, Functions

CONSTANT MaxPositions  \* bound of the model: positions of an answer

ASSUME MaxPositionsAssumption == MaxPositions \in Nat

VARIABLES
    server,   \* the answer a steady server always gives, or Changing
    freshIds, \* every answer has an id and a time of its own
    listed,   \* /v1/models lists the expected model
    check,    \* the check that runs; Finished after the last
    warm,     \* check 6: how many answers it has so far
    codes,    \* the codes of the checks so far
    exit,     \* the exit code, or None while it runs
    failures  \* history: how many requests failed or gave no usable JSON

vars == <<server, freshIds, listed, check, warm, codes, exit, failures>>

-----------------------------------------------------------------------------
PASS == 0
FAIL == 1
INCONCLUSIVE == 2

LastCheck == 6
Finished == LastCheck + 1

\* Not an exit code: the program still runs.
None == 3

\* What the tokens of a top_logprobs row are: none at all, a ranking, one token in
\* every place, or either with synthetic token_id:N names.
TopTokens == {"none", "ranking", "repeated", "ranked refs", "repeated refs"}

\* The worst value of a position, the sampled token's included.
Values == {"finite", "non-finite", "sentinel"}

\* The sum of exp(logprob) over the row; NaN and +inf count as exp(64).
Mass == {"zero", "plausible", "above one"}

Position ==
    {e \in [tops : TopTokens, values : Values, mass : Mass] :
        e.tops = "none" => e.mass = "zero"}

Content == UNION {[1..n -> Position] : n \in 0..MaxPositions}

\* Answers that lack a part, and those that have all of them.
Body == {[has |-> part, content |-> <<>>] : part \in {"nothing", "choices"}}
            \cup [has : {"logprobs"}, content : Content]

\* In the place of a server's answer: it is another every time.
Changing == [has |-> "anything", content |-> <<>>]

-----------------------------------------------------------------------------
(* The checks, on the answer they got *)

Positions(body) == Range(body.content)

\* What checks 2, 3 and 5 ask first.
Populated(body) == body.has = "logprobs" /\ body.content # <<>>

LogprobsPopulated(body) ==
    IF Populated(body) /\ (\E e \in Positions(body) : e.tops # "none") THEN PASS ELSE FAIL

\* count_degenerate_token_rows
Degenerate(e) == e.tops \in {"repeated", "repeated refs"}
SyntheticRefs(e) == e.tops \in {"ranked refs", "repeated refs"}

TokenIdentity(body) ==
    IF ~Populated(body) THEN FAIL
    ELSE IF \A e \in Positions(body) : ~Degenerate(e) THEN PASS
    ELSE IF \E e \in Positions(body) : SyntheticRefs(e) THEN INCONCLUSIVE
    ELSE FAIL

\* Without a single value there is nothing to object to.
NoSentinels(body) ==
    IF body.has = "logprobs" /\ (\A e \in Positions(body) : e.values = "finite")
    THEN PASS ELSE FAIL

ProbabilityMass(body) ==
    IF Populated(body) /\ (\A e \in Positions(body) : e.mass = "plausible")
    THEN PASS ELSE FAIL

Code(n, body) ==
    CASE n = 2 -> LogprobsPopulated(body)
      [] n = 3 -> TokenIdentity(body)
      [] n = 4 -> NoSentinels(body)
      [] n = 5 -> ProbabilityMass(body)

-----------------------------------------------------------------------------
Init ==
    /\ server \in Body \cup {Changing}
    /\ freshIds \in BOOLEAN
    /\ listed \in BOOLEAN
    /\ check = 1
    /\ warm = 0
    /\ codes = <<>>
    /\ exit = None
    /\ failures = 0

\* The answers a request may bring.
Answers == IF server = Changing THEN Body ELSE {server}

Verdict(code) ==
    /\ codes' = Append(codes, code)
    /\ check' = check + 1
    /\ warm' = 0
    /\ UNCHANGED <<server, freshIds, listed, exit>>

\* Check 1: GET /v1/models.
CheckModels ==
    /\ check = 1
    /\ exit = None
    /\ Verdict(IF listed THEN PASS ELSE FAIL)
    /\ UNCHANGED failures

\* Checks 2 to 5: one POST each.
CheckAnswer ==
    /\ check \in 2..5
    /\ exit = None
    /\ \E body \in Answers : Verdict(Code(check, body))
    /\ UNCHANGED failures

\* Whether the bodies of the second and third answer say the same.
SameContent == IF server = Changing THEN BOOLEAN ELSE {TRUE}

\* Check 6: three POSTs; the first answer is discarded, the other two are compared
\* to the byte, the ids included.
CheckDeterminism ==
    /\ check = LastCheck
    /\ exit = None
    /\ \/ /\ warm < 2
          /\ warm' = warm + 1
          /\ UNCHANGED <<server, freshIds, listed, check, codes, exit>>
       \/ /\ warm = 2
          /\ \E same \in SameContent :
               Verdict(IF same /\ ~freshIds THEN PASS ELSE FAIL)
    /\ UNCHANGED failures

\* The request of a check fails: an HTTP error or none at all, a timeout included.
\* In check 6 the answers before it are gone with it.
RequestFails ==
    /\ check \in 1..LastCheck
    /\ exit = None
    /\ Verdict(FAIL)
    /\ failures' = failures + 1

\* The answer is not JSON, or an entry lacks a key: nothing catches that, and the
\* traceback makes the exit code 1.
AnswerIsMalformed ==
    /\ check \in 1..LastCheck
    /\ exit = None
    /\ exit' = FAIL
    /\ failures' = failures + 1
    /\ UNCHANGED <<server, freshIds, listed, check, warm, codes>>

\* Mutant: an inconclusive check outweighs a failed one.
Exit_InconclusiveFirst ==
    /\ check = Finished
    /\ exit = None
    /\ exit' = IF Range(codes) = {PASS} THEN 0
               ELSE IF INCONCLUSIVE \in Range(codes) THEN 2 ELSE 1
    /\ UNCHANGED <<server, freshIds, listed, check, warm, codes, failures>>

\* The end of main(): a failure outweighs everything.
Exit ==
    /\ check = Finished
    /\ exit = None
    /\ exit' = IF Range(codes) = {PASS} THEN 0
               ELSE IF FAIL \in Range(codes) THEN 1 ELSE 2
    /\ UNCHANGED <<server, freshIds, listed, check, warm, codes, failures>>

Done == exit # None /\ UNCHANGED vars

Next ==
    \/ CheckModels \/ CheckAnswer \/ CheckDeterminism
    \/ RequestFails \/ AnswerIsMalformed
    \/ Exit \/ Done

Spec == Init /\ [][Next]_vars

-----------------------------------------------------------------------------
TypeOK ==
    /\ server \in Body \cup {Changing}
    /\ freshIds \in BOOLEAN /\ listed \in BOOLEAN
    /\ check \in 1..Finished
    /\ warm \in 0..2
    /\ codes \in Seq({PASS, FAIL, INCONCLUSIVE}) /\ Len(codes) = check - 1
    /\ exit \in {0, 1, 2, None}
    /\ failures \in 0..LastCheck + 1

\* What a position of a sound answer is.
Sound(e) == e.values = "finite" /\ e.mass = "plausible"

\* What the exit code says of a server is true: 0 and 2 only when every request
\* was answered; and of a server that always answers the same, 0 exactly when
\* every position of its answer is a ranking of finite values of plausible
\* mass, and 2 exactly when nothing but repeated token names under synthetic
\* references is wrong with it -- given that it lists the model and repeats
\* itself to the byte.
VerdictFitsServer ==
    exit # None =>
        /\ exit \in {0, 2} => failures = 0 /\ listed /\ ~freshIds
        /\ server # Changing /\ failures = 0 /\ listed /\ ~freshIds =>
             LET e       == Range(server.content)
                 sound   == e # {} /\ \A p \in e : Sound(p)
                 ranked  == \A p \in e : p.tops \in {"ranking", "ranked refs"}
                 excused == \E p \in e : p.tops \in {"ranked refs", "repeated refs"}
             IN  /\ exit = 0 <=> sound /\ ranked
                 /\ exit = 2 <=> sound /\ ~ranked /\ excused
=============================================================================
