------------------------------ MODULE PortCli ------------------------------
(***************************************************************************)
(* `ruitong port` (cli.py _run_port): the backends chosen from the command *)
(* line, one equivalence run, the coverage gate on its report, the report  *)
(* file, and the exit code CI acts on.                                     *)
(***************************************************************************)
EXTENDS EquivalenceRun

CONSTANT Url    \* addresses of model servers

ASSUME UrlAssumption == Url \cap {"missing", "blank", "fixture", "none"} = {}

VARIABLES
    backend,    \* side -> the server it talks to, or "fixture", or "none" yet
    synthetic,  \* what the report says of itself
    output,     \* the report file: "none", or the verdict written to it
    exit        \* the exit code, or Running

vars == <<runVars, backend, synthetic, output, exit>>

Running == -1
EXIT_PASS == 0
EXIT_GATE_FAILED == 1
EXIT_CANNOT_RUN == 2

Init ==
    /\ RunInit
    /\ backend = [s \in Side |-> "none"]
    /\ synthetic = FALSE
    /\ output = "none"
    /\ exit = Running

\* The value of an endpoint option: a URL, not given, or an empty string.
Option == Url \cup {"missing", "blank"}

\* --reference and --candidate, once one of them has a value: both are required,
\* with a URL each, different names and different URLs, or _fail.
ChooseNamed(one, other, distinctNames) ==
    /\ {one, other} \cap Url # {}
    /\ IF one \in Url /\ other \in Url /\ distinctNames /\ one # other
       THEN /\ backend' = [a |-> one, b |-> other]
            /\ UNCHANGED exit
       ELSE /\ exit' = EXIT_CANNOT_RUN
            /\ UNCHANGED backend

\* _make_backends: a fixture stands in for an option that is missing or blank
\* (`if cuda_endpoint`), and the run is synthetic if one is missing (`is None`).
make_backends(one, other) ==
    LET Server(option) == IF option \in Url THEN option ELSE "fixture"
    IN  /\ backend' = [a |-> Server(one), b |-> Server(other)]
        /\ synthetic' = ("missing" \in {one, other})
        /\ UNCHANGED exit

ChooseBackends ==
    /\ exit = Running
    /\ backend["a"] = "none"
    /\ \E one \in Option, other \in Option :
          \/ \E distinctNames \in BOOLEAN : ChooseNamed(one, other, distinctNames) /\ UNCHANGED synthetic
          \/ make_backends(one, other)
    /\ UNCHANGED <<runVars, output>>

Fixtures == \A s \in Side : backend[s] = "fixture"

\* A turn of run().  FakeCuda and FakeAscend always answer, with logprobs that
\* can be compared with each other.  Their tokens are cut from hashes of the
\* model's name and the side, the same for every prompt: first tokens of the two
\* agree only where the hashes collide, so no prompt reaches the threshold.  What
\* a server says to one fixture is left open.
Compare ==
    /\ exit = Running
    /\ backend["a"] # "none"
    /\ RunNext
    /\ \A s \in Side : backend[s] = "fixture" =>
          /\ answer'[s] \in {"failed", "logprobs"}
          /\ \A n \in DOMAIN history' : history'[n][s] \in {"skipped", "logprobs"}
    /\ Fixtures =>
          /\ Len(measured') = Len(per_prompt')
          /\ \A n \in DOMAIN measured' : measured'[n].top1 < Top1Min
    /\ UNCHANGED <<backend, synthetic, output, exit>>

\* run() raises: outside its try it only builds the request, which an empty
\* model name makes invalid, at the first prompt.
RunRaises ==
    /\ exit = Running
    /\ backend["a"] # "none"
    /\ step = "warm_a" /\ per_prompt = <<>>
    /\ exit' = EXIT_CANNOT_RUN
    /\ UNCHANGED <<runVars, backend, synthetic, output>>

incomplete == report.errored > 0
nothing_compared == report.compared = 0
\* Mutant: the coverage of the report is not looked at.
passed_Incomplete == report.passed /\ ~synthetic

passed == report.passed /\ ~synthetic /\ ~incomplete

\* Mutant: a run without comparisons is a failed gate.
ExitCode_TwoWay == IF passed THEN EXIT_PASS ELSE EXIT_GATE_FAILED

ExitCode ==
    IF nothing_compared THEN EXIT_CANNOT_RUN
    ELSE IF passed THEN EXIT_PASS ELSE EXIT_GATE_FAILED

\* Mutant: the payload is corrected for synthetic runs only.
payload_Incomplete == IF report.passed /\ ~synthetic THEN "pass" ELSE "fail"

\* The verdict in the payload: report.to_dict(), overwritten in a synthetic run
\* and in an incomplete one.  A computation of its own beside passed.
payload ==
    CASE synthetic \/ incomplete -> "fail"
      [] OTHER                   -> IF report.passed THEN "pass" ELSE "fail"

\* Write the report first, and only then decide: a report that cannot be
\* written ends the command with "could not run".
Conclude ==
    /\ exit = Running
    /\ Finished
    /\ \/ output' = payload /\ exit' = ExitCode
       \/ output' = "none" /\ exit' \in {ExitCode, EXIT_CANNOT_RUN}
    /\ UNCHANGED <<runVars, backend, synthetic>>

Next == ChooseBackends \/ Compare \/ RunRaises \/ Conclude

Spec == Init /\ [][Next]_vars
-----------------------------------------------------------------------------
TypeOK ==
    /\ RunTypeOK
    /\ backend \in [Side -> Url \cup {"fixture", "none"}]
    /\ synthetic \in BOOLEAN
    /\ output \in {"none", "pass", "fail"}
    /\ exit \in {Running, EXIT_PASS, EXIT_GATE_FAILED, EXIT_CANNOT_RUN}

(* Exit 0 certifies a port: no prompt lost to a failing backend, at least    *)
(* one prompt measured, no measured prompt over the difference thresholds,   *)
(* no endpoint option left out, and never fixtures on both sides.  The last  *)
(* is more than ~synthetic: an endpoint given as an empty string makes a     *)
(* fixture and does not mark the run synthetic (cli.py:144 asks `is None`,   *)
(* 152 and 161 ask for a value), against the docstring at 140-143.  With two *)
(* of them it is the gate alone that fails the run, for the fixtures agree   *)
(* on no token; one of them, opposite a server, is not excluded here.        *)
ExitZeroCertifies ==
    exit = EXIT_PASS =>
        /\ "error" \notin Range(per_prompt)
        /\ Comparable # {}
        /\ \A n \in Comparable : history[n].cmp.tmpd = "within" /\ history[n].cmp.mass = "within"
        /\ ~synthetic
        /\ ~Fixtures

(* An outage is never reported as a broken port: if every prompt lost a      *)
(* measured call, the exit code is "could not run" (cli.py 285-288).         *)
OutageIsNotFailure ==
    exit # Running /\ Len(history) = Prompts
        /\ (\A n \in DOMAIN history : "failed" \in {history[n].a, history[n].b})
    => exit = EXIT_CANNOT_RUN

(* The archived report and the exit code never disagree: the file says pass  *)
(* exactly when the command that wrote it exits with 0.                      *)
FileAgreesWithExit ==
    exit # Running /\ output # "none" => (output = "pass" <=> exit = EXIT_PASS)
=============================================================================
