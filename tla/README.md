# Ruitong in TLA+

Ruitong checks that a language model served on one accelerator behaves like the
same model on another. It is a Python service (FastAPI on one event loop, SQLite
tables), a command-line tool that CI acts on, and a set of shell scripts that
rent GPUs by the hour for measurements. This directory holds TLA+ models of the
parts whose correctness depends on the order in which things happen, TLC
configurations that check them, and machine-checked proofs about the core.

Paths below are relative to the repository; `ruitong/` stands for `src/ruitong/`.

## 1. Inventory

| Part | State | Operations | Hard about it | Correct means | Modelled by |
|---|---|---|---|---|---|
| Port API, asynchronous jobs (`ruitong/api/router.py`) | `app.state.background_tasks` | submit, poll, list, delete; the coroutine `_run_job` | a task outlives its row (DELETE), or its row outlives it (restart); cancellation is not an `Exception` | one owner, one outcome, the cap, no lost job | `PortJobs` |
| Job store (`ruitong/jobs/persistence.py`) | the `jobs` table, in memory or in a file | create, get, update_status, update_result, count_active, list_by_owner, delete | a write raises; the file survives the process | rows scoped by owner; updates never insert | `PortJobs` |
| Lifespan (`ruitong/main.py`) | `app.state` | start, cancel the tasks, stop | crash or shutdown between any two steps of a task | what is in the file is still true after the restart | `PortJobs` |
| Rate limiter (`ruitong/main.py`) | buckets of time stamps per principal, request counter | one request | sweep, eviction, pruning and limit compare times at four places | exact sliding window, bounded table, the right one evicted | `RateLimiter`, `SlidingWindow` |
| Authentication (`ruitong/main.py`), key store and admin API (`ruitong/auth/`) | `api_keys` table | authenticate, create, list, revoke | revocation between authentication and use; order of the middleware; a restart with another environment | only active keys get in; no charge before authentication; only the admin key changes keys | `Gateway` |
| Payload-size middleware (`ruitong/main.py`) | none | compare one header with a limit | - | - | its refusals, `Gateway` |
| Backend registry, router (`ruitong/registry.py`, `ruitong/router.py`) | named backends | resolve, chat, stream, health, list_models | a backend fails, or drops the model, between the health check, the listing and the call | the first healthy backend that lists the model; honest refusals; errors that name their backend | `Routing` |
| HTTP backend (`ruitong/backends/vllm_http.py`) | none | chat, stream, health, list_models; one retry | outage, lost and malformed answers, streams that break off | answers or raises within a bound; repeats only what was not answered | `VllmHttp`; as an environment, `EquivalenceRun` |
| Fixture backends (`ruitong/backends/fake.py`) | none | the same | stand in for missing servers | two fixtures never certify a port | `PortCli`, `Routing` |
| Equivalence runner and gate (`ruitong/equivalence/runner.py`) | lists of metrics, per-prompt results | run: warm, ask, grade, aggregate | each of four awaits of each prompt may fail; some answers must not be graded | the verdict follows from the evidence, the coverage is exact | `EquivalenceRun` |
| Metrics (`ruitong/equivalence/metrics.py`) | none | arithmetic on rows of tokens and logprobs | repeated tokens, rows cut at rank k, NaN, values out of range | the loops compute what the docstrings define | `TokenMatch`, `GateMetrics` |
| Command line (`ruitong/cli.py`) | report file, exit code | `ruitong port` | exit 0, 1 and 2 mean different things to CI; the file is written before the code is decided | exit 0 certifies; an outage is not a failure; file and code agree | `PortCli` |
| GPU rental scripts (`tools/grab_mi300x.sh`, `run_cross_hardware.sh`, `run_precision_floor.sh`) | pod ids; the pods that bill | poll, deploy, wait, measure, cleanup | signals, lost answers, failing teardown | no pod keeps billing unannounced | `PodRental` |
| Backend validation (`tools/validate_backend.py`) | exit code | six checks in turn | every check asks anew; requests fail, answers are malformed | each exit code says one true thing of the server | `ValidateBackend` |
| Corpora (`tools/capture_corpus.py`, `compare_corpora.py`) | corpus files | capture, load, compare | a server with a prefix cache; files of earlier days; answers that part | what is compared is of this run and warm; the verdict is earned | `Corpora`, `GateMetrics` |
| Noise floor (`tools/measure_noise_floor.py`) | report file | measure four conditions, compare | requests in one batch end in any order | results meet their prompts; the report is written | `NoiseFloor` |
| Fault injection (`ruitong/equivalence/faults.py`), `tools/calibrate_from_corpus.py`, pricing, configuration, schemas, site, reports, `scripts/` | files | - | statistics, parsing, static data, test support | - | not modelled |

How they interact. A request passes authentication, then the limiter, then the
payload check, then a handler. The submit handler inserts a row and creates a
task; the task runs `EquivalenceRunner.run` on the two backends of the registry
and writes its outcome to the row; the other handlers only touch rows. Task and
handlers share nothing but the table, and meet only between awaits. The command
line runs the same runner without the service. The scripts use neither: they
rent pods that serve a model, record corpora from them and compare those.

## 2. Modules

    JobLifecycle            what the API promises the owner of a job
         ^  refines
    PortJobs                handlers, table, tasks and process
         ^  extends
    MCPortJobs, PortJobsProofs

    EquivalenceRun  <- extends -  PortCli  <- extends -  MCPortCli

    SlidingWindow           what the limiter promises the principals
         ^  refines
    Gateway                 authentication, limiter and admin API; extends RateLimiter
         ^  extends
    MCGateway, GatewayProofs

    VllmHttp        <- extends -  Routing <- extends -  MCRouting, RoutingProofs
    TokenMatch      <- extends -  MCTokenMatch, TokenMatchProofs
    ValidateBackend <- extends -  MCValidateBackend, ValidateProofs
    GateMetrics     <- extends -  Corpora <- extends -  MCCorpora, CorporaProofs
         ^  extends
    NoiseFloor      <- extends -  MCNoiseFloor
    PodRental       <- extends -  PodRentalProofs
    PortCli         <- extends -  PortCliProofs

### PortJobs

One uvicorn worker runs all handlers and tasks on one event loop, so the code
between two awaits is one atomic step. No handler awaits after its body has been
read: each is one action (`submit_port_job`, `get_port_job`, `list_port_jobs`,
`delete_port_job`). The coroutine `_run_job` is three: `StartTask` (from the
first step to the await of the comparison), `FinishTask` (from its return, or
its exception, to the end) and `CancelTask`. The process has `Shutdown`
(lifespan after its yield), `ProcessExit` (the end of the wait, or a crash) and
`Restart`. `rows` is the table, `tasks` the coroutines, `phase` the process. The
statements of the job store are operators with the names of its methods.

`submitter`, `access`, `deleted` and `abandoned` are history: they record who got
an identifier, who was shown a row, what was deleted, and which rows lost their
task, and no guard but that of a fresh identifier reads them (a uuid is not
issued twice). `Faults` says which of a graceful shutdown, a crash and a failing
store write may happen, and `Durable` whether `RUITONG_JOB_DB_PATH` is set.

`JobLifecycle` knows neither tasks nor table nor process: a job is accepted by one
owner, moves forward through pending, running and one of done and error, and may
be forgotten, for good. `PortJobs` implements it with `status` read from the row
(`gone` when an issued identifier has none) and `owner` from `submitter`.

### EquivalenceRun and PortCli

`EquivalenceRun` is one run of `EquivalenceRunner.run`: an action for each of the
four awaits of a prompt (two warm-ups, two measured calls), three for the ways
the two answers are graded, one for the aggregation with the gate. Of a
comparison only what the gate reads is kept: whether the token-matched
probability difference and the mass delta are within their thresholds, and the
top-1 agreement in percent. The two differences are gated by their maximum over
the prompts and top-1 by its mean, as the code does. `history` remembers what
each backend did, so that the verdict can be compared with the evidence it came
from; the code does not have it.

`PortCli` composes it with `_run_port`: `ChooseBackends` (both ways to name the
servers, with the fixtures that stand in), `Compare` (a turn of the run, in which
a fixture always answers), `RunRaises` (the one exception that leaves the run: a
request that cannot be built) and `Conclude` (coverage gate, file, exit code). The
verdict of the file, `payload`, and the exit code, with its `passed`, are computed
from the report independently, as in the code. In `ChooseNamed` "blank" stands for
an option that names no URL; in `make_backends` for an empty string, which the code
takes for given when it flags the run and for missing when it picks the backend. So
two fixtures may be compared in a run that is not synthetic (`Fixtures`). Their
tokens are cut from hashes of the model's name and the side, so two fixtures agree
on a first token only where two hashes collide: `Compare` has their top-1 agreement
below the threshold on every prompt. That is a property of the data of
`ruitong/backends/fake.py`, and the one thing that keeps such a run from passing.

### RateLimiter and Gateway

The body of `rate_limit_middleware` has no await before the time is recorded, so
a request is one action of `RateLimiter`: `Admit` or `Refuse`. The sweep, the
eviction, the pruning and the limit are operators applied in the order of the
code. `Tick` is the clock, which does not go back. `admitted` is history: the
admissions of a principal since it was last evicted or the process started.

`Gateway` puts authentication before the limiter and the handlers of the admin
API behind it. Each middleware awaits `call_next`, which runs the rest of the
stack in a task of its own, so a request is three steps, with others in between:
`Authenticate`, `Charge` (a step of the limiter) and a handler (`create_key`,
`revoke_key`, or any other). `requests` says where each request in flight stands
and holds its `api_key_principal`; `api_keys` is the table of the key store;
`mode` is what the environment configures: an admin key, one shared key, or
neither. `Restart` loses the limiter and the requests, keeps the file of the key
store, and may come with another environment.

`SlidingWindow` knows neither buckets nor sweeps nor pruning: a request is granted if
its principal was granted less than `Limit` requests in the window, and else denied,
which changes nothing; a grant may make the limiter forget one other principal, if the
table is full of principals seen no earlier. `Gateway` implements it with `granted`
read from `admitted`. That is no circle: `Admit` and `Refuse` decide by the buckets
and never read the history, and the sweep leaves the history alone, so a bucket that
lost a time of the window would make a decision differ from the promised one.

### PodRental

The three scripts are one module: `grab_mi300x.sh` polls and rents one pod, the
other two rent two. A step is a call to the provider, or the passage from one
part of the script to the next. `Interrupt` is SIGINT or SIGTERM between two
steps: the trap runs `cleanup` and, since it does not exit, the script goes on
where it was (`resume`). `pod` is the truth at the provider, `POD_ID` whether the
script knows the id, `said` what cleanup printed. `failed` is history.

### VllmHttp and Routing

`VllmHttp` has the calls of `VllmHttpBackend`. A call is a record of the exchanges
it took; an exchange ends in one of eight ways (`Outcome`): no connection, an
answer that is lost, a connection that is cut, an HTTP error, and four kinds of
200. `Returned` is `_request` with its one retry: only the first two are repeated.
What the four methods make of the others are the operators with their names. A
server may load or unload the model between any two exchanges.

`Routing` is one request to `Router`, over a registry in which some names are
servers and some fixtures. Requests share no state, so one is enough. An action is
what the coroutine does between two awaits: `Resolve`, `HealthRead` and
`ModelsRead` are `BackendRegistry.resolve` with its two loops (`health_map` and
`listed` are what it has read, `AskNext` the second loop from where it stands),
`ChatReturns`, `BodyRead` and `ReadLine` the call on the chosen backend,
`StreamClosed` a reader that stops, `StartGather`, `GatherFails` and `Gathered`
the listing of all backends, in which the calls run side by side. An outcome names a
backend only if the exception does (`NamedBy`): what a listing raises is not wrapped.
`health()` answers "unhealthy" also when the server gave no answer, so `Passed`,
the ways a candidate is ruled out, contains an outage of its health check; it does not
contain a listing that failed, which rules out nobody.

### TokenMatch and GateMetrics

`TokenMatch` is `token_matched_prob_diff`, the gate's primary metric, turn by turn
of its three loops, with the dictionary `occurrences_b` and the counters `seen`. A logprob is a level that
stands for its probability; `NaN` is apart from all numbers, and levels over `One`
are logprobs above zero. Against it stands the definition of the docstring
(`Nth`, `Partners`, `Shifts`), written without loops. `shifts` and `agreeing` are
history: what the definition says of the rows done so far.

`GateMetrics` has the same metric for rows of one token, the mass and the top-1
agreement of two answers, and where the answers part, for the two tools that
compare what was recorded.

### ValidateBackend

The six checks in the order of `CHECKS`. `server` is the answer a steady server
always gives, or `Changing`; each check asks it anew. An answer is reduced to what
a check reads of a position: its tokens, its worst value, its probability mass.
`RequestFails` is an HTTP error or time-out, which fails the check, and
`AnswerIsMalformed` an answer that raises, which ends the program.

### Corpora and NoiseFloor

`Corpora` is `capture_corpus.py` (each prompt fetched three times, with five
attempts each) and `compare_corpora.py`, run by a script or by hand. The server
has a prefix cache: an answer may be "cold" only if its prompt is not in it. The
file of a capture says for every prompt whether the kept answer was cold, and the
flag the tool put next to it. A capture that is interrupted while it writes leaves a
file that cannot be read, which is as good as none (`CaptureFails`); a comparison
given a base corpus to take its prompts from may fail on that one (`Load`).
What the answers say is chosen when they are
compared (`Compare`), since nothing reads it before. `apart` is history, and so are
`restarts` and `cooled`: how often the server lost its cache, and whether it did so
between the answers to the prompt at hand.

`NoiseFloor` is `measure_noise_floor.py`: four conditions, of which two are batches
whose requests end in any order, and the comparison of each with the first.

## 3. Runs

| Run | Instance | Shows |
|---|---|---|
| `port_jobs_faults` | 3 jobs, 2 tenants, cap 2, file database, all faults | isolation, consistent rows, the cap, no resurrection, final outcomes, refinement |
| `port_jobs_live` | 3 jobs, 1 tenant, cap 2, table in memory, shutdown and crash, fairness | every accepted job is settled or removed; every active row has a task |
| `port_jobs_orphan` | 2 jobs, file database, shutdown, fairness | **violated**: a row stays active for good after a restart |
| `port_cli_safety` | 3 prompts (the number of default prompts), 2 URLs | verdict and coverage follow from the evidence; exit code and file follow from the verdict |
| `port_cli_worst_prompt` | 2 prompts, 2 URLs | **violated**: the mean hides a prompt below the threshold |
| `gateway` | 2 keys, 1 client, 2 requests in flight, limit 2, window 1, table of 2, sweep every 2 requests, 3 ticks, restarts | exact window, bounded table; served and denied, and forgotten, as `SlidingWindow` says; only who was let in is charged; a revoked key is cut off; only the admin changes keys |
| `pod_rental` | all scripts, all faults, 2 signals, fairness | no pod leaks unannounced, unless its deployment call got no answer, or both its DELETE and the listing failed; pods are returned if the calls about them work |
| `routing` | 2 names in the default order, servers or fixtures or absent, streams of up to 3 lines, 1 change of what is served, fairness | the policy of automatic resolution, refusals, errors, retries, streams, listings; every request ends |
| `token_match` | 2 tokens, 2 levels and NaN, rows of up to 3 entries, k of 2, 2 rows | the loops compute the definition; what agrees scores 0; the result is a probability |
| `validate` | answers of up to 2 positions | what the exit codes 0, 1 and 2 say of a server is true |
| `corpora` | 2 prompts, 2 tokens, 2 probabilities, answers of up to 2 positions, 1 loss of the cache per capture | cold captures are warned about, and only they; the two-pod scripts compare only what they captured; the verdict of the worst rows is that of all prompts |
| `noise_floor` | 1 prompt, 1 filler, 1 token | **violated**: the comparison ends in a TypeError |

A violated run checks one sentence of a comment or a document against what the
code does; `PROJECT.json` quotes the sentence under "findings".

Why these bounds are enough.

- Three jobs with a cap of two: a place can be freed and taken again while an old
  task runs. Two tenants are enough to tell an owner from another. Crashes and
  restarts are not bounded.
- Three prompts: one may fail, one be refused, one be graded; two of them can have
  a mean that differs from their minimum. The levels 98 and 100 lie on the two
  sides of the threshold of 99, and their mean, 99, is on it.
- With the admin, two keys are one principal more than the table holds, which
  forces evictions; three ticks are three windows; sweeps fall at every position
  relative to the requests. Of two requests in flight one can be the admin's,
  which revokes, and one that of the key. Restarts are not bounded.
- Two backends are what the service has. A stream of three lines can have a chunk,
  something else and an end in any order. One change of what is served falls
  between any two awaits of the request; a second changes nothing new, since each
  backend is asked for its models once.
- Rows of three entries with k of two and two tokens have repeated tokens on both
  sides of the cut; a second row finds whatever a first might leave behind.
- Two positions of an answer can differ in what is wrong with them, which is all the
  checks and the comparison can tell apart; two prompts, one of which fails.
- The loss of the cache can fall into the first prompt, between the two or into the
  second. In the model the cache may be lost any number of times, but at most once
  between the first answer to a prompt and its third (`ServerCools`): with two losses
  there all three answers may be cold alike, which the tool cannot see. `ColdIsWarned`
  holds up to that, and says so; that more losses in other places change nothing is
  proved.
- Two signals allow one during the work that follows a first teardown. `MaxTime`,
  `MaxInterrupts`, `Reloads` and `MaxRestarts` are the only bounds that cut
  behaviour off: the clock stops, and there are no more signals, changes of the
  models or losses of a cache. Deadlock is not checked in `PortCli` and
  `PodRental`, which end.

Fairness. `PortJobs` assumes weak fairness of the steps of each task (the event
loop runs what is ready, and a comparison ends because every request has a
time-out and one retry), of the end of a shutdown (the wait has a limit of five
seconds) and of the restart (the container is restarted). No client is assumed to
do anything, and no fault to happen or stop happening. `PodRental` assumes that
the script goes on (every `curl` has `-m`, every loop a bound; the number of polls
is left open, which fairness of the whole script does not need, since the pods
are rented only after it). `Routing` assumes that exchanges end (the client has a
time-out) and that the coroutine goes on; a reader of a stream need not read, and
no server need answer well. No other module needs fairness.

Mutants. Each module holds, before a definition, variants of it that a plausible
bug would produce, marked "Mutant". `PROJECT.json` says which property catches
which; nothing refers to them otherwise.

## 4. Proofs

`PortJobsProofs` proves for every set of jobs (finite), principals, cap, fault
set and kind of database what `port_jobs_faults` and `port_jobs_live` check on
small ones: type correctness, tenant isolation, consistent rows, both bounds on
the cap, that active rows are served, both action properties, and that `PortJobs`
implements `JobLifecycle`. The assumptions are the named ASSUMEs of `PortJobs`:
the identifiers are a finite set, `Nobody` is no principal, the cap is a natural
number, and faults are of the three kinds.

None of the invariants is inductive alone; `IInv` adds:

- the owner of a row is its submitter, and a fresh identifier has no row, no task
  and no history (isolation and the refinement need it: a row never changes
  hands);
- the status of a row and the state of its task fit: a scheduled task has a
  pending row or none, a comparing one a running row or none, a cancelled one an
  active row or none (so a settled row has no task that could write to it, which
  is what `TerminalIsFinal` and the refinement rest on);
- an active row without a live task is in `abandoned`, and only faults that can
  abandon a row put it there;
- a deleted job has no row, so a task that is not of a deleted job has an active
  row, and the bound on such tasks follows from that on rows;
- tasks fit the phase of the process.

The cardinality of the active rows is handled by a few lemmas about adding one
element to a finite set; the preservation of `IInv` has one step per action; the
refinement has one per action, each a step of `JobLifecycle` or a stutter.

`GatewayProofs` proves every property of the run `gateway`
for all sets of keys and clients, any finite set of principals, any number of
requests in flight, and any limit, window, size of the table and sweep interval,
from the named ASSUMEs of the two modules: these numbers are positive, and a
principal is a key, a client, "admin" or "legacy", of one kind only. `WindowBound`
is about the whole history of a principal, while the limiter decides by a bucket
from which times were pruned and which a sweep may have dropped; `LInv` relates
the two:

- the bucket is the end of the history, and what the history has beyond it lies
  before the current window (`Fits`). So a principal with fewer than `Limit` times
  in its bucket has fewer than `Limit` in the window, and a time added to both
  keeps `WindowBound`; and whoever is refused has `Limit` times in the window;
- histories are sorted (`Sorted`), so a bucket whose last time is stale has nothing
  in the window, and what pruning leaves is all in it.

That pruning drops exactly the longest beginning that is too old is shown with
cardinalities of intervals (`PrunedCount`), without induction; that an eviction
makes room for exactly one principal, in `VictimFacts`. `GInv` adds that whoever is
in flight was let in, which is what `ChargedWereLetIn` needs: the limiter adds no
principal but that of a request. The clock bound `MaxTime` plays no part in the
proofs.

The refinement (`ImplementsWindowHolds`) has one step per action. `WindowCount` says
that what pruning leaves of a bucket are exactly the admissions of the window, so
limiter and promise decide alike: more than the bound `WindowBound` needs. A principal
that needs room has no bucket, hence nothing in the window (`EvictionIsJust`), so
nobody is evicted for a request that is then refused; and the last time of a bucket is
the last admission (`SweptLatest`), so the stalest bucket of a full table is that of
the principal seen longest ago.

`RoutingProofs` proves the six safety properties of the run `routing` for every
set of names, every priority without repetitions, every length of a stream and any
number of changes. The outcome of a resolution depends on what was read several
awaits before, so `IInv` says what each phase finds (`PhasesOK`) and how far the
resolution has come (`ResolutionOK`): before its second loop nobody was asked for
models, in it all health is known, whoever answered lacked the model, and the one
being asked is the first that was not asked yet. `CountOK` says that the chunks
yielded are those among the lines read, none of which ended the loop, and `CallsOK`
bounds the exchanges of a call and ties its result to them.

`TokenMatchProofs` proves the properties of `token_match` for rows of any number
and length, any k and any tokens. The invariant of the loops (`LoopsOK`) is that
the entry of a token in `occurrences_b` lists its logprobs among the entries read,
n-th by n-th (`Buckets`), and `seen` counts the entries done; then the entry
looked up is the partner of the definition, and `worst` is the maximum of the
shifts compared so far (`WorstOK`).

`PortCliProofs` proves, for any number of prompts and URLs, all the properties of the
run `port_cli_safety`. `EvidenceOK` ties each mode in `per_prompt` and each measured
comparison to what `history` says was answered; `ReportOK` ties the report to both,
and `EndOK` the exit code and the file to the report. `VerdictMatchesEvidence` is
about a mean: the gate adds up the list of levels it kept, the property adds, level by
level, how many prompts of `history` reached it. `MeanOK` says that the two sums and
their lengths agree at any moment, since a graded prompt adds its level to the one
and one to a single count of the other. That two fixtures never pass, synthetic
or not, needs an invariant of its own (`FixturesOK`): as long as both sides are
fixtures, every level in the list the gate reads is below the threshold, and a mean of
such levels is below it (`BelowStaysBelow`).

That a fold is a sum cannot be shown by the library's induction theorems, which take
the property as a parameter. "Sums over finite sets" shows it by a minimal
counterexample: the subsets of a finite set are well-founded by strict inclusion
(`FS_StrictSubsetOrderingWellFounded`, `WFMin`), so if a claim about the sums fails for
some subset, it fails for a least one (`MinimalSubset`), while the recursion gives it
from the claim for the rest. From this the recursion behind the folds has exactly one
solution, a total does not depend on the order of its elements, and one more element
adds its value. `CorporaProofs` needs the same for the mass of an answer, and has the
same few lemmas: the two modules have variables of the same names, so neither can
extend the other.

`CorporaProofs` proves the three properties of `Corpora` for any number of prompts,
positions and losses of the cache, any tokens, probabilities and thresholds.
`CaptureOK` says why two warm answers are enough: from the first answer on, a prompt
is in the cache unless the server lost it since (`cooled`), and if the second answer
was cold, it was lost before it, so the third is warm and the flag is set. `FilesOK` is
what that makes of the files, `ProgressOK` which of them are of this run. `RowsOK`
says that no prompt is apart exactly when every scored row is within the thresholds;
`CloseIsWithin` shows that for one prompt, from the definition of the metrics, and
`WorstRowsDecide` that the three worst rows decide for all: fractions of different
numbers of positions, compared crosswise, are ordered like numbers
(`FractionsOrdered`), and a finite set so ordered has a greatest element (`Greatest`,
again by a minimal counterexample). The assumptions are the two named ASSUMEs: the
probabilities, thresholds and bounds are natural numbers, and there is a prompt.

`PodRentalProofs` proves `LeakIsAnnounced` for any number of signals: a pod that
runs and whose id the script does not have is explained by a call that failed, or
was announced (`LeaksOK`), and the cleanup lets go of an id only when the pod is
gone or its DELETE failed (`IdsOK`), wherever it goes on afterwards (`PlacesOK`). `ValidateProofs`
proves `VerdictFitsServer` for answers of any length: against a steady server each
code is that of its check on the one answer (`CodesOK`), or a request failed.

Only model-checked: liveness (`JobsSettle`, `PodsReturned`, `RequestEnds`), which
is out of the prover's reach. Every invariant, every action property and both refinements
of the runs that pass are theorems.

## 5. Left out

- Numbers: rounding, `exp`, the thresholds as values, the metrics that are reported
  and not gated (`topk_max_abs_diff`, top-5 overlap), and `calibrate_from_corpus.py`,
  which is statistics.
- `faults.py` (transforms matrices to measure the metrics' sensitivity),
  `tools/mock_vllm.py`, `scripts/`: support for tests and development.
- Parsing: configuration, schemas, the options of the tools, the comparison of the
  content length with its limit.
- Wording: messages, summaries, warnings, `retry_after_seconds`.
- `POST /v1/port`: returns the report of `EquivalenceRun`; how it picks backends and
  converts the report is not modelled. Pricing is read-only.
- Several uvicorn workers on one file: the service is started with one.
- The 503 of `submit_port_job` for a service without a router
  (`ruitong/api/router.py:77`), which comes after the row was created: `lifespan`
  sets the router before the job store, and no request is served before it has.
- A clock that steps back in the rate limiter; a rate limit of 0, which turns it off.
- Key hashes, `hash_scheme` and `last_used_at`; keys of clients that were never issued.
- Redirects and other answers that are neither 200 nor an error.
- SIGKILL of a script and loss of its machine.
- Requests that change nothing are stuttering steps.

## 6. What the models show besides

Behaviour met while modelling that no run is about, for whoever changes the code.

- The cap of the job service counts rows, and DELETE removes a row while its
  task goes on: submit, delete and submit again runs more comparisons than
  `max_concurrent_jobs` (`ruitong/api/router.py:298`). What does hold is
  `UndeletedTasksWithinCap`.
- The key of a principal is its name: after a rotation, the jobs submitted with the
  old key can no longer be read or deleted by anybody.
- `report.passed` looks only at the prompts that were compared; `POST /v1/port`
  passes it on (`ruitong/api/router.py:151`), and only the command line looks at the
  coverage.
- Prompts refused as ungradable count as compared, so a run of nothing else exits
  with 1 rather than 2 (`ruitong/cli.py:290`).
- The legacy endpoint options are not compared with each other (`ruitong/cli.py:262`):
  one server against itself exits with 0.
- An endpoint given as an empty string makes a fixture, since lines 152 and 161 of
  `ruitong/cli.py` ask for a value, and does not mark the run synthetic, since line 144
  asks `is None`. The docstring (lines 140-143) says that a run falls back to fixtures
  only as a synthetic one, which can never pass. Two such fixtures fail at the gate
  alone, because their tokens differ; one of them opposite a server is graded like a
  server. `ExitZeroCertifies` states the first and leaves the second open.
- The teardown scripts count matches in the listing, so a listing that fails prints
  "confirmed gone" (`tools/grab_mi300x.sh:57`). `LeakIsAnnounced` excepts that, for a
  pod whose DELETE failed as well, and a pod whose deployment call got no answer, whose
  id the scripts never learn: "TEARDOWN IS GUARANTEED", as their headers have it, holds
  up to these two.
- A job whose outcome cannot be written, in the branch that handles exceptions, stays
  active for good and keeps its place under the cap (`ruitong/api/router.py:257`).
- A healthy backend whose `list_models` raises ends the automatic resolution, though
  the docstring (`ruitong/registry.py:56`) lets the first healthy backend that serves
  the model win; and what it raises may be no `RuitongError`, since `Router` wraps
  only what comes after the resolution.
- A fixture that stands in for an unconfigured "cuda" is always healthy and first,
  so it wins automatic resolution for the models it lists over a real "ascend" server.
- `validate_backend.py` compares whole bodies in its sixth check, ids and times
  included, so a server that issues fresh ids never exits with 0 or 2; NaN counts as
  a huge mass in its fifth.
- `grab_mi300x.sh` does not exit when its capture fails and then compares the file
  that lies there, `corpora/mi300x.json` of the repository (line 144).
- Rows of uneven length raise in `compare_corpora.py`, and the traceback exits with 1,
  like a failed gate.

## 7. Plan

Done: the job service, the limiter and the gateway, runner and command line, the
routing and the HTTP backend, the rental scripts, the tools and the primary metric.
All safety properties and both refinements are proved. Next, in order of what matters
most: `Gateway` and `PortJobs` composed; an abstract specification of the comparison
that `PortCli` implements; the top-5 overlap and the mass as loops, with the
invariants of `TokenMatch`.
