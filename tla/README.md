# EvalForge, specified

TLA+ models of EvalForge, a harness that runs coding agents against datasets of
broken repositories, scores what they did and compares runs. The modules are
translated from the Python source under `src/src/evalforge`; paths below are
relative to that directory. TLC checks them on small instances, TLAPS proves
what matters most for every value of the constants.

## 1. Inventory

### Parts and how they interact

One command, `evalforge run`, is one process with one asyncio event loop:

    cli/main.py ── opens ──> Store (store/db.py, SQLite file shared by processes)
        │
    pipeline.execute_run ── start_run ──> Store
        │                        ^
        v                        │ on_result = record_case_result
    Scheduler (one task per attempt, semaphore, retries, job timeout)
        │ execute(job)
        v
    LocalBackend (runner.py) ── workspace_for ──> Workspace (temp dir, subprocesses)
        │ agent.run                                   ^
        v                                             │ tools, test commands
    Agent: scripted, replay, ModelAgent ── ToolBox ───┘── TrajectoryRecorder
        │ client.complete                                      │ frozen trace
        v                                                      v
    CachingModelClient > BudgetedModelClient > ChatCompletions  EvaluatorSuite
                              │ BudgetGuard        │ RateLimiter    │ verdict
                              (shared by the run)  (shared)         v
                                                                CaseResult

Other processes read the same SQLite file: `evalforge show`, `runs`, `compare`,
`gate`, and the FastAPI application (api/app.py). Regression, clustering,
selection, statistics and judge evaluation are pure functions over loaded runs.

| Component | State | Operations | Hard behaviour | What makes it correct |
|---|---|---|---|---|
| Scheduler | semaphore, results list, `unpersisted`, tries per job | run, worker, _run_job, cancel | interleaving of attempts; retry against timeout; cancellation while waiting, executing, sleeping, saving | no slot lost; only faults retried; every result stored or reported; samples spread; nothing starts after a cancellation; returned in job order |
| LocalBackend | recorder, workspace and trace file of one attempt | execute, _persist | exceptions of agent, provider, evaluator, disk, timeout and cancellation told apart by type; trace saved inside handlers | scored on the trace that is kept and shown; agent failures measured, harness failures not; always ends |
| Workspace | directory, baseline, child process | resolve, run, diff, cleanup | command against two timeouts; links; code under test that changes files | nothing survives the attempt; containment observed |
| ToolBox, recorder | events, open tool calls | five or six tools | a tool that raises half way | every call has its result |
| BudgetGuard | calls, tokens, dollars; reserved amounts; in flight | reserve, settle, abandon | check and use separated by an await; failed calls; estimates that err | ceilings under concurrency; nothing leaks; overshoot bounded |
| RateLimiter | window of events, lock, limits | acquire, observe | sleeping under the lock; limits tightened meanwhile | never more than the allowance per window; nobody waits for ever |
| Transport | tries of one request | complete | 429, Retry-After, transport errors | tries bounded and paced; errors mapped to the right class |
| ResponseCache | files, one per request | get, put | processes that share a temporary name, kill or full disk between open, write and rename | a hit is a whole answer to the same request; every answer is paid for and reported once |
| Store, migrations | schema_migrations, tables | open, migrate | concurrent openings, kills, mixed versions | schema and versions agree |
| Store, results | runs, case_results, evaluator_results | start_run, record_case_result, delete_run, load_run, list_runs | kill, failed statement, failed COMMIT, reader in the middle | an attempt is there whole or not at all; what was reported is durable |
| API | one connection per request | five GET routes | connection handed from thread to thread | requests do not disturb each other |
| ScriptedAgent | the policy | run | edits past the tools, refused escapes | the controls end as they are meant to |
| Evaluators | none | six evaluators, a suite, its verdict | order of test runs and edits; an evaluator that did not run or did not answer | scores in range and earned; the verdict follows the gating evaluators |
| Comparison, clustering, selection | none | functions over loaded runs | several samples per case, ties, boundaries, runs that are not complete | a verdict mirrors, clusters account for every failure, a choice fits its budget |
| Judge evaluation | none | agreement, probes | single labels, ties, empty sides | kappa means agreement beyond chance |
| Commands | none | gate, compare, cluster, select, judge validate, trajectory | a run that is interrupted or still written | an exit of zero says what it seems to say |
| Datasets | cases.jsonl and manifest.json of a directory | build, verify, resolve, edits by hand | files written in place, the manifest read twice | what is loaded is what somebody built, of the version asked for |
| Schemas, hashing, configuration, rendering | none | parsing and formatting | none | not modelled but for the rates and tallies of a run |

`PROJECT.json` lists every component with its sources and status, and under
`hazards` what is hard to test in this code, at its line.

## 2. Modules

| Module | Models | Checked by |
|---|---|---|
| `RunLedger` | abstract: what a run promises about its results | refinement in run `scheduler` |
| `Scheduler` | orchestrator/scheduler.py | `MCScheduler` |
| `SchedulerProofs` | theorems about `Scheduler` and its refinement of `RunLedger` | TLAPS |
| `BudgetGuard` | model/budget.py | `MCBudgetGuard` |
| `BudgetGuardProofs` | theorems about `BudgetGuard` | TLAPS |
| `Attempt` | orchestrator/runner.py with env/workspace.py and the retries of `_run_job` | `MCAttempt` |
| `AttemptProofs` | theorems about `Attempt` | TLAPS |
| `Migrations` | store/db.py, `open` and `migrate` | `MCMigrations` |
| `StoreProofs` | theorems about `Migrations` and `ResultStore` | TLAPS |
| `ResultStore` | store/db.py, writers and `load_run` | `MCResultStore` |
| `RateLimiter` | model/rate_limit.py: the window, the lock, the waits | with `Transport` |
| `ToolBox` | agent/tools.py, trace.py, the files of env/workspace.py | with `Replay` |
| `ModelAgent` | agent/model_agent.py: the conversation over `ToolBox` | with `Replay` |
| `ScriptedAgent` | agent/scripted.py: an attempt by a policy, beside one by a model | with `Replay` |
| `Replay` | agent/replay.py, schema/trajectory.py: an attempt, then its replay | `MCReplay` |
| `ReplayProofs` | theorems about `Replay` and all that it is built on | TLAPS |
| `Transport` | model/chat_completions.py: the tries of a request; composes `RateLimiter` with its callers | `MCTransport` |
| `TransportProofs` | theorems about `Transport` and `RateLimiter` | TLAPS |
| `ResponseCache` | model/cache.py, `cache_key`, and who pays for an answer | `MCResponseCache` |
| `ResponseCacheProofs` | theorems about `ResponseCache` | TLAPS |
| `Scoring` | evaluators/: what each makes of an attempt; suites and verdict | with `Analysis` |
| `Comparison` | schema/result.py, stats/, regression/compare.py | with `Analysis` |
| `Clustering` | regression/clustering.py, selection/discriminative.py | with `Analysis` |
| `JudgeEval` | judge_eval/ | with `Analysis` |
| `Commands` | cli/main.py: what the commands over recorded runs decide | with `Analysis` |
| `DatasetFiles` | datasets/, schema/dataset.py, `dataset build` and `verify`, the loading of `run` | with `Analysis` |
| `Analysis` | what is recorded (pipeline.py, gold.py), and the properties of all that reads it | `MCAnalysis` |
| `AnalysisProofs` | theorems about `Analysis` and all that it evaluates | TLAPS |

`Scoring`, `Comparison`, `Clustering`, `JudgeEval` and `Commands` have no
variables: they are the pure functions of the code, each extending the one it is
built on, and `Analysis` supplies the growing records they are evaluated on.

Definitions marked `Mutant:` are variants of the definition that follows them
with a plausible bug; nothing else uses them. Each shows that a property can
fail (`mutants` in `PROJECT.json`).

### Scheduler

An action runs from one `await` to the next. `pc[j]` is where the task of
attempt `j` stands: `waiting` in `async with semaphore`, `executing` inside
`wait_for(execute)`, `backoff` inside the sleep, `done` or `cancelled`. Between
the end of `execute()` and the end of the task there is no await, so the result,
the release of the slot and the call of the sink are one action (`Finish`).
The sink may refuse any result (`Emit`). `outcomes` is a history of how each
execution ended; `Outcomes` are the five ways `_run_job` and `worker` tell apart:
a result, `TimeoutError`, `FatalInfrastructureError`, `InfrastructureError`, any
other exception. `Cancel` is the CancelledError that `gather` raises; `Unwind`
delivers it to a task. A cancelled attempt saves its trace on the way out, and a
failure there is an ordinary exception again: `UnwindIntoCrash`.

`RunLedger` forgets workers, slots and tries: attempts get at most one result,
stored or refused at the same moment, and a run that nobody abandoned closes
only when it is complete. `Ledger == INSTANCE RunLedger WITH ...` is the
refinement mapping.

### BudgetGuard

`reserve`, `settle` and `abandon` do not await: one action each. A caller is an
attempt; between its `Reserve` and its `Settle` or `Abandon` any other caller
moves. `Usages` may exceed the estimate that was reserved by at most `Slack`:
the character-based estimate of the input is not an upper bound. `MaxAdmissions`
bounds the run for TLC only; the theorems hold for every value of it.

### Attempt

The tries of one attempt: `start`, `agent`, `evaluate`, then `backoff` or
`ended`. `End(o, evs)` is what all handlers of `execute` share: the `with` block
removes the workspace, the trace is written, the exception goes on to
`_run_job`. The write may fail, and its `OSError` then replaces the exception
that was on its way. `HandOver` contains the call of `diff()`, which is outside
every handler. `faults` and `permanent` are histories that record who caused the
end of a try, so that a property can compare the recorded outcome with the cause.
`LookUp` is what `evalforge trajectory` and the API make of the result: only one
that completed names its trace, although every path through a handler of
`execute` saves one. `AttemptSettled` puts together what an attempt leaves: the
trace that was scored is kept, whole and shown; the trace kept is that of the
last try; and a command that outlives its try was cut off by a clock or by a
cancellation (`OrphansExplained`).

### Migrations and ResultStore

SQLite is external and assumed to do what it documents: transactions are atomic
and isolated, a killed process leaves no trace of an open one, a first write
takes the write lock, a SELECT outside a transaction reads the committed state
of its moment, a COMMIT that raises has not committed. `SchemaSound` says that tables and recorded
versions agree and that whoever has the file open sees a whole schema; `StoredWhole`
that an attempt is stored with all its scores or not at all; `RecordedExactly`
that what was acknowledged is stored and what was refused is not. Everything else -
which statements are inside a transaction and which are not, what is rolled
back and by whom - is taken from the code. `Migrations` lets several programs of
different versions open a file at once, each with the list of pending migrations that
it read before its transaction. `MigratesKnownSchema` is about the commit: whoever
migrated since then, it takes the recorded versions from all before `v` to all up to
`v`, and its program knows `v`. Nothing keeps an open connection the newest: a newer
program may migrate later, which is why `OpenHasSchema` speaks of the version that the
program knew. `busy` is where an opener ends that waited too long for the write lock;
`OpenSucceeds` is about migrations that fail (`failed`) and not about that wait.
`ResultStore` follows
`record_case_result` statement by statement (`tx` is what the open transaction
sees, `db` what is committed) and `load_run` select by select.

### RateLimiter and Transport

Time is discrete here, because the properties are about it. An event of the
window is kept by its age, and a timer by the ticks it has left, so that no clock
grows for ever; `Tick` may come at any moment, so a sleep can last longer than
asked for. `queue` is the FIFO of `asyncio.Lock`; its head has the lock and keeps
it while it sleeps (`Doze`). `Receive` is everything between a reply and the next
await: the limits learnt from its header, then a result, an exception, or the
sleep before another try. `sent`, `credit` and `owed` are histories: the requests
that the provider counts in its window, the sleeps that an acquire may still
need, and the time that Retry-After asked for. `SleepsExact` bounds a sleep from both sides,
`SendsPermitted` says of every request that is sent that its tokens fit and that
no Retry-After was cut short.

### ToolBox, ModelAgent, ScriptedAgent and Replay

A tool without an await is one action that changes the files and appends its
events together; `raised` separates a tool that answers from one that lets an
exception through (a file that is not UTF-8). A file is a short sequence of
snippets, enough to count the occurrences that `replace_text` insists on. A write
that the disk fails may leave the file as it was or empty, and leaves no edit on
the trace in both cases. `run_tests` runs code that the attempt has edited. From the
moment it is called, and in the background for as long as the workspace is there,
`CommandChanges` may write, create or delete any file, without an event; whether the
command is ok (`FinishTests`) is left open. `faults` are the paths that the disk
failed or that such code changed; `Leavings` is what it may leave there. Links that it
may leave are in `Attempt`. `ModelAgent` adds the conversation, in which a call that
cannot be made is answered without reaching a tool. `ScriptedAgent` adds attempts
by a policy: `Script` is the calls that its `run` makes, and the botched edit is
known only when it is made, because it reads its target past the tools - on a
file that cannot be read it ends the attempt without a call on the trace
(`BotchRaises`). An attempt begins as one or the other, and `pc` and `batch`
serve both. `Replay` lets an attempt end in any way, hands over its trace and
makes the calls again in a fresh workspace, reusing the variables of `ToolBox`;
`recording` and `reached` keep what the attempt left. `LoadFails` is a trace that
`from_jsonl` cannot read back: `str.splitlines` cuts a line at U+2028, which JSON
does not escape.

`TraceTells` says that the trace alone tells what became of every file that is not in
`faults` and how the attempt ended, and, for a policy with which nothing interfered,
that it ended as the control it is meant to be (`ControlsHold`): an oracle ends with
the solution, an idler changes nothing, an escape is refused or is an edit on the
trace. `ReplayReproduces` says that a replay makes the calls that it can make in
their order, from the first one on, and names the others - that much whatever disk and
code under test do. Where neither did anything it makes all of them, and reaches the
workspace of the attempt when it named none.

### ResponseCache

A path leads to a file, and whoever holds a file open writes to the file and not
to the path: that distinction is all there is to the races of `put`. `Answer`
opens the temporary file (and empties it), `WriteTemporary` writes it, `Rename`
moves it over the entry. No await lies between them, so callers of one process
never interleave there (`Free`), and processes do. `raced` remembers the keys
that two processes have stored at once; `charged`, `reported` and `lost` are the
money. `Kill` and `WriteFails` leave temporary files behind, which the next `put`
of that key empties.

### Scoring to Analysis

Scores are integers, in points out of 300 so that the mean of three axes is
exact; rates are numbers of `Unit`, which every number of samples divides;
probabilities and kappa are fractions. Nothing is rounded, so a property about a
boundary is about the boundary. `Compare` has the fields of the report that its
verdict and its readers depend on; `BootstrapMeans` is the set of the means that
any draw of the generator can give. `Clusters` keeps the order of the code, with
the order of first meeting as the last tie-break, because `cluster_shift` and the
dictionaries depend on it.

`load_run` reads the scores before the attempts, in two snapshots. `Torn` is what it
returns of a run that has recorded attempts in between, and `Loads` all that it may
return while a bounded number of them is recorded. A comparison is judged on every
pair of loads: `LoadsAgree` says that such attempts change nothing of the report but
its dimensions. The gate's condition is that its run had ended before it was loaded.
`Select` reads no scores. `Clusters` reads the details of evaluators, and an attempt
without them is labelled like one of a suite that lacks them, so `ClusteringSound` is
about loads that miss none. A command also ends in a `traceback`, where it
raises what it does not handle: `CompareCommand` at the levels zero and one,
`ClusterCommand` on a dataset that has drifted (main.py:474 expects one that is
missing).

`Analysis` records: the events of a trace, the results of runs, labelled verdicts,
pairs of a probe. `RecordResult` computes a result as `execute` and the scheduler
do, from an attempt that it keeps as history, so that a property can compare what
a report says with what was done. Each behaviour follows one `study`, and the
properties are evaluated on every prefix, which is what a command sees that reads
a run while it is written.

### DatasetFiles

A content hash stands for what it is a hash of, so the comparison in
`read_dataset` is an equality of datasets. A line is two blocks, so that a file
can be cut inside one; a builder truncates and then writes at its own offset,
and two of them overwrite each other or leave a hole. A task is its kind and its
word: the texts of the templates are data. `spoiled` is the history of why the
directory may not hold what was built last - a kill, a full disk, an edit, two
different builds at once - and `disturbed` says whether a reader met any of it.
`OnlyBuilt` holds whatever happens; `UndisturbedAnswer` says that there is no
false alarm, not even where several processes build the same dataset at once:
that generation is deterministic makes their files the same. `VersionHonoured`
needs the condition `~moved`: `resolve_dataset` checks the version on one
reading of the manifest and loads with another. Nothing checks the name.

## 3. Runs

| Run | Instance | Shows |
|---|---|---|
| `scheduler` | 2 cases x 2 samples, 2 slots, 2 tries, fairness (800 thousand states) | safety of the scheduler, its refinement of the ledger, and that a run returns |
| `budget` | 3 callers, at most 4 calls, ceilings of 4 tokens and 3 dollars, estimates one unit short, 7 admissions | ceilings, exactness of reservations, bounded overshoot |
| `attempt` | 2 tries, 2 evaluators, 2 events, fairness (8 thousand states) | traces, verdicts, causes and leftovers agree; an attempt ends |
| `attempt_escape` | the same | violation: an escape by a link is not measured |
| `migrations` | 2 programs of version 2, one of version 1, 2 kills | schema and versions agree; a commit goes exactly one known version further |
| `migrations_open` | 2 programs of one version, no kill | violation: the second opening fails on a table that exists by now |
| `store` | 2 attempts, 2 scores each, 3 writes, 1 kill, 1 deletion, 1 reader | atomicity, durability, what a reader can see |
| `store_torn` | 2 writes | violation: a torn load |
| `conversation` | 2 steps of at most 2 calls over 4 files, or one of 11 policies, 1 fault: of the disk, or a file changed by the code under test (1.9 million states) | conversation, trace and workspace agree; the controls hold; a replay makes the calls it can make, in order, and reproduces the attempt if it skips none and nothing interfered |
| `transport` | 2 callers, 3 tries, window of 2 ticks, 2 requests and 4 tokens (3 once reported) or unlimited, fairness (570 thousand states) | the window holds for tries and retries alike, waits are exact and bounded, every call returns |
| `cache` | 5 callers in 4 processes (two share one, one has another model, one no cache), 2 sizes, 3 calls, 1 kill, 1 full disk | answers are whole and their own, the bill is exact, entries are torn only by a race |
| `analysis` | 12 studies: a trace of at most 16 events; two runs of 2 cases x 2 samples, of 3 cases, of 4 cases x 2 samples that end at equal rates, of 2 cases with attempts that time out (with the levels zero and one, and loads that miss the scores of up to two attempts), and of 3 suites (loads that miss those of one); a run of 3 cases with 10 kinds of attempt; 3 runs to select from; a gated run with refusals; 4 labelled examples; 3 pairs; 2 builders of datasets of one and of two cases, 1 edit, 1 reader (149 thousand states) | reports mean what they say at every prefix of the record |

Why the bounds are enough. Four attempts over two slots is the smallest instance
with two rounds, waiting tasks and a retry beside a running attempt; two tries
contain a retried and a last try. Three callers let two reserve between the
reservation and the settlement of a third, and the ceilings stop after four
calls at most, so seven admissions include failed calls on both sides of them.
Two tries of an attempt suffice to confuse traces, and two evaluators to have one
that scored and one that did not. Two versions and three openers contain every
order of an older and a newer program. Two callers of up to three tries fill a
window of two requests, one can tighten the allowance or be cancelled while the
other sleeps with the lock, and sizes of 2 and 5 tokens are one that fits and one
that no window holds. Two steps of two calls contain a submission in
the middle of a response, an edit after a failed one, and a crash or cancellation
in either; a third step repeats what the second can do. One fault before, between or
after the calls is what excuses a file; a second one excuses one more. Three writes
to two attempts contain a replaced attempt and two independent ones. Three calls to the cache fill an entry,
race for it and read it back, by short and long answers, so that a longer one can
leave its tail behind a shorter one. Sixteen events hold red, edit, green, red,
green, after which the second green run takes the recovery back; `Unit` is 180
so that halves, thirds and their products are exact; a significance level of
six tenths makes two discordant cases significant, where five hundredths would
need six of them (the test itself is computed exactly). Four cases with two samples are
the smallest runs that lose two majorities and no rate. Two builders of datasets
of different length, seed and version leave every mixture that two can leave, and
a builder stopped anywhere is rebuilt over by the other; generation itself is
checked for every count up to the default of 30 with the eight kinds and twelve
words of the catalogue, where the last six cases repeat the tasks of the first
six under other ids.

Runs with `CHECK_DEADLOCK FALSE` are those in which the modelled activity really
ends: an attempt ends, callers are refused or run out of admissions, the writer
process ends, calls return, a replay is over. `Scheduler` has a `Terminated` step instead, so there TLC's
deadlock check is one more property: no run gets stuck.

### Fairness

`Scheduler!Fairness`: weak fairness of every worker and of `Return`. The event
loop runs every ready task; `wait_for` bounds every execution, the backoff is a
finite sleep, and the semaphore is FIFO. Nothing is assumed of cancellation.
`Attempt!Fairness`: the job timeout fires at an await (`JobTimesOut`), and steps
without an await are taken. Nothing says that an agent, a provider or a command
ever answers. `Transport!FairSpec`: time passes, what is ready runs, and a POST
ends, because httpx is given a timeout.

### Disagreements found

Each is a `violation` run with a finding in `PROJECT.json` that quotes the line.

1. `attempt_escape`: a link left by the agent's code makes `diff()` raise outside
   every handler; the attempt becomes an infrastructure error without a trace.
2. `migrations_open`: two processes that open a new database at once: the second
   fails with "table runs already exists" (`CreateTablesFails`). A lock timeout is
   another outcome of such an opening, and does not violate `OpenSucceeds`.
3. `store_torn`: `load_run` reads scores before attempts in separate snapshots; a
   live run can be loaded with a completed attempt that has no scores. Reading
   them in one transaction would repair it.

Others are the conditions under which a property of a passing run holds, each of
which can be dropped to see the behaviour:

- `Workspace.run` kills its command on its own timeout only: a job timeout, an
  evaluation timeout or a cancellation leaves it running (`OrphansExplained`).
- A successful `replace_text` is skipped by the replay, so the replayed workspace
  is not the one that was scored; nothing reads `skipped_calls`
  (`ReplayReproduces`, `skipped = <<>>`).
- Code that `run_tests` runs can change the workspace, and nothing on the trace says
  so: files that it touched are not what the edits add up to, and a replay of the same
  calls can reach another workspace with nothing skipped (`TraceTells`,
  `ReplayReproduces`, `faults`).
- Two processes that store one key at once can publish a torn entry, which then
  is a miss, or make one of the two lose an answer it has paid for
  (`EntriesAtomic`, `AnswersSound`, `raced`).
- A directory that is rebuilt between the two readings of its manifest hands out
  `synth@v2` to who asked for `synth@v1`; registry.py:4 says that a run "cannot
  quietly have used another" (`VersionHonoured`, `moved`). The run records what it
  loaded, so the record is true. A build that is killed between its two files
  leaves a directory that can neither be read nor built again without `--force`.
- A full disk in the cache loses a paid answer, too: `put` runs before the return.
- A gate passes a run that was interrupted, was still being written as it was loaded,
  or lost results to the store, on what is there; and its check of safety passes every run of a
  suite without the evaluator (`GateMeans`, `Kept`). `evalforge run` itself exits
  with zero after such a loss, having printed a warning.
- A failure shift loses clusters that share a label with another
  (`ShiftConserves`); failures under the suite `outcome_only` all read "changed
  nothing" (`LabelsTell`, `Looked`).
- At equal rates a significant test is an `improvement` (compare.py:107 asks whether the
  delta is negative), whichever of the two runs comes first: there the verdict does not
  mirror (`Mirrored`).
- `compare --alpha 0` and `--alpha 1` are accepted (main.py:555), and
  `required_sample_size` raises on them (significance.py:137), whatever the runs hold
  (`PowerDefined`).
- With several samples per case a verdict can go against the direction of its
  test (`FollowsTest`), and a case that passes half of its attempts counts as
  passed for the selection and as failed for the comparison (`SelectionFills`).
- A dimension that one run's suite lacks counts as zero there, and so does every
  dimension of a run that was loaded before any of its attempts had its scores
  (`DimensionsReal`, `WithScores`).

Modelled, and not stated as a property of a run: abandoned calls are not counted
against `max_calls` (`BudgetGuard`, `sent` beside `calls`); a judge that is
rejected for good is retried like any other fault (`Attempt`, `EvaluatorRaises`);
calls with unusable arguments leave nothing on the trace for an evaluator to count
(`ModelAgent`, `Refuse`); a trace with U+2028 in it cannot be loaded (`Replay`,
`LoadFails`).

The docstring of `estimated_input_tokens` (model/base.py:188) says that an estimate
that errs low cannot cause an overspend. It can, and the header of budget.py says
so; `OvershootBounded` states by how much, and `NoOverspend` is proved only for
estimates that are true upper bounds.

## 4. Proofs

Checked by `tlapm` on each of `SchedulerProofs`, `BudgetGuardProofs`,
`StoreProofs`, `AttemptProofs`, `ResponseCacheProofs`, `TransportProofs`,
`ReplayProofs` and `AnalysisProofs` (the last takes a quarter of an hour, the
others a few minutes each). In each, `IInv` is the inductive invariant, with one
lemma per action or group of actions, and the properties of the runs follow from
it: every safety property that a passing run checks is stated by a theorem.
`StoreProofs` has two of them, of `Migrations` (`SchemaIInv`) and of `ResultStore`. The definitions of `IInv` are evaluated by TLC as readily as the
properties, which is how they were found.

### Assumptions

TLC evaluates all of them in the runs above.

- `SchedulerAssumption`, `BudgetAssumption`, `AttemptAssumption`, `StoreAssumption`,
  `MigrationsAssumption`, `LimiterAssumption`, `TransportAssumption`,
  `AgentAssumption`: types and signs of the parameters, which constructors and
  validators enforce, and that the values that stand for "none" are not numbers.
- `CacheAssumption`, `PriceAssumption`: finitely many callers and requests,
  answers that are not empty, prices that are numbers.
- `FilesAssumption`: the case has files that are absent, binary or text, the marks
  for the first two are no texts, the solution is in text for finitely many
  files, and what code under test leaves is a file or none.
- `ControlsAssumption`: the word that a botched edit appends is not how a solution
  ends already, scope creep writes a file that is not part of the solution, and
  the solution is about files of the workspace. datasets/builder.py makes cases so: every
  path of a solution is a module of the case, and the notes are not one.
- `BudgetsExact`, `UnitExact`, `SharesExact`: the scales of the model are fine enough -
  the allowances of the efficiency score divide its hundred points, and `Unit`
  is divisible by every number of samples, of runs and by twenty - so that the
  integers stand for the rates of the code exactly. Penalties are not negative; the order of
  the cases is a sequence.
- `LimitsAssumption`: the options of `gate` and `select` are numbers.
- `PlansAssumption`: a run has finitely many planned attempts of cases in the
  dataset and a registered suite; an attempt has a trace, and counts of tokens
  and seconds. `OutcomesAssumption`: what an attempt may turn out to be is planned,
  and the levels of comparisons are fractions from zero to one.
  `EventsAssumption`: the events of one tool call are a sequence.
  `VerdictsAssumption`: the preference of a judge is one of the three that bias.py
  accepts.
- `CatalogueAssumption`: catalogue.py names no kind twice, `random.sample` neither loses
  nor repeats a word, and both are not empty.

### Scheduler

`IInv` = types, `WorkersConsistent`, `SlotsConserved`,
`EveryResultAccounted`. `WorkersConsistent` says what the position of a worker
implies about its tries, the history of its executions and its result; without
it neither the slots (a worker that finishes must have been a holder) nor the
retries (a last execution must be number `MaxAttempts`) are inductive. From it:
`TypeCorrect`, `SlotsAreConserved`, `ResultsAccounted`, `RetriesAreFaults`,
`CancelStopsWork`, and `SchedulerImplementsLedger`, where each step is shown to be
a `Record`, `Abandon` or `Close` of the ledger or to leave it alone.
`RoundsStayBalanced` rests on `StartedPrefix`: a slot goes to the first waiting
task, so the attempts that have begun are always the first ones in job order; one
round back is then an injection from the later attempts at a case to the attempts
at any other.

### BudgetGuard

`IInv` = types, idle callers hold nothing, `InFlightExact`,
`Certified`, `CallCeiling`, `OvershootBounded`. The sum of what callers hold is
replaced by the existence of a running total (`Certificate`), which a step of one
caller shifts by what it reserves or releases. `HeldIsCertified` says that the
recursive sum of `ReservationsExact` is that total: there is no least caller at
which the two differ. From it: `CallsBounded`, `NothingLeaks` (what is reserved is
what callers hold, and the clamps at zero never bite), `OvershootIsBounded`,
`ExactEstimatesNeverOverspend`, `CeilingIsFinal`.

### Migrations

`SchemaIInv` ties what an opener has read to the lock it holds: the committed tables are those of
the recorded versions, which are a prefix (`SchemaMatchesVersions`,
`VersionsInOrder`); who has finished opening has its whole schema (`OpenHasSchema`);
and only who holds the write lock has anything staged, which is the first of its
pending migrations on top of what is committed (`LockHeld`, `StagedFirstPending`,
`PendingMatchesPc`). A pending list may be out of date - that is what
`migrations_open` shows - but its first entry is then a version whose tables exist
or, if they do not, one that follows all that are committed, because versions are
committed in order; in the first case the statements fail before anything is committed.
From it: `SchemaAlwaysSound` and `OnlyKnownSchemaMigrated`.

### ResultStore

`IInv` speaks of the committed state and of the open transaction
separately: what is committed is whole and what was acknowledged is in it
(`CommittedWhole`, `AckedDurable`, `RowsRecorded`, `NoRunNoRows`); what the transaction
of a writer has done so far is its statements up to the one it stands at, on top of
what it began with (`TransactionOfCurrent`, `CommittedIsThere`, `WritesSettled`);
and what a reader saw as it began is there still, or was replaced by a later write,
or its run is gone (`ReaderBehind`).
From it: `StoreStaysWhole`, `RecordingExact`, `SettledAttemptsLoad`.

### Attempt

What an attempt leaves is not inductive without the trace file: the result that
`execute` hands over and the file on disk belong to the same try
(`LastTraceKept`, `JudgedIsRecorded`), while evaluators
run, a command that runs belongs to a score that is still to come (`CommandScores`), and a backoff follows a fault that may be tried again
(`BackoffRetries`). From it: `TypeCorrect`, `AttemptsSettle`, `AgentFailuresMeasured`.

### ResponseCache

The argument is about who leads to a file. Paths lead to files of
their own (`PathsApart`); a caller has only files of its key open
(`OpenFilesOfKey`, `FilesOfKey`); `raced` knows every key that two processes store
at once (`RacesSeen`), so a key that is not in it has at most one caller that
stores, whose temporary file is nobody else's (`StoredAlone`); entries of such keys
are whole (`EntriesWhole`), and an answer is lost only to what `LostExplained`
lists. The bill is a sum over the callers. The library's fold takes them in
an order of its own, so what is needed of it - adding a caller adds its price,
whichever came first - is proved for every finite set by the least size of a set
without it. From it: `CacheIsSound`, `EntriesStayAtomic`.

### Transport and RateLimiter

The limiter's events are the requests sent (`EventsAreSent`): pruned, they are
what the window still holds of those it paced, so what `acquire` reads in the
events is true of the provider's window. `OldestFirst` says that dropping from the
front drops what is stale. For the sleeps: an acquire that has slept for the right
length finds room after it unless the limits were tightened meanwhile, which
`credit` counts (`LastSleepSettles`). The sums of tokens are running totals;
what is said of them for every length (that dropping a prefix subtracts its total,
that totals do not shrink) is proved by the least number at which it would fail.
From it: `TypeCorrect`, `WindowAlwaysRespected`, `SleepsAlwaysExact`, `SendsAlwaysPermitted`.

### Replay, with ToolBox, ModelAgent and ScriptedAgent

`IInv` is about three things, and each action disturbs a few of its parts:

- the trace: calls are numbered in their order, each has its result before
  the next call begins, but for the last one of an attempt that was cut off
  (`Numbered`, `ResultsInOrder`, `TestsUnderWay`), and the last edit of each file
  that neither the disk has failed nor the code under test has changed is what the
  file holds (`FilesTraced`);
- the conversation: every message of the assistant has all its answers behind it
  (`Settled`), but for the last while its calls are being made, whose remaining
  calls are the batch (`Answering`);
- the end: an attempt ends at its first error, a submission is on the trace, and a
  script ends with one (`EndsOnce`, `EndExplained`, `ScriptGoesOn`).

From it: `TypeCorrect`, `CallsAlwaysAnswered`. For the third part of `TraceTells`,
`Controlled` says that every call of the script of a policy is still in the batch or
has left what it was meant to (`OnScript`). It is inductive relative to `IInv`, and
kept apart from it, because only the steps of a policy can disturb it
(`PolicyKeeps`, `OthersKeep`). With it: `TraceAlwaysTells`, for every policy: an
oracle ends with the solution, an idler changes nothing, an escape is refused or on the
trace, unless something interfered with its files.

`ReplayIsFaithful` needs a fourth invariant, `Faithful`, also relative to the first
two. `Effected`: unless there is a fault, the state of the tools is a function of the
calls on the trace - the submission always, the files when no call is a
replace_text, by `LeftBy`, the last write to each of them. `Attempted`: a call on a
file that is not UTF-8 is the last of an attempt, which crashed of it, and a policy
makes only calls that a replay can make. `Recorded`: the same of the recording and of the files
reached, once a replay has begun. `Followed`: the calls of the replay are those of
the recording up to the event it stands at, and `skipped` the tools of the
others. At the end, with nothing skipped, recording and trace have the same
calls, so `Effected` of the one and `Recorded` of the other give the same files
(`LeftUnique`). With faults none of that holds, and what is left is the order:
`Followed` gives `PartRepeated` at every step, the calls of the replay are those of a
prefix of the recording, and so a prefix of its calls (`PartOfRecording`,
`CallsPrefix`). The calls of a trace are a recursive function over its prefixes, whose
values are compared by the least prefix at which they would differ
(`CallsOfPrefix`, `CallsStay`, `CallsOfAll`).

### Analysis and what it evaluates

What grows here is data, and what is proved is what functions say of it. `IInv` is
short: a run in the database holds results of planned attempts as its suite
scores them (`RunsWhole`), verdicts and pairs are recorded in full
(`VerdictsKept`), the trace is a sequence of events (`TraceKept`), and two parts about
the files of a dataset. The work is in the lemmas about the operators.

- *Counting.* A sum over a finite set is the library's fold, in an order that it
  chooses. `SumIsChosen` to `SumsOrdered` free it of the order: sums add over disjoint
  parts, over points, and preserve an order of the terms. `FibresCount` counts a
  set by the values of a function on it, and `InOrderLists` says that the lists
  built by counting who is ahead (`InOrder`) hold every member once, in order.
- *Gate.* `RunsGateMeans`: a completed run that passes had enough passing planned
  attempts, whatever the store refused. From it `GateAlwaysMeans`.
- *Judges.* Kappa's agreement by chance is a sum over labels of products of counts
  (`ByChanceIsSum`, `ChanceBounded`); it mirrors when the raters are swapped and is
  one only for full agreement. From it `JudgesAreMeasured`.
- *Selection.* The loop of `select` is a function on prefixes of the ranking;
  `WalkKeeps` carries along it what was spent and that whatever was passed over did
  not fit, and the greedy choice of the specification agrees with it
  (`WalksAgree`). The ranking puts what runs disagreed on first
  (`RankedLists`, `InformativeFirst`). From it `SelectionsFill`.
- *Clusters.* Every failure has one signature, and clusters are its classes
  (`ClusterSetTells`, `AlwaysPartitioned`); labels are read off the results, which
  `RunsWhole` ties to the attempts (`LabelsAlwaysTell`); a shift sums over labels, which
  is a sum over clusters where no two share one (`ShiftAlwaysConserves`); purity
  is one exactly when no cluster mixes faults (`PurityAlwaysTells`). From it
  `ClustersSound`.
- *Comparison.* The quarters of the paired table partition the common cases
  (`QuartersTell`) and change places when the runs do (`MirroredTest`), and with them
  the verdict unless the rates are equal (`AlwaysMirrored`);
  an attempt that did not complete is in no tally (`AlwaysStripped`), and one without
  scores is in the same (`LoadsAlwaysAgree`). `ChooseCounts`: the
  quotient of factorials is the number of subsets, by Pascal's rule, so the estimators
  are chances of draws without replacement (`EstimatorsAlwaysCount`).
  `SmallAreHalf`: taking a subset to its complement shows that at least half of the
  subsets are small, hence equal gains and losses are never significant
  (`EvenInsignificant`). `DrawBounded` bounds the mean of any draw of the bootstrap.
  From it `ComparisonsSound`.
- *Scoring.* When a trace goes on, its findings stay (`EventsStay`) and the
  penalty does not shrink, unless a file is now read that was edited
  unread (`PenaltyGrows`), so the score rises only as `ScoreMoves` allows. The loop of
  `extract_signals` over the results of tests is a function on prefixes, and
  `RecoveredJudged` says of each what it holds: the last red before the last green,
  and whether an edit lies between. From it `ScoringAlwaysSound`, which joins an
  invariant and an action property.
- *Datasets.* `FileSide`: what is written is whole and was begun (`WritersKnown`), a
  manifest tells of datasets that were built (`ManifestTells`), and until something is
  spoiled every block of the last build is there or somebody has still to write it
  (`LastBuildComes`). `ReaderSide`: what a reader holds was built, and one that
  nobody disturbed sees the last build (`Steady`, `Calm`).
  `AlwaysBalanced`: going through kinds and words in turn uses each of the kinds
  equally often but for one, and repeats a pair only after the least common
  multiple. From it `DatasetsSound`.

### Induction

The induction theorems of the library take an operator as a parameter, which the
provers cannot instantiate. Where a fact about every number is needed here, the set of
the numbers without it is named, `NatLessThanWellFounded` and `WFMin` give its least
member, and the step contradicts that: `LeastNumber` in the modules that use it.
That suffices for running totals, for folds over finite sets whose step the library
states, and for functions on prefixes of a sequence. It does not suffice where
the recursive definition itself has to be unfolded by the provers and is a
RECURSIVE operator or `SelectSeq`, about which the library proves nothing.

### Only model-checked

`RunReturns`, `AttemptEnds` and `CallsReturn`: liveness under fairness and ENABLED are
beyond the prover. So are the three violations, which are counterexamples.

The proofs speak of the operators as the model has them. That their integers
stand for the floats of the code, that `BootstrapMeans` contains what the generator
draws, and that a content hash tells datasets apart is said above and not proved.

## 5. What is left out

- Contents: source files, diffs, scores, prompts, prices. They are reduced to
  what the properties tell apart.
- Clocks, except in `Transport`: a timeout may fire at any await it covers, a
  sleep may end at any time.
- A second cancellation of a run (a second Ctrl-C).
- Normal quantiles, and with them the Wilson interval and the minimal detectable
  effect; percentiles of the bootstrap: real numbers.
- The texts of the seeded faults, value types and their validators, tables and
  JSON: no state, and no decision beyond their text.
- Which thread of FastAPI's pool runs a dependency and which its handler.
- The attempt cut off by a kill of the whole process, beyond what `ResultStore` says
  of its last write.
- Float rounding of dollar amounts.
- What the notes in `PROJECT.json` name of the components marked `partly`.

## 6. Plan

All modules of the plan are written, and all safety properties of the passing runs
are proved. What would extend it, in this order:

1. A second cancellation while `run` gathers the cancelled tasks
   (scheduler.py:170), the one hazard without a property.
2. The percentiles of the bootstrap and the Wilson interval, over rationals
   instead of the set of possible means.
3. The attempt cut off by a kill of the whole process, by composing `Attempt` with
   `ResultStore`.
