# Verification of rca-agent-bench

rca-agent-bench injects faults into a demo system of microservices, records
telemetry around each fault as an *evidence pack*, lets agents diagnose the packs,
grades them, and serves the results. This directory holds TLA+ models of the parts
of it that keep state, the TLC runs that check them on small instances, and proofs
TLAPS checks for every size. Paths below are relative to the repository's root;
every definition that models code is tied to its lines in `PROJECT.json` (`map`).

Contents: 1 inventory · 2 plan · 3 the modules and the code · 4 runs and bounds ·
5 fairness · 6 proofs · 7 where code and documents disagree · 8 what is not modelled

    tlc -workers 2 -config service_workers.cfg MCEvalService  # a run (table in 4)
    tlapm EvalServiceProofs.tla                               # proofs (modules in 6)

## 1. Inventory

Three programs share no process and little state: the *batch side* (a workstation
next to the testbed), the *evaluation side* (one agent at a time over packs on
disk) and the *service* (an API, a worker and Postgres). They meet in files:
`scenarios/*.yaml` (cards), `evidence/` (packs), `artifacts/agent_runs/` (results).

    fault primitives <- batch runner -> probe gate, packs -> cards, evidence
                           | lock                                |
                        WAL probe                 agent loop <- sweep / worker
                                                                 |
    packs -> anomalies, evidence tools -> /          |
                            POST /runs -> queue (Postgres) -> worker -> artifacts
    cards -> start-up ->    GET /runs, /summary <-                     |
                            POST /admin/reimport <---------------------+

| component | state | operations | talks to |
|---|---|---|---|
| POST /runs (`service/app/main.py`) | rows of `runs` | card gates, key lookup, budget gate, insert | worker, through the table |
| queue and worker (`worker.py`, `runner.py`, `repo.py`) | status, `started_at`, cost, `artifact_path`; the run in hand | claim, requeue sweep, execute (arm, file, row), fallback, SIGTERM | the arms, `artifacts/` |
| reimport (`reimport.py`) | set of known paths, one call | list, read, insert | `artifacts/`, table |
| start-up and catalog (`main.lifespan`, `migrate.py`, `cards_sync.py`) | schema, ledger `schema_migrations`, table `cards` | up to ten attempts: migrate file by file, read the yaml files, upsert | Postgres, `scenarios/` |
| read side (`main.py`, `repo.py`, `summary.py`) | the client's cursor | a page, a run, a trace, a summary, in 1 to 4 statements | tables |
| agent loop (`scripts/agent/run_agent.py`) | messages, counters, cost of one card | ask, execute tools, retry, nudge, accept, stop | the model API, evidence tools |
| evaluation sweep (`scripts/harness/run_eval.py`) | rows, files | refuse, run, record, report | agent loop |
| evidence tools (`scripts/agent/evidence_tools.py`) | none: functions of a pack | metrics, traces, logs, files of a pack | agent loop |
| anomaly detection (`scripts/evidence/detect.py`) | none: a function of a pack | seven rules over two windows | packs, the agent's task |
| single-shot arm | none beyond one call | ask, re-ask | model API |
| batch runner (`scripts/runner/run_batch.py`) | the cycle, rows, the cards' production block, packs | apply, probe, revert, judge, gate, pack, book, abort | primitives, judges |
| evidence packs (`scripts/evidence/pack.py`) | files of a card, shared baseline and graph | pack, rebuild the graph, refresh metrics | batch runner, the backends |
| batch lock | `scripts/state/runner.lock` | open, flock, release, poll | batch runner, WAL probe |
| fault primitives (`scripts/primitives/*.sh`) | containers, iptables, tc, flagd, state files | apply, revert, probe | docker |
| probe gate and judges (`run_batch.py:429-826`, `three_signals.py`) | none: functions of three windows | judge symptom and recovery, admit | Jaeger, Prometheus |

The others (tracing, leak check and task view, rules baseline, reports and
figures, card generation, plumbing, machine maintenance, fixtures) keep no state
that outlives a call or are pure functions; `PROJECT.json` lists all with their
reasons.

**What is hard here.** (a) Retries of `POST /runs` race between lookup and insert,
and the budget gate sits between them. (b) `update_run()` writes by `run_id`
alone, so that a row is not overwritten rests on how claims and sweeps interleave.
(c) `execute()` writes three times (file, row, fallback row) and may stop between
any two; a reimport reads the same files. (d) A sweep re-executes a lost run,
perhaps after midnight, into another directory. (e) The agent loop must answer
every tool call, keep an answer it paid for and stop near its cost cap, whatever
the model replies. (f) A batch leaves a broken testbed if anything fails between
apply and revert; only state files tell the next batch. (g) A lock file that is
removed by name. (h) Verdicts computed from queries each of which may be lost. (i) Packs
written file by file in place, over a baseline and a graph that all cards share. (j) Apis
that start side by side migrate by a ledger each has read before. (k) Handlers put an
answer together from several statements while rows land. (l) Counters that reset, go
stale or are never born, summed over windows whose ends belong to both.
The list with lines is under `hazards`.

**What makes each part correct.** Service: one run per key, one execution at a
time, finished rows are final, every accepted run lands, artefacts and rows agree.
Agent loop: requests the API accepts, the first valid answer survives, counters
are true, cost is bounded. Batch: one fault at a time, nothing left behind
silently, cards and packs agree, limits stop it. Lock: mutual exclusion, no one
waits for ever. Packs: a manifest, a diff and a reference to the graph say what is
on disk. Gate: missing data makes no verdict better, but for queries that are named one
by one. Start-up: schema and ledger
agree, a race alone never uses up the attempts, the snapshot is as new as the
files, an api ends up serving. Read side: nothing skipped, nothing twice, answers fit
together, a summary stands on the newest run. Alerts and tools: what is counted
happened, silence is told, the tools bear an alert out.

## 2. Plan

Done, in this order: `EvalService` above `RunLedger`; `AgentLoop` and `EvalSweep`
which composes it; `Primitives` and `BatchRunner` which composes it; `BatchLock`;
`EvidencePack`; `ProbeGate`; `Catalog`; `ReadSide`; `EvidenceTools` and `Alerts` which
composes it; the proofs listed in 6.

Left, most useful first:

1. `logs_search`, the worker's own start, two reimports at once in a run;
2. the single-shot arm (sequential, two requests at most).

Modules are written to be proved about: constants with named assumptions, one
action per operation, no RECURSIVE operator; a page, a window of a series and the
points before a point are sets of what they hold, not sequences that are cut.

## 3. The modules and the code

**EvalService** (`EvalService.tla`). Each SQL statement the code commits by itself
is one action, so requests, workers and reimports interleave where the code lets
them. `runs` are the rows `POST /runs` made, numbered in `created_at` order;
`imported` are reimport's, indexed by artefact path, because their id is a hash of
it; `disk` is `artifacts/agent_runs`.

| code | actions |
|---|---|
| `create_run()` main.py | `Post`, `PassGates`, `Lookup`, `BudgetGate`, `Insert`, `Resolve`, `Refuse` |
| `run()` of worker.py, `requeue_stale`, `claim_next` | `Poll`, `Sweep`, `Claim`, `Stop`, `Restart` |
| `execute()` of runner.py | `RunArm`, `OpenArtifact`, `CloseArtifact`, `Finish`, `Fallback` |
| process and connection loss | `Crash`, `LoseConnection` (a claim may have been committed) |
| `now()` | `Age` (a row passes the timeout), `Midnight` |
| `POST /admin/reimport` | `ReimportSeen`, `ReimportList`, `ReimportRead`, `ReimportInsert`, `ReimportReturn` |

`paid`, `answers`, `faulted`, `faults` and the field `known` are history: no action
reads them, save the bound on `faults`. A request is a key and a body; an arm
returns any cost up to `MaxCost` (for the agent this is what `AgentLoop` shows:
`CostCap + MaxCallCost - 1`) or raises. The unique indexes `runs_idem` and
`runs_artifact` are `KeyTaken` and `PathTaken`.

**RunLedger** (`RunLedger.tla`) is what callers are promised: a run is accepted
once under its key, starts, may be given back, lands for good. `EvalService`
implements it under `phase = status`, `owner = (key, body)`.

**Catalog** (`Catalog.tla`) is how an api comes up: `Boot`, `ReadLedger`, `Apply` of one
migration with its ledger row, `AllApplied`, `Load` of one yaml, `Sync`, and on any
exception `Lost` or `Failed`, `Sleep` and another attempt; after the last one the api
serves all the same. A yaml is the number of its version; the batch runner truncates
it (`SaveStart`) and fills it (`SaveEnd`). Apis die, the database goes and comes.

**ReadSide** (`ReadSide.tla`) answers one question per behaviour, statement by
statement, each seeing the tables of its moment: pages of GET /runs until the
last, a run with its grade, a trace with three child tables, and the runs behind a
summary for its three picks (`latest`, `run_ids`, `published`). A page is the set of
its runs, since ORDER BY leaves one order; the loop of `compute()` over an explicit
list takes its runs one by one, in any order (`ChooseNext`). Writers appear
through what they commit (`Post`, `Import`, `Claim`, `Requeue`, `Land`, `LandEmpty`).

**AgentLoop, EvalSweep.** `AgentLoop` is `run_card()`: a reply is any sequence of
up to `MaxBlocks` tool calls, each good or bad, at any cost up to `MaxCallCost`; a
tool call is known by its step and position, and `messages` is the conversation
the API sees. `EvalSweep` is `main()` of run_eval.py around it: refusals before
the first request, exceptions out of `run_card()`, exceptions outside the `try`
that end the sweep, files and the report. `paid` and `billed` are what was really
charged.

**Primitives, BatchRunner.** `Primitives` has one action for each command of the
four scripts that changes something: testbed (`fault`, `restart`) and state files
(`mark`, `saved`, `backup`). Any tool in `Fallible` may fail at any command, as
often as it likes; `failed` records which did. `BatchRunner` runs them: `batch.pc`
is the place in `main()`/`run_cycle()`, a call of a script is `CallScript`, then
the script's steps, then the action that reads its exit code or output. A verdict of
the judges is any they can return (`Harvest`); `production` and `evidence` are the
card's block and the parts of its pack, numbered by the batch that wrote them.
`batch.plan` says what the batch runs: cards, hand-written cycles, or cycles it only
watches (`--observe-only`). `Stop` is Ctrl-C (the script dies too) or a kill of the
runner (the script goes on by itself, and in the model a later batch waits for it: see 8).

**BatchLock** has inodes: a name may come to mean another file. Each system call
of `acquire_lock`, `release_lock` and the probe script is an action. (Its
specification is `LockSpec`, so that one module of proofs may hold it and the batch.)

**EvidencePack** has jobs of pack.py: a whole pack, one that rebuilds the graph, a
refresh of metrics.json. A file is the number of the job that wrote it, negative
while it is torn; `Open` empties a file in place and `Close` completes it, and what
is read in between (`ReadBaseline`, `DigestTopology`, `LoadTopology`,
`RereadBaseline`, `ReadManifest`, `Hash`) is an action each. `with` and `snaps` are
history, for the properties.

**ProbeGate** draws what really happened in three windows (`truth`), lets some of
the queries fail, and evaluates the judges as the code does, in integers: a rate is
calls over seconds, compared by cross-multiplication. The thresholds are the
code's (a tenth, a half, floors of 2 and 5 errors, 1000 ms, 100-fold, 10 MiB and
15 per cent). The quantities are chosen on both sides of each threshold. Each window
asks Jaeger for its services and then for the traces of each service by itself, and
Prometheus for memory and rate. The target has two callers: `ailing` met what errors
and slow calls there were, `well` met none. A query that fails leaves what the code
makes of it (`Heard`, `Traces`): nothing at all without the list of services, and
without one service an edge with fewer calls, fewer errors and another median.

**EvidenceTools, Alerts.** `EvidenceTools` has `metrics_query` and `traces_query` as
operators on a pack, with their checks of service, window and limit and the
thinning of what they return. What a window selects of a series is the set of its
places; a point's predecessor is the greatest place before it (`Before`), the median
the value with the right number of others below it (`Ranked`). `Alerts` lets a service be called, killed and
started, Prometheus sample its counters with lost scrapes and staleness, then
evaluates the seven rules of `detect()` over the two windows in integers and asks
the tools about each alert that fires. Time is in half steps, so samples fall on
the limits of the windows (`phase = 0`) or between them.

The `MC*` modules only give values to constants (lists of cycles, the set of
queries that may be lost, symmetries). Definitions whose name says what is wrong
with them (`KeyTakenNoIndex`, `RequeueNone`, `LockAnyway`, `SumsAsRead`, ...)
are not part of any model: they are the mutated forms of their neighbours that
`PROJECT.json` lists, and each property is violated when one of them takes its
neighbour's place.

## 4. Runs and bounds

| run | what it asks | bounds | states |
|---|---|---|---|
| `service_post` | one run per key, retries never meet the breaker | 2 clients, 1 key, 2 bodies, 2 rows, budget 1 | 0.7 M |
| `service_workers` | one execution at a time, evidence, stranding, finality, every run lands, implements `RunLedger` | 2 workers, 2 rows, 1 fault, no reimport | 0.1 M |
| `service_reimport` | one artefact one row, nothing counted twice | 1 worker that may overrun, 1 reimport caller, 1 row, 2 days, 1 fault | 1.9 M |
| `eval_sweep` | the conversation, the answer, the guards, cost and report of a sweep | 2 cards, 2 steps, 2 blocks, cap 2, call up to 2 | 0.4 M |
| `lock` | exclusion unless a name is stolen, no waiting for ever | 2 runners, 1 probe, 2 starts each, 1 death | 31 k |
| `batch` | one fault at a time, books, packs, residue, restart policy, limits | 2 batches, 1 stop; plans: the 4 primitives on one service, a crash twice and a flag as cards, two drop cards on one service, cycles only watched; every tool fails at will | 4.1 M |
| `evidence` | manifests, diffs and references tell what is on disk | 2 cards, 3 jobs, 1 of them started beside another, 1 stopped | 2.9 M |
| `gate` | failed queries, verdicts and admission | 6 classes, target with or without SDK, 60/120/40, 89 or 120 s; lost: any query, any services of a window, any backends in any windows | 3.7 M |
| `reads` | pages, runs, traces and summaries under writers | 3 runs of 2 cards, 2 dates, pages of 1, 2 commits meanwhile | 3.3 M |
| `catalog` | ledger and schema, attempts, snapshot, every api serves | 2 apis, 2 migrations, 3 attempts, 1 card of 3 versions, 2 faults | 0.4 M |
| `views` | counts, silence, alerts against tools | baseline of 2 steps, injection of 3, floors of 2, 5 gauge levels, 1 call per step, 2 faults | 0.7 M |
| `service_lost_result` | *violated*: a failed write is read back by reimport | 1 of everything, no fault | |

Why these bounds reach the interesting cases. Two clients with one key and two
bodies give every race of a replay and a conflict; a second row lets one spend the
budget while the other is retried. Two workers and a fault are a crash with the
other worker sweeping and executing what was left. Two days let a re-execution fall after midnight,
into the other directory. With a cap of 2 and calls of up to 2 the cap can be
reached exactly, exceeded, and reached by a reply that also submits. Two starts
per process let the lock file be removed and made again under a waiting process.
Two batches over the same cards let the second one meet everything the first may
leave. Three jobs of pack.py are a pack of each card and a third one that repacks,
rebuilds or refreshes; a stop may fall in any of them, and the overlap next to any.
Counts of the gate are per 30 seconds; 60, 120 and 40 or 120 are windows the cards have
(`baseline_s`, `inject_s`, and `recover_s` of 70 and 150 less 30), 89 the longest that
ends within its third half minute; they lie on both sides of the floors (60 seconds, 5
expected calls). `SomeLosses` has every query alone, and together what fails together: the
services of one window (a Jaeger that times out for some) and backends that are down. Pages of one run
let a page end between two runs of one date; two commits fall before, between and
after the statements of a handler. The code's ten attempts over two files are three
here: one more than the files, which is what `CatalogAssumption` needs. The gauge
levels lie on both sides of twofold, 100 ms, 500 ms and 30 MiB; an injection of
three steps is the shortest with a silence of two on either side of a limit.

`CHECK_DEADLOCK FALSE` stands where the modelled system may stop: after the last
start of a bounded number (`lock`, `batch`, `evidence`), when every api serves and the
faults and versions are used up (`catalog`), after the answer (`reads`) and at the end
of the injection window (`views`). The service never stops: its worker polls for
ever. A loop that has returned, a sweep that is over and a card that is booked
stutter explicitly (`Returned`, `SweepOver`, `Booked`). `MaxRuns`, `MaxDay`,
`MaxFaults`, `MaxStarts`, `MaxDeaths`, `MaxJobs`, `MaxOverlaps`, `MaxBatches`,
`MaxStops`, `MaxMeanwhile`, `MaxVersion`, `MaxCalls`, `MaxBlocks` and `SomeLosses` are
bounds of the checking and named as such where declared.

Some properties carry conditions that the code needs, not the model:

* `OneFault` is about batches that nobody stops and whose `iptables` and `tc` work.
  There a hand-written batch never has two faults; a card batch goes on after a failed
  revert, and then the books name a failed card, unless two of its cards drop the
  packets of one service (`DropsTwice`).
* `NoSilentResidue`: a killed container and a switched flag always have a state
  file. `drop_inbound` and `delay_outbound` write theirs after the fault is live; they
  escape by a stop, by a failure of their own tool or by `DropsTwice`, and by nothing else.
* `PackedIsWhole` holds until a later batch begins to pack the same card again.
* `ManifestTells` is about jobs that did not meet on the card and of which the last
  pack and the last job came to their ends; `RefTells` excludes a later rebuild and
  the job that builds the graph beside another; `DiffAgainstBaseline` excludes two
  snapshots at once.
* `ProbeGetsIn` holds as long as nobody is killed.
* `SyncedUnlessExcused` excuses an api of which the database or a half written yaml
  has failed an attempt; `SnapshotAsOfPass` a file caught while it was saved.
* `SilenceIsTold` wants a baseline that predicts enough calls for half the
  injection, and a first sample of it from which on nothing was called (7 says why).
* `EvidenceBehindRow` and `StrandedOnlyByFault` are checked without reimport (7).
* `LossNeverPasses`, `QuietHasNoSymptom` and `OngoingIsNotRecovered` name, class by
  class, the queries whose failure the judges take for an observation
  (`SymptomFooledBy`, `RecoveryFooledBy`, `TakenForSilence`) and those without which a
  verdict stays open and is admitted (`SymptomLeftOpenBy`, `RecoveryLeftOpenBy`). The
  failure of these does make cards; the properties say that no other failure does. A
  fault that goes on is looked at in recovery windows as long as the injection or longer.
* `ArtifactInOneRow` and `RecordedWithinPaid` are what holds beside a reimport.
* `SnapshotAsOfPass` compares with the last pass that committed, which may be an
  older one; a yaml that is torn and still parses counts as its whole version.
* `SoleExecution` rests on `MayOverrun`: several workers finish within the timeout.

Each of these conditions is one of the disagreements in 7 or a documented choice
of the code; without it TLC finds the violation.

## 5. Fairness

`EvalService!FairSpec`: weak fairness of each worker's own steps (the loop of
worker.py blocks only in a sleep, a query or an arm with time-outs), of `Restart`
(`restart: unless-stopped` of the worker in docker-compose.service.yml) and of `Age` (time
passes). Nothing is assumed of clients, reimports, faults or midnight. Because
faults are bounded in a run, `EveryRunLands` says that a finite number of crashes,
lost connections and SIGTERMs never leaves an accepted run unfinished.

`Catalog!FairSpec`: weak fairness of each api's own steps, `Boot` included
(`restart: unless-stopped` of the api in docker-compose.service.yml; the attempts
are a bounded loop with a sleep). Nothing is assumed of the database, which may stay
away, of deaths, or of who saves cards. `EveryApiServes` then says that an api
always ends up answering, be it without tables.

`BatchLock!FairLockSpec`: weak fairness of each started process; a start is never
assumed. That work under the lock ends is part of it: a batch is a finite list.

## 6. Proofs

Eight modules hold the theorems; each is for every value of the constants of its
model, under the model's named assumptions.

| module | theorem | statement |
|---|---|---|
| `EvalServiceProofs` | `TypeCorrect` | `Spec => []TypeOK` |
| | `OneExecution` | `Spec => []SoleExecution` |
| | `FinishedIsFinal` | `Spec => TerminalIsFinal` |
| | `OneRunPerKey` | `Spec => []KeyNamesOneRun` |
| | `ServiceImplementsLedger` | `Spec => ImplementsLedger` |
| | `OneRowPerArtifact` | `Spec => []ArtifactInOneRow` |
| | `RetryMeetsNoBreaker` | `Spec => []KnownKeyPassesNoBudgetGate` |
| | `EvidenceIsKept` | `Spec => []EvidenceBehindRow`, if nobody reimports |
| | `StrandedByFaultAlone` | `Spec => []StrandedOnlyByFault`, if nobody reimports |
| | `NothingToldTwice` | `Spec => []RecordedWithinPaid` |
| `SweepProofs` | `SweepTypeCorrect`, `CapIsKept` | types; `[]CostCapHolds` |
| | `RequestsAreWellFormed` | `SweepSpec => []RequestsWellFormed` |
| | `AnswerIsFirstSubmit` | `SweepSpec => []FirstSubmitIsTheAnswer` |
| | `SweepCostBounded` | `SweepSpec => []SweepCostBound` |
| | `GuardsAreRecorded` | `SweepSpec => []GuardsRecorded` |
| | `ReportsTellAll` | `SweepSpec => []ReportTellsAll` |
| `CatalogProofs` | `CatalogTypeCorrect` | `Spec => []TypeOK` |
| | `LedgerAlwaysTells` | `Spec => []LedgerTells` |
| | `RaceNeverExhaustsAttempts` | `Spec => []SyncedUnlessExcused` |
| | `SnapshotIsAsOfPass` | `Spec => []SnapshotAsOfPass` |
| `ReadSideProofs` | `PagesExact` | `Spec => []PagesAreExact` |
| | `RepliesFit` | `Spec => []ShownWhole` |
| | `SummariesOfNewest` | `Spec => []SummaryOfNewest` |
| `AlertsProofs` | `AlertsTypeCorrect` | `Spec => []TypeOK` |
| | `CountsAreBacked` | `Spec => []CountsBacked` |
| | `GoneIsTold` | `Spec => []SilenceIsTold` |
| | `AlertsAreBorneOut` | `Spec => []AnswersBearOutAlerts` |
| `BatchProofs` | `BatchTypeCorrect` | `Spec => []RunnerTypeOK` |
| | `PolicyCanBeRestored` | `Spec => []RestartPolicyKept` |
| | `ResidueIsMarked` | `Spec => []NoSilentResidue` |
| | `NeverTwoFaults` | `Spec => []OneFault` |
| | `PacksAreWhole` | `Spec => []PackedIsWhole` |
| | `CardsFollowRows` | `Spec => []CardsBooked` |
| | `GoesNoFurther` | `Spec => []GoesOnWithinLimits` |
| | `LockTypeCorrect` | `LockSpec => []LockTypeOK` |
| | `OnlyStolenLocksCollide` | `LockSpec => []ExclusiveUnlessStolen` |
| `EvidencePackProofs` | `PackTypeCorrect` | `Spec => []TypeOK` |
| | `DiffsAreAgainstBaseline` | `Spec => []DiffAgainstBaseline` |
| | `RefsTell` | `Spec => []RefTells` |
| | `ManifestsTell` | `Spec => []ManifestTells` |
| | `LossNeverMakesCards` | `GateSpec => []LossNeverPasses`, windows as below, any losses |
| | `QuietIsNoCard` | `GateSpec => []QuietHasNoSymptom`, the same |
| | `OngoingIsNoCard` | `GateSpec => []OngoingIsNotRecovered`, the same |

**The service.** Assumptions: `BoundsAssumption` (numbers are naturals), `NullAssumption` (Null is
no key, body, row, path or cost) and `DeploymentAssumption`: an execution may
outlast the timeout only if there is a single worker. One replica is what
docker-compose.service.yml deploys; with several workers that overrun, a sweep
does take a live run away and `SoleExecution` fails.

`TypeOK` is inductive because it includes `InHand`: a worker between claim and
return has a row, after the arm a result, and after the file its path, which names
that row.

`SoleExecution` is not inductive. A worker may be executing a row whose
`started_at` is past the timeout, and then another worker's `Sweep` would give it
back and `Claim` hand it out again. What rules it out is

    NoStaleRunHeld: with several workers, no row in hand is past the timeout

which `Age` keeps by its guard (`MayOverrun \/ ~Held(r)`), `Claim` by resetting
`started_at`. With one worker `Sweep` happens only when nothing is in hand.
`ExecutionInv == TypeOK /\ SoleExecution /\ NoStaleRunHeld` is inductive.
`FinishedIsFinal` follows from it: `Finish` and `Fallback` write by id, and
`SoleExecution` says the row they write is running.

`KeyNamesOneRun` needs that replies name rows that exist and carry the reply's key
and body (`AnswersNameRows`), that rows which do not exist are blank, and that a
request in progress has a body; with `ExecutionInv` this is `AcceptanceInv`. The
step that matters is `Insert`: the partial unique index refuses a taken key, and
`NextRow` gives a row no one has been told of.

`ServiceImplementsLedger` maps each action to a ledger step or a stutter: `Insert`
to `Accept` (no existing row has that key, again the index), `Claim` and the
committed claim of a lost connection to `Start`, `Sweep` to `GiveBack`, `Finish`
and `Fallback` to `Land`, where `ExecutionInv` says the row was running.

`ArtifactInOneRow` needs that the paths of rows, imported rows and workers name
their own run (`PathsOwn`), then the unique index does the rest. `RetryMeetsNoBreaker`
rests on rows keeping their keys: a key that was taken when the request arrived
still is at its lookup. `EvidenceIsKept` and `StrandedByFaultAlone` assume
`Admins = {}` (7 shows both fail beside a reimport); `AuditInv` adds that a worker
with a path holds the result that is on disk under it.

**The sweep.** `SweepInv` is `Good(loop, paid)`, types, and the accounts
`billed <= Len(rows) * Most`. `Good` has two parts. `Talk` describes the conversation: of
the replies so far each is answered block by block or by a nudge, none holds a valid
submit before the one that ended it, and the reply in hand is answered as far as
`loop` has got. `Costs` ties `loop.cost` to what was paid: equal once the reply is
booked, and below the cap when a request is sent. No induction over the messages is
needed: a step appends one message, and all others stay. Assumed: the types of the
parameters, and that `Null` is no ending and no block (`NullApart`).

**Start-up.** An api that nothing has excused may fail by a race only, and each such
failure is owed to a file that another api has recorded since the ledger was read.
So the attempts used up never exceed the size of the ledger (`RaceOk`); with
`NFiles < Attempts` (two files, ten attempts) they are never used up. `PassOk` says what
a pass owes: no more than the files say, and nothing of a file it skipped.

**The lock.** Until a name is removed under somebody's hands, every open file is the
one the name means (`Pinned`), so two holders would hold one flock.

**The batch.** Per command of each script, `PolicyInv` says where the restart policy is
kept and `CoveredInv` which faults are marked. `AccountInv` adds what the runner knows:
every live fault that nothing excuses is the one of the cycle in hand, marked, or of a
booked failed card (`Accounted`), and a revert that said "done" has healed. The
excuses are those of section 4, and they stay (`ExcusesStay`). `BookInv` relates rows, cards
and packs at each pc (`RowsInv`, `CardInv`, `PackInv`); `LimitInv` says the streak is what the
tail of the rows says. The plans, services, tools that fail, limits, batches and stops
are arbitrary.

**The packs.** A job changes only its own record, so most of the argument is what one
job knows of files while others write them. `TypeInv`: every version of a file
belongs to a job of its card, a torn one to a job that is writing or was stopped
there. `BaseInv`: while no two snapshots meet, the stamp is written last and whoever
saw it read whole files. `GraphInv`: a job whose hash is not the graph's can blame a
rebuild or a job it met. `ManifestInv`: on a card whose jobs never met, the manifest
says what the last pack and the refreshes after it wrote.

**Spending** (`NothingToldTwice`). Money that the table shows may still be in a worker's
hand, in a file or in what a reimport has read. `SpendingInv` says that for some
`best[run][day]`, a bound on what any of them tells of an execution claimed that day,
the sum over the days is at most what was paid: executions of one day share a file,
and a run executed twice on a day is shown once. `RunArm` is the only step that raises
`best`, by no more than it pays; which rows may tell of which day is `PathsOwn`.

**The counters and the report.** `Counted` says of each counter of `run_card()` what it
counts in the conversation, counting each block by its step and position: one result
per finished block, none for the one in hand, whose attempts so far are the retries not
yet owed to a result. `Told` says the same of the sweep: a row per card that is past,
the sum of their costs, and no priced sweep with a raised card.

**The read side.** `Walk` ties the cursor to both sides: it lies below every run given
and above every run of `seen` that is still to come, and since ORDER BY is a strict
order (`NewerOrder`) that is enough for both halves of `PagesAreExact`. `Limited` exists
for every finite set of rows by induction on the set. `Fits` holds the runs in hand
against the tables: what was read of a succeeded run is all there was to read, because
its children came with its row (`Kept`) and stay (`StillThere`). `Choosing` is the
invariant of the loop of `compute()`.

**Alerts.** Two samples of a counter are related by `Follows`: within a life the counter
grew by what happened in between, and a later life counts no more than that. `Chained`
carries this from what was seen to what is shown to what is counted. `DeltaBetween`
then says what `counter_delta()` returns, for any two quantities that bound its steps:
`CountsAreBacked` is the case of the truth, `AlertsAreBorneOut` needs the other side,
that a rise of the counter is counted. In `GoneIsTold` a counter that nothing moves is
flat between its first and last point, so the run of zero steps and the missing
steps add up to the injection (`HalfIsSilent`), whatever `InjectSteps` is. The medians
lie between minimum and maximum because the chosen rank exists (`RankedIs`).
Assumed: the parameters are naturals, and that no time is `Null` (`NoTimeIsNull`).

**Sums and folds.** `SumLemmas` proves what the folds of the community modules compute
(`SumWithout`, `SumOfSameTerms`, `SumAtMost`): from the library's theorem that the
finite subsets of a set are well founded under inclusion, each fact is proved of a
least counterexample, so that no operator has to be passed to an induction theorem.

**The gate.** Proved for a baseline and an injection of whole half minutes, the injection
no shorter, and a recovery window from half a minute to ten minutes, of whole half
minutes if it is as long as the injection (`InHalfMinutes`; the cards have 60, 120 or
300, and 30 to 120 seconds). `Losses` is any set of sets of queries: nothing is assumed of
which queries fail together. The truths are the finite set of section 3.
`JudgedInv` says that a verdict is the judge's of the snapshots; the rest is about the
judges. A snapshot shows what the whole window does or less (`Less`, `NothingIsAdded`):
no more spans, no more errors, a median that is gone or another caller's, and the same
edge where both callers answered. `SymptomIsSo` and `RecoveryIsSo` carry a yes over to
the whole windows arm by arm: unless a query of the FooledBy sets failed, an arm is "none",
or what it is on the whole window, or held back by what is missing. `SymptomIsOpen` and
`RecoveryIsOpen` do the same for a verdict left open, and together they are
`LossNeverPasses`. `QuietHasNoSymptom` is argued on the snapshots themselves
(`NothingNoSymptom`), since a baseline may lose more than the named queries: less of a
baseline only lowers what silence is compared with. `OngoingIsNotRecovered` is
argued on the whole windows (`OngoingNotBack`), where the lengths cancel out of every
rate (`RatesCompare`) and errors above a quarter of the calls stay above it in a longer
window (`QuarterOfLonger`). Memory is where the ten minutes come from: a
growth of 10 MiB is within the slack of 1 MiB per minute once the window is that long.
Longer baselines than injections fail: a blackhole compares counts. Of the truths the
arguments use that a latency card has no rate and errors in none or a quarter of its calls;
the rest holds for any quantities. Assumed: `GateAssumption`, and that no reading is
`Null` (`NullIsNoReading`).

**Only model-checked.** Liveness (`EveryRunLands`, `ProbeGetsIn`, `EveryApiServes`), which
with ENABLED is out of the prover's reach. Every invariant of a passing run is a theorem.

## 7. Where code and documents disagree

One is recorded as a run.

* `service_lost_result`. service/app/runner.py:18 says that after a failed third
  write the JSON stays on disk and reimport reads it back. The fallback row is
  written with `artifact_path`, so reimport takes the file for known and skips it.

The others were met while modelling. To reproduce one, give the run named the
change named.

* docs/workflow.md:251 says batch and probe exclude each other. The file is unlocked
  before its name is removed: a process that opened it in between works on a name
  that is then taken away, and the next one makes a new file. `lock` with the
  invariant that no two processes are at `"work"`; one runner and one probe suffice.
* Daily spending has no bound. main.py:253 compares recorded costs only, so
  any number of requests pass before the first run has landed, while
  docs/design/service_v1.md:372 wants it to stop a thousand POSTs in a loop:
  `service_post` with the invariant that the sum of `paid` stays below
  `Budget + MaxCost`.
* A reimport between the worker's file and row writes inserts the run as its own.
  The worker's update then meets the unique index twice and its row stays
  running without a fault until the sweep: `service_reimport` with the
  invariant `StrandedOnlyByFault`. When the run is executed again that day, the file
  the imported row names is rewritten: `EvidenceBehindRow` likewise (repo.py:301,
  run_agent.py:333).
* A sweep may cost more than cards times cap: a call is paid before the cap is
  looked at (run_agent.py:286), while scripts/agent/config.yaml:20 multiplies the two:
  `eval_sweep` with `billed + paid <= NumCards * CostCap`. `SweepCostBound` has the
  true bound.
* The single-shot arm's second request looks at no cap (single_shot_llm.py:145).
* A batch that is killed leaves runner.lock; the WAL probe polls for the file to
  go away (prom_wal_restart_probe.sh:104) although the kernel freed the lock:
  `lock` with `ProbeGetsIn` less `deaths > 0`.
* docs/workflow.md:150 has the residue check decide; run_batch.py:994 records it
  and uses it nowhere.
* docs/workflow.md:146 forbids a next injection over a failed revert; in card mode
  the batch goes on (run_batch.py:977): `OneFault` with `FALSE` for what it says of cards.
  With two cards that drop the packets of one service it then adds a second rule;
  one revert deletes one rule and the state file (drop_inbound.sh:67), and the other
  rule is left with nothing to tell: `NoSilentResidue` and `OneFault` less `DropsTwice`.
* delay_outbound.sh:125 and drop_inbound.sh write the state file after the fault is
  live; stopped in between, nothing refuses the next batch: `NoSilentResidue` less its
  conditions on stops.
* The batch saves the copy of a card it read before the batch began
  (run_batch.py:842): what was edited in the yaml meanwhile is lost.
* A packed card that is run again keeps `packed` while its pack is rewritten
  (run_batch.py:845): `PackedIsWhole` less its condition.
* A pack is no evidence by itself that it is whole: a repack that is stopped leaves
  new files under the card's old manifest (pack.py:564), and a rebuild of the graph
  leaves the references of every card packed before with the hash of a graph that is
  gone (pack.py:494), although the reference says the graph is "generated once":
  `ManifestTells` less its conditions on ends, `RefTells` less `"rebuild"`.
* A query for one service that fails counts as no spans and no errors
  (three_signals.py:190), although run_batch.py:707 is "refusing to certify recovery
  from an absent measurement". With the target's own traces of the recovery window
  lost, a misconfig that goes on is certified as recovered and its card is admitted;
  with a caller's lost, so is a crash, a blackhole or a latency that only that caller met.
  In a target without SDK uncollected traces are silence (run_batch.py:482), and with no
  edge in the baseline the target's counter alone certifies recovery (run_batch.py:596):
  `LossNeverPasses` without `Answered(SymptomFooledBy)`, without `Answered(RecoveryFooledBy)`.
* `probe_gate` admits `symptom` and `recovered` of None (run_batch.py:814), and so
  a cycle of which all answers show the contrary: `LossNeverPasses` without its
  `Answered(SymptomLeftOpenBy)` and `Answered(RecoveryLeftOpenBy)`.
* The floor of 5 errors is a count: in a recovery window shorter than the injection the
  same fault may fall below it (run_batch.py:548): `OngoingIsNotRecovered` without its
  condition on lengths.
* main.py:14 says that a container whose migrations did not run reports 503. After the
  last attempt an api serves whatever it has reached, and healthz asks only for
  `runs`, a table of the first migration: with that one applied and the second not, it
  answers 200. `catalog` with `apis[a].pc = "up" => apis[a].synced` shows how it comes about.
* A card whose yaml was removed keeps its row in the snapshot: nothing deletes from
  `cards` (cards_sync.py:75).
* evidence_tools.py:461 tells the agent a series is "downsampled"; with less than
  twice `max_points` the stride is 1 and only the first `max_points` are returned
  (evidence_tools.py:303-304; the samples of spans likewise, 370 and 384). A service
  that is merely absent from the window is refused with "has no series".
* detect.py:19 has "errors >= N" of the injection window. A series of errors is born
  with its first error, and what it starts from counts as nothing; errors before the
  first sample are lost. A silence that is flat first and stale then, or the other way
  round, counts only as its longer part (detect.py:285-289), which is why
  `SilenceIsTold` asks for `InjectSteps >= 2 * ZeroRun - 1` and half the expected calls.

## 8. What is not modelled

* In the service: the contents of requests and results beyond key, body, cost and
  success; grading; connection pooling. Rows are never deleted, as in the code, so
  the 409 "in flight; retry" branch cannot be taken. Two reimports at once are
  possible in the model but not in a run (the state space; one call already meets
  the worker at every step).
* In `Primitives`: a full disk or unwritable state directory; a qdisc tree left
  half built (the scripts roll it back; it carries no fault without its filter);
  the token and mode checks of the command line.
* In `BatchRunner`: the judges' arithmetic (in `ProbeGate`), the contents of packs
  and of cards beyond the production block. A second batch after `kill -9` waits
  for the script that is still running; the code would start at once and could
  overlap with that script's last commands, which are seconds long. That two batches do
  not run at once is taken from `BatchLock`, with its exception.
* In `EvidencePack`: the queries and what they return, the contents of files beyond
  the job that wrote them, two packs of one card at once.
* In `BatchLock`: children that inherit the descriptor (a watcher of a killed probe
  may keep the lock a little longer).
* In `ProbeGate`: more callers than two, errors that several callers share, spans of
  one service that the answer for another brings along (they only make a failure
  milder); matching of spans to edges, quantiles, log counts, the stepping of
  the spanmetrics counter; one snapshot per window is judged; the debug tier, which
  judges nothing, is `ObserveOnly` of `BatchRunner`. The delay is 800 ms.
* In `ReadSide`: the filters by arm and model (they only narrow the rows), the sums and
  means of a summary, the shapes of answers. `created_at` ties in the code by imports
  from a directory dated to the day; any tie is allowed in the model.
* In `Catalog`: the columns of a card and the check of its pack behind `evidence_ok`; GET
  /cards, one statement; the worker's own start (it fails and polls until the tables
  are there); removed yaml files.
* In `EvidenceTools`, `Alerts`: `logs_search`, the views that return a file as it is, the
  tools' schemas, rounding, how far an alert deviates and the order of alerts.
* In `AgentLoop`: texts, token counts, the spans exported by tracing.
* The single-shot arm (sequential, at most two requests), generating cards from the
  recipe, and the stateless components listed in `PROJECT.json`.
