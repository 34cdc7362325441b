# A verification project for the test platform's backend

This directory holds TLA+ models of the backend under `src/backend/app`, the TLC configurations
that check them on small instances, and TLAPS proofs about them. `PROJECT.json` lists components,
runs, mutants (deliberate slips, each of which a run must catch), the source lines behind every
definition, hazards, findings and theorems.

Run `tlc -config X.cfg M` for the pairs in *Runs*, and `tlapm M.tla` for the modules in *Proofs*.

## The system

The backend is one FastAPI application over one PostgreSQL database (READ COMMITTED), a few
subprocesses, and a React client. A *test run* is a row of `test_runs`; almost everything else either
feeds one or reads its verdict.

| Component (under `backend/app/modules`) | State | Operations | Modelled |
|---|---|---|---|
| run commands (`run_orchestration/service.py`, `router.py`, `repository.py`) | `test_runs`, `command_receipts`, `command_idempotency_records` | start under an Idempotency-Key, cancel under a version, sweep of stale runs, a script draft from a trajectory | partly, in the four models of runs |
| script executor (`executor.py`) | a task in `BackgroundTasks`; the run row | dispatch, validate, drive each case, verdict, triage, gate | `TestRun` |
| browser worker (`playwright_worker.py`) | a subprocess; `case_results` | stop check, result, heartbeat | `TestRun` |
| agent worker (`agent_worker.py`) | a subprocess; results and trajectory until the end | steps under limits and refusals, stop, one last transaction | `AgentRun` |
| performance runs (`executor.py`, `perf_worker.py`) | run row, snapshot and summary JSON, a detached process | queue, reserve, wait for approval, load, finalize, release, promote | `PerfRun` |
| external CI (`external_ci_executor.py`, `command_port.py`) | `result_summary["ci"]`, the build in Jenkins | trigger, poll, collect, observe a webhook, resume, collect on cancel | `ExternalCi` |
| quota governance | `perf_concurrency_in_use`, a token budget that is only read | reserve, release | the slots in `PerfRun` |
| failure triage | clusters, `result_summary["clustering"]` | group failures, ask the models, suggest heals, report, correct | `Triage`; its place in a run in `TestRun`; corrections in `Commands` |
| results and evidence | `case_results`, artifacts, export packages | append, export, query | stored results in `TestRun`, exports in `Background`, evidence in `Triage` |
| quality gates | policies, evaluations, waivers | evaluate a run, tell GitHub, answer a reader, waive, edit a policy | `Gate`; its place in a run in `TestRun`; waivers in `Approval`, policies in `Commands` |
| approval policy | `approval_requests` | preview, create, decide, expire, resubmit, side effects | `Approval`, `perf_high_risk` in `PerfRun` |
| release orchestration | release tasks, item refs, jobs | create, advance, prepare, retry, cancel, observe | `Release`, inside `Approval` |
| execution registry | environments, secrets, job contracts | register, activate, disable | environments in `Approval` |
| test assets | cases, versions, plans, imports, baselines | draft, review, rollback, invalidate, heal; versioned commands | `Cases` inside `Approval`, `Commands` |
| integration hub | deliveries, connectors, channels, tokens | verify, deduplicate, apply; versioned commands; a Jira write | `Background`, `Commands`, `Approval`, `ExternalCi` |
| identity and tenancy | organisations, projects, members | members and roles, kill switches and their restoring, SIEM setting | `Commands`, `Approval`; login and sessions are not |
| AI governance | generations, copilot sessions, model routes | generate, answer a message, switch off, route | `Background`, `Commands` |
| HTTP runner, variables, report adapters, job schema | none | parse, resolve, request | no |
| core, API shell, migrations, frontend | none of the domain's | – | no |

How they interact. The router answers a command in the request's transaction and queues a background
task behind the commit. The task works in a series of short transactions; in between it makes HTTP
requests, waits for a subprocess or asks Jenkins or a model. Cancel, approval decisions, webhooks, the
sweeper and the workers are other transactions on the same rows. A transaction that loads a row with
`for_update` is serialised with the others; everything read without the lock may be old when it is
used, and `UPDATE` checks no version. An approval is decided and carried out in one transaction, so the
side effect runs under the lock of the request, but what it does in Jira or in the release system is not
rolled back with it. Nothing in the database remembers a background task: it is gone with its process.

What makes a component correct, and hard to test:

* a script or agent run: no green verdict without every result; an accepted cancel is never overtaken;
  nothing is stored under a verdict; every run ends, unless its task is lost;
* a performance run: one admission per scenario, exact quota, no risky load without a grant;
* an external run: one build per run, evidence that never improves, success with a report behind it;
* an approval: what was done to an object is what the requests executed with success say, one for one,
  whatever expires, is resubmitted, raises or is decided twice;
* a release task: no answered item is lost, made up or asked for twice, and ends absorb late events;
* a command: done once per key, on the state its caller had seen;
* accepted work: the client is told what was done, it is done once, and it ends;
* a gate: one evaluation per run, a pass that is earned, a verdict GitHub knows or an alert about it;
* a failure report: grounded in failing results and existing evidence, whatever a model answers.

The hazards in `PROJECT.json` list, line by line, where each of these could break.

## Modules

One action is one transaction, or one step outside of any. A transaction that takes a row lock is
atomic; what is read before the lock is a step of its own. Refusals that change nothing are no steps.

`RunContract` is the abstract specification of a run: open until one of four ends, cancel accepted
and then confirmed, success only over a full set of passed results. It knows no task, worker or lock.
Who executes a run may give it up (`GiveUp`), which commits a stop before it is confirmed, or call it off
at once (`CallOff`). `TestRun`, `AgentRun` and `PerfRun` implement it; `ExternalCi` does not, for a late webhook reopens a
run that has ended (see *Findings*).

`TestRun` is the detailed model of script runs; it implements `RunContract` under the mapping
`ContractState` (`KeepsContract`). `task[r].pc` is the place in `run_test_run_background` /
`_execute_script_run` / `schedule_*`; `worker[r]` the subprocess of the current web case; `view`, `receipt`
and `start` are the requests of callers. A request of an api case may raise (`RequestRaises`): nobody between
`client.request` and the event loop catches it, so the task is over (`"raised"`) and its run stays as it is. `beat` abstracts the heartbeat's timestamp to null, fresh or
stale, `result` a case result to its outcome.

`AgentRun` models `execution_source = "agent"`: the worker subprocess takes steps (allowed, refused, with a
confirmation, raising) until a case passes, fails or a limit is met, and keeps results and trajectory to
itself until `Store`. It implements `RunContract` too. Start, cancel and sweep are those of `TestRun`, without keys.

`PerfRun` models runs with a performance case. The second transaction of the dispatch locks its own run
but not its siblings: `LookForSiblings` reads them, and `Requeue`, `Turned` or `Admit` writes later. The start looks at
them too, before its insert (`WasBusy`). `Losses` and `Sweeping` are sets of runs: those whose processes may die, and those
that somebody sweeps. A sweep can end a run whose worker is at its load; `Mutex` lets only such
workers (`Swept`) load beside another.
The worker that ends a run is a process of its own, and `WorkerFinalize` stores its result whatever the run is by then; that
a performance run still keeps `RunContract` (`KeepsContract`) is therefore a claim of its own. Once stored, the outcome is
forgotten (`WorkerForgets`), which only saves states.
`hash` records whether the approval hash really reached the database: the JSONB columns do not track
mutation in place, so it does only if the summary was null before (`noted` false). `late` is a reader of
the approval that holds an unlocked PENDING row past its TTL.

`ExternalCi` models one external run with Jenkins as its environment. A delivery reads the row
(`Observe`) and writes back the status and the whole summary from what it read (`Record`). A report may be
collected whole, in part, not at all, or without anything to account for (`CollectUnaccounted`), which leaves the run as it is.

`Approval` EXTENDS `Release` (release tasks and the jobs behind their answers) and `Cases` (drafts, reviews,
the chain of versions) and composes them with requests, environments, gate evaluations and Jira. A behaviour
is about one action type, `kind`: targets of different types are independent. A decision and a
resubmission hold the lock of the request (`busy`) from the look to the commit, and the side effect is
part of the decision's step; a reader takes no lock, so it loads a late request (`stale`) and expires it
later. A side effect that raises rolls the database back, but not Jira and not the release system.
While the organisation has no connector with a loopback address, a stub makes up the item or the issue and nobody is asked
(the answer `"stub"`). An observation of the release connector's webhook is checked for its signature only: it counts as
READY for the task it names, whether or not there is an item (`Observe` may occur at any time, `MaxEvents` times a
task). A resubmitted waiver keeps the evaluation, or the run, of its origin.

`Commands` is the one protocol of the API's update and create commands, for eleven kinds of row. `kind` says how a row is
handled: lock first; key first and then the lock; or no lock, with everything written computed from
what the request began with. `log` is the history of effects; `Raced` names the overlaps in which the unlocked ones lose.
What is compared under a key is the body (`Body`), and the path is no part of it: a key used for another row of the kind
(`Elsewhere`), or with the same body for another member (`MemberInPath`), is answered with the stored response and nothing happens.

`CommandContract` is the abstract specification of a command: it takes effect in one instant, once under its key, on the
version its client named, and a client is answered what is so in that instant. "Replayed" says that a command with this key
and this body took effect, on the path of the request or on another one. `Commands` implements it (`KeepsContract`): the
look-ups before the lock or the insert show nothing, and commit and answer are one step. The part about versions is
claimed of the kinds that lock their row; for the others the contract sees requests that name no version, because those
handlers compute from an old row (`Raced`).

`Background` is what is accepted first and done later: webhook deliveries, export packages, generated
cases and copilot messages, with unsigned and repeated requests, failures, kill switches and a crash.

`Triage` models the report of one run, with up to three tasks at it. The models are an environment with
arbitrary answers (`Replies`). At this commit the language model's `invoke` is a stub that never answers
(`core/llm_factory.py`), and the tests replace it; `Triage` models the code behind its interface, the stub being
the reply that is not ok.

`Gate` models the evaluation of one run by the tasks that end with it (every executor of an external run
does, so there can be two), the check run they write to GitHub, and a reader. `task[e].view` and `reader[r].view`
are what was read without a lock. A status is known to the gate by its set only, and a metric the report lacks is `None`, so
no limit is met by it. Whether a metric must be there is told by the summary (`perf`), as in the code. The rules (`Partial`, `RateMet`, `Result`, `Conclusion`) are operators on `report`; `Turn`
stands for the executors of the other models. Its initial predicate and next-state relation have names of their own
(`GateInit`, `GateNext`, `GateSpec`), so that one module of proofs can extend it beside `Triage`.

`MC...` modules give the configurations their constants. There are no RECURSIVE operators. Definitions
called `...Mutant` are not part of the models; each is a plausible slip of the definition that follows it.

## Runs

| Run | Instance | What it shows |
|---|---|---|
| TestRunExec | 1 run, cases web, api, web, 2 cancellers, minimum rate 50 | contract, no false green, cancel wins, the gate only on verdicts, frozen evidence, optimistic locking, nothing abandoned, liveness |
| TestRunStart | 2 runs with a case of a type without an executor, 2 keys, 2 bodies, 2 starters | a start is done once |
| AgentRunAll | 1 run, 3 cases of 2 steps, 6 steps and 3 refusals at most, 2 cancellers, sweeper, crash | contract, trajectory agrees with the run, a run that is given up is cancelled |
| PerfRunAll | 3 runs, 2 of a scenario, the later one high-risk, quota 2, losses of the high-risk one, a sweeper for both | contract, exclusion, exact quota, approval, decisions |
| ExternalCiAll | 2 deliveries, an earlier red build, losses and sweeper | one POST, backed success, evidence that only worsens |
| ApprovalAll | 3 users, 1 target, 2 requests, 4 case edits, 2 evaluations, 2 observations, 1 retry | effects and executed requests agree, one grant, no answered item lost or made up, ends absorb |
| CommandsAll | 3 requests, here or about another row, 2 keys, 2 arguments | one effect per key, serial versions under a lock, losses only by the named race |
| BackgroundAll | 3 requests, 2 keys, 2 bodies | what is told is what was done, once, and accepted work ends |
| TriageAll | 2 cases, 3 tasks, 2 groups (one stale), 3 locators, 11 replies, 4 heals | grounded clusters, heals that keep a primary, degraded reports that hide nothing |
| GateAll | 2 tasks, 1 reader, 6 reports, 2 policies, 1 edit, 2 turns of the run, 3 attempts at GitHub | one evaluation, a pass that is earned, GitHub told or an alert, a reader told what fits |
| TestRunCancelLost, PerfQueue | the smallest that shows it | one refuted promise of the documents each; see *Findings* |

Bounds. One run is enough for `TestRunExec` and `AgentRunAll`, since runs share nothing but the sweeper and the
start records; the second run is in `TestRunStart`. Three cases are a first, a middle and a last one, and take
both paths to a passed result (a case of another type never passes: with one no run could succeed, so it is
in `TestRunStart`); at a minimum rate of 50 a failed run may pass its gate. Two cancellers are needed to race
for one receipt. Three cases of two steps can meet the limit of six steps exactly, and three refusals can
be consecutive or not. Three performance runs are the fewest with a competitor in the scenario
and one for the quota alone; the high-risk one is the later of the scenario, so that it can have been queued (and lose its
hash) before it waits for approval. A quota of two lets a sibling be admitted while the worker of a swept run still loads, and the
run of the other scenario still meets the limit; only the pair is swept, and only processes of the high-risk run are lost, for
a loss is the same for each run and the sweeper does nothing to a lone one that it does not do to these. Two deliveries are the fewest of which one can be older than what the
other's executor did; all deliveries of a build carry the same two events. Two approvals are a request and its
resubmission, or two rivals for one object; with three users, initiator, first and second approver can
differ; two observations and one retry suffice to be early, late and repeated. Three requests under two keys are a
command, its repeat and a rival. Three tasks are one more than the code can start for a run; the replies
cover no answer, partial, foreign and overlapping ones. Two evaluators and two turns are the fewest that can judge a run
differently; the six reports are half passed, partial and empty ones, and loads with no metric, one and both, at and above a limit.
The two rates, 50 and 100, are met exactly.

No counter needs a bound of its own beyond those constants: versions count the writes of a row, and each
caller, delivery and reader acts a bounded number of times (`MaxApprovals`, `MaxEdits`, `MaxCaseEdits`, `MaxEvents`,
`MaxRetries` bound what could repeat for ever in `Approval`, `MaxTurns` and `MaxEdits` in `Gate`). Symmetry is used for
interchangeable callers, tasks, keys and contents, in runs without liveness. Deadlock is not checked: when every caller
has been served and every task is over, the system rests.

Fairness is assumed in `TestRun`, `AgentRun`, `Background` and for `PerfQueue`, and only for tasks and workers that live: the
event loop runs a ready task, HTTP requests have a 30 s timeout, the browser library bounds its actions, an
agent run has a total timeout, the load generator is given a run time. Callers, Jenkins, webhooks, the clock,
failures, the crash and the sweeper have none; the application schedules the sweeper nowhere, so no property leans on it.
Liveness therefore says "or its process died". For script runs it has a second exception: the timeout of an HTTP request ends
it by raising, nothing in `executor.py` catches that, and the task is lost while its process lives. The agent
worker catches the errors of its requests.

## Findings

Where the code does something else than its documents say, with a run each: a cancel accepted just after RUNNING
is never confirmed (TestRunCancelLost), and two queued runs of one scenario wait for each other (PerfQueue).

The modules also state promises that TLC refutes and that no configuration checks. They are kept because they
mark, next to the property that does hold, how far it goes:

| Definition | Promise, and what the code does |
|---|---|
| `TestRun!NoPermanentRunning` | no run is RUNNING for ever (prd.md:585); one is whose task died of a request that raised (http_runner.py:53), for nothing calls the sweeper |
| `TestRun!PartialReportNeverPasses` | a partial report fails the gate (prd.md:1206); a browser that failed leaves no row, so the rate does not count it |
| `PerfRun!NeverParallelLoad` | a scenario has "never parallel load" (executor.py:727); the worker of a run that was swept loads on beside the sibling admitted since |
| `PerfRun!QuotaReturned`, `DecisionRecorded` | a slot is given back when its run is cancelled (m3.md:16), a decision is recorded (prd.md:602); not when the run is cancelled before its load, not when a reader expires it late |
| `ExternalCi!TerminalAbsorbing`, `StopHasPriority`, `CancelCollects` | ends absorb (prd.md:584), a stop comes first (problem_model.md:167), a cancelled run is collected (prd.md:1335); a late webhook reopens, a verdict overtakes the stop, a waiting run is not collected |
| `AgentRun!EvidenceFrozen` | results under an end are final; a worker that outlives its run stores its own |
| `Approval!DecisionStands` | a decided approval stays decided (prd.md:602); a reader that loaded it before, without a lock, expires it |
| `Approval!HealsNeverCollide` | a heal decided on the version it was asked for can be carried out (prd.md:975, 1116, 1123); after a rollback its sequence number is taken |
| `Approval!WaiverAsShown`, `HealedWithConfidence`, `FailedMeansNone` | the waiver is on the evaluation shown, heals are for confident clusters only, a failed Jira write created no issue |
| `Approval!LateReadyKept` | each late READY is recorded; of several, the first one is |
| `Approval!ReadyHasItem`, `ReadyIsReleased` | READY follows the creation of the item (prd.md:621); a signed observation suffices, and without a connector the item is made up |
| `Approval!RejectedCreatesNone` | a rejected or cancelled push creates no item (release command_port.py:64); a release system asked before a roll-back has one |
| `Gate!NotTerminalMeansOpen` | not_terminal is the reason of a run in progress (m2.md:22); an evaluation that died with its process is reported so for ever |
| `Gate!OneConclusion`, `AlertsAreReal`, `PassStands` | what GitHub and the alerts say is about the stored verdict, and a pass about the stored results; the loser of the race publishes too, and later evidence is not judged |
| `Commands!TightenHolds` | an accepted tighten holds until it is restored (prd.md:674, 850); concurrent writers overwrite it |
| `Commands!HasOwner` | a project has an owner; two owners may demote each other |
| `Commands!RetryAnswered` | a repeat gets the stored answer (01_domain_and_service_architecture.md:466); commands that look at the version first refuse it |
| `Commands!ReplayedTookEffect` | a repeat gets the answer of the command it repeats (01_domain_and_service_architecture.md:466); so does another command with this key and body, whose path names another row or member |
| `Commands!HistoryComplete` | the history of a cluster has every correction |
| `Background!ResumeRuns`, `MessageOnce`, `SwitchStops` | a stored webhook resumes its run, a message is appended once, a switch stops the copilot (prd.md:1264-1269, 1813); not after a crash, not when repeated, not when it is turned on before the answer |
| `Triage!ReportSettles`, `NothingHidden` | a report settles and shows every failure (prd.md:533); two tasks can leave it pending, and a list a model gave is taken for whole |

## Proofs

All theorems hold for every value of the constants that satisfies the assumptions named in the modules
(at least one case or run, a risk for every run, natural quota and bounds, an absent value that is no member, a primary
locator, replies of the right shape, finitely many requests and at least one).

* `TestRunProof`. `TypeOK` is inductive. `NoFalseGreen` is not: the verdict comes from the flag the task
  remembers. `Bookkeeping` closes the gap: while the run is RUNNING the flag implies that every case before the
  current one is stored as passed (`MemoryTrue`); a worker belongs to a waiting or dead task
  (`WorkerPlaced`); a verdict leaves nobody who could store (`VerdictLast`); and a task begins with its first
  case (`FreshTask`). Then `Finish` yields `NoFalseGreen`, and only `RecordApi` and `WorkerRecord` store, neither
  under a verdict, which is `EvidenceFrozen`. `CancelWins` is inductive with the types: only `Cancel` hands out
  a receipt, and the stop signal is never taken back. `GateOnVerdict` and `NothingAbandoned` follow
  from where a task can be under each status (`Placed`) and from the signal behind a STOPPING run (`Signalled`).
  `CancelActsOnWhatItRead` needs that equal versions mean equal rows (`ViewTrue`), `StartOnce` that a record, the
  run it names and the reply agree (`Started`). Last, script runs implement `RunContract`: the missing fact is that a
  result is stored once, for the worker and the task are never behind what is stored (`Ahead`); then each action
  maps to a contract step or a stutter.
* `AgentRunProof`. `Ordered` says what the task and the worker can know of the run at each place (`Knows`), that nothing is
  stored before `Store` (`BeforeStore`), where a task may be (`TaskPlaced`), and that the trajectory tells the same (`Tells`).
  `TrajectoryTells` and the refinement of `RunContract` follow.
* `PerfRunProof`. `AllSound` relates the columns of one run to its task, worker and approval (a task admits
  only a VALIDATING run, nobody works for an early one, a risky one gets on by a grant only, a waiting run's
  worker waits). `StepIsLocal` says that a step leaves other runs alone, so the invariant needs one case analysis
  per action. For `Mutex`, a run begins to occupy its scenario only after a look
  that found no active sibling (`StepOccupies`), and every run that occupies one, `admit` included, is active
  (`Exclusive`); and a worker that loads has a run that is RUNNING or STOPPING, or was swept (`Backed`).
  `QuotaExact` counts `SlotHolders` with the cardinality theorems. For the contract, `Stored` says that nothing is stored before the
  worker's last transaction and a run that succeeded has its passed result: result and verdict are written together. Each action is
  then a contract step on its own run (`StepShows`, `StepIsShown`); a kill switch is `CallOff`.
* `ExternalCiProof`. `PostedOnce` needs that an intent once stored is never lost: not in the row of a run that is
  still open, and not in any summary a delivery has read (`Once`, `Recorded`). `SuccessBacked` follows the
  report from the build to the row. A run that has ended does move here, but only late writers move it (`OnlyLateWritersMove`):
  `StopAsked`, a cancelled run has its stop signal, keeps it cancelled when the answer of Jenkins arrives; `Unshared`,
  nobody else holds a run that waits for its executor, keeps the validation from failing one that ended.
* `ApprovalProof`. `Base` is what every action type shares: a pending request has no result, the holder of its lock is
  not its initiator, it was decided by another, and the evaluation it names exists. `Stepped` classifies what a step
  does to the requests (nothing, a grant, a registration, a refusal and so on), and `TaskStep` what
  it may do to a release task. With these each action type has a short invariant of its own
  (`EnvOK`, `HealOK`, `WaiverOK`, `JiraOK`, `ReleaseOK`) that counts its effects. `NoPhantomRelease` is inductive
  with the types, by what `TaskStep` allows.
* `CommandsProof`. `Ends` classifies how every handler ends (it fails, looks or succeeds), so that each invariant is shown for
  a few kinds of steps: `Once`, a key has one entry in the log; `ToldTrue`, a client is refused only for what is so; and, under a
  lock, `Serial`, each entry starts where the one before ended. `OncePerKey`, `LockedSerial` and `RetryAnsweredLocked`
  follow. For `CommandContract`, `Fails` and `Succeeds` give the contract's answers (`LookShown`, `FailsShown`,
  `EffectShown`) and a look stutters. For `LostByRaceOnly`, as long as no overlap was noted (`Raced`), the effects are `Apart` (each starts from a
  version of its own) and what the clients were `Told` still stands.
* `BackgroundProof`. Each key has its own invariant (`WebhookOK`, `ReceiptOK`, `CopilotOK`): what is stored for it, the requests that
  were answered from it and the jobs that are left, counted by cardinality. Most steps leave a key alone
  (`KeptKey`); the others are the acceptance, the work and the failure of its job. `DoneOnce` follows.
* `AfterRunProof` is about what follows the end of a run, the triage and the gate. Of `Triage`: `Sound` keeps clusters
  within failing results and their evidence; `StoresLast` places the one write of a task; `RulesPartition` says the
  fallback's groups hold each failure exactly once; `PendingWatched` that a pending report has a task, or lost it by the
  race. Of `Gate`: `Sane` adds to the types what a task has made sure of at each place (the run is no agent's, it has a
  policy, its report is whole); `Once`, that who has stored an evaluation has ended; `WellEvaluated`, that a stored result is
  what the rules give for the report and the policy it was drawn from (`Judges`); `Marked`, that what is judged of a
  performance run bears the mark of a load; `ToldTheResult`, that GitHub has no verdict
  of a task before it judges, then only the one it is about to store, and for the run's evaluation that verdict or an
  alert; `AllReadInOrder`, that what a reader has read of the evaluation still holds while it reads on. `OneEvaluation`,
  `PassEarned`, `NeverSilent` and `ReaderTold` follow, and that a verdict is final (`VerdictFinal`): neither the run's
  evaluation nor what its task has told GitHub changes.

Some formulas are proved without a run of their own: `Bookkeeping`; `TypeOK` of every module but `TestRun`, whose run checks
it too (in `Gate` it is called `GateTypeOK`); `TerminalAbsorbing` of `TestRun` and of `PerfRun`; `VerdictFinal`; `OnlyLateWritersMove`;
and `KeepsContract` of `Commands`. TLC agrees with the last two on the instances of their components' runs; the cfgs leave
them out, the second because it nearly doubles the time of CommandsAll.

Only model-checked: liveness (`EventuallyDecided`, `StopConfirmed`, `RunEnds`, `AcceptedEnds`), for TLAPS proves
neither fairness nor ENABLED. Every other property of a passing run is a theorem. Induction over data and RECURSIVE operators
are out of the prover's reach too; the modules have none of them.

## Not modelled

Authorisation and tenancy checks, resource lookup, formatting, artifacts, logs, statistics of a load, and the
text of reports, drafts and clusters. Database errors other than the unique constraints named in the modules.
`TestRun` evaluates its gate in one step; `Gate` takes it apart. Login and sessions, secrets, and the
parsers (HTTP runner, variables, report adapters, job schema) are left out: the first two keep little state that other
components read, the last keeps none. The token budget is a constant, since nothing consumes it. Core, API shell, migrations and the
frontend hold none of the domain's state. A background task is not restarted, because nothing in the code does.

## Plan

Done: runs of all four kinds, three of them with their contract, and for the fourth who may break it; approvals composed with releases, cases, environments, waivers
and Jira; the command protocol and its contract; accepted work; triage; gates; safety proofs of all. Left, in this order:

1. login and sessions;
2. pure algorithms: variable resolution, adapters of reports, locator health.
