# TLA+ models of content-factory-v2

This directory holds TLA+ specifications of the parts of content-factory-v2
whose correctness depends on the order of events: work that is claimed by
several processes, paid for at external providers, retried, reconciled and
recovered after crashes.  Each module is written from the source named in its
head comment; `PROJECT.json` maps every definition to the lines it stands for.
TLC checks the modules on small instances, and the theorems in the `*Proofs`
modules are checked by TLAPS for every value of the constants.

## 1. The system

The program turns a structured brief into a finished video and, after a human
approved it, hands it to a destination.  All durable state is in PostgreSQL
(schemas `v2_1` to `v2_10`) and in a file store of immutable artifacts; the
processes (workers, a CLI, the operator dashboard) keep nothing else.  Every
`await` of a query or of a provider is a point at which another process may
run, or at which the process may die.

```
 dashboard / CLI ── ProductionCommandService ── LiveProductionService ─┐
                        │ (V2.7)                   (V2.4, a job)        │
                        │                                              ▼
                 ShotRegeneration                   renderer router: QUALITY | FAST
                                                     │                    │
 worker: PipelineExecutor ─ StageRunner        DurableMediaExecutor  DurableFastRenderer
        (V2.1, jobs and stages)                    (V2.5, per asset)      (V2.6)
                │                                    │        │
        publication (V2.1) ◄── human review ◄── master     ArtifactService ─ LocalArtifactStorage
        and its recovery          (V2.3)                     (immutable files)

 before a start: creative draft ─ quality director (approvals) ─ locked keyframe ─ pilot   (V2.10)
 after a failure: semantic retry (V2.9), shot regeneration and source recovery (V2.7, V2.10.x)
 beside all this: the legacy worker over migration 001 (scripts and production plans)
```

### Inventory

| component | state | operations | what is hard | what makes it correct |
|---|---|---|---|---|
| V2.1 execution engine (`worker/v2.1-execution-engine.js`, `-stage-runner.js`, `-pipeline-executor.js`, migrations 002, 20260819 and 20260821) | `v2_1.jobs`, `stage_runs`, `productions` | claim a job, claim its next stage, heartbeat, complete or fail a stage, complete a job, recover expired work | workers race for claims, leases expire under a running handler, recovery runs beside workers, worker ids may be shared | one active run, stages in order, a run is handed to one process, a completed job is whole, every job ends |
| Durable media executor (`src/v2.5/durable-media-executor.js`) | `v2_5.media_executions`, the artifact file, the provider's predictions | `execute`: ensure, cached, claim, mark boundary, submit, record, poll, inspect, store, adopt; `markFailure` | crash or lost answer around a paid call, stale copies of the row, failing calls that overwrite the row | money is spent only behind a durable mark, and once; bytes served are the bytes generated |
| Artifacts and storage (`src/artifacts/artifact-service.js`, `src/storage/storage-adapter.js`) | files under deterministic keys | createVersion, getVersionByIdempotency, put | check and write are separate steps, a file exists before it is full | a key keeps its first content |
| Publication (`src/v2.1/publish-executor.js`, `publication_atomicity` migration) | `v2_1.publications` | claim, publish, record the outcome | two callers, errors after delivery, a destination that deduplicates nothing | one execution at a time, one copy, PUBLISHED means it is there |
| Reconciliation (`src/v2.1/reconciliation.js`, `worker/v2.1-recovery-executor.js`) | the worker lease, the same row | look up, classify, assert ownership, confirm, retry or keep | a lease that expires during a lookup, an old answer | only the owner changes an UNKNOWN publication |
| Live production (`src/v2.4/live-production-service.js`) | a job of stage EDIT and its production | create draft, create and claim, mark boundary, complete, fail, retry the semantic evaluation | it shares `v2_1.jobs` with the V2.1 workers and with recovery; a 30 minute lease without heartbeat | a paid run is not started over blindly; what is completed has its video and its review |
| Fast renderer (`src/v2.6/durable-fast-renderer.js`, `moneyprinterturbo-adapter.js`) | `v2_6.fast_render_executions`, the renderer's tasks | ensure, claim, mark boundary, post, record accepted and status, store, adopt, register, `markFailure` | as the media executor; a refused call writes over the doubt it refused for | one task; a master under review is stored and valid |
| Human review (`src/v2.3/control-review-service.js`) | review items and decisions, append-only | register a master, decide | duplicate registration, two reviewers deciding | one decision per item, never changed |
| Semantic retry (`src/v2.9/semantic-evaluation-retry.js`, the end of `live-production-service.js`) | `v2_9.semantic_evaluation_attempts`, the voice asset, the master, job and production | confirm, plan, start, evaluate, reuse a PASS, buy the voice, build, finish, complete | history read before the start; a crash leaves an attempt RUNNING; three statements complete three rows | a PASS and a voice are paid for once, a FAIL of content is final, completion is whole |
| Operator console, shot regeneration (`src/v2.7/*.js`, `control-repository.js`) | `v2_7.shot_regenerations`, scheduled runs | start, retry, continue; preflight, confirm and execute a regeneration | a request confirmed twice, two revisions planned on one input, an execution behind an answer | a request is executed once, revisions build on one another, the master shows them |
| Source recovery (`src/v2.10.1`, `v2.10.2`, `v2.10.4`, `v210-quality-resume.js`) | the job's error and payload | inspect, recover, one automatic replacement per kind and shot | the count is read before the insert; a verdict of bytes that are no longer the failure | one automatic replacement, resumed together with its job |
| Creative draft and quality director (`src/v2.10/quality-*.js`, `creative-*.js`, `integrated-starter.js`) | the draft, revisions of script and storyboard, approval events, `start_state` | edit, save and approve script and storyboard, approve look and pilot, preflight, start | edits and withdrawals of approvals are separate statements, the gate is asked before the claim | what starts is what was approved, and starts once |
| Locked keyframe (`locked-keyframe-service.js`, migrations 20260901 and 20260903) | workflows, preflights, attempts, keyframes | prepare, execute, evaluate, approve and bind a keyframe; prepare, make, review a pilot | two calls on one preflight, a trigger that rules on transitions elsewhere | a preflight is paid for once, what is approved passed |
| Legacy worker (`worker/factory-worker-v2.js`, migration 001) | `generation_jobs`, `job_stages`, scripts, shots, requirements | claim, generate and save a script, queue and make its plan, fail, recover | jobs without lease or owner, every statement its own transaction, a job failed twice | one whole package per script |
| Providers (`src/providers`, `src/v2.8`) | none that lasts | submit, poll, download | answers lost, timeouts | modelled as steps of the executors |
| Master production, timeline (`src/v2.5/production-input.js`, `worker/v2.1-master-production.js`, `-timeline-assembly.js`, `src/v2.1/ffmpeg-master-renderer.js`) | the plan, the stored files, the master, the review item | build the input, preflight, obtain and judge each asset, assemble, render, validate, register | roundings and tolerances that differ between the checks, a verdict that a crash loses | a plan that is paid for can be assembled; a master shows its plan; FAIL and review exclude each other |
| Dashboard routes and client, ffmpeg's encoding, brand registry, image evaluators, sphere motion | read models, pure functions, rendering | | | not modelled, see section 7 |

`PROJECT.json` lists the same components with their status, and under
`hazards` the places in this code where an order of events, a lost answer or
a stale value could go wrong, with the properties that would show it.

## 2. Modules

| module | models | state |
|---|---|---|
| `MediaExecution` | one asset of the durable media executor | the row, the artifact file, what became of each paid request, where each call stands, its stale copy of the row |
| `ImmutableArtifact` | abstract: a register that is written once and answers consistently | the value, the answers |
| `OrderedPipeline` | abstract: stages that are executed one at a time, in order and once | how many are completed, the one in hand, the outcome, the delivery |
| `StageExecution` | one V2.1 job with its production, stages and attempts, its workers, leases and recovery | the job and production rows, the stage runs, where each worker stands and what it holds |
| `Publication` | one publication key, its callers, the destination, recovery workers | the row, the copies at the destination, each call and each recovery |
| `LiveProduction` | one production key of the controlled live CLI (input schema 1) | the job and production rows, the paid video, the review item, each run and its snapshot of the job |
| `FastRender` | the FAST master of one production | the row, the renderer's tasks, the artifact, each call and what it knows |
| `SemanticRetry` | the retries of one failed semantic evaluation | the attempts, job and production, the voice asset, the master, each call |
| `ShotRegeneration` | one production whose job runs, fails, has shots replaced and continues | the job with its error and payload, the regeneration rows, the media of every shot, each call of the console and of `recover()` |
| `QualityDirector` | one creative draft and its four approvals | the draft, the revisions, the events, workflows, keyframes and attempts of the pilot, each session and what it has read |
| `PaidStage` | abstract: a stage that is paid for behind a mark | what has it in hand and how far, what was tried, what was bought |
| `LockedKeyframe` | the opening shot's keyframe and pilot | the draft's shot, workflows, keyframes, preflights, attempts, each call |
| `MasterProduction` | the QUALITY lane of one production (input schema 2 and later) | the plan with its durations, the stored files with theirs, the job, the master, the review, each run |
| `LegacyFactory` | one script job of the legacy worker and the planning jobs it queues | the jobs, the scripts with their scenes, shots and requirements, each process |
| `MasterProductionProofs`, `SemanticRetryProofs`, `ShotRegenerationProofs`, `QualityDirectorProofs`, `LockedKeyframeProofs` | the theorems about the module of that name | |
| `DurableExecutionProofs` | the theorems about `MediaExecution` and `FastRender`, the two durable executors | |
| `JobExecutionProofs` | the theorems about `StageExecution` and `LegacyFactory`, the two executors of jobs | |
| `ExternalEffectProofs` | the theorems about `LiveProduction` and `Publication`, the two modules about an effect outside of the system that one row protects | |
| `MC*` | the instances TLC checks | |

### MediaExecution

A *Call* is one run of `execute()` for the asset.  Its program counter names
the await it is about to make; each action is the code up to the next await,
with every outcome the awaited call may have: success, an error before it had
an effect, and an error after it (a commit whose answer is lost).

* `Ensure`, `FindCached` and `Branch` are lines 213-253; what `ensure()`
  returned (`seen`, `seenRequest`) is a copy that the call keeps deciding on
  while the row changes.
* `Claim`, `MarkBoundary`, `RecordRequest`, `Adopt` and `MarkFailure` are the
  fenced updates; `Mine(c)` is `worker_id = $n`.  `MarkFailure` keeps the
  code's fence, `worker_id = $2 OR worker_id IS NULL`, and takes the new status
  from the kind of failure alone.
* `Submit` and `Poll` are the provider: a request may be lost, be accepted
  with its id lost, succeed, or fail; what became of it does not change again.
* `StoreArtifact` and `FillArtifact` are `put()`: it creates the file
  exclusively and then writes into it; `Torn` is what a reader gets in between.
  `StoreProvenance` may conflict, `AdoptCached` is the path on which a file was
  found; without a provenance text it writes the request that the row named
  when `ensure()` read it (`Recorded`).
* `resets` and `pc = "unreported"` are history: whether a failing call put a
  row that was beyond the boundary back, and whether one could not report.

The provider gateway also deduplicates concurrent calls with equal keys within
one process.  The model leaves that out: it joins calls of one process only,
so leaving it out adds behaviours and hides none.

### StageExecution

A job has `N` stages in the order of `stage_definitions`; `run[<<s, a>>]` is
the row of attempt `a` of stage `s`.  A worker process goes through
`PipelineExecutor.run`: `ClaimJob`, then for each stage `ChooseStage` and one
of `ClaimRetry`, `ClaimFirst`, `ClaimThrows`, `ClaimNothing`, then `Handle`
and `CompleteStage` or `FailStage`, at last `CompleteJob` and
`CompleteProduction`.

* `claim_stage()` selects the stage before it waits for its advisory lock and
  checks the job's lease, the active run and the claimable attempts after it:
  two actions, so the choice can be stale.
* A lease is live until `ExpireJob` or `ExpireRun`, which may happen at any
  time: a heartbeat decides only when, and heartbeats can fail.
* `RecoverRuns` and `RecoverJob` are the two loops of
  `recover_expired_work()`.
* `IdOf` gives each process its `worker_id`, which comes from configuration
  and may be the same for two processes.  The instance TLC checks gives each
  its own; `JobExclusion` and the refinement need that, all other theorems
  hold for shared ids too.
* `INSTANCE OrderedPipeline` maps the rows to what the production sees:
  `Progress` is how many stages have a completed run, `InHand` the stage whose
  run is active, `Outcome` the status of the job, and the production's own
  status says whether it is delivered.  Claims, attempts, leases and recovery
  are behind it.

### Publication

Each *Call* is `executePublicationWithDb()`: `Claim` is the SQL function,
`Publish` the publisher, `Record` the update with the outcome, and
`RecordFailure` the catch block, which an error of `Record` also reaches.  The
updates are fenced by the key alone, as in the code.  A *Reconciler* is a run
of `RecoveryExecutor`: `StartRecovery`, `Ask` (the lookup), `Act` (assert
ownership and call back), `Settle` (the write of the awaited callback) and
`GiveUp`.  The lease may run out between `Act` and `Settle`, and another
reconciler decide in between; `late` is history: that happened to a SAFE_RETRY.

External, and taken as weak as the code allows: the destination keeps a copy
per delivery whatever the idempotency key says; an answer that is given
("confirmed", "rejected", a lookup's) is true, but an error may follow a
delivery; the lease is exclusive and may expire at any time; the callbacks
that confirm, retry and fail, of which the repository has only the interface,
change a row that is UNKNOWN and no other, at any time after the check.

### LiveProduction

A *Run* is a call of `LiveProductionService.run()` for the key.  `Prepare`
takes the snapshot of the job (`seen`, `seenMarked`); `Decide` turns it into
`allowRecoveredRetry` (`allow`), looking for the stored video when the
snapshot says that a prediction may have been started; `CreateAndClaim` is the
one transaction that creates and claims the rows and looks at the job's
*status* again, but at nothing else.  `MarkBoundary`, `CompleteJob` and
`FailJob` are the updates fenced by `worker_id` and `status = 'RUNNING'`
(`Mine`); `CompleteProduction` and `FailProduction` are the statements that
follow them and are fenced by the production's status alone.  `Resolve`,
`Pay`, `Store` and `Master` are `MasterProductionOrchestrator.build()` as this
CLI wires it, without the durable media executor.  Every step may fail, with
or without its effect, and goes to `FailJob`, which decides by
`providerBoundaryCrossed` (`beyond`).

A prediction is named by the run that paid for it, `paid` is the set of those
that were bought, and `stale` (history) the runs that claimed over a boundary
marked after they had read the job.  A file is stored whole here; half written
files are the subject of `MediaExecution`.  `Recover` is the second loop of
`recover_expired_work()`, the only one that matches a job without stage runs;
`Review` is the reviewer's decision.

### FastRender

A *Call* is one run of `render()`; a task of the renderer is named by the call
that posted it, and `fate` is what became of it.  `Look` is `cached()` with
the branch on the row that `ensure()` returned (`seen`); `Claim`,
`MarkBoundary`, `RecordAccepted`, `RecordStatus` and `Adopt` are the fenced
updates.  `refused` and `failing` both end in `MarkFailure`, whose status comes
from what the call knows (`crossed`) and whose fence is "mine or nobody's"
(`MineOrFree`); `reset` remembers that it wrote RETRYABLE over the claim of
another call.  `Render` is the renderer itself.  `INSTANCE ImmutableArtifact`
makes the master the same write-once register that the media executor
implements.

### SemanticRetry

A *Call* is a command of the operator.  `QuoteMedia` is the preflight's look
at the voice and `Confirm` its look at the latest attempt and the operator's
confirmation; what the two announce as paid is `quoted`.  `Plan` reads `history(HistoryLimit)` and
decides on reuse, `Start` inserts the attempt under its unique index and its
trigger.  The paths part at `Judge`; a PASS goes through `Materialize` (with
no new evaluation if it is reused), `Load`/`Speak` (the voice, whose row is
the one of `MediaExecution` in the states a retry distinguishes), `Build`,
`Succeed`, `CompleteJob` and `CompleteProduction`.  Each may fail into `Fail`,
the catch block.

### ShotRegeneration

Three kinds of actor meet at one production: its own run (`ClaimRun`,
`GenerateAll`, `CompleteRun`, `FailRun`, with `Schedule` for the runs that
an answer of the console leaves behind), the calls of `regenerateShot()`
(`Preflight`, then `Look`, `ReadJob`, `ReadSafety`, `Prepare` and `Ensure` up
to the answer, and `Claim`, `Generate`, `Judge`, `CompleteRevision` or
`CompleteSource`, `Fail` behind it), and `recover()` (`Inspect`, `Persist`).
A plan is what the preflight hashes: the shot, the kind, the number and the
input it edits (`base`, the video every shot shows).  `Replacements(s)` is the
lookup by which a run finds a replacement.  Only the executor of a production
with V2.10 references has it (`aware`, chosen in `Init`): the run of a plain
V2.7 QUALITY production shows the first video although a replacement was bought
(`Shown`), and `continueRecoveredV210()` refuses it (`Continue`).  The payload
keeps one record under each key (`Slot`): `CompleteSource` and `Persist`
overwrite the one before, also that of another shot.  A request and a run of `recover()`
have names of their own (`RecoveryAssumption`), and requests are finitely many
(`FiniteAssumption`), so that a shot has a last revision.

### QualityDirector

A *Session* is an operator; an operation is one step per writing statement,
with what was read before in `mem`.  `Edit` is `updateDraft()` and
`Invalidate` the withdrawal of approvals that follows it in a statement of its
own; `SaveScript`, `SaveStoryboard`, `ApproveScript` and the `Board*`, `Look*`
and `Pilot*` actions are the director's operations, `PreflightRead`,
`Reselect` and `PreflightSave` the preflight, and `StartGate`, `StartRead`,
`Claim`, `Create`, `FinishSuccess`, `FinishFailure` the start.  `Write` is
every write of the brief with the reset of its preflight.

A keyframe and a pilot take minutes, and are several steps here.  `StillCheck`
asks for the gate and takes the workflow, `StillStore` stores a keyframe that
passed, into the workflow it was begun in.  `FilmCheck` is everything
`startFirstVideo()` asks before it claims an attempt (`FilmClaim`);
`FilmFinish` writes the attempt's result, and `FilmRecord` is
`recordFirstVideoResult()`, which asks for nothing but the state of the
workflow.  `FilmRecord` accepts KEYFRAME_APPROVED, the move to
FIRST_VIDEO_RUNNING by hand being part of it (see section 4 and
`LockedKeyframe`).  The subject of the PILOT approval is the attempt, as in the
code; the keyframe it shows is looked up behind it (`Shown`).

`FinishSuccess` may fail for any reason, before or after its commit, and is then
a failure that may have started something; `FinishFailure` touches only a start
that is RUNNING.  History: `disturbed` (an operation died or was refused
half-way, or wrote over what it had not read: another brief, an approval given
before others), `strayed` (the pilot approved last was not one of the look
approved then), `overtaken` (approvals were withdrawn between the gate of a
start and its claim).

### LockedKeyframe

A *Call* executes a stage: `ExecuteKeyframe` or `StartFirstVideo` read,
`Claim` takes the advisory lock and looks at the earlier attempts (`Open`,
`Retriable`), `MarkBoundary` and `Generate` pay, `Inspect`, `Store`,
`Evaluate` and `Finish` are the keyframe's end, `RecordFirstVideo` the
pilot's, and `Fail` the catch block; `Finished` and `Failed` are the rows that
`finishLockedStage()` writes after an answer and in the catch block.  Rows are
appended in the order of their numbers, so that a workflow, a preflight, an
attempt and a keyframe are named by their place in it.  `Allowed` is the transition table of the
trigger in migration 20260903.  `ByHand` adds `MoveByHand`, the UPDATE to
FIRST_VIDEO_RUNNING that no code of the repository makes but a test does;
without it no pilot is ever reviewed (section 4).  `QualityDirector` has of the
keyframe and the pilot what their steps read and write of the workflow, and
nothing of the payment; `LockedKeyframe` has the director's gates open: the two
meet at the state of the workflow.

### MasterProduction

The data kept are durations: an input's shots, scenes and target in tenths of
a millisecond (they are fractions of seconds, so that `RoundedMs` has
something to round), the planned and the real length of each file in
milliseconds.  `Accepted` is `buildProductionInput()`, `OperatorInput` the
input that the console derives from a target, `Preflight` the checks before
anything is paid for, `Assembles` those of `assembleMedia()` afterwards,
`Inspected` and `CutOff` the checks of one file, and `VideoMs`, `AudioMs`,
`MasterMs`, `MasterValid` what ffmpeg makes of the files and how it is
measured.  A *Run* is a call of `LiveProductionService.run()`: `Start`, `Mark`,
then `Obtain` and `Judge` for one asset after the other, `Compare`,
`Assemble`, `Render`, `Finish`, `Store`, `Register`, `CheckReview` and
`Complete`, each of which may fail into `FailJob`; `Recover` and `Review` are
recovery and the reviewer.  An asset is obtained in one step here, since
`MediaExecution` has its steps, and `LiveProduction` has the claim, the
production's row and the older input in detail; the three meet at the job, at
the stored file of an asset and at the review item.

### LegacyFactory

Every statement of a process is a step and commits alone.  A script is a
record of counts: its scenes, shots, requirements and packages.
`SaveScript` looks for an earlier script of the job, `InsertScript` and
`InsertScene` write a new one, `QueuePlanning` the planning job without a key;
`PersistPlan`, `PersistScenes`, `CreateShot`, `CreateRequirement` and
`CreatePackage` are `processProductionPlanning()`.  `Throw` is an error after
any statement; `FailJob` is `processJob()`'s and `FailAgain` the second one in
`main()`, fenced by the id alone.  `RecoverStale` is the last statement of
migration 001, run again.


## 3. Runs

| run | instance | states | what it shows |
|---|---|---|---|
| `MCMediaExecution` | 3 calls, two under one worker id | 1.24 million | `BoundaryBeforePayment`, `OnePaymentUntilReset`, `SucceededIsServable`, refinement of `ImmutableArtifact`, and under fairness `ClaimReleasedUnlessCrash` |
| `MCStageExecution` | 2 workers with own ids, 3 stages, 3 attempts | 0.58 million | `CompletedJobIsWhole`, `RunHeldOnce`, `NextStageIsClaimable`, refinement of `OrderedPipeline`, and under fairness `JobEnds` |
| `MCPublication` | 3 calls, 2 reconcilers, 2 attempts | 5.0 million | `OneCopyUnlessBlindOrLate`, and under fairness `AttemptEndsUnlessCrash` |
| `MCLiveProduction` | 3 runs with own ids, 3 attempts | 44 thousand | `OnePredictionUnlessStale`, `CompletedIsReviewable` |
| `MCFastRender` | 3 calls, two under one worker id | 0.35 million | `OneTaskUnlessReset`, `ReviewedIsStored`, refinement of `ImmutableArtifact` |
| `MCMasterProduction` | 2 runs, 51 inputs, 4 real durations | 1.5 million | `RefusedOnlyUncompared`, `VideoIsWholeUnlessMasked`, `OneConclusionUnlessInterrupted` |
| `MCSemanticRetry` | 4 calls, a history of 2 attempts | 2.9 million | `OnePassUnlessOutdated`, `PaidAsQuotedUnlessOutdated`, `LastWordUnlessOutdated`, `RunningIsAttended`, `CompletedIsWhole` |
| `MCShotRegeneration` | 2 shots, 3 calls for 2 requests, 1 `recover()`, 2 runs of the job | 6.0 million | `ExecutedByOne`, `ResumedTogether`, `OneAutomaticReplacement`, `RevisionsAccumulateUnlessStale`, `MasterShowsReplacements` |
| `MCQualityDirector` | 2 sessions, 2 texts, 2 storyboards, 3 revisions, 2 workflows, keyframes and pilots, 6 of these in all | 7.5 million | `ScheduledOnce`, `GateIsCoherentUnlessDisturbed`, `StartedAsApprovedUnlessDisturbed` |
| `MCLockedKeyframe` | 2 calls, 2 plans, 2 workflows, preflights and attempts, 1 crash | 10.7 million | `PaidOnce`, `NewestPassed`, `PilotShowsLookUnlessOvertaken` |
| `MCPilotReview` | the same without the move by hand | | violated: `PilotReachesReview` |
| `MCLegacyFactory` | 2 processes, 2 scenes, 2 attempts, 1 rerun of the migration | 16.6 million | `OneWholePackage` |

`MCShotRegeneration`, `MCQualityDirector` and
`MCLockedKeyframe` also check the module's `TypeOK`, which for the first and the
third of them says how rows are numbered and refer to one another; that of the
other modules is proved (section 5).  `CHECK_DEADLOCK FALSE` is set
everywhere: each model ends when its calls, its job or its key have ended.

**Bounds.**  Three calls are needed for a duplicate payment (one is paid, one
refuses and resets, one claims again), and two of them share a worker id so
that a fence which compares only ids is tested; a fourth adds no role.  Three
stages give a first, a middle and a last one, three attempts a first, a middle
and a last one; two workers are a stale one and its successor.  Three
publication calls are a delivery, a retry and a second retry, and two
reconcilers an old owner and a new one.  Three runs of the live CLI are one
that fails before the boundary, one that pays, and one that read the job in
between.

Four retries of a semantic evaluation are one that passes and fails later, one
that reuses it, one that was planned in between, and one after them; a history
of two attempts (the code reads more) is shorter than the attempts, so that
the limit is met.  Three calls of the console are two for one request and one
for another, over two shots so that a revision can be lost; two runs of the
job are the one that fails and its continuation.  Two replacements of one shot
with runs in between need more of both, and are left to the theorems.  In the
director's run two
texts and two storyboards allow a second version and the return to the first,
and three revisions one of either more than the least; two keyframes and two
pilots are the old and the new one, in one workflow or in two.  A pilot of one
keyframe approved after another became the look is among the cases: a script, a
storyboard, a workflow, two keyframes and a pilot are six stored things, the
limit of `MCBound`, the state constraint of the run.  Of a history that is
`disturbed` two of the three safety properties say nothing more, and it is
followed with five.  The brief has one input: the change of an input (the first
branch of `FirstStale`) is left to the theorems, as is all beyond these numbers.
Two workflows, two preflights and two attempts of a stage are the old
and the new one, and one crash the attempt that stays in doubt.  The legacy
run has one retry and one recovery, and two scenes are a first and a last one.
The inputs of `MCMasterProduction` lie at every tolerance and one beyond it
(scenes, target, the rounding of half a millisecond), with videos planned
longer and shorter than their shots, and with the console's targets of 4, 8
and 11 seconds; its files are whole, short by less and by more than a second,
too short, and too long; two runs are one that is interrupted and the next.
The theorems below remove these bounds for what they state.

**Symmetry** is used over runs in `MCLiveProduction` (a run is its own worker
id), over calls and plans in `MCLockedKeyframe` and `MCPilotReview`, over calls in
`MCSemanticRetry`, over runs in `MCMasterProduction`, over shots in `MCShotRegeneration`, over sessions and
contents in `MCQualityDirector` and over processes in `MCLegacyFactory`: the
specifications do not distinguish them, and no liveness is checked there.

**Fairness.**  `MediaExecution` and `Publication`: weak fairness of each call
(an `await` is answered, or fails: queries and requests have timeouts, and a
process that dies is a `Crash`, on which no fairness is assumed).
`StageExecution`: weak fairness of each worker, of the passing of leases
(time), and of `recover_expired_work()`.  The repository has the executor and
the recovery function but starts neither by itself: it is an assumption about
its operation that workers are run again and that recovery is called again and
again, and `JobEnds` says what follows from it.  No fairness chooses between
outcomes: handlers may fail for ever.  The other modules state no liveness:
a dead call leaves each of their rows in doubt for ever, and no code of the
repository takes it up again.

## 4. What the models show

The properties that hold are in the table.  Some of them are conditional, and
the condition is the result:

* `OnePaymentUntilReset` holds until a failing call writes RETRYABLE over a
  row that is beyond the boundary.  A call that finds `NEEDS_RECONCILIATION`
  throws `MEDIA_PROVIDER_STATE_UNRESOLVED` inside the `try` block, and its own
  `catch` block reports a failure *before* the boundary.  The refusal that
  exists to avoid a second generation makes the row claimable.
  `OneTaskUnlessReset` is the same of the FAST renderer, whose code has the
  same shape.
* `OneCopyUnlessBlindOrLate` holds until a call writes FAILED for a delivery
  that was made or is in doubt: an error of the publisher that is not tagged
  UNKNOWN, or an error of the database on recording the result, which also
  overwrites PUBLISHED.  The other way to a second copy is `late`: the lease
  runs out while the callback of a SAFE_RETRY is pending, the next owner makes
  its own retry, a call delivers and its outcome is UNKNOWN, and then the late
  write makes the key claimable once more.  `RecoveryExecutor` asks for the
  lease after the lookup and cannot ask within a callback it was given.
* `CompletedJobIsWhole` holds when every worker process has a worker id of its
  own.  With a shared id it fails: a claim that returns nothing because the
  other one runs the stage is taken for the end of the job, and the job is
  completed with a stage still running.
* `OnePredictionUnlessStale` holds until a claim rests on a stale snapshot: a
  run that read the job while its boundary was unmarked, is held up for longer
  than the lease, and then claims and pays although another run has paid
  meanwhile.  `createAndClaim()` has the row locked and could look.  Two runs
  with one `LIVE_PRODUCTION_WORKER_ID` break it even without that.
* `OnePassUnlessOutdated` and `LastWordUnlessOutdated` hold until a retry starts on
  a history that another retry has changed since it was read.
* `PaidAsQuotedUnlessOutdated` says that a retry pays for no call that its
  preflight did not announce.  The preflight looks at the latest attempt
  alone, the execution at the history; they disagree only once an attempt was
  started on a history no longer true.
* `RefusedOnlyUncompared` names the plans that pass the preflight, are paid
  for, and are then refused by `assembleMedia()` on every retry: those with a
  video generated shorter than its shot, which no check before it compares,
  and those whose voice is planned up to 250 ms shorter than the timeline,
  which the preflight tolerates and the assembly does not.  The console makes
  plans of the second kind by itself: of its targets from 3 to 60 seconds,
  11, 14, 28, 31, 41, 42, 43, 44, 56 and 59 divide into shots whose rounded
  lengths add up to a millisecond or more above the target.  The run has the
  one of 11 seconds.
* `VideoIsWholeUnlessMasked` holds unless the voice, or silence, is longer
  than the videos: the check of the master measures its container.  Each
  video may then be missing up to 1.5 seconds.
* `OneConclusionUnlessInterrupted` holds unless a run that an evaluator has
  judged dies or fails otherwise, or a run loses its job while it lives: a verdict is not looked up
  again, and the next run's may be the opposite.
* `RevisionsAccumulateUnlessStale` holds unless a plan was overtaken by
  another shot's revision between the read of the current input and the insert:
  the later input then shows the older video.
* `ResumedTogether` says what the payload and the rows agree on.  It does not
  name every accepted replacement: that of a second shot overwrites the first
  one's record.
* `MasterShowsReplacements` says that in a production with references the master
  of a completed job shows every accepted automatic replacement of a first
  video, or one accepted after it, named by the payload or not; and that very
  one unless a plan was overtaken.  In a production without references it
  does not hold: the replacement is paid for, and the retry shows the original.  The exception takes one shot,
  two calls of `recover()` and three runs of the job, more than the instance
  has: the attempt to prove the property without it failed there.
* `StartedAsApprovedUnlessDisturbed` and `GateIsCoherentUnlessDisturbed` hold
  unless an operation of the director died between its statements, or wrote
  over a brief it had not read.  The pilot a start rests on shows the approved
  look, or else it was approved as the pilot of another keyframe (`strayed`),
  which then was the look once.  That happens: a pilot is begun, another
  keyframe of the same workflow is approved, and the pilot, recorded after
  that, comes before the reviewer as that of the current look.
* `ScheduledOnce` holds in any case: one run, and no second start of a draft
  that has one.  It does not say how the start ends: an error of
  `finishStartSuccess()` leaves NEEDS_RECONCILIATION with the run scheduled,
  or, if the commit was done, SUCCEEDED although the operator is shown an error.
* `PilotShowsLookUnlessOvertaken` holds unless the brief is edited while a
  pilot of it is being made or reviewed.
* `OneWholePackage` holds unless the script job was handed to two processes.

**The finding.**  `MCPilotReview`: `recordFirstVideoResult()` moves the
workflow of an accepted pilot from KEYFRAME_APPROVED to FIRST_VIDEO_REVIEW,
which the trigger of migration 20260903 refuses; it wants
FIRST_VIDEO_RUNNING in between, and nothing under `src/` writes that.  The
test of this path moves the workflow with an UPDATE of its own.
`PROJECT.json` quotes the lines.

**Behaviour worth knowing.**  The models contain these paths; no document
rules them out, so no property denies them.

* Live and V2.1: `completeJob()` and `complete()` write the job and then the
  production, and a crash in between leaves the production RUNNING; `fail()`
  of a run that lost its job may write FAILED over the production of its
  successor; `claim_job()` leaves the production DRAFT, which is then never
  completed; the latest `claim_stage()` no longer propagates inputs;
  `reconcilePublication()` compares the lease with a time taken before its
  lookup.
* Media and FAST: a reader that finds the file before it is full adopts what
  is there; `claim()` that returns no row ends in a TypeError in
  the catch block; a failed `registerReview` makes a SUCCEEDED render
  NEEDS_RECONCILIATION.
* Master production: a refused plan and a master that fails its media
  validation leave the job RETRYING, not FAILED, so that they are tried again
  with the same files; docs/V2.8.1-VALIDATION-CONTRACT.md:33 counts a buildable
  master structure among the checks before any provider is called, and the
  plan of 11 seconds passes that check and is not buildable.
* Semantic retry: an attempt whose process died is RUNNING for ever and
  refuses every later retry; an attempt SUCCEEDED whose job stayed FAILED is
  completed by nothing.
* Regeneration: a row whose call died stays active and closes the production
  to other regenerations; a geometry mismatch in the run leaves the job
  RETRYING, so that an explicit geometry recovery is paid for and then fenced;
  `recover()` may apply a verdict to a later failure with the same code; the
  record of a recovery in the payload is overwritten by the next one under its
  key; a QUALITY production without references may buy a replacement that its
  retry does not show.
* Director: approving again what was approved once is answered as approved and
  recorded as nothing; a draft whose start died stays RUNNING; a withdrawal
  of approvals can reset a draft that is starting; two requests for one voice
  preview both pay.
* Locked keyframe: an image that the trigger refuses after it was paid for is
  lost; a second pilot can be made during the review of the first and, if it
  fails, closes the way to both.
* Legacy worker: a job recovered with all its attempts used is `retrying` and
  claimed by nobody; a script cut short by an error is reused short; a retry of the
  script job queues a second planning job, which the unique keys of the first
  one's requirements lead to the dead letters.

**Mutants.**  Next to a definition the modules keep plausible mistakes in it
(`ClaimUnmarked`, `RecoverRunsInPlace`, `OwnsAlways`, ...).  They are not used
by the specifications; `PROJECT.json` says which property fails when the
definition is replaced by its mistake.

## 5. Proofs

All theorems are for any number of calls, workers, stages, attempts and
reconcilers, from the named assumptions of the constants, which TLC evaluates
on every instance: `None` and `Torn` are not calls, requests or briefs, each process
has a worker id of the set, `MaxAttempts`, `N`, `HistoryLimit` and the bounds
are positive or natural numbers, inputs and durations have their types, and
the names of requests, calls and `recover()` differ (requests being finitely
many).  Two theorems take injective worker ids as a hypothesis, and the two
about `Publication`, which is an instance there, its `NoneAssumption`; so do
the two about `LegacyFactory` with the assumptions on its `Scenes` and
`MaxRecoveries`.  In the statements about `FastRender`, the instance `R`, the
assumptions are those of `MediaExecution`, which has the same calls and workers.

**DurableExecutionProofs.**  Of `MediaExecution`: `IInv == TypeInv /\ DataInv /\ BoundaryInv /\
PaymentInv`.  `OnePaymentUntilReset` is not inductive: it must be known that
only a call at "submitting" can pay, that such a call has moved the row beyond
the boundary, and that no status beyond the boundary is claimable; so, as long
as `~resets`, whoever holds the right to pay or has paid is alone
(`PaymentInv`).  `DataInv` follows the bytes: a call past "polling" holds a
generation that succeeded, past "storing" it holds what the file was created
for.  From it `SucceededServable` and the refinement: a step that does not end
a call and does not create the file is a stutter of `ImmutableArtifact`,
`StoreArtifact` is its `Fix`, and the steps that end a call its `Answer`.

Of `FastRender`, instantiated as `R`: `OneTaskUnlessReset` rests on
`RenderClaimInv`: while no call's reset has hit another's claim, the last to
claim (`holder`) is the only one that may post, whoever posted is the holder,
and whenever the row is claimable no call is past the boundary and no task was
posted (`Quiet`).  `RenderDataInv` follows an output from the task through the
artifact to the answers and gives `ReviewedIsStored` and the refinement.

**JobExecutionProofs.**  Of `StageExecution`: `AttemptsInOrder` (all attempts before the latest
are FAILED), `StagesInOrder` and `AimInv` (a claim waiting for its lock still
aims at a stage whose predecessors are completed, whatever happened since)
are inductive together and give `OneActiveRun` and `CompletedIsFinal` too.
`RunHeldOnce` needs `HeldInv`: a run that a process holds never becomes
claimable under its hands, since recovery retries under a new attempt.
`NextStageIsClaimable` needs `LatestAttempt` and the link from runs to the job
(`JobInv`).  `JobExclusion` assumes that `IdOf` is injective and adds
`HolderInv`.

`PipelineRefinement` has the same hypothesis.  `Progress` and `InHand` are
chosen, so the first thing to prove is that there is something to choose: the
completed stages are a prefix (`Prefix`, from `StagesInOrder`) and one stage at
most is active (`OneActiveRun`).  `ActiveInv` says that a run is active only for a
job that is RUNNING.  That no job is completed with a stage in hand, or with
one left, is `HolderInv`: it needs the ids, since another process under the
same id could hold the job too.  Each kind of step is then a lemma
(`ClaimIsSeen`, `EndIsSeen`, `RecoverIsSeen`, `JobIsSeen`): a claim is `Begin`,
with the retry of a stage no less than its first attempt; the end of a run is
`Advance` or `Abandon`; recovery of a run is `Abandon`, or `GiveUp` when its
attempts are used up; `CompleteJob` is `Finish`, a job that recovery buries is
`GiveUp`, and what only a process or a lease knows is not seen.
`PipelinePromise` is what the abstract module promises, carried over.

Of `LegacyFactory`, instantiated as `F`: there is no lease to reason with, only
the count of attempts.  A claim counts, so no two processes hold a job under
one number (`ClaimInv`), and as long as nobody handed the script job out under
a process, whoever works on it has the latest (`SoleInv`).  Hence there is one
script, and no scene is added to it once planning is queued (`FrozenInv`).
`PlanInv` follows the planning of that script by any number of processes:
shots never exceed scenes, and the process that created the first requirement
is the only one that gets on (`Keeper`), because the key of everybody else
exists already; the requirements are then its own up to the last, and nobody
reaches "packaging" after it: `OnePackage`.  Each action's effect on processes
and scripts is a lemma of its own (`CreateShotEffect`, ...).  TLC checked the
parts of the invariant on the instance of the run before they were proved.

**ExternalEffectProofs.**  Of `Publication`, instantiated as `P`: `FenceInv`
says what each status of the row grants as long as `~blind` and `~late`:
PUBLISHING belongs to the one active call, UNKNOWN to the lease holder.
`RetryInv` says that as long as `~late` whoever is writing a SAFE_RETRY still
has the lease, so that the check made before the write holds at the write.
`CopyInv` says that a row which can be claimed has no copy at the destination,
and that a NOT_FOUND in the hands of the lease holder is still true.  `TruthInv` carries
the truth of answers to `PublishedIsThere`.

Of `LiveProduction`: `MarkInv` (whoever may pay, or has paid, has marked the
row, and a marked row is neither new nor queued) and `BuyerInv` are inductive:
a run is a *buyer* from its mark, as long as the store has no video, and who
has paid remains one; the holder of a marked job at "claimed" finds the video
there, so there is at most one buyer while `stale = {}`.  `OnePrediction`
assumes that worker ids are injective (`OwnIds`).  `DoneInv` follows a run
from the stored video through the review to the two statements of `complete()`
and gives `CompletedIsWhole` for any ids.

**SemanticRetryProofs.**  `MineInv`: an attempt belongs to the one call that
started it.  `VoiceInv`: one call at a time is at the provider of speech, and
after it the voice is in doubt or ended, never free again.  `HeldInv` says
what a call past the voice, the master and its attempt has behind it.  That a
row once finished stays as it is (`FinishedRows`, `StartedRows`) carries
`RunningIsAttended` and `CompletedIsWhole` over the writes of other calls;
that the history has a newest reusable row is an argument by well-founded
induction (`NewestExists`).  The three conditional properties rest on
`LedgerInv`, about the order of the rows: as long as no attempt was started on
a history no longer true, nothing follows an authoritative FAIL or a success,
and every row after the first PASS resumes one (`HistoryInv`); a row that
resumes ends with that PASS (`RowsInv`), and its call never asks the evaluator
(`ResumeInv`).  So, once there is a PASS, the latest row that tells anything
tells it, however short the history that is read (`PassIsOffered`): no limit
makes a retry pay again.  `QuoteInv` keeps a preflight's announcement true: what
it did not announce as paid is not for sale any more.

**MasterProductionProofs.**  `OneConclusion`: as long as no judged run ended
without a conclusion, whoever is under way holds the job (`ActiveInv`), so
that runs follow one another; a registered master means a completed job or a
run between registration and completion (`ReviewInv`), a verdict FAIL a failed
job or a run about to fail it (`FailedInv`), and the two exclude each other.
This part leaves the definitions of the timing closed: it holds for whatever
preflight, assembly and validation decide.

`RefusedUncompared` and `VideoWhole` open them.  `TimingInv` carries the plan
through the run: it passed the preflight, every stored file passed the check of
its kind, and a registered master passed its validation, for any input and any
delivered durations.  What is left is arithmetic over a number of clips that is
not bounded: where a shot ends is a recursive function (`Ends`), whose equation
(`EndsDef`), bounds (`EndsNat`) and tolerance (`EndsWithin`: a second and a half
for each clip) are shown from the least number of clips for which they would
fail.

**ShotRegenerationProofs.**  The argument goes over the table.  A row is
inserted while none is active and only under a number nobody took, so that the
numbers of a shot have no gaps although several preflights may count the same
number (`InsertedRow`; the counting is about cardinalities, hence the finite
set of requests).  Nothing succeeds between the insertion of a row and its end
(`BaseInv`), which gives `Accumulate` while no plan was overtaken.  A call
works on a row only after the claim that nobody else can make (`CallInv`), and
a RUNNING row has its call unless that died (`AttendedInv`): `ExecutedOnce`.
`OneReplacement` follows from the indexes (`RowsInv`) and from payment coming
behind the insertion (`PaidInv`); `ResumedTogether` is inductive beside them.
The payload is told apart by its keys: an accepted row that its key does not
name is not the latest success, which is all the overwriting leaves to be said.
`MasterShows` does not go through the payload; it needs to know what the
executor found at the claim of the run, that it stays so until the run ends
(`ShownInv`), and that nothing changes which executor it is (`AwareStays`).  The proof is how the condition
of `MasterShowsReplacements` was found (section 4).

**QualityDirectorProofs.**  An operation of the director is several statements,
and what is true between two of them is true of no draft at rest; so the
invariant names, for every rule an approval or a binding can break, the session
that has yet to restore it.  `BoardInv`: when script and storyboard are
approved, the storyboard was written for that script and is in the brief, or a
session is about to record its storyboard or to withdraw the approval
(`Binding`).  `LookInv`: every approved keyframe has been the look, or a
session is still recording it.  `PilotInv`: an approved pilot shows the approved
look, was approved as the pilot of another, or a session is still to withdraw it;
that the pilot of another was the look once rests on `LookInv`, since an attempt
is begun for approved keyframes only (`StageInv`, part of the typing: keyframes
belong to stored workflows, attempts to approved keyframes).  `CertifiedInv`: a
preflight is the one of the brief.  `GatedInv`: a start between its gate and its
claim has the four approvals, or was overtaken.  Together they are what
`StartedAsApproved` reads off at the step of `Claim`, which by the kinds of
steps (`StepKinds`) is the only one that makes a start RUNNING.
`RunScheduledOnce` needs `StartInv`: one session at most is behind a claim, how
far it is tells what was scheduled, and the start is RUNNING as long as it is,
or SUCCEEDED when only its answer was lost; a failure found after that changes
nothing any more.  A step of anybody else leaves start and counter alone.

The parts of the invariant were checked by TLC before they were proved.

**LockedKeyframeProofs.**  None of the four properties is inductive.  The
argument has two parts.  The first is about money: a call at work holds an
attempt that is running, alone (`HoldInv`, from the claim under the advisory
lock, since the attempt is new), and `OrderInv` says of two attempts of one
stage that the earlier one has ended, and of two attempts of one preflight
that the earlier one ended `safe`, that is without a paid call; so a preflight
is paid for once, whatever crashes in between, and the pair of attempts in
doubt that the index of the table would refuse never arises: `TypeCorrect`,
`PaidForOnce`.  The second is about what is shown.  An attempt in doubt closes
its stage of its workflow, so the keyframe that a call holds between `Store`
and `Evaluate` is the newest one of its workflow and not evaluated yet
(`MakingInv`, `OneMaker`); its PASS is therefore about the newest, and a newer
one moves the workflow away from every state of approval: `KeyframesPassed`.
For the pilot, a preflight of the brief's revision refers to the keyframe the
brief refers to (`PreparedInv`), its attempt keeps that keyframe
(`FilmedInv`), and a call that makes a pilot shows the brief as long as nobody
rewrote it meanwhile (`FilmsInv`): `PilotShows`.  TLC checked each part of the
invariant on an instance of 0.5 million states before it was proved.

The part about money is also a refinement.  `StageOf(f, s)` instantiates
`PaidStage` for one stage of one workflow: the row in doubt has the stage in
hand, its status, its boundary and the payment say how far it is, a row that
ended in any way but `safe` has had its try.  `StagesArePaidStages` says that
every step of the system is one of `PaidStage` or not seen by it.  That takes
one more invariant, `BoundaryInv`: the row is marked as soon as the call
believes it has crossed, and not yet when it calls the failure of an upload
safe; a call that loses the answer to its mark believes less than the row says,
and its failure then is a `Settle`, never a `Refuse`.  A claim is `Claim`, since
`Open` leaves no row in doubt, and by `OrderInv` an unsafe row of the preflight
would be its last, which `Retriable` looks at.  `StagePromise` is
what follows: nothing is bought twice in a stage, and a stage in doubt never
changes again, as no code of the repository takes a row out of
NEEDS_RECONCILIATION.  (The rows of an older runtime that both
`claimLockedStage()` and the index of migration 20260903 pass over, a tier
refused before any request, are written by nothing any more and are not
modelled.)  TLC checked refinement and promise on the
instance of `MCLockedKeyframe` with two revisions of the draft (0.5 million
states); with three, for which the run is there, the four stages take longer to
evaluate than the run may.

Proved and not in a run: the type invariants of `MediaExecution`,
`StageExecution`, `Publication`, `LiveProduction`, `FastRender`,
`MasterProduction`, `SemanticRetry` and `LegacyFactory`, `PipelinePromise`,
`StagesInOrder`, `StoredBytesWereGenerated`, `OneActiveRun`,
`CompletedIsFinal`, `NoAttemptCollision`, `OneExecutionUnlessBlindOrLate`,
`PublishedIsThere`, `PaidIsMarked`, `CompletedTogether`, the refinement of
`PaidStage` and `StagePromise`, which are theorems or conjuncts of the theorems
above.

Only model-checked: liveness (`ClaimReleasedUnlessCrash`, `JobEnds`,
`AttemptEndsUnlessCrash`), which rests on fairness and `ENABLED` and is out of
the prover's reach; and of course the violated one.

## 6. Plan

1. `QualityDirector` and `LockedKeyframe` composed at the state of the
   workflow, so that the attempts of the one are the paid attempts of the
   other.
2. `createDraft()` of the live service and the preparation of a command
   (idempotent drafts), and two reviewers deciding one item.
3. The publication gate as operators, against a reference definition.

## 7. Not modelled

Pure input and output or presentation: the dashboard's HTTP routes, read
models and client, ffmpeg filters, sphere motion, voice signal processing,
frame sampling and image measurements, provider request formats.  Data
without behaviour: brand registry, catalogues, pricing, prompts, the
validation of inputs other than their durations.  The publication gate and its
domain rules and the quality verdicts are functions of their inputs; the
models take their result as given.  Of the master, `MasterProduction` has what
the lengths of files decide; the checks of copy and continuity, images,
captions and end titles are left out.  `loadExisting()` and `verifyTransactionalPlan()` of the
executors only read or roll back.  The in-memory path `executePublication()`
runs to its end without interleaving.  The provider gateway's fallback to
another provider is off wherever the live service, the console or the CLI
builds a gateway (`fallbackOnError: false`), and a model of it would be of a
configuration that pays twice by design.  In `LegacyFactory`, requirements of
characters and locations are left out, since the plan the worker builds never
names any.
