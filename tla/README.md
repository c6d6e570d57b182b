# Locaily: TLA+ models of the Local Brain and the agent controller

Locaily is a local-first coordinator in Node.js. `companion/server.js` is one process with an HTTP API;
around it stand a durable job queue with a background worker, policy stores, a relay to other machines,
a capability kernel, an orchestration layer and a development memory. `.opencode/agents/controller` drives
coding agents from a queue of objectives. This directory models the parts that keep state across
`await`s, callbacks, processes or restarts; TLC checks them on small instances and TLAPS proves the
properties that matter most for every value of the constants.

All JavaScript runs one turn at a time: interleaving happens only at an `await`, at a timer and between
processes. Every action below is therefore one synchronous turn, or the part of a turn that a crash can
separate from the rest.

## 1. Inventory

| Part | State | Operations | What is hard | What makes it correct |
|---|---|---|---|---|
| Durable job store (`core/durable-job-store.js`) | a Map of job records and one JSON file per job | create, claim, start, complete, fail, cancel, retry, review, list | Map changed before validation and write; lease expiry; restart reloads the files | records coherent, files never ahead of the Map, final files never rewritten, lifecycle table |
| Background worker (`jobs/worker.js`, `jobs/job-outcome.js`) | `started`, `isProcessing`, one awaited poll | poll, start, stop | reviews and cancels while an execution is awaited; stale snapshot; stop with a poll in flight | the latest run decides, runs bounded by attempts and reviews, no orphaned running job, no starvation |
| Enforcement policy (`core/enforcement-policy*.js`) | policy file, mutation queue, audit log, health flags | initialize, transition, approve, revoke, override, audit | checks before enqueue, commit later; asynchronous gate; failing writes and audits | enforced only when approved and only on the evidence the gate saw |
| Relay (`relay/*.js`) | registry of nodes, dispatch counters | register, heartbeat, mark unhealthy, select, place, dispatch with fallback | a refusal or timeout followed by a local run; a fallback that throws inside the `try` | using nodes never loses a step; a failed node rests; placement is even |
| Capability kernel (`capability-kernel/*.js`) | processed events, provenance records, trust and binding stores, replay cache | submitEvent, match, plan, execute with retry and timeout, pair, revoke | same event submitted twice; timeout that does not cancel; crash before the record | lifecycle order, an event executes once, no replay accepted |
| Plan execution (`core/dag-graph.js`, `core/dag-executor.js`, `orchestration/run-plan-executor.js`, `crew/orchestrator.js`) | plan with steps and results | sort, levels, run level by level | failures while siblings run | levels respect dependencies, no step runs before its dependencies |
| Crew (`crew/*.js`) | track runs, run records, model routing | run track, route tools and models | the policy moves on while a step awaits the runtime probe | enforcement never makes a step fail that would not have failed without it |
| Development sessions and capture (`memory/events/session-*.js`, `event-store.js`, `capture/*.js`) | session manifests, the pointer to the active one, one file per event, extraction reports | start, record, close, recover, close when idle, rebuild, extract | the sequencer and the server on one directory; two runs of the processor; crash between manifest and pointer; manifests written back after an `await` | the pointer names a session that exists, ended sessions stay ended, an event gives one candidate, every session is extracted from in the end |
| Candidates and maintainer runs (`memory/events/candidate-*.js`, `maintainer-*.js`) | reviews, proposals, maintainer runs, rollback manifests, vault pages | review, plan, apply | files written one after the other; stale plans; runs applied twice or half | only approved candidates of low risk reach the vault, no record names a missing file, snapshots before writes |
| Milestone control plane (`scripts/dev-lifecycle.js`, `dev-status.js`) | one file per milestone and session, `project-state.json`, validation results, git | start, pause, block, resume, close, validate, complete, prepare, merge | interrupted commands; commands that overwrite each other's status; edits while a validation runs | one active milestone, no dangling session, a blocked milestone is never delivered |
| Agent controller (`.opencode/agents/controller/*.js`) | objective files in `queue/`, `completed/`, `failed/`, `held/`; milestone records; `state/run-state.json` | restore, collect, plan, run worker, review, correct, record, archive | several counters reset at different points; reviews that outlive their call; kills between record and archive; moves that half succeed | an objective is never lost, none is completed that no review accepted as a whole, corrections are bounded, the sequencer ends |
| Memory vault and retrieval (`memory/vault-adapter.js`, `retrieval`, `projects`) | markdown vault | read, propose write-back | file I/O | one turn per request, not modelled |
| Console, evidence, benchmark lab, providers, tools, UI, scripts | reports, fixtures, pages | see `PROJECT.json` | mostly pure I/O | not modelled |

The interactions: HTTP routes call the stores directly; the worker calls the store, then the crew or the
run-plan executor, which ask the relay where a step runs; the enforcement policy and the audit trail are
consulted on model routing; the sequencer of the agent controller and the server's capture worker share
the development memory on disk. The milestone commands are a process of their own per command and share
nothing with the rest but git.

### How the parts interact

```
HTTP routes ──> durable job store <── background worker ──> runTrack / executeRunPlan ──> model or tool step
     │                                                            │          │
     ├──> enforcement policy (queue, file, audit) <── reads ── model router  └──> relay router ──> relay nodes
     ├──> relay registry (register, heartbeat, unregister) ─────────────────────────┘
     ├──> capture processor ──> sessions, events, candidates (files) <── agent controller (another process)
     └──> review inbox, maintainer runs ──> vault pages
capability kernel: its own process, journal and output files
milestone commands: a process per command, files under development/
```

The worker knows the store only through its operations and checks a job again after the awaited
execution; a step knows the enforcement policy and the relay registry only through what it read before an
`await`. These are the places where the models put their interleavings.

## 2. Modules

| Module | Role |
|---|---|
| `JobLifecycle` | abstract: status, attempts and limit of each job |
| `DurableJobs` | store, worker and job routes; implements `JobLifecycle` |
| `EnforcementGate` | abstract: rollout state and approval of each track |
| `EnforcementPolicy` | the store with its gate checks, queue, file and audit; implements `EnforcementGate` |
| `EnforcedRouting` | extends `EnforcementPolicy` with the model steps that consult it |
| `CapabilityKernel` | submissions, the journal and the output files |
| `StepGraph` | dependency graphs and their levels (pure) |
| `RelayRegistry` | the registry of nodes |
| `PlanExecution` | one run, composing `StepGraph` and `RelayRegistry` |
| `AgentController` | the sequencer of objectives and the supervisor it starts for each |
| `MilestoneLifecycle` | the commands of the milestone control plane, write by write |
| `DevSessions` | sequencer and capture processor on the session files |
| `MaintainerRuns` | reviews, maintainer runs and the vault pages they write |
| `MC*` | definitions the `.cfg` files give to the constants |
| `*Proofs` | theorems and proofs of `DurableJobs`, `EnforcementPolicy`, `CapabilityKernel`, `AgentController`, `PlanExecution`, `MilestoneLifecycle`, `DevSessions` and `MaintainerRuns` |

`PROJECT.json` maps every definition to the lines it stands for. Operators marked "Mutant" or "MUTANT" are
plausible bugs in the definition that follows them. Nothing uses them but the check that each property can fail.

### 2.1 Jobs: `DurableJobs`

`mem` is the Map of `durable-job-store.js`, `disk` the files, `order` the insertion order of the Map. A
record keeps status, attempt, limit, lease, `completedAt` (`done`), result, error and review; payload,
titles and timestamps are abstracted. Every operation changes the record in the Map, then validates it,
then writes: `Save` with an outcome `written`, `refused` (the schema) or `threw` (the disk) leaves `disk`
behind in the last two. `Tick` lets leases run out, `Restart` is a crash at any point: it rebuilds `mem`
from `disk` in a fresh order and forgets the worker.

| Action | Code |
|---|---|
| `CreateJob`, `CancelJob`, `RetryJob`, `RequestReview`, `Requeue`, `Reject`, `StopJob` | the job and review routes and the store operations they call |
| `WorkerStart`, `WorkerStop` | `start`, `stop` of `jobs/worker.js` |
| `Poll`, `StartTurn` | the turn of `poll` before its `await`: `claimJob`, then `startJob` |
| `FinishOk`, `FinishFailed`, `FinishDropped`, `RetryTurn` | the turn after it: complete or fail, auto-retry, or nothing because the job was settled meanwhile |

`turn` holds the second half of a two-operation turn, so that a crash, and only a crash, can come between.
`stop` does not cancel the awaited execution, so that `execs` may hold several.

### 2.2 Enforcement: `EnforcementPolicy`, `EnforcedRouting`

`policy` is what the process serves, `file` what is on disk (`fileOk`: whether it can be read), `locked`
the flag of a process that found it unreadable. A request is checked when it is made (`Ask*`), joins
`queue`, and is taken when everything before it is settled. A request for `enforced` waits in `gates` for
the runtime probe and the shadow evidence first, carrying the token of what it was checked for (revision,
model); `Accepted` compares that token when its turn comes. A mutation is written (`Write`,
`WriteFails`), published a microtask later (`Publish`), and audited (`AuditEnds`); the next one starts only
then. `best` is the capability registry, which changes underneath (`RegistryChanges`), `FileDamaged` and
`Restart` are what they say. `Calm` expresses that an idle queue takes its next mutation in the turn that
enqueued it.

`EnforcedRouting` adds the model steps of `crew/model-router.js`: a step reads the policy before the
`await` of the probe (`StartStep`), acts on it after (`ProbeEnds`), and falls back to the model it had
(`RunEnds`, `FallbackEnds`). Whatever the policy does in between is interleaved. No run checks this module: that
enforcement costs no step its result (`EnforcementCostsNothing`) is proved for every instance.

### 2.3 Kernel: `CapabilityKernel`

A submission moves through `reading` and `checking` (the duplicate check reads the journal asynchronously),
`handling` (steps, attempts, timeouts), `saving` (the output file) and `appending` (the promise chain of
`appendRunRecord`), keeping the `trace` of states its one record will tell. Its verdict (what schema,
source, match, policy and plan make of the event) is chosen when it arrives. `Crash` loses the submissions
under way and keeps `journal` and `outputs`.

### 2.4 Plans and relay: `StepGraph`, `RelayRegistry`, `PlanExecution`

`StepGraph` computes levels by Kahn's queue, as `computeLevels` does (`Filled` before the loop, one `Turn` per
iteration, steps handed on in `FileOrder`), and leaves steps that never enter it
at level 0. `PlanExecution` runs the resulting batches as `executeRunPlan` (output validation,
`Promise.all`) or as `runTrack` (`Promise.allSettled`, `abortOnError`). `Launch` is the turn that starts a
batch. Each step then waits, in `at`, for a node (`remote`), for a local run inside the router's `try`
(`guarded`) or for a plain local run (`local`): `RemoteAnswers`, `RemoteRefuses` (ok:false),
`RemoteFails` (the exchange throws), `GuardedEnds`, `LocalEnds`. A guarded run that throws is caught by the
`catch` that is meant for the exchange, counted as a second failed dispatch, and run again.
`RelayRegistry` holds each node's status, whether its last sign of life is less than 60 seconds old, its
roles and its dispatches; `Register`, `Heartbeat`, `Unregister` and `GoStale` may happen between any two
turns.

### 2.5 Agent controller: `AgentController`

`files` says in which directories each objective has a file (a move that falls back to copy and unlink may
leave it in two), `record` the status of its milestone record, `run` is `state/run-state.json`, `todo` what is
left of the list the sequencer collected. `seq` and `sup` are where the two processes stand.

| Action | Code |
|---|---|
| `StartSequencer`, `Restore`, `Collect`, `EndOfList`, `SkipMissing`, `Activate` | `runSequencer` up to the spawn of the supervisor, with `restoreFromFailed` |
| `EnterLoop`, `Turn`, `SupervisorAborts` | `main` of `supervisor.js`: the git boundary, the head of the loop with its exits, its `catch` |
| `PlanEnds`, `WorkerTimesOut`, `WorkerEnds`, `ReviewEnds`, `ReviewFails` | one CLI call with its `reconcileAfter*` and the write of the state |
| `FinishRecord`, `Archive` | `runSequencer` after the supervisor has exited |
| `Crash`, `Hold`, `Unhold` | kills of both processes; the operator moving a queued file by hand |

The artifacts of the agents are not state: each is cleared before its call and read right after. A review
alone may come from another call: `runCli` starts the CLI with `shell: true`, and on Windows its timeout
kills the shell only, so the agent may still write its review later. `late` tells whether such a call may be alive
and of which run. A stamp of a review is that of the running call, another one or absent (`Stamps`): the
agents are asked to stamp, and `freshArtifact` compares a stamp only where there is one (`Fresh`), but no agent knows a
run id it was not given. `accepted` therefore tells of which run the review was that completed the objective:
its `"own"`, an earlier one's that carried no run id (`"unstamped"`) or that carried its own (`"foreign"`, which
`Fresh` refuses). `Outcome` forgets what nobody reads once the supervisor is gone. Git checks pass or do not; the completeness
preflight finds no file of its own and is left out. `accepted` and `rejected` are history variables.

### 2.6 Milestones: `MilestoneLifecycle`

`milestone`, `session` and `project` are the files, `head` and `work` the commit and the working tree. A
command checks what it finds and puts its writes in `todo`; `Write` makes the next one, `Crash` forgets the
rest. Nothing else runs between two writes of a command, with one exception: a validation runs the commands
of its profile (the write `"profile"`), which takes minutes in which the sources are edited
(`Edit`), and then writes the record it read at the start. A content of the sources is a number and a
diff the pair it leads from and to, which is all that the fingerprint is compared for.

| Action | Code |
|---|---|
| `Start`, `Pause`, `Block`, `CloseSession` | `cmdStart`, `cmdPause`, `cmdBlock`, `cmdSessionClose` |
| `ResumeSession`, `ResumeMilestone` | the two halves of `cmdResume`, on whatever `findActive* \|\| findPaused*` returns |
| `Validate`, `ProfileEnds` | `cmdValidate` before and after the profile |
| `Complete`, `Prepare`, `Merge` | `cmdComplete` with its gates, `cmdPrepare`, `cmdMerge` |

### 2.7 Sessions and capture: `DevSessions`

`manifest`, `pointer` and `event` are the files both processes use. `agent` is where the sequencer stands
with its session; between its turns events are recorded (`Record`) and their files written later
(`StoreEvent`). `worker` is where each run of `processOnce` stands, and `op` the close, rebuild or
extraction that has read its manifest and awaits the events (`gatherSessionEvents`): what `op` holds is written
back by `Saved`, whatever has happened meanwhile. Times are positions in the sequence of
events. `AgentDies` and `ServerRestarts` cut at every point. One run of the processor is the worker's, the others
begin with a `Post`. `"hand"` is an operator's `npm run memory:session:rebuild`, a process of its own: it rebuilds any session,
the active and open one by default, and `byHand` remembers the sessions that were open when it read them. The sequencer
waits for its close and not for the events of the outcome, which may still be written when it begins the next objective
(`NextObjective`).

| Action | Code |
|---|---|
| `StartSession`, `SaveManifest`, `WritePointer` | `startSession` with `markInterruptedIfNeeded`, cut between its files |
| `CloseSession`, `SessionClosed`, `NothingToClose` | `closeSession` as the sequencer calls it, before and after its `await` |
| `Recover`, `LookForIdle`, `CloseIdle`, `LeaveOpen` | `recoverInterruptedSessions`, `closeIdleOpenSessions` |
| `Choose`, `NothingPending`, `Rebuild`, `ProcessorSaves`, `Extract`, `ExtractRefused`, `Extracted` | the rest of `processOnce` with `rebuildSession` and `extractFromSession` |
| `Post` | `POST /memory/capture/process` |
| `RebuildByHand`, `RebuiltByHand` | `runRebuild` of `scripts/memory-session.js`, before and after its `await` |

`memory:session:start` and `memory:session:close`, the same operations called by hand beside the sequencer, and
`memory:capture:process`, a run of the processor outside the server, are not modelled.

### 2.8 Reviews and maintainer runs: `MaintainerRuns`

`review`, `proposals`, `run` and `rollback` are files, `sections` the candidates of which each vault page
holds a section. `Decide`, `Propose` and `Approve` are `performAction`; `Plan` is `planRun`, with or without
a vault to compare with; `Apply`, `WriteSection`, `SaveRollback` and `SaveRun` are `applyRun`, whose four kinds
of writes `ApplyCut` and `ReviewCut` may separate. A page holds a section or not; that a section can be
appended twice is finding 7 below.

## 3. Runs

Every run names its bounds in its `.cfg`. The type invariants of the modules are proved and not run; so are
`DegradedStaysDown`, `LegalLife`, `CorrectionsBounded` and `EnforcementCostsNothing`. `CHECK_DEADLOCK FALSE` appears in all of them because each model
may rest: all jobs final, no request left to make, all submissions answered, the run or the bounds used up.

| Run | Instance | What it shows |
|---|---|---|
| `jobs_server` | 2 jobs with 1 or 2 attempts, 1 re-queue, 1 restart, no faults, worker never stopped (as `server.js`) | `RunsAccounted`: a job's runs are explained by its attempts and reviews; `LatestRunDecides`: only the newest run of a job sets its result; `Lifecycle`: the files implement `JobLifecycle`; `JobsMoveOn` (liveness): queued jobs are taken, orphaned claims are taken over |
| `jobs_faults` | 1 job, failing writes, malformed reasons and codes, stops and starts with executions in flight, 2 re-queues, 2 restarts | `RecordsCoherent`, `DiskNeverAhead`, `FinalRecordsKept`; `RunningHasExecution`: a job is left running, in the Map and its file, with nobody to settle it only after a crash |
| `policy_store` | 1 track, 1 model, 2 callers, every fault, revision up to 3, 1 restart, 1 damaged file | `EnforcedApproved`, `ServedIsDurable`, `AuditComplete`, `EnforceSound`, `GatePromise` (refinement), `RequestsAnswered` (liveness) |
| `kernel_runs` | 2 submissions of 1 or 2 events, plans of 2 steps, 2 attempts, retryable timeouts, failing disk, 1 crash | `AnsweredIsRecorded`, `CompletedHasOutput`, `NeverRunAgain`, `IgnoredForAReason`, `AllSettled` (liveness) |
| `kernel_overlap` | 2 submissions of 1 event | finding 1 |
| `relay_plan` | 3 steps (2 for a model, 1 tool, one with a schema), 5 graphs, 5 ways of running them, 2 nodes of which 1 or 2 configured, 1 sign of life | `LevelsTight`, `OrderRespected`, `NothingLeftBehind`, `RelayCostsNothing`, `PlacementBalanced`, `FailedNodesRest`, `RunsEnd` (liveness) |
| `controller_runs` | 2 objectives, the first may be held, 1 iteration, 1 correction, 3 failures, 1 timeout retry, blockers stop the run or not | `NothingLost`, `RecordsAgree`, `CompletionEarned`, `SequencerEnds` (liveness) |
| `controller_unstamped` | the same, none held | finding 3 |
| `milestones_cli` | 2 milestones, 3 sessions, 1 commit, 1 interrupted command, 2 contents of the sources | `OneActiveMilestone`, `NamedSessionExists`, `BlockedNeverShips` |
| `sessions_capture` | 2 sessions of 1 objective, 1 event, the worker's runs of the processor in batches of 1, 1 upset: a death, a restart, a POST or a rebuild by hand | `PointerNamesSession`, `CandidateOnce`, `EndedStaysEnded`, `SessionsSettle` (liveness) |
| `maintainer_runs` | 4 candidates (two of low risk for one page, a risky and a contradicted one for another), 2 runs, 2 manifests | `OnlyApprovedWritten`, `NamedFilesExist` |
| `maintainer_snapshots` | the same | finding 2 |

Why the bounds are enough:

- Jobs interact only through the worker's single slot and the order of the Map: two jobs show one waiting
  for, overtaking or outliving the other. Two attempts are the smallest limit under which a retry is both
  allowed and refused; one re-queue gives a job more runs than attempts. Faults concern one job's two copies,
  so `jobs_faults` has one job and more restarts and reviews.
- The policy's mutations are serialized, so an anomaly needs one request checked and another committed
  before it: two callers, three revisions. Reaching `enforced` takes three commits (approval, eligible,
  enforced). Tracks share only the
  revision and the queue; for several tracks and models the theorems hold.
- The kernel's submissions interact through the journal of their event and the append chain: two of them,
  on equal and on different events. Two steps and two attempts distinguish first from last in both.
- Three steps give chains, forks, joins and a redundant edge; four-step graphs add nothing to the level
  computation but a longer queue. The two model steps compete for two nodes, and one sign of life per run
  lets a node come, go, recover or change its roles at any point; the graph with a missing step runs too,
  because `executeRunPlan` accepts it.
- Two objectives show one at work and one waiting, and a review of the first that arrives during the
  second. With 1 iteration the hard cap is 12 turns; 3 tolerated failures let plans, workers and reviews fail
  often enough to reach it, with 2 the other limits always come first. Holding the first objective is enough
  to miss it when it is chosen and when it is archived.
- Commands find the first milestone or session of a status, so two milestones give the wrong one; a third
  session lets a paused one stay behind while another is opened and closed. The theorems need no bound.
- Two sessions of one objective overlap after an orphan, and one upset makes an orphan, cuts the worker's run, or races
  with it for either session: a POST to extract from it, a rebuild by hand to write back what it has read. A batch of one
  makes the second session wait. Two upsets in one behaviour, a POST among orphans for one, are left to the theorems.
- Two candidates for one page and two for another give a manifest with one and with two pages and a run that is
  cut before, between and after its sections; two runs let one that is stale be applied after the other.

### Fairness

Only what the code's scheduling forces is fair; operators, clients, faults, crashes and nodes never are.

- Jobs: the worker is started by `server.js` and polls by `setInterval` (`WorkerStart`, `PollAny`), a turn
  under way ends (`EndTurn`), time passes (`Tick`), and an execution ends because the model client has a
  timeout (`Finish`).
- Policy: the queue takes, publishes and audits (`TakeNext`, `Publish`, `AuditStep`), all of it file
  operations. The checks of a gate are bounded by their own timeouts; they are strongly fair because `Calm`
  interrupts them, in the model, for the one turn that takes a mutation from an idle queue.
- Kernel: file operations end (`JournalRead`, `CheckEnds`, `Saving`, `Appending`) and the timer of a
  handler fires (`HandlerTimesOut`). Handlers themselves need never end.
- Plans: a settled promise is continued (`NextBatch`, `Return`), and each step ends: the connector aborts
  after 15 seconds, the local model client has a timeout, tools run in this process.
- Controller: a running sequencer goes on and each call ends, because the CLI is run with a timeout
  (`Controller`). Nobody has to start it, and kills, aborts and holds are never fair.
- Sessions: the server's worker ticks for ever and the files its runs await are read (`Process(Ticker)`), the
  sequencer goes on with an objective under way and ends it (`Agent`). No objective has to start, nobody has to POST or
  to rebuild by hand, the runs and rebuilds so begun may hang, and an event may stay unwritten; deaths and restarts are
  bounded and never fair.

## 4. Findings

Three have a run that shows the disagreement:

1. `kernel_overlap`: `docs/03-workflows/capability-trigger-kernel.md:32` says that an event submitted again
   does not call the handler twice. A second submission that arrives before the first has appended its
   record does.
2. `maintainer_snapshots`: `docs/00-start-here/current-state.md:34` says that applying "writes rollback
   snapshots first", `docs/06-decisions/decision-log.md:258` "before any apply". `applyRun` keeps the snapshots in memory
   and saves them after the last page: a write that fails on the way, or a stop, leaves pages without one.
3. `controller_unstamped`: the header of `supervisor.js` (line 14) promises "run_id matching: stale artifacts are rejected so
   a failed CLI call can't masquerade as a fresh success". `freshArtifact` compares `run_id`, `iteration` and `task` only where
   the artifact carries them, and `supervisor/PROMPT.md:120` merely asks for them. A review of an earlier run that outlived its
   call and has no `run_id` completes an objective its own run has not accepted. `CompletionEarned` says what is left of the
   promise: a review that carries the `run_id` of an earlier run completes nothing.

Others were met while modelling. Those a model can reach follow its actions as described:

4. Jobs: `docs/05-integrations/operator-guide.md:318` promises that jobs running at a crash are flagged as
   interrupted at the next start. `loadAllJobs` restores them as `running`; nothing claims or settles them
   again (`Restart` while `execs` is not empty).
5. Policy: `docs/06-decisions/decision-log.md:1390` says that the transition graph is strictly enforced. It is
   checked when a request arrives and, for every target but `enforced`, not when it is committed: behind an
   earlier mutation in the queue, `disabled -> eligible` is committed (`AskState`, then `TakeNext`).
6. Plans: `docs/02-track-system/dag-execution.md:21` says that invalid graphs are rejected before execution.
   `executeRunPlan` computes the graph and does not look at its cycles and missing steps: they all start in the
   first batch (`Refused` is `runTrack`'s alone).
7. Maintainer: a run that has an item left to a person can only become `partial`, so it can be applied again,
   and every application appends its sections once more; `applyRun` does not compare with the page as `planRun`
   does. Plans made on the command line have no vault adapter and never see a duplicate. `allowApplyHighRisk`
   can apply nothing, because `isApplyAllowedByDefault` has already refused. No code reads a rollback manifest.
   Two processes that review one candidate at once can overwrite a final review, and an edit of a page between its
   read and its write is lost (neither is in the model).
8. Controller: `.opencode/agents/README.md:25` calls `state/run-state.json` the state of the loop, its
   iteration included. At the hard cap `supervisor.js:583` writes `st`, the object read before the loop, over it,
   and the sequencer reports 0 iterations. Legal turns reach the cap.
9. Sessions: the server closes sessions without an event for 1 second (`idleSessionCloseMs` in `server.js:355`;
   the default is 30 minutes), as interrupted, while the sequencer is at work; its own close then finds none,
   and events of the outcome belong to no session (`Record` with an empty `pointer`). A close in good order can be
   overwritten as interrupted by one that awaited the events at the same time. A crash between manifest and pointer
   leaves an orphan, and the next session of its objective counts the same events in its manifest as well. The
   extraction report is written even when candidates could not be saved, so that they are never tried again.
   `docs/02-planning/development-memory-roadmap.md:130` and `docs/00-start-here/current-state.md:31` call the manifests of sessions
   immutable. `rebuildSession` looks at no status (`session-manager.js:310-344`): `npm run memory:session:rebuild` reads the manifest of the active, open
   session by default and writes its "open" back after an `await`, over an end that came meanwhile (`RebuildByHand`, `RebuiltByHand`).
   The processor ends such a session again, as an orphan or as idle (`SessionsSettle`). `EndedStaysEnded` is therefore about sessions that were not rebuilt by hand
   while open; without that restriction TLC finds it violated.
10. Milestones: `deliver-milestone.js` computes its fingerprint with the tree hash and `dev-lifecycle.js`
   without, so that its preflight never passes (`Merge` is the only way on). `dev-lifecycle.js` prints
   `dev:block --clear`, which does not exist: a milestone that was blocked can never complete, the other side of
   `BlockedNeverShips`. Starting A, pausing, starting and blocking B and resuming opens a second session beside
   the first. A resume after a pause may open a session for a milestone that is ready for delivery; start
   re-activates a merged one. After a validation that was cut off the milestone stays `validating`, which
   only start finds again. The comment at Gate 4 wants HEAD unchanged, but a clean tree that was validated, edited
   and committed has the same empty diff and completes with a warning. `prepare --acknowledge-unrelated`
   leaves files behind and then fails its own Gate 5. A start in a second terminal during a long validation gives
   two active milestones; `OneActiveMilestone` is about one command at a time, and crashes.

Smaller ones: `executeDag` ignores the `maxConcurrency` that
`dag-execution.md:28` describes, so `Launch` starts whole levels; `relay-node-protocol.md:96-98` says that
`distribute` spreads steps this machine cannot run, while `placement.js:83-105` places every model step
that has a candidate; `route_if_unavailable` never sends a step to a node, because `server.js:4005` and
`4374` answer 503 before any step starts when the local model is not ready (`DecideTarget`). In the controller,
`.opencode/agents/README.md` counts an iteration for a rejected task, which the code counts for accepted ones
only (`AcceptedTask`); `BULK_MILESTONE_GUIDE.md:64` stops at a failed objective, while the sequencer goes on with the
next (`Archive`); the comment at `supervisor.js:637` lets blockers that are not fatal fall through, while under
`stop_on_blocker` the next turn ends at the first of them (`Stopped`); and the result of
`finalizeMilestone`, which may refuse a milestone, is ignored (`FinishRecord`).

## 5. Proofs

All theorems hold for every value of the constants under the named `ASSUME`s of the modules, which say
that bounds are naturals, flags are Booleans and the "nobody" values are not members of the sets they
complete. The prover knows nothing about the bounds of the runs. Two theorems carry a premise in their
statement: no faults (`ImplementsLifecycle`) and nobody stops the worker (`LatestRunAlwaysDecides`).

- **`DurableJobsProofs`.** `TypeCorrect`; `RecordsStayCoherent`, `DiskStaysBehind` and `FinalFilesKept` from
  `IInv`. The two invariants are not inductive alone: `TurnSound` adds that the job a pending `StartTurn`
  will start is still the one it claimed (nothing but a crash can intervene), `RunsNumbered` that runs start
  at 1, so that a completed job has a result. `BuildersCoherent` proves, once, that each store operation
  leads from coherent to coherent records; `DiskNeverAhead` is what makes a restart safe. `FinalFilesKept` is
  an action property from the same invariant: no operation starts from a completed or cancelled record, and the
  Map is final where the file is. `StepKinds` sums up what a step that saves a record may do to it (`Follows`)
  and to the history. On it rest `RunsBounded`, whose invariant `RunsCredited` says that a copy which waits to be
  started still has that run to its credit, in the file too, from which a restart goes on; and
  `ImplementsLifecycle`, the refinement of `JobLifecycle`: without faults the copies are the same (`Mirrored`), and
  each save is a move of the lifecycle or, for an expired claim that is claimed again, a stutter. `RunningIsRun` needs that a
  claim is on disk before its run starts in the same turn (`ClaimWritten`). `LatestRunAlwaysDecides` needs that
  nobody calls `stop()`: then `processing` covers every execution in flight and there is one at most (`OneRun`).
- **`EnforcementPolicyProofs`.** `PolicyInv` strengthens `EnforcedApproved` by what is pending: a request
  for `enforced` carries the token of an approved track, and while memory is still at the token's revision the
  model it names is not overridden (`Sound`); in a locked process no track is up and no pending request
  takes one up (`AllDown`, `Modest`), and the file is one revision ahead exactly while a mutation waits for its
  publication. `ApprovalRequired`, `StaysDown`, `Durable` and `EnforcedOnFreshEvidence` follow from it;
  `AuditTrailComplete` needs `AuditInv`, which bounds the revisions of this process. `GateImplemented` proves the refinement
  of `EnforcementGate`: `WrittenInv` says that what was written is a legal successor of what is served, so that
  publication is the abstract step and everything else a stutter. `EnforcementIsFree` is about the steps of
  `EnforcedRouting` that run under this policy: what they read from it is read once, at their start (`StepsInv`).
- **`CapabilityKernelProofs`.** `KernelInv` describes the life of a submission: in each phase its trace is one of
  finitely many (`RunInv`), the append chain holds distinct waiting runs (`ChainInv`), each journal record
  is the one an answered submission was told (`JournalInv`). The finite set of lives replaces an induction over
  traces, which the prover cannot do. `AnswersAreRecorded`, `OutputsExist`, `NoSecondExecution`,
  `DuplicatesOnly` and `LivesAreLegal` follow. The safety parts of `AllSettled` are theorems too:
  `AppendsAreQueued` (with `ChainInv`, a submission that waits for its append is in the chain, once) and
  `SubmissionsMoveForward` (by phase, step and attempt, all of them bounded).
- **`AgentControllerProofs`.** `LoopInv` ties the two processes together: a supervisor exists in one phase of
  the sequencer only (`OneAtATime`), while it works nothing is decided and its corrections are the rejections of
  this task (`Working`), a call is under way only within the limits (`CallsAllowed`, which bounds every counter in
  `TypeOK`), and a complete run state that the sequencer still has to file was accepted by a review that does not carry
  the run id of an earlier run (`Verdict`). `FilesInv` adds where the file of the objective at hand is and that its record agrees when it is
  archived (`Filing`). `TypeCorrect`, `CorrectionsStayBounded`, `CompletionIsEarned`, `NothingIsLost` and
  `RecordsStayInAgreement` follow for any number of objectives and any limits.
- **`PlanExecutionProofs`.** `RInv` adds to `TypeOK` that a silent node is not healthy (`SilentRest`) and that a
  step waits for something exactly while it runs, on a node that is one (`WaitsFor`). Lemmas prove once what
  launching, settling, falling back and failing do to the steps and to the registry. `NodesCostNothing` and
  `SilentNodesRest` follow. `OrderInv` relates steps and batches: what is not pending is in a batch that was started,
  what is in a batch before the last has ended as it must, and a failure that ends a run at once has ended it. `OrderHolds`
  and `AnswersLeaveNothing` follow from it and from what the levels are.
  *Levels.* `Kahn` is the invariant of the loop of `computeLevels` after n turns: the queue holds, without
  repetition, the steps whose dependencies have all been taken (`QueueRight`), the counters what is still waited for
  (`WaitsRight`), the levels rise along the queue (`LevelsGrow`), and a step that entered it is one above the highest step
  it waits for (`OneAbove`). In a valid graph all steps enter (`AllEnter`: otherwise those that do not form a
  cycle). `LevelsAreTight` follows for every graph; `LevelsUnique` shows that no other order of file or queue gives
  other levels; `UnreachedRunFirst` says what becomes of an invalid graph, which `executeRunPlan` runs too.
  *Placement.* `DistributionEven` is an induction over the steps in file order: after each of them the loads of
  the candidates differ by one at most (`LoadsEven`), and what a node is given is the number of steps counted (`ShareIsLoad`).
  *Induction.* The library's induction theorems take a predicate as parameter and cannot be used. `LeastNumber`
  (a set of naturals that is not empty has a least member) is proved from its theorem that strict inclusion of finite sets is well founded; `UpTo` and `Recursion` state
  induction and the equation of a recursive function for sets and functions up to a number, which is all that the two loops
  need.
  *The end of a run.* `RunsEnd` is liveness and stays with TLC; its safety parts are theorems. `RunsAreNeverStuck`: a
  run without an answer has a step under way, a batch to start or an answer to give. `StepsMoveForward`: nothing sends a
  step back, and each of its own answers leaves it less to wait for (`Left`). `AnswersAreFinal`: what goes on beside
  a failed step does not change the answer.
- **`MilestoneLifecycleProofs`.** `IInv` speaks of the writes a command still has to make: all are for one
  milestone, one that makes it active finds no other that is, and none ships what has blockers (`MilestoneWrites`); the
  project state names a session that is there or is written before it (`SessionWrites`). `OneMilestoneIsActive`,
  `NamedSessionIsThere` and `BlockedStaysHome` follow, a crash only dropping writes.
- **`DevSessionsProofs`.** What awaits its events ends a session whose manifest is there (`OpsEnd`), and a run
  of the processor has before it only sessions that are there and, once it rebuilds, ended (`TodoThere`): a stale manifest
  that is written back is that of an ended session (`SessionsStayEnded`). Sessions rebuilt by hand while open are
  exempt throughout (`Settled`), because after one such rebuild the processor may read and write back "open" as well. `PointerIsSound` needs that the pointer is
  written after the manifest (`AgentReady`), `CandidatesComeOnce` that look-up and save are one turn.
- **`MaintainerRunsProofs`.** Reviews are final, so that whatever a run plans to append stays approved, of
  low risk and not contradicted (`PlansAppendable`) and what an application writes is of its run (`ApplyOfRun`); the
  manifest is saved, with the pages of all that is done, before the run names it (`ApplyRollback`).
  `OnlyApprovedIsWritten` and `NamedFilesAreThere` follow.

Model-checked only: all liveness (`WF_`, `~>` and `ENABLED` are out of the prover's reach). Every invariant and
action property of the passing runs is a theorem.

## 6. Not modelled

`PROJECT.json` lists every part with its reason. In the modelled parts: wording, prompts, schemas beyond
valid or not, authentication and allow-lists that refuse before any state changes, statistics that are only
reported, a journal line that is cut off in the middle, and a second process on the files of the server.
Of the controller: the git branches themselves, failing writes of state and record files, a supervisor
started by hand and the one-step `worker-runner.js`. Of the development memory: the capture policy, retention, redaction, the
summaries, two reviewers of one candidate. Of the milestones: issues, closeouts, checkpoints, acceptance evidence, commands
in two terminals, delivery. The kernel's trust, pairing and transport stores are synchronous but for publish; the
vault, evidence files, console, providers, tools, benchmark lab and scripts have little state of their own beyond one read or
write per request.

The modules cover the parts in which state survives an `await`, a callback, a process or a restart. Most of
the repository's lines are HTTP plumbing, content tools, benchmark and acceptance scripts and their tests, in
which there is no such state; `companion/server.js` enters only where a route changes what is modelled.

## 7. Plan

1. Done: jobs, enforcement policy and routing, kernel, plans and relay, agent controller, milestones, sessions
   and capture, reviews and maintainer runs, each with theorems.
2. Done: every invariant and action property of the passing runs, and both refinements, are theorems; so are the
   safety parts of `RunsEnd` and `AllSettled`. Next: the same parts of the liveness properties of the other modules
   (something that decreases with each answer, and always something to do).
3. Extensions: a second process on the job files (`dev-queue-adapter.js`), two terminals on the milestones, two
   reviewers of one candidate, the kernel's trust store and replay cache over restarts. A run whose invariants are
   proved can give its place to one of these, as that of `EnforcedRouting` has.
