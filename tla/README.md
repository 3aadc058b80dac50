# A TLA+ verification project for agent-lcars

agent-lcars runs coding agents for work items: a GitHub issue, a Linear issue, a
native work item, a schedule or a repository job asks for a run, the console
admits it, a queue executor in a cluster claims it and starts a worker, and the
worker's outcome is reported back to where the work came from. This project
models the durable core of that system: the run lifecycle with its per-task
mutex, the transactional outbox with its concurrent drains, the broker of the
Codex credential, the selection of queued runs, the executor that launches them,
schedules and repository jobs, and two projections derived from the runs (the
`status:needs-human` label, the provider cooldown).

Tools: `tlc -config X.cfg M` for a run, `tlapm M.tla` for the proofs. The runs,
the map from definitions to source lines, the mutants, the hazards and the
theorems are listed in `PROJECT.json`.

## 1. The system and its parts

| Component | Where | State it keeps | Operations |
| --- | --- | --- | --- |
| Run lifecycle | `libs/orchestrator/src/{decide,orchestrator,model}.ts` | `Task` (activeRunId, runCount, consecutiveLost, closedAt, work, revision) and `Run` (state, queue, lease, result, credential journal) | requestRun, replaceQueuedRun, confirmDispatch, renewLease, reportResult, cancelRun, expireRun, executor exit, close, updateWork |
| Run store | `memory-store.ts`, `firestore-store.ts`, `store.ts` | the documents, `attemptTokenHash`es, priority cursors, provider holds | transactRun / transactRequest, apply (compare-and-set), enqueueRun, claimQueuedRun, releaseQueuedRunClaim, claimNextOutbox, settleOutbox |
| Credential journal | `credential-operation.ts`; console `codex-credential-operations.ts`, `codex-auth-store.ts` | `credentialOperation`, `credentialPendingResult`, the auth store's generations and leases | reserve, finish, recover |
| Outbox | `model.ts` 660-760, both stores, console `orchestrator-dispatch.ts` | `OutboxEntry` (state, attempts, claimId, leaseExpiresAt, nextAttemptAt, firstFailedAt, deliveryFailures) | claim, one handler per kind, settle, wake |
| Provider cooldown | `provider-cooldown.ts` | one hold per provider | derived on every write of a finished run; read by claims |
| Provider fallback | `provider-fallback.ts`, `provider-routing.ts` | fallback budget of a task | reroute after a provider limit |
| Queue selection | `store.ts`, `queue-admission-status.ts` | priority turns per pipeline | selectFairQueuedRun, selectPriorityQueuedRun |
| Schedules | `schedule-store.ts`, console `schedule-router.ts`, `schedule_ticker.go` | `Schedule` (spec, cron, revision, pendingTick, lastSlotAt, lastClosedSlotAt) | create, update, toggle, delete, tick |
| Repository jobs | console `repository-jobs.ts`, `repository-job-{catalog,store}.ts` | catalog job (enabled, veto, active occurrence, baseline) and occurrences | refresh, enable, invoke, tick, stage, complete |
| Delivery binding | `delivery.ts`, console `ready-delivery.ts` | the PR a task delivers through | bind, monitor, settle |
| Source revisions, anchors | `decide.ts` 292-449, `github-anchor-*.ts`, `github-work-admission.ts` | revision of the issue a run works on; cached projection with its generation | requestRevisionRun, projection refresh |
| Runs API | console `runs-router.ts` | none | authenticates callbacks by claim token and calls the orchestrator |
| Intake | console `orchestrator-ingest.ts`, `linear-intake.ts`, `work-router.ts`, `work-mint.ts` | webhook dedupe | turn events into requests |
| Queue executor | `apps/runner-autoscaler/*.go` | Kubernetes Jobs, their Secrets and Pods; in memory the claims being retired and the exits reported | reserve, claim, create and resume a Job, sweep, delete, report exit |
| Runner image | `runner-image/direct-runner.sh` | a worker process | heartbeat, credential renewal, report |
| Telemetry, UI, infra, tools | `libs/telemetry`, `apps/console/src/app`, `infra`, `tools` | - | - |

**How they interact.** A decision function of `decide.ts` is pure: given the
documents it returns the new Task, the new Runs and the outbox entries to emit.
The store commits all of them in one transaction, so a run and the promise to
dispatch or report it are never apart. Most operations run the decision inside
the transaction (`transactRun`); `close` and `updateWork` read first and apply by
compare-and-set on the task's revision (`Orchestrator.#once`). Drains of the
console deliver the outbox: they are started by every request that committed
something and by the maintenance tick, so several run at once. The executor and
the worker act on a run through the Runs API under the token of their claim; a
call may arrive after that claim was released, taken again or settled.

**What is hard here.** Transactions of requests, callbacks, the expiry sweep and
cancellations of one task in any order; a claim taken again while the earlier
worker still speaks; a completion that arrives while credential IO is in flight;
the two-read edit; a drain that dies, outlives its lease, or whose settlement
throws after committing; deliveries out of order; deadlines that extensions must
not push forever; the retry budget at its limit; a conditional write to the
credential bucket that commits after its answer was given up; an executor that
restarts half-way through a launch, and a worker that runs on after its claim
was settled; ticks that overlap each other and the operator. `PROJECT.json` "hazards" has
each at its line, with the properties aimed at it.

## 2. The modules

### TaskMutex - what the orchestrator promises of a task

The abstract specification: a lock holder, the outcome of every run so far, a
streak of losses, the closing and the version of the work payload. A step starts
a run on a free lock, settles the holder, replaces it, loses it (with a
successor while the streak is below `MaxAutoRetries`), closes a task or edits its
work on a free lock.

### RunLifecycle - the orchestrator's decisions and their transactions

| Model | Code |
| --- | --- |
| `tasks[t]` | the Task document; `active` is activeRunId, `work` counts edits of the payload |
| `runs[t]` | the Runs of the task in minting order; the index is the run number of the id `t/r<i>`, `Len` is runCount |
| `runs[t][i].dispatch` | progress of the run's dispatch-run entry: not claimed, read, enqueued, done |
| `runs[t][i].token` | the number of the latest claim; equal numbers stand for equal token hashes |
| `start`, `wait`, `lease` | countdowns to startDeadlineAt, claimedAt + RUN_PLACEMENT_WAIT_MAX_MS, leaseExpiresAt; 0 is "not after now" |
| `edits[t][x]` | one in-flight `close` or `updateWork` between its two reads and its compare-and-set |
| `Request`, `ReplaceQueuedRun` | requestRun and the queued provider switch, with transactRequest |
| `DispatchRead/Enqueue/Confirm/Lapse` | handleDispatchRun: read, enqueueRun, confirmDispatch are three awaits; a lapsed lease starts over |
| `Claim`, `ReleaseClaim`, `ObserveStartupPlacement`, `RenewLease` | the executor's and the worker's calls |
| `ReserveCredentialOperation`, `ReserveCleanup`, `FinishCredentialOperation` | credential-operation.ts; recovery is a second caller of the same finish |
| `Report`, `Cancel`, `CancelUnclaimedBefore`, `Expire`, `ExecutorExited`, `RetireSettledClaim` | the settlements, each with its automatic retry and cleanup reservation |
| `TransactRead/ReadActiveRun/Apply` | Orchestrator.transact with its one retry after a conflict |

Every callback is tried with every token `1 .. token`: late callbacks of earlier
claims are always possible. `Tick` lets one unit of time pass for live runs; a
settled run keeps no deadline, since no code reads it again.

Abstractions: results and pending results are identified with the token of the
worker that sent them; the operation kinds restore, renew and persist are one
kind `"work"`; `goose-codex` is pipeline `goose` with `params.providerAuth =
codex`; which queued candidate a poll selects is open; source revisions, delivery
bindings, label routing, provider fallback and the freshness fences of an
observation (its time and Job uid) are not in this module. A Codex heartbeat is
not guarded by its renew operation, because recovery may finish that operation
before the heartbeat's transaction. `RetireSettledClaim` has no token guard,
because exits of executors that send no claim fingerprint are accepted.

### Outbox - entries, leases and drains

`entries` holds the OutboxEntry documents, numbered by createdAt; every claim
increments `attempts`, so the attempt number stands for the random claimId.
`drains` holds the in-flight `drainOutbox` invocations with the leased snapshot
each works from: retry and retirement are decided on that snapshot, and only
`settleOutbox` compares the claim. `suffered` is a history variable: the ticks
since the first real delivery failure after the last recorded recovery. The
handlers of the six kinds are abstracted to their outcome (delivered, permanent
failure, closed anchor of a stale report, still waiting, failed); a report settles
its failure itself (`"retry"`), other handlers throw and the drain's catch
settles (`"caught"`). `SettleThrows` is a store error of the settlement whose
write may or may not have committed, after which the catch settles once more; it
counts as a failure suffered, although the comment at orchestrator-dispatch.ts:1268
speaks of delivery failures.

### CodexCredentials - one subscription, two conditional objects

The bucket holds the subscription lease and the credential; each object has a
generation and every write names the one it expects. `runs` is the credential
journal of each Run document, `calls` the handlers in flight (a worker's restore,
renew, persist or cleanup, or a candidate of the recovery tick), `net` the writes
that answered "unavailable" and may still commit.

| Model | Code |
| --- | --- |
| `Begin`, `ResumeCleanup`, `Acquire`, `Renew`, `Persist`, `ReadAuth` | the calls of codex-credential-operations.ts |
| `Prepare`, `Save`, `SaveUnavailable`, `Confirm`, `Acknowledge` | `mutate`: journal, conditional write, journal again |
| `Finish`, `ResolveRun`, `ResolveLease`, `needsProof` | finishCredentialOperation with the proof for the exact mutation sequence |
| `List`, `RetryRecovery`, `FenceRead`, `FenceSave`, `FenceAcknowledge`, `Check`, `ReleaseRead` | recoverCodexCredentialOperations and fenceMutation |
| `Crash`, `ReadFails`, `LateWrite`, `LeaseExpires` | the console process, the bucket, time |

The 5 attempts and 100 mutations of the code are the constants `Attempts` and
`MaxSequence`. A rotated credential is named after the run that wrote it. The
lease's expiry is a flag that time clears.

### QueueSelection - which run a poll claims

The pure selection of store.ts inside the claim transaction: candidates,
occupancy, ceilings, the provider by occupancy and age, the class by the
provider's durable turn. A member of `Runs` stands for one run after another of
its provider and class, so demand never ends. `passed` is a history variable: the
claims of its provider since a run became the head of its class. Claims may be
released with a deferral, any number of times, each over whenever its five
minutes are; a run that waits, deferred or not, may be canceled.

Selection alone does not save every run. A deferral keeps the run's age
(runs-router.ts:414-436), so an older run of the same provider and class whose
issue stays unreadable is back before the next turn of its class and takes it,
and a later run of that class starves behind it. `NoRunStarves` therefore has the
premise that no older rival, of the run's class or of another provider, is
deferred for ever; TLC finds the starvation as soon as the premise is dropped.
libs/orchestrator/README.md:65-71 promises service to an eligible head only; the
product spec's "prevents background starvation"
(fleet-orchestration-product-spec.md:336) holds under the same premise.

### QueueExecutor - the Go executor and its cluster

`console` is what the Work API knows of each run, `jobs` and `pods` the cluster,
the rest is the executor's memory, which `Restart` clears. The poller reserves a
slot, claims, creates a suspended Job and its Secret, fences the run and lifts the
suspension; the sweep gives every active Job a turn, deletes those of settled
claims under the snapshot's resource version and resumes the suspended ones;
`PostExit` reports a terminated worker or a claim whose deleted Job is gone. Any
API call may fail with its effect done or not. Kubernetes is external: a Job
controller that starts one Pod, foreground deletion, retention of finished Jobs,
a scheduler that promises nothing. A run is claimed once here; startup placement
reports are RunLifecycle's `ObserveStartupPlacement`. The `nodesFit` gate of a
reservation is left out (it only delays), and a create is taken to have happened
or not by the time its call and the look-up after it return: one that commits
later is not modelled.

What is lost: a Job is deleted and, before it has disappeared, the executor
restarts, or the delete call failed although it took effect. Then nobody tracks
the deletion and the exit of that claim is never reported, as
repository-jobs.ts:373-375 says. `EndsAreReported` puts no obligation on such a
Job. It obliges every Job that is not being deleted and every deletion that is
tracked, also after earlier faults, and excuses a fault that is still to come:
what survives the fault is obliged anew.

### Schedules - one native schedule and its ticks

A tick lists the document (`List`, `Plan`), reserves a due slot in it (`Admit`),
authorises and mints the item (`Authorize`, `Mint`) and settles or closes the
reservation (`Settle`, `Forbidden`, `Close`), each in a transaction of its own;
several ticks are in flight and each may crash. The operator's routes are
`Create`, `Update`, `Toggle`, `Delete`; grants change, and a deployed schema may
stop accepting a stored spec. A configuration stands for a cron expression and a
spec together; `DueAt` gives the minutes a cron matches. SchedulesProofs proves its
three safety properties.

### RepositoryJobs - one repository job

The catalog document is refreshed from the repository (`Refresh` reads,
`Publish` writes), enabled and vetoed by the operator; `Invoke` and the tick
(`ListJob`, `Plan`) admit occurrences; `Mint` creates the work of one, `Stage`
and `RecipeComplete` are the two halves of a recipe's completion, `ReadRun` and
`Reconcile` the reading and the writing transaction of the reconciliation. Work
is seen from here: a run is queued, claimed or settled (RunLifecycle), and a
worker lives at most the executor's limit (`PodLimit`), which is not longer than
the backstop of the reconciliation.

Three simplifications. `WorkerStarts` is one step with the check that the run is
live, while `recipeBrief` awaits between its token check and its answer: the
backstop exceeds the Pod limit by an hour, far more than that await. A recipe
completion that is accepted behind a Codex credential operation and settled later
by recovery is a late `RecipeComplete` here. `waited` counts from the settlement;
the code counts from `updatedAt`, which a Codex credential cleanup can still move
(credential-operation.ts:159), so there the backstop may come later, never
earlier. Reservations left by a deployment that kept credentials in the profile
(repository-jobs.ts:340-365) are not modelled; nothing creates them any more, and
they are freed by the same guarded write as any other.

### OutcomeLabel - the needs-human label

The four awaits of `handleReportOutcome` (comment, look for a later run, write
the label, settle) for the runs of one issue. A failed comment or a dead drain
gives the entry back (`GiveUp`); requests for the label and reads of the history
succeed here.

### ProviderCooldown - the hold after a provider limit

Runs of one provider that may be claimed together (claude), the hold each
document yields, and the writes that derive it again.

The MC modules add the symmetry sets and the function-valued constants TLC uses.

## 3. The runs

| Run | States | Shows |
| --- | --- | --- |
| `retries` | 1.05M | two requests of a task, repeated dispatch, losses and automatic retries: the lock names the one live run (`MutexHeldByLiveRun`), no stretch of losses holds more than the budgeted automatic retries (`RetryBudgetKept`), an outcome never changes (`SettledIsFinal`), and RunLifecycle implements TaskMutex (`ImplementsTaskMutex`) |
| `edits` | 2.1M | a close and an edit race the runs: a closed item stays idle (`ClosedTaskIdle`), payload and closing change only on a free lock (`WorkFrozenUnderRun`) |
| `recovery` | 108k | all pipelines, claims released, taken again and gone silent: results come from the last claimant, the placement wait is capped, cleanup debt survives settlement, exit and retirement (`CleanupDebtKept`), an accepted completion is not dropped or overtaken (`AcceptedCompletionKept`), retries follow the lost run and never a recipe (`RetriesSucceedLostRun`); under fairness no silent claim wedges its task (`TaskNotWedged`) and an accepted completion becomes the outcome (`AcceptedCompletionSettles`) |
| `outbox` | 437k | two drains, crashes, overrun leases, store errors and wakes: a running lease is disturbed by its owner only, a settled entry stays settled, retirement is earned by real failures over the whole window, failures are spaced by the doubling backoff, and every entry is delivered or retired |
| `codex_credentials` | 4.1M | two runs on one subscription, overlapping handlers, a crash, a stall or a late write: a write that was acknowledged or fenced never lands (`FencedWritesNeverLand`), a stored rotation has its receipt in the journal (`RotationRemembered`), a lease is taken only once released or expired (`LiveLeaseNotStolen`), a settled run without debt holds none (`RetiredForGood`) |
| `credentials_live` | 451k | every credential operation ends, whatever its handler met (`OperationsResolve`) |
| `queue_selection` | 151k | the head of a class is served by its turn (`HeadServedByTurn`); no queued run starves, whatever its class, provider and the grants of the executors, unless an older rival is deferred for ever (`NoRunStarves`) |
| `queue_executor` | 176k | an accepted exit means that no worker of the claim runs or will (`ExitMeansStopped`); at most one Job is on its way to a node (`AdmissionBounded`); every Job frees its slot (`SlotsComeBack`); the end of every Job not yet being deleted, and every deletion that is tracked, is reported before its retention runs out or a new fault happens (`EndsAreReported`) |
| `schedules` | 576k | no slot is served under two configurations (`ReservationMatchesItem`) or reserved from a stale one (`ReservationsCurrent`); a reservation ends minted or closed for good (`OccurrenceNotDropped`), also after its schedule is gone (`ReservationsSettle`); an enabled schedule does not stay behind (`DueSlotsServed`) |
| `repository_jobs` | 814k | two workers of a job never overlap (`OneWorkerAtATime`); the active pointer names exactly the open occurrence (`PointerNamesOpenOccurrence`); the baseline comes from a successful run (`BaselineVerified`); a veto stands (`VetoStands`); a settled occurrence is reconciled even if its exit report is lost (`SettledIsReconciled`) |
| `label_two_drains` | - | violated: see Findings |
| `cooldown` | - | violated: see Findings |

**Bounds.** The automatic retries (`MaxAutoRetries` 0 or 1) and the requests
bound the runs of a task: with two requests and one retry each there are up to
four, enough for a loss, its retry, the exhausted budget and a fresh request
after it. Two claims per run is the least that has an earlier and a later
claimant; `MaxClaims` guards `Claim` and `ReleaseClaim` alike, so a released run
can always be claimed again. Deadlines of one or two ticks let each of them
elapse before, with and after the others; in `recovery` the start budget is 2 and
the cap 3, so a renewed start deadline can meet the cap inside a claim. Each task
has at most one in-flight close and one edit, and one edit of the payload in
`edits`. The outbox has one entry of each behaviour, the window (3) is longer
than one backoff (1, then the cap 2) and the lease (1) is shorter than it;
`MaxEvents` bounds crashes, store errors, overrun leases, wakes and waiting
observations together. The credential runs have two operations and one fault
(safety: an operation and a competing one, one of them interrupted) or one
operation and two faults (liveness: the recovery is interrupted as well). The
selection has runs of each class for a serialized provider, two of them
background, and one of another provider, so a background head meets its whole
cycle of seven turns and a later run of its class waits behind it; the older or
the younger of the two may be deferred or canceled, and the other provider may
cool down. The executor
has two runs, two slots and one fault at any step. A schedule has two minutes and
two configurations that share the second, four changes, two ticks and a crash: a
slot can be reserved, closed, edited and due again. A repository job has one due
minute and one manual request, so two occurrences compete for the pointer, with
two handlers in flight and two changes (refresh, veto, invocation or cut-off).
`CHECK_DEADLOCK FALSE` is used where the bounded system may stop: the label when
every report is delivered, the credentials and the schedule when their changes
and faults are spent.

**Fairness.**

- RunLifecycle: time passes, the maintenance tick's sweep expires what is due
  (`Expire`), and the owner or credential recovery finishes every reserved
  operation, which presumes that the credential store answers eventually
  (`credentials_live` is where that is checked). Workers, executors and callers
  owe nothing; `TaskNotWedged` excepts a run whose worker heartbeats forever.
- Outbox: time passes and drains keep being started and their handlers return or
  throw. No delivery is owed; handlers outlive their leases only finitely often.
- CodexCredentials: a handler in flight goes on (each await has a timeout), and
  the recovery tick lists every candidate again and again (strong fairness: each
  listing postpones its candidate behind the others). Faults are finite.
- QueueSelection: executors keep polling, claims end by their lease at the
  latest, cooldowns and deferrals end. Nothing is asked of arrivals and
  cancellations. The polls' fairness is written as "infinitely often nothing is
  open, or infinitely often a claim", and the ends of claims, deferrals and
  cooldowns as "infinitely often not": weak fairness with its enabling condition
  spelt out.
- QueueExecutor: the poller and the sweep go on, the sweep's cursor gives each
  active Job its turn (strong fairness), reports are retried, the cluster's
  controllers act, and maintenance settles silent claims (`TaskNotWedged`). No
  Pod is promised a node.
- Schedules: ticks keep being started and go on. Nothing is asked of operators
  or the clock.
- RepositoryJobs: the clock, handlers in flight, and maintenance ticks that find
  a free handler again and again (strong fairness). No report is promised. The
  maintenance loop works under a deadline of its own; that it reaches this job in
  the end is assumed.

## 4. The proofs

The proofs hold for every value of the constants allowed by
`ConstantsAssumption`, `OutboxAssumption`, `SelectionAssumption`,
`ExecutorAssumption`, `SchedulesAssumption`, `JobsAssumption` and
`CredentialsAssumption`: any sets of tasks, requests, drains, runs, executors,
ticks and handlers, any deadlines, ceilings, due minutes, tries and bounds.

**RunLifecycleProofs.** `IInv` is `TypeOK` with a fact per document: `RunInv` (an
operation belongs to a held claim of a Codex run; a work operation to a live run
and a cleanup to a settled one; a pending completion is the claimant's and waits
for a work operation; a result is the claimant's; a settled Codex claim owes or
has proven its cleanup), `TaskInv` (the lock names the one live run; a closed
task has no holder) and `EditInv` (an edit whose read is still current knows the
task and whether its lock is held). `EditInv` is what makes `ClosedTaskIdle`
inductive: the compare-and-set can only succeed on a task no transaction touched
between the two reads, and every transaction that starts or ends a run touches
it. The pending and operation conjuncts are what `ResultFromClaimant` needs:
while an operation is reserved the claim cannot be released, so the token that
sent the pending result is still the last one. Every step is a commit of a task
with its runs, a write of one run or an edit's step, and a lemma for each kind
lifts facts about the written documents to the store. From `Invariance` follow
`TypeCorrect`, `MutualExclusion`, `ClosedTasksAreIdle`, `ResultsAreTheClaimants`
and `CleanupDebtIsKept`.

**RunHistoryProofs** extends them to what happens over several steps. Every step of
the specification leaves the outcomes of all runs alone or is one *move* of one
task: a run is started, settled, replaced, lost, lost and retried, or the task is
edited (`Kept`, `Started`, `Settled`, `Replaced`, `Lost`, `Retried`, `Edited`).
A lemma per action finds its move; everything else is proved once per move.
`OutcomesAreFinal`, `CompletionsAreKept` and `WorkIsFrozen` follow directly.
`TaskMutexImplemented` maps each move to a step of TaskMutex, under the same
mapping as the run's `ImplementsTaskMutex`. The remaining three need an invariant
about the whole list of runs, `HistoryInv`: the lock is the last run's; an
automatic retry directly follows the lost run it names; a waiting claim's start
deadline is within its cap; and the run of losses that ends the list holds no
more retries than `consecutiveLost` counts, one fewer once its last run is lost
too. That count is what `RetryBudget` rests on: the budget bounds the counter, and
the property speaks of the list. `RetriesSucceed` and `PlacementWaitIsCapped` are
conjuncts of it.

**OutboxProofs.** `OutboxInv` ties each drain's snapshot to the document: a
drain's claim is never ahead of the entry's attempts; while it owns the lease its
failure clock is the stored one; two drains never hold the same claim; the stored
clock never runs ahead of the failures that happened. `RetirementIsEarned` needs
all of it: retirement is decided on the snapshot, and a snapshot of a lost lease
may be older than a recovery. `LeaseFencesOwner` and `SettledStaysSettled` are
action properties from the same invariant; distinct claims are what keeps a late
settlement from passing the claim comparison. `FailuresAreSpaced` has an invariant
of its own, `SpacedInv`: the delay a pending entry still waits out, added to its
failure clock, reaches the next sum of delays or the window, where the next
failure retires it. The sums are a recursive function; `SumOfDelays` shows, by
least counterexamples, that its equation has a solution.

**QueueSelectionProofs.** `HeadServed` is `Spec => []HeadServedByTurn`. The bound
on the claims that passed a head is not inductive: it says nothing of the cursor.
`OnTrack` adds the potential: the claims that passed a head and the turns still
before its class are together at most the bound. `TurnAfterNearer` is the step
that matters: serving another class moves the cursor at least one turn nearer to
the head's class, since the served class was the first non-empty one and the
head's class is not empty either. `Ordered` (any two live runs are ordered by
age) and `HeadsCount` (only heads count) show that the run a claim takes from the
head's own class is the head itself. The cycle of seven turns is treated by
cases; the rest is independent of the number of runs and providers.

**SchedulesProofs.** The watermark separates the slots that are over from those
to come. `DocGood`: a reservation is of a slot to come, and an item of a slot to
come belongs to the reservation. `TickGood` ties a tick in flight to the document
it read, which others have changed since: before it reserves, the configuration
it holds is the stored one if the revision still is (`Read`); at work on a slot,
it works for the reservation or its slot is over; and it settles only a slot
whose item exists. `Onward` says what any step of another actor may do to the
document (revisions and the watermark only grow, a reservation given up is over)
and `OnwardKeepsTicks` that this keeps every tick good. `ReservationsMatch`
follows from `DocGood`, `ReservationsAreCurrent` from `Read` at the admission,
and `OccurrencesKept` from the tick that settles or closes: a settled slot has
its item, a closed one passes under `closedSlot` while `lastSlot` stays below.

**QueueExecutorProofs.** `ExecutorInv` relates the executor's memory, the cluster
and the console. For `ExitsAreReal`: a report that is in flight, remembered or
accepted is of a claim that is `Stopped` (its Job is finished or gone, its worker
does not run, and nothing will create or resume the Job again), and a stopped
claim stays stopped under every later step, a restart and a stale launch
included. For `AdmissionIsBounded`: at most one Job waits for a node, and none
while the poller is between its reservation and its Job. Steps are grouped by
what they may change: memory only, the cluster's own, the console's, and the
poller's three.

**RepositoryJobsProofs.** The documents satisfy `DocumentsInv`: a worker's life
fits in what is left of its settled run's backstop (`WorkInv`, where `PodLimit <=
Backstop` is used), Work exists only under an occurrence that was admitted and
not skipped, and an occurrence was reconciled only after its worker had stopped.
`HandlerInv` ties each handler to documents that others have changed since: what
it remembers of an occurrence and of a stopped run is still true, because
`DocumentsGrow` says that no step of anyone unmakes an occurrence, revises an
artifact, or restarts a stopped run. `PointerIsExact`, `BaselinesAreVerified` and
`WorkersDoNotOverlap` follow from the invariant, `VetoesStand` from it and the
fact that only an admission under an enabled job sets the pointer. That a tick's
slot exists (`LargestElement`) needs an induction; it is carried out as the choice
of a least element of a well-founded order.

**CodexCredentialsProofs.** `CredentialsInv` says of every write that was sent, by a
call or by the net that may still deliver it, that its journal names it or its
generation has passed (`Fenced`); that no write of the lease was prepared against
a live generation of another run (`Sound`); and that its number is one the
journal has reached (`Numbered`). The bucket accepts a write only at its
generation, so a write that lands is one its journal names: `FencesHold`. It was
prepared by the owner or against an expired lease: `LiveLeasesStay`. A mutation is
cleared only when its generation has passed, which is what keeps `Fenced` when a
late write outlives its journal entry. A retirement proof is a sequence number:
`ProofOK` says that while the journal is still at that sequence, nothing is
prepared and the run does not hold the lease, so the comparison of `Finish` is
enough and `SettledRunsHoldNothing` follows; a mutation prepared since has moved
the sequence on. `RotationsAreRemembered` needs that a refused rotation was never
the stored one: `SendsOnce` (a rotation about to be sent is not in the bucket, in
the net or in another call) gives the refused call its answer, and the recovery
finds the receipt in the object it reads. The parts of the invariant are stated
over a bucket, the journals and an operation count; lemmas show once that they
survive a write that lands (`LeaseMoves`, `AuthMoves`) and a step of one journal
(`JournalMoves`), whoever is in flight, and each action adds its own call.

**Only model-checked.** Liveness (`TaskNotWedged`, `AcceptedCompletionSettles`,
`EveryEntrySettles`, `OperationsResolve`, `NoRunStarves`, `SlotsComeBack`,
`EndsAreReported`, `ReservationsSettle`, `DueSlotsServed`, `SettledIsReconciled`)
is out of the prover's reach.

## 5. Findings

1. `cooldown`: every transaction that writes a finished provider-limit run
   derives its hold again and overwrites the provider's record
   (`memory-store.ts:365`, `firestore-store.ts:149`). Two claude runs are limited
   one after the other, the second with the longer reset; when the executor
   reports the first one's exit, the hold falls back to the shorter one. The test
   at `orchestrator.spec.ts:691` ("retires a settled claim without moving its
   settlement time or cooldown") has a single run and cannot see it.
2. `label_two_drains`: the search for a later run and the label write are
   separate awaits (`orchestrator-dispatch.ts:674`). A drain that looked before
   the later run succeeded adds the label after another drain removed it, against
   the comment at line 672.

## 6. Not modelled, and the plan

The repository is far larger than its protocol: most of its lines are the
console's UI and view models, payload schemas, API clients, fleet and probe
tools, infrastructure and runner scripts. They present stored documents, check
the shape of data or call out once; they keep no state that another actor's step
could invalidate, so a model of them would restate them. What keeps protocol
state and is still left out, in order of importance:

1. Source revisions (`requestRevisionRun`, `invalidateSourceRevision`,
   `advanceSourceRevision`, decide.ts 292-449): the superseding or coalescing of
   a revision that arrives while an attempt is queued, claimed or settling.
2. Provider fallback and label routing: the fallback budget and the reroute of a
   limited run, composed with the cooldown; the Codex cooldown that cleanup steps
   extend (credential-operation.ts:159).
3. The anchor projection's generation fence (memory-store.ts:429).
4. The delivery monitor's decisions, which follow pull request facts of GitHub.
