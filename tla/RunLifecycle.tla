---------------------------- MODULE RunLifecycle ----------------------------
(***************************************************************************)
(* The durable core of libs/orchestrator: tasks, the runs minted for them  *)
(* and the per-task mutex activeRunId.  One action per decision function   *)
(* of decide.ts / credential-operation.ts together with the store          *)
(* transaction that commits it (orchestrator.ts transactOnRun, memory-     *)
(* store.ts), plus the steps of the dispatch drain and of the one          *)
(* read/decide/compare-and-set operation (Orchestrator.transact).          *)
(*                                                                         *)
(* The runs of a task form a sequence: run "t/r<i>" is runs[t][i] and      *)
(* runCount is Len(runs[t]).  Instants are countdowns: a deadline d is the *)
(* number of Ticks left until d, 0 meaning d <= now.  A claim token is the *)
(* number of the claim of that run, so equal tokens are equal hashes, and  *)
(* a result is identified with the token of the worker that sent it.       *)
(*                                                                         *)
(* Tasks here carry no source revision, delivery binding, label routing or *)
(* provider fallback.  Which queued candidate a poll selects is left open. *)
(***************************************************************************)
EXTENDS Integers, Sequences, FiniteSets

CONSTANTS
  Tasks,             \* task ids
  NativeTasks,       \* the work anchors among them; the others are GitHub anchors
  RequestIds,        \* caller-chosen idempotency keys, per task
  Pipelines,         \* the pipelines callers ask for
  EditKinds,         \* the read/compare-and-set operations: "close", "edit"
  MaxAutoRetries,    \* MAX_AUTO_RETRIES
  StartTimeout,      \* RUN_START_TIMEOUT_MS, in ticks
  PlacementWaitMax,  \* RUN_PLACEMENT_WAIT_MAX_MS, in ticks
  RunLease,          \* RUN_LEASE_MS, in ticks
  MaxClaims,         \* bound: claims of one run
  MaxEdits           \* bound: edits of one task's work payload

AllPipelines == {"claude", "codex", "goose", "goose-codex"}

ASSUME ConstantsAssumption ==
  /\ NativeTasks \subseteq Tasks
  /\ Pipelines \subseteq AllPipelines
  /\ EditKinds \subseteq {"close", "edit"}
  /\ MaxAutoRetries \in Nat
  /\ StartTimeout \in Nat /\ PlacementWaitMax \in Nat /\ RunLease \in Nat
  /\ StartTimeout <= PlacementWaitMax
  /\ MaxClaims \in Nat /\ MaxEdits \in Nat

VARIABLES
  tasks,    \* the Task documents
  runs,     \* the Run documents of each task, in minting order
  edits     \* the in-flight close and updateWork calls, one of each per task

vars == <<tasks, runs, edits>>

-----------------------------------------------------------------------------
(* The documents *)

NoRun == 0     \* activeRunId absent
NoToken == 0   \* no claim / no result / no pending result

LiveStates == {"pending", "running"}
RunStates  == LiveStates \cup {"finished", "canceled", "lost"}

Task == [active : Nat, consecutiveLost : Nat, closed : BOOLEAN, work : Nat]

Run == [ state     : RunStates,
         pipeline  : AllPipelines,
         source    : {"caller", "auto-retry"},  \* requestSource
         request   : RequestIds \cup Nat,       \* requestId; retry:<run> is the run's number
         dispatch  : {"pending", "read", "enqueued", "done"},  \* its dispatch-run entry
         queue     : {"none", "queued", "claimed", "retired"},
         deferred  : BOOLEAN,                   \* queue.deferredUntil is in the future
         token     : Nat,                       \* latest claim token
         placement : {"none", "waiting", "placed"},  \* queue.startupPlacement
         beat      : BOOLEAN,                   \* queue.firstHeartbeatAt present
         start     : Nat,                       \* queue.startDeadlineAt
         wait      : Nat,                       \* queue.claimedAt + PlacementWaitMax
         lease     : Nat,                       \* leaseExpiresAt
         operation : {"none", "work", "cleanup"},    \* credentialOperation.kind
         pending   : Nat,                       \* credentialPendingResult
         result    : Nat,
         exited    : BOOLEAN,                   \* last event is the executor's exit evidence
         resolved  : BOOLEAN ]                  \* history: lease retirement was proven

isLive(r) == r.state \in LiveStates

usesCodexCredentials(r) == r.pipeline \in {"codex", "goose-codex"}

retiresOnExit(r) == r.pipeline # "codex"

isRecipe(r) == r.pipeline \in {"goose", "goose-codex"}

\* Slip: any token of the run is accepted while the run is claimed.
isClaimant_AnyToken(r, token) == r.queue = "claimed"

isClaimant(r, token) == r.queue = "claimed" /\ r.token = token

startDeadlineElapsed(r) == r.queue = "claimed" /\ ~r.beat /\ r.start = 0

recoveryDeadlineElapsed(r) ==
  r.queue # "queued" /\ (r.lease = 0 \/ startDeadlineElapsed(r))

Min2(a, b) == IF a <= b THEN a ELSE b

\* Deadlines are what is left until them.
Less1(n) == IF n = 0 THEN 0 ELSE n - 1

pipelineName(p) == IF p = "goose-codex" THEN "goose" ELSE p

(* One call of Orchestrator.transact: the task it read, whether the active *)
(* run it read next was live, and whether that read task is still current. *)
Edit == [ pc      : {"idle", "readRun", "apply", "again"},
          fresh   : BOOLEAN,
          retried : BOOLEAN,
          live    : BOOLEAN,
          task    : Task ]

NewTask == [active |-> NoRun, consecutiveLost |-> 0, closed |-> FALSE, work |-> 0]

IdleEdit == [pc |-> "idle", fresh |-> FALSE, retried |-> FALSE, live |-> FALSE,
             task |-> NewTask]

(* A write of the Task document advances its revision, which the           *)
(* compare-and-set of every in-flight edit of that task then misses.       *)
stale(es) == [x \in EditKinds |-> [es[x] EXCEPT !.fresh = FALSE]]

-----------------------------------------------------------------------------
(* Pure decisions *)

newRun(pipeline, source, request) ==
  [ state |-> "pending", pipeline |-> pipeline, source |-> source, request |-> request,
    dispatch |-> "pending", queue |-> "none", deferred |-> FALSE, token |-> NoToken,
    placement |-> "none", beat |-> FALSE, start |-> 0, wait |-> 0, lease |-> RunLease,
    operation |-> "none", pending |-> NoToken, result |-> NoToken,
    exited |-> FALSE, resolved |-> FALSE ]

mintRun(k, s, run) == [task |-> [k EXCEPT !.active = Len(s) + 1], runs |-> Append(s, run)]

(* What a settled run keeps: its deadlines and the evidence they are       *)
(* judged by are never read again.                                         *)
settle(r, state) ==
  [r EXCEPT !.state = state, !.start = 0, !.wait = 0, !.lease = 0,
            !.placement = "none", !.beat = FALSE, !.deferred = FALSE]

\* Slip: settlement forgets the credential lease.
withCleanup_Never(r) == r

(* A terminal transition of a claimed Codex-credential run reserves its    *)
(* cleanup in the same decision.                                           *)
withCleanup(r) ==
  IF usesCodexCredentials(r) /\ r.queue = "claimed" /\ r.operation = "none"
  THEN [r EXCEPT !.operation = "cleanup"]
  ELSE r

releaseLock(k, i) == IF k.active = i THEN [k EXCEPT !.active = NoRun] ELSE k

\* Slip: a finished or canceled run leaves the streak standing.
resetLossBudgets_Never(k) == k

resetLossBudgets(k) == [k EXCEPT !.consecutiveLost = 0]

claimQueuedRun(r, placementAware) ==
  [r EXCEPT !.queue = "claimed", !.deferred = FALSE, !.token = @ + 1,
            !.placement = IF placementAware THEN "waiting" ELSE "none",
            !.beat = FALSE, !.start = StartTimeout, !.wait = PlacementWaitMax,
            !.lease = RunLease]

finishRun(r, token) == [settle(r, "finished") EXCEPT !.result = token, !.pending = NoToken]

changeClaimedExit(r) ==
  IF retiresOnExit(r) /\ ~usesCodexCredentials(r) THEN [r EXCEPT !.queue = "retired"] ELSE r

\* Slip: a lost recipe is replayed.
settleLostAndRetry_Recipes(k, s, i, lost) ==
  LET released == [releaseLock(k, i) EXCEPT !.consecutiveLost = @ + 1]
      settled  == [s EXCEPT ![i] = withCleanup(settle(lost, "lost"))]
  IN  IF released.consecutiveLost > MaxAutoRetries
      THEN [task |-> released, runs |-> settled]
      ELSE mintRun(released, settled, newRun(lost.pipeline, "auto-retry", i))

(* Settle a lost run and, while the budget lasts, mint its successor in    *)
(* the same decision.                                                      *)
settleLostAndRetry(k, s, i, lost) ==
  LET released == [releaseLock(k, i) EXCEPT !.consecutiveLost = @ + 1]
      settled  == [s EXCEPT ![i] = withCleanup(settle(lost, "lost"))]
  IN  IF isRecipe(lost) \/ released.consecutiveLost > MaxAutoRetries
      THEN [task |-> released, runs |-> settled]
      ELSE mintRun(released, settled, newRun(lost.pipeline, "auto-retry", i))

finishCredentialOperation(r) ==
  LET proven == r.operation = "cleanup" \/ r.pending # NoToken
      next   == [r EXCEPT !.operation = "none", !.resolved = @ \/ proven]
  IN  IF r.operation = "cleanup" /\ isRecipe(r) /\ ~isLive(r) /\ r.exited
      THEN [next EXCEPT !.queue = "retired"]
      ELSE next

tickRun(r) ==
  IF isLive(r)
  THEN [r EXCEPT !.start = Less1(@), !.wait = Less1(@), !.lease = Less1(@), !.deferred = FALSE]
  ELSE r

(* Live claims of a pipeline in the whole store; only Codex has a ceiling  *)
(* among the pipelines modelled.                                           *)
liveClaims(p) ==
  UNION {{<<t, i>> : i \in {j \in DOMAIN runs[t] :
            runs[t][j].pipeline = p /\ runs[t][j].queue = "claimed" /\ isLive(runs[t][j])}}
         : t \in Tasks}

admits(p) == p = "codex" => liveClaims(p) = {}

-----------------------------------------------------------------------------
(* Store writes *)

(* transactRun / transactRequest: task and runs in one transaction that    *)
(* advances the task's revision.                                           *)
commit(t, k, s) ==
  /\ tasks' = [tasks EXCEPT ![t] = k]
  /\ runs' = [runs EXCEPT ![t] = s]
  /\ edits' = [edits EXCEPT ![t] = stale(@)]

commitRun(t, i, r) == commit(t, tasks[t], [runs[t] EXCEPT ![i] = r])

(* enqueueRun, claimQueuedRun and releaseQueuedRunClaim write the Run only. *)
writeRun(t, i, r) ==
  /\ runs' = [runs EXCEPT ![t] = [@ EXCEPT ![i] = r]]
  /\ UNCHANGED <<tasks, edits>>

-----------------------------------------------------------------------------
(* Admission *)

requested(t, id) ==
  \E i \in DOMAIN runs[t] : runs[t][i].source = "caller" /\ runs[t][i].request = id

\* Slip: a run still waiting for its dispatch does not hold the lock.
activeIsLive_OnlyRunning(k, s) == k.active # NoRun /\ s[k.active].state = "running"

activeIsLive(k, s) == k.active # NoRun /\ isLive(s[k.active])

\* Slip: a request clears the retry budget that losses have spent.
Request_ClearsBudget(t, p, id) ==
  /\ ~requested(t, id)
  /\ ~activeIsLive(tasks[t], runs[t])
  /\ ~tasks[t].closed
  /\ LET minted == mintRun(resetLossBudgets(tasks[t]), runs[t], newRun(p, "caller", id))
     IN  commit(t, minted.task, minted.runs)

Request(t, p, id) ==
  /\ ~requested(t, id)
  /\ ~activeIsLive(tasks[t], runs[t])
  /\ ~tasks[t].closed
  /\ LET minted == mintRun(tasks[t], runs[t], newRun(p, "caller", id))
     IN  commit(t, minted.task, minted.runs)

(* A queued provider switch cancels the waiting run and mints its          *)
(* replacement in one transaction.                                         *)
ReplaceQueuedRun(t, p, id) ==
  LET k == tasks[t]
      a == k.active
  IN  /\ ~requested(t, id)
      /\ activeIsLive(k, runs[t])
      /\ runs[t][a].queue = "queued"
      /\ pipelineName(runs[t][a].pipeline) # pipelineName(p)
      /\ runs[t][a].operation = "none"
      /\ LET canceled == [runs[t] EXCEPT ![a] = settle(@, "canceled")]
             minted   == mintRun(resetLossBudgets(releaseLock(k, a)), canceled,
                                 newRun(p, "caller", id))
         IN  commit(t, minted.task, minted.runs)

-----------------------------------------------------------------------------
(* The dispatch drain: readRun, enqueueRun, confirmDispatch, settleClaim.  *)
(* A crashed drain leaves a lease that lapses, and the entry is leased     *)
(* again.                                                                  *)

DispatchRead(t, i) ==
  LET r == runs[t][i] IN
  /\ r.dispatch = "pending"
  /\ writeRun(t, i, [r EXCEPT !.dispatch = IF r.state = "pending" THEN "read" ELSE "done"])

DispatchEnqueue(t, i) ==
  LET r == runs[t][i] IN
  /\ r.dispatch = "read"
  /\ writeRun(t, i, [r EXCEPT !.dispatch = "enqueued",
                             !.queue = IF @ = "none" THEN "queued" ELSE @])

DispatchConfirm(t, i) ==
  LET r    == runs[t][i]
      done == [r EXCEPT !.dispatch = "done"]
  IN  /\ r.dispatch = "enqueued"
      /\ \/ /\ r.state = "pending"
            /\ commitRun(t, i, [done EXCEPT !.state = "running", !.lease = RunLease])
         \/ r.state = "running" /\ commitRun(t, i, done)
         \/ ~isLive(r) /\ writeRun(t, i, done)

DispatchLapse(t, i) ==
  /\ runs[t][i].dispatch \in {"read", "enqueued"}
  /\ writeRun(t, i, [runs[t][i] EXCEPT !.dispatch = "pending"])

-----------------------------------------------------------------------------
(* Queue claims *)

Claim(t, i, placementAware) ==
  LET r == runs[t][i] IN
  /\ isLive(r) /\ r.operation = "none" /\ r.queue = "queued" /\ ~r.deferred
  /\ admits(r.pipeline)
  /\ r.token < MaxClaims
  /\ writeRun(t, i, claimQueuedRun(r, placementAware))

ReleaseClaim(t, i, token, deferred) ==
  LET r == runs[t][i] IN
  /\ isLive(r) /\ r.operation = "none" /\ isClaimant(r, token)
  /\ r.token < MaxClaims
  /\ writeRun(t, i, [r EXCEPT !.queue = "queued", !.deferred = deferred,
                             !.placement = "none", !.beat = FALSE, !.start = 0, !.wait = 0])

\* Slip: every observation of an unplaced Job renews the whole budget.
ObserveStartupPlacement_Uncapped(t, i, token, placed) ==
  LET r == runs[t][i] IN
  /\ isClaimant(r, token) /\ r.placement = "waiting" /\ ~r.beat
  /\ isLive(r) /\ tasks[t].active = i /\ ~recoveryDeadlineElapsed(r)
  /\ commitRun(t, i, [r EXCEPT !.placement = IF placed THEN "placed" ELSE "waiting",
                               !.start = StartTimeout, !.lease = RunLease])

ObserveStartupPlacement(t, i, token, placed) ==
  LET r == runs[t][i] IN
  /\ isClaimant(r, token) /\ r.placement # "none"
  /\ isLive(r) /\ tasks[t].active = i /\ ~recoveryDeadlineElapsed(r)
  /\ \/ (r.beat \/ r.placement = "placed") /\ commitRun(t, i, r)
     \/ /\ ~r.beat /\ r.placement = "waiting"
        /\ commitRun(t, i,
             [r EXCEPT !.placement = IF placed THEN "placed" ELSE "waiting",
                       !.start = IF placed THEN StartTimeout
                                 ELSE Min2(StartTimeout, r.wait),
                       !.lease = RunLease])

(* A worker heartbeat.  A Codex run sends it under a "renew" credential    *)
(* operation, which recovery may have finished before the call lands, so   *)
(* the operation is no guard of it.                                        *)
RenewLease(t, i, token) ==
  LET r == runs[t][i] IN
  /\ isClaimant(r, token)
  /\ isLive(r) /\ tasks[t].active = i
  /\ ~startDeadlineElapsed(r) /\ ~recoveryDeadlineElapsed(r)
  /\ commitRun(t, i, [r EXCEPT !.beat = TRUE, !.lease = RunLease])

-----------------------------------------------------------------------------
(* Credential operations of Codex runs *)

ReserveCredentialOperation(t, i, token) ==
  LET r == runs[t][i] IN
  /\ usesCodexCredentials(r) /\ isClaimant(r, token) /\ r.operation = "none"
  /\ isLive(r) /\ tasks[t].active = i /\ ~recoveryDeadlineElapsed(r)
  /\ commitRun(t, i, [r EXCEPT !.operation = "work"])

ReserveCleanup(t, i, token) ==
  LET r == runs[t][i] IN
  /\ usesCodexCredentials(r) /\ isClaimant(r, token) /\ r.operation = "none"
  /\ ~isLive(r)
  /\ commitRun(t, i, [r EXCEPT !.operation = "cleanup"])

(* The owning caller or recovery finishes the operation.  A completion     *)
(* accepted meanwhile settles in the same transaction.                     *)
FinishCredentialOperation(t, i) ==
  LET r    == runs[t][i]
      next == finishCredentialOperation(r)
  IN  /\ r.operation # "none" /\ r.queue = "claimed"
      /\ \/ r.pending = NoToken /\ commitRun(t, i, next)
         \/ /\ r.pending # NoToken /\ isLive(r) /\ tasks[t].active = i
            /\ isClaimant(r, r.pending)
            /\ commit(t, resetLossBudgets(releaseLock(tasks[t], i)),
                      [runs[t] EXCEPT ![i] = finishRun(next, r.pending)])

-----------------------------------------------------------------------------
(* Settlement *)

Report(t, i, token) ==
  LET r == runs[t][i] IN
  /\ isClaimant(r, token)
  /\ isLive(r) /\ tasks[t].active = i
  /\ \/ r.pending = NoToken /\ ~startDeadlineElapsed(r) /\ ~recoveryDeadlineElapsed(r)
     \/ r.pending = token
  /\ \/ r.operation # "none" /\ commitRun(t, i, [r EXCEPT !.pending = token])
     \/ /\ r.operation = "none"
        /\ commit(t, resetLossBudgets(releaseLock(tasks[t], i)),
                  [runs[t] EXCEPT ![i] = withCleanup(finishRun(r, token))])

\* Slip: a run that already settled is canceled again.
Cancel_AnyState(t, i) ==
  LET r == runs[t][i] IN
  /\ r.operation = "none"
  /\ commit(t, resetLossBudgets(releaseLock(tasks[t], i)),
            [runs[t] EXCEPT ![i] = withCleanup(settle(r, "canceled"))])

Cancel(t, i) ==
  LET r == runs[t][i] IN
  /\ isLive(r) /\ r.operation = "none"
  /\ commit(t, resetLossBudgets(releaseLock(tasks[t], i)),
            [runs[t] EXCEPT ![i] = withCleanup(settle(r, "canceled"))])

(* The source issue was closed: only a run that no executor holds.         *)
CancelUnclaimedBefore(t, i) == runs[t][i].queue # "claimed" /\ Cancel(t, i)

\* Slip: the sweep settles a run whose credential IO is in flight.
Expire_DuringIO(t, i) ==
  LET r == runs[t][i]
      d == settleLostAndRetry(tasks[t], runs[t], i, r)
  IN  /\ isLive(r) /\ recoveryDeadlineElapsed(r) /\ tasks[t].active = i
      /\ commit(t, d.task, d.runs)

Expire(t, i) ==
  LET r == runs[t][i]
      d == settleLostAndRetry(tasks[t], runs[t], i, r)
  IN  /\ isLive(r) /\ recoveryDeadlineElapsed(r) /\ tasks[t].active = i
      /\ r.operation = "none"
      /\ commit(t, d.task, d.runs)

ExecutorExited(t, i, token) ==
  LET r == runs[t][i]
      d == settleLostAndRetry(tasks[t], runs[t], i,
                              changeClaimedExit([r EXCEPT !.exited = TRUE]))
  IN  /\ isClaimant(r, token)
      /\ isLive(r) /\ tasks[t].active = i /\ r.operation = "none"
      /\ commit(t, d.task, d.runs)

(* The exit of a settled run's worker.  A report of an executor that sends *)
(* no claim fingerprint is accepted here too, so the token is no guard.    *)
RetireSettledClaim(t, i) ==
  LET r == runs[t][i] IN
  /\ r.queue = "claimed" /\ ~isLive(r) /\ retiresOnExit(r)
  /\ \/ /\ r.operation # "none" /\ usesCodexCredentials(r)
        /\ commitRun(t, i, [r EXCEPT !.exited = TRUE])
     \/ r.operation = "none" /\ commitRun(t, i, [r EXCEPT !.queue = "retired"])

-----------------------------------------------------------------------------
(* close and updateWork: Orchestrator.transact reads the task, then the    *)
(* active run, decides, and applies by compare-and-set; it decides again   *)
(* once after a conflict.                                                  *)

TransactRead(t, x) ==
  LET e == edits[t][x] IN
  /\ e.pc \in {"idle", "again"}
  /\ t \in NativeTasks /\ runs[t] # << >>
  /\ x = "edit" => tasks[t].work < MaxEdits
  /\ edits' = [edits EXCEPT ![t][x] =
       [pc |-> "readRun", fresh |-> TRUE, retried |-> e.pc = "again", live |-> FALSE,
        task |-> tasks[t]]]
  /\ UNCHANGED <<tasks, runs>>

TransactReadActiveRun(t, x) ==
  /\ edits[t][x].pc = "readRun"
  /\ edits' = [edits EXCEPT ![t][x].pc = "apply",
                            ![t][x].live = activeIsLive(tasks[t], runs[t])]
  /\ UNCHANGED <<tasks, runs>>

\* Slip: the decision does not look at the active run.
editRefused_IgnoresRun(x, e) == x = "close" /\ e.task.closed

editRefused(x, e) == e.live \/ (x = "close" /\ e.task.closed)

editedTask(x, k) ==
  IF x = "close" THEN [k EXCEPT !.closed = TRUE] ELSE [k EXCEPT !.work = @ + 1]

\* Slip: the decided task is written without comparing its revision.
TransactApply_NoCompare(t, x) ==
  LET e == edits[t][x] IN
  /\ e.pc = "apply"
  /\ \/ editRefused(x, e) /\ UNCHANGED tasks
     \/ ~editRefused(x, e) /\ tasks' = [tasks EXCEPT ![t] = editedTask(x, e.task)]
  /\ edits' = [edits EXCEPT ![t] = [stale(@) EXCEPT ![x] = IdleEdit]]
  /\ UNCHANGED runs

TransactApply(t, x) ==
  LET e == edits[t][x] IN
  /\ e.pc = "apply"
  /\ \/ /\ editRefused(x, e)
        /\ edits' = [edits EXCEPT ![t][x] = IdleEdit]
        /\ UNCHANGED tasks
     \/ /\ ~editRefused(x, e) /\ e.fresh
        /\ tasks' = [tasks EXCEPT ![t] = editedTask(x, e.task)]
        /\ edits' = [edits EXCEPT ![t] = [stale(@) EXCEPT ![x] = IdleEdit]]
     \/ /\ ~editRefused(x, e) /\ ~e.fresh
        /\ edits' = [edits EXCEPT ![t][x] =
                       IF e.retried THEN IdleEdit ELSE [IdleEdit EXCEPT !.pc = "again"]]
        /\ UNCHANGED tasks
  /\ UNCHANGED runs

-----------------------------------------------------------------------------
(* The specification *)

Tick ==
  /\ runs' = [t \in Tasks |-> [i \in DOMAIN runs[t] |-> tickRun(runs[t][i])]]
  /\ UNCHANGED <<tasks, edits>>

Init ==
  /\ tasks = [t \in Tasks |-> NewTask]
  /\ runs = [t \in Tasks |-> << >>]
  /\ edits = [t \in Tasks |-> [x \in EditKinds |-> IdleEdit]]

(* A callback authenticated with any claim of the run made so far.         *)
Callback(t, i, token) ==
  \/ \E deferred \in BOOLEAN : ReleaseClaim(t, i, token, deferred)
  \/ \E placed \in BOOLEAN : ObserveStartupPlacement(t, i, token, placed)
  \/ RenewLease(t, i, token)
  \/ ReserveCredentialOperation(t, i, token)
  \/ ReserveCleanup(t, i, token)
  \/ Report(t, i, token)
  \/ ExecutorExited(t, i, token)

Next ==
  \/ Tick
  \/ \E t \in Tasks :
       \/ \E p \in Pipelines, id \in RequestIds : Request(t, p, id) \/ ReplaceQueuedRun(t, p, id)
       \/ \E x \in EditKinds :
            TransactRead(t, x) \/ TransactReadActiveRun(t, x) \/ TransactApply(t, x)
       \/ \E i \in DOMAIN runs[t] :
            \/ DispatchRead(t, i) \/ DispatchEnqueue(t, i)
            \/ DispatchConfirm(t, i) \/ DispatchLapse(t, i)
            \/ \E placementAware \in BOOLEAN : Claim(t, i, placementAware)
            \/ \E token \in 1 .. runs[t][i].token : Callback(t, i, token)
            \/ FinishCredentialOperation(t, i)
            \/ Cancel(t, i) \/ CancelUnclaimedBefore(t, i)
            \/ Expire(t, i) \/ RetireSettledClaim(t, i)

Spec == Init /\ [][Next]_vars

(* Ticks and the periodic maintenance: the sweep settles every expired run *)
(* and credential recovery finishes every reserved operation once the      *)
(* credential store answers.  Workers, executors and callers owe nothing.  *)
RunNumbers == 1 .. (Cardinality(RequestIds) * (MaxAutoRetries + 1))

Fairness ==
  /\ WF_vars(Tick)
  /\ \A t \in Tasks, i \in RunNumbers :
       /\ WF_vars(i \in DOMAIN runs[t] /\ Expire(t, i))
       /\ WF_vars(i \in DOMAIN runs[t] /\ FinishCredentialOperation(t, i))

FairSpec == Spec /\ Fairness

-----------------------------------------------------------------------------
(* Properties *)

(* Every document keeps the shape of model.ts.                             *)
TypeOK ==
  /\ tasks \in [Tasks -> Task]
  /\ runs \in [Tasks -> Seq(Run)]
  /\ edits \in [Tasks -> [EditKinds -> Edit]]

(* activeRunId names a live run or nothing, and a live run is always the   *)
(* active one: two runs of a task are never live together and no live run  *)
(* loses its lock to a stale write.                                        *)
MutexHeldByLiveRun ==
  \A t \in Tasks :
    /\ tasks[t].active # NoRun => /\ tasks[t].active \in DOMAIN runs[t]
                                 /\ isLive(runs[t][tasks[t].active])
    /\ \A i \in DOMAIN runs[t] : isLive(runs[t][i]) => tasks[t].active = i

(* A closed native item has no live run, and a retry never revives one:    *)
(* closeTask decided on reads that another transaction may have overtaken. *)
ClosedTaskIdle ==
  \A t \in Tasks : tasks[t].closed => \A i \in DOMAIN runs[t] : ~isLive(runs[t][i])

(* A finished run carries the result of the worker holding its last claim, *)
(* never of an earlier claim that was released, however late it reports.   *)
ResultFromClaimant ==
  \A t \in Tasks : \A i \in DOMAIN runs[t] :
    LET r == runs[t][i] IN
    r.state = "finished" => r.result # NoToken /\ r.result = r.token

(* A settled Codex run whose claim is held still owes, or has proven, the  *)
(* retirement of its credential lease; its claim is retired only after.    *)
CleanupDebtKept ==
  \A t \in Tasks : \A i \in DOMAIN runs[t] :
    LET r == runs[t][i] IN
    usesCodexCredentials(r) /\ ~isLive(r) /\ r.queue \in {"claimed", "retired"} =>
      r.resolved \/ (r.queue = "claimed" /\ r.operation = "cleanup")

(* A completion accepted while credential IO was in flight is neither      *)
(* dropped, nor replaced, nor overtaken by expiry or cancellation.         *)
AcceptedCompletionKept ==
  [][\A t \in Tasks : \A i \in DOMAIN runs[t] :
       LET r == runs[t][i]
           n == runs'[t][i]
       IN  r.pending # NoToken =>
             \/ isLive(n) /\ n.pending = r.pending
             \/ n.state = "finished" /\ n.result = r.pending]_vars

(* Between two finished or canceled runs there are at most MaxAutoRetries  *)
(* automatic retries, however many requests callers add: a request neither *)
(* clears nor renews the budget that losses have spent.                    *)
RetryBudgetKept ==
  \A t \in Tasks : \A i, j \in DOMAIN runs[t] :
    (\A n \in i .. j - 1 : runs[t][n].state = "lost") =>
      Cardinality({n \in i + 1 .. j : runs[t][n].source = "auto-retry"}) <= MaxAutoRetries

(* An automatic retry directly succeeds the lost run it names, which was   *)
(* no recipe, and repeats its pipeline.                                    *)
RetriesSucceedLostRun ==
  \A t \in Tasks : \A i \in DOMAIN runs[t] :
    LET r == runs[t][i] IN
    r.source = "auto-retry" =>
      /\ r.request = i - 1 /\ r.request \in DOMAIN runs[t]
      /\ runs[t][r.request].state = "lost"
      /\ runs[t][r.request].pipeline = r.pipeline /\ ~isRecipe(r)

(* However often its executor reports an unplaced Job, a waiting claim's   *)
(* start deadline never passes the cap measured from the claim.            *)
PlacementWaitCapped ==
  \A t \in Tasks : \A i \in DOMAIN runs[t] :
    LET r == runs[t][i] IN
    isLive(r) /\ r.queue = "claimed" /\ r.placement = "waiting" => r.start <= r.wait

(* No late report, sweep, cancellation or dispatch changes an outcome.     *)
SettledIsFinal ==
  [][\A t \in Tasks : \A i \in DOMAIN runs[t] :
       ~isLive(runs[t][i]) =>
         /\ runs'[t][i].state = runs[t][i].state
         /\ runs'[t][i].result = runs[t][i].result]_vars

(* The work payload and the closing of an item change only while no run of *)
(* it is live, and a closed item is never reopened by a concurrent edit.   *)
WorkFrozenUnderRun ==
  [][\A t \in Tasks :
       /\ tasks[t].closed => tasks'[t].closed
       /\ tasks'[t].work # tasks[t].work \/ tasks'[t].closed # tasks[t].closed =>
            \A i \in DOMAIN runs[t] : ~isLive(runs[t][i])]_vars

(* A live run that is not waiting in the queue is eventually settled or    *)
(* put back in the queue, unless its worker heartbeats forever.            *)
TaskNotWedged ==
  \A t \in Tasks, i \in RunNumbers :
    \/ []<><<\E token \in 1 .. MaxClaims : i \in DOMAIN runs[t] /\ RenewLease(t, i, token)>>_vars
    \/ (i \in DOMAIN runs[t] /\ isLive(runs[t][i]) /\ runs[t][i].queue # "queued")
         ~> (i \in DOMAIN runs[t] /\ (~isLive(runs[t][i]) \/ runs[t][i].queue = "queued"))

(* An accepted completion eventually becomes the outcome of its run.       *)
AcceptedCompletionSettles ==
  \A t \in Tasks, i \in RunNumbers :
    (i \in DOMAIN runs[t] /\ runs[t][i].pending # NoToken)
      ~> (i \in DOMAIN runs[t] /\ runs[t][i].state = "finished")

-----------------------------------------------------------------------------
(* The promise of TaskMutex *)

outcomeOf(r) == IF isLive(r) THEN "live" ELSE r.state

Mutex == INSTANCE TaskMutex WITH
  holder  <- [t \in Tasks |-> tasks[t].active],
  outcome <- [t \in Tasks |-> [i \in DOMAIN runs[t] |-> outcomeOf(runs[t][i])]],
  streak  <- [t \in Tasks |-> tasks[t].consecutiveLost],
  closed  <- [t \in Tasks |-> tasks[t].closed],
  work    <- [t \in Tasks |-> tasks[t].work]

(* The durable core implements TaskMutex: every store transaction is one   *)
(* step of it or leaves it alone.                                          *)
ImplementsTaskMutex == Mutex!Spec

=============================================================================
