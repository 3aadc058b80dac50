---------------------------- MODULE QueueExecutor ----------------------------
(***************************************************************************)
(* The executor of queued runs: a poller that reserves a slot, claims a    *)
(* run and launches a Kubernetes Job for it; a recovery sweep that deletes *)
(* the Jobs of settled claims and resumes launches that stopped half-way;  *)
(* a reporter that tells the Work API when a worker has exited             *)
(* (apps/runner-autoscaler).  The cluster and the console are its          *)
(* environment.                                                            *)
(*                                                                         *)
(* A run is claimed once here: its token never leaves the executor, so a   *)
(* released claim is one the executor never had.  A Job is named after its *)
(* run; resource versions count its updates.  API calls of the executor    *)
(* may fail, their effect done or not; the executor may restart at any     *)
(* step and then forgets everything but the cluster.                       *)
(***************************************************************************)
EXTENDS Naturals, FiniteSets

CONSTANTS
  Runs,           \* queued runs
  MaxConcurrent,  \* Jobs at a time
  MaxFaults       \* bound: failed calls and restarts

ASSUME ExecutorAssumption ==
  MaxConcurrent \in Nat \ {0} /\ MaxFaults \in Nat

VARIABLES
  console,   \* of each run: its state, and whether its worker's exit was accepted
  jobs,      \* the Jobs and their Secrets
  pods,      \* the worker Pod of each Job
  actors,    \* the poller and the recovery sweep
  retiring,  \* claims whose Jobs recovery deleted
  inflight,  \* exit reports being sent
  reported,  \* exit reports that were answered
  faults     \* faults left

memory == <<actors, retiring, inflight, reported>>
cluster == <<jobs, pods>>
vars == <<console, jobs, pods, actors, retiring, inflight, reported, faults>>

-----------------------------------------------------------------------------
(* The cluster *)

NoJob == [there |-> FALSE, suspend |-> FALSE, gen |-> 0, rv |-> 0, secret |-> FALSE,
          deleting |-> FALSE, terminal |-> FALSE]

SuspendedJob == [NoJob EXCEPT !.there = TRUE, !.suspend = TRUE, !.gen = 1, !.rv = 1]

newVersion(j) == [j EXCEPT !.rv = @ + 1]

queueJobTerminal(j) == j.terminal

active(r) == jobs[r].there /\ ~queueJobTerminal(jobs[r])

\* The Job controller has started a Pod for it.
queueJobAttempted(r) == pods[r] # "none"

CreatePod(r) ==
  /\ jobs[r].there /\ ~jobs[r].suspend /\ ~jobs[r].deleting /\ pods[r] = "none"
  /\ pods' = [pods EXCEPT ![r] = "pending"]
  /\ jobs' = [jobs EXCEPT ![r] = newVersion(@)]
  /\ UNCHANGED <<console, memory, faults>>

(* The scheduler may never find a node.                                    *)
Place(r) ==
  /\ pods[r] = "pending"
  /\ pods' = [pods EXCEPT ![r] = "placed"]
  /\ UNCHANGED <<console, jobs, memory, faults>>

(* It completes, dies, is evicted or meets its deadline; a Job runs its    *)
(* Pod once.                                                               *)
PodEnds(r) ==
  /\ pods[r] = "placed"
  /\ pods' = [pods EXCEPT ![r] = "ended"]
  /\ UNCHANGED <<console, jobs, memory, faults>>

JobEnds(r) ==
  /\ pods[r] = "ended" /\ active(r)
  /\ jobs' = [jobs EXCEPT ![r] = [newVersion(@) EXCEPT !.terminal = TRUE]]
  /\ UNCHANGED <<console, pods, memory, faults>>

(* Foreground deletion: the Pod first, then the Job and its Secret.        *)
CollectPod(r) ==
  /\ jobs[r].deleting /\ pods[r] \in {"pending", "placed", "ended"}
  /\ pods' = [pods EXCEPT ![r] = "gone"]
  /\ UNCHANGED <<console, jobs, memory, faults>>

CollectJob(r) ==
  /\ jobs[r].deleting /\ pods[r] \in {"none", "gone"}
  /\ jobs' = [jobs EXCEPT ![r] = NoJob]
  /\ UNCHANGED <<console, pods, memory, faults>>

\* A finished Job is kept for a day.
Retention(r) ==
  /\ jobs[r].there /\ queueJobTerminal(jobs[r]) /\ ~jobs[r].deleting
  /\ jobs' = [jobs EXCEPT ![r] = NoJob]
  /\ pods' = [pods EXCEPT ![r] = "expired"]
  /\ UNCHANGED <<console, memory, faults>>

-----------------------------------------------------------------------------
(* The console *)

live(r) == console[r].state = "claimed"

(* A completion, a cancellation or an expiry: RunLifecycle has the cases.  *)
Settle(r) ==
  /\ live(r)
  /\ console' = [console EXCEPT ![r].state = "settled"]
  /\ UNCHANGED <<cluster, memory, faults>>

executorExited(r) == [console EXCEPT ![r] = [state |-> "settled", exited |-> TRUE]]

-----------------------------------------------------------------------------
(* Exit reports *)

observed(rs) == inflight \cup (rs \ reported)

\* Slip: a report counts as delivered when it is sent.
PostExit_OnceSent(r) ==
  /\ r \in inflight
  /\ inflight' = inflight \ {r} /\ reported' = reported \cup {r}
  /\ \/ console' = executorExited(r) /\ UNCHANGED faults
     \/ faults > 0 /\ faults' = faults - 1 /\ console' \in {console, executorExited(r)}
  /\ UNCHANGED <<cluster, actors, retiring>>

(* The reporter's goroutine: answered, failed, or applied and unanswered.  *)
PostExit(r) ==
  /\ r \in inflight
  /\ inflight' = inflight \ {r}
  /\ \/ console' = executorExited(r) /\ reported' = reported \cup {r} /\ UNCHANGED faults
     \/ /\ faults > 0 /\ faults' = faults - 1
        /\ console' \in {console, executorExited(r)} /\ UNCHANGED reported
  /\ UNCHANGED <<cluster, actors, retiring>>

-----------------------------------------------------------------------------
(* The poller *)

Idle == [pc |-> "idle", run |-> "none", rv |-> 0]

goTo(a, r, pc) == actors' = [actors EXCEPT ![a] = [pc |-> pc, run |-> r, rv |-> 0]]
stop(a) == actors' = [actors EXCEPT ![a] = Idle]
at(a, pc) == actors[a].pc = pc

\* Slip: a deleted Job counts as gone while its Pod still winds down.
gone_Deleted(r) == ~jobs[r].there \/ jobs[r].deleting

gone(r) == ~jobs[r].there

\* Slip: Jobs whose Pod has not appeared yet are not waiting.
waits_PodsOnly(r) == active(r) /\ pods[r] = "pending"

waits(r) == active(r) /\ pods[r] # "placed"

pendingPlacement == \E r \in Runs : (jobs[r].there /\ jobs[r].deleting) \/ waits(r)

admits == Cardinality({r \in Runs : active(r)}) < MaxConcurrent /\ ~pendingPlacement

(* Each poll first reads the inventory of Jobs, which also feeds the       *)
(* reporter: ended Jobs, and deleted ones that have disappeared.           *)
Reserve ==
  LET ended   == {r \in Runs : jobs[r].there /\ queueJobTerminal(jobs[r])}
      settled == {r \in retiring : gone(r)}
  IN  /\ at("poller", "idle")
      /\ inflight' = observed(ended \cup settled)
      /\ retiring' = retiring \ (settled \cap reported)
      /\ \/ admits /\ goTo("poller", "none", "claim")
         \/ ~admits /\ UNCHANGED actors
      /\ UNCHANGED <<console, cluster, reported, faults>>

(* A claim whose response is lost stays claimed until it expires.          *)
Claim(r) ==
  /\ at("poller", "claim") /\ console[r].state = "queued"
  /\ console' = [console EXCEPT ![r].state = "claimed"]
  /\ \/ goTo("poller", r, "create") /\ UNCHANGED faults
     \/ faults > 0 /\ faults' = faults - 1 /\ stop("poller")
  /\ UNCHANGED <<cluster, retiring, inflight, reported>>

ClaimNothing ==
  /\ at("poller", "claim") /\ \A r \in Runs : console[r].state # "queued"
  /\ stop("poller")
  /\ UNCHANGED <<console, cluster, retiring, inflight, reported, faults>>

(* A run whose pipeline has no launch adapter gets no Job: its claim is    *)
(* settled now.  A create that failed is looked up again under its name.   *)
Create ==
  LET r == actors["poller"].run IN
  /\ at("poller", "create")
  /\ \/ inflight' = observed({r}) /\ stop("poller") /\ UNCHANGED <<jobs, faults>>
     \/ /\ UNCHANGED inflight
        /\ \/ jobs' = [jobs EXCEPT ![r] = SuspendedJob] /\ goTo("poller", r, "secret") /\ UNCHANGED faults
           \/ /\ faults > 0 /\ faults' = faults - 1
              /\ jobs' \in {jobs, [jobs EXCEPT ![r] = SuspendedJob]} /\ stop("poller")
  /\ UNCHANGED <<console, pods, retiring, reported>>

(* The owner reference dies with its Job: nothing is left of a Secret      *)
(* created for a Job that has been deleted.                                *)
CreateSecret ==
  LET r    == actors["poller"].run
      made == [jobs EXCEPT ![r].secret = jobs[r].there]
  IN  /\ at("poller", "secret")
      /\ \/ jobs' = made /\ goTo("poller", r, "resume") /\ UNCHANGED faults
         \/ faults > 0 /\ faults' = faults - 1 /\ jobs' \in {jobs, made} /\ stop("poller")
      /\ UNCHANGED <<console, pods, retiring, inflight, reported>>

-----------------------------------------------------------------------------
(* Resuming a launch, by the poller or by the sweep *)

ResumeRead(a) ==
  LET r == actors[a].run
      j == jobs[r]
      startable == j.there /\ ~j.deleting /\ j.suspend /\ j.gen = 1 /\ ~queueJobAttempted(r) /\ j.secret
  IN  /\ at(a, "resume")
      /\ \/ startable /\ actors' = [actors EXCEPT ![a].pc = "fence", ![a].rv = j.rv]
         \/ ~startable /\ stop(a)
      /\ UNCHANGED <<console, cluster, retiring, inflight, reported, faults>>

(* The brief route answers only the token of a live run.                   *)
VerifyRun(a) ==
  /\ at(a, "fence")
  /\ \/ live(actors[a].run) /\ actors' = [actors EXCEPT ![a].pc = "update"]
     \/ ~live(actors[a].run) /\ stop(a)
  /\ UNCHANGED <<console, cluster, retiring, inflight, reported, faults>>

(* A conflict reads again.                                                 *)
Unsuspend(a) ==
  LET r == actors[a].run
      j == jobs[r]
  IN  /\ at(a, "update")
      /\ \/ /\ j.there /\ j.rv = actors[a].rv
            /\ jobs' = [jobs EXCEPT ![r] = [newVersion(j) EXCEPT !.suspend = FALSE, !.gen = 2]]
            /\ stop(a)
         \/ j.there /\ j.rv # actors[a].rv /\ goTo(a, r, "resume") /\ UNCHANGED jobs
         \/ ~j.there /\ stop(a) /\ UNCHANGED jobs
      /\ UNCHANGED <<console, pods, retiring, inflight, reported, faults>>

-----------------------------------------------------------------------------
(* The recovery sweep: one Job's turn, on the snapshot the sweep listed *)

SweepTurn(r) ==
  /\ at("sweep", "idle") /\ active(r)
  /\ actors' = [actors EXCEPT !["sweep"] =
       [pc |-> IF jobs[r].deleting THEN "skip" ELSE "status", run |-> r, rv |-> jobs[r].rv]]
  /\ UNCHANGED <<console, cluster, retiring, inflight, reported, faults>>

\* Slip: only launches that never started are cancelled.
cancels_Suspended(r) == ~live(r) /\ jobs[r].suspend

(* Only irreversible settlement of the exact claim cancels its Job.        *)
cancels(r) == ~live(r)

ClaimSettled ==
  LET s == actors["sweep"] IN
  /\ at("sweep", "status")
  /\ actors' = [actors EXCEPT !["sweep"].pc = IF cancels(s.run) THEN "delete" ELSE "skip"]
  /\ UNCHANGED <<console, cluster, retiring, inflight, reported, faults>>

(* Deleted under the snapshot's version, or found gone, and tracked; a     *)
(* conflict or a failed call tracks nothing.                               *)
DeleteJob ==
  LET s    == actors["sweep"]
      j    == jobs[s.run]
      same == j.there /\ j.rv = s.rv
      deleted == [jobs EXCEPT ![s.run] = [newVersion(j) EXCEPT !.deleting = TRUE]]
  IN  /\ at("sweep", "delete") /\ stop("sweep")
      /\ \/ /\ same \/ ~j.there
            /\ jobs' = (IF same THEN deleted ELSE jobs)
            /\ retiring' = retiring \cup {s.run} /\ UNCHANGED faults
         \/ j.there /\ ~same /\ UNCHANGED <<jobs, retiring, faults>>
         \/ /\ faults > 0 /\ faults' = faults - 1 /\ same
            /\ jobs' \in {jobs, deleted} /\ UNCHANGED retiring
      /\ UNCHANGED <<console, pods, inflight, reported>>

(* Not cancelled: a suspended Job is resumed.                              *)
SweepOn ==
  LET r == actors["sweep"].run IN
  /\ at("sweep", "skip")
  /\ \/ active(r) /\ jobs[r].suspend /\ goTo("sweep", r, "resume")
     \/ ~(active(r) /\ jobs[r].suspend) /\ stop("sweep")
  /\ UNCHANGED <<console, cluster, retiring, inflight, reported, faults>>

-----------------------------------------------------------------------------
(* The sweep's budget runs out, or the resumption of a launch fails.       *)
CutOff(a) ==
  /\ actors[a].pc \in {"resume", "fence", "update", "status", "skip"}
  /\ faults > 0 /\ faults' = faults - 1
  /\ stop(a)
  /\ UNCHANGED <<console, cluster, retiring, inflight, reported>>

Restart ==
  /\ faults > 0 /\ faults' = faults - 1
  /\ actors' = [a \in DOMAIN actors |-> Idle]
  /\ retiring' = {} /\ inflight' = {} /\ reported' = {}
  /\ UNCHANGED <<console, cluster>>

Init ==
  /\ console = [r \in Runs |-> [state |-> "queued", exited |-> FALSE]]
  /\ jobs = [r \in Runs |-> NoJob]
  /\ pods = [r \in Runs |-> "none"]
  /\ actors = [a \in {"poller", "sweep"} |-> Idle]
  /\ retiring = {} /\ inflight = {} /\ reported = {}
  /\ faults = MaxFaults

Poller ==
  \/ Reserve \/ (\E r \in Runs : Claim(r)) \/ ClaimNothing \/ Create \/ CreateSecret
  \/ ResumeRead("poller") \/ VerifyRun("poller") \/ Unsuspend("poller")

Sweep ==
  \/ ClaimSettled \/ DeleteJob \/ SweepOn
  \/ ResumeRead("sweep") \/ VerifyRun("sweep") \/ Unsuspend("sweep")

Controllers(r) == CreatePod(r) \/ PodEnds(r) \/ JobEnds(r) \/ CollectPod(r) \/ CollectJob(r)

Next ==
  \/ Poller \/ Sweep
  \/ \E r \in Runs :
       SweepTurn(r) \/ PostExit(r) \/ Settle(r) \/ Controllers(r) \/ Place(r) \/ Retention(r)
  \/ \E a \in DOMAIN actors : CutOff(a)
  \/ Restart

Spec == Init /\ [][Next]_vars

(* Ticks keep coming, the cursor gives every Job its turn, the cluster's   *)
(* controllers act, and maintenance settles claims that went silent.  No   *)
(* Pod is promised a node.                                                 *)
Fairness ==
  /\ WF_vars(Poller) /\ WF_vars(Sweep)
  /\ \A r \in Runs :
       /\ SF_vars(SweepTurn(r)) /\ WF_vars(PostExit(r))
       /\ WF_vars(Settle(r)) /\ WF_vars(Controllers(r))

FairSpec == Spec /\ Fairness

-----------------------------------------------------------------------------
(* Properties *)

(* Once the console has accepted an exit, no worker of that claim runs or  *)
(* is still to be started: retirement is physical evidence                 *)
(* (observeTerminated, reportRetired).                                     *)
ExitMeansStopped ==
  \A r \in Runs : console[r].exited => pods[r] \notin {"pending", "placed"} /\ ~active(r)

(* At most one Job is on its way to a node, whatever was interrupted,      *)
(* restarted or answered late: an unplaced Job holds admission (reserve,   *)
(* pendingPlacement).                                                      *)
AdmissionBounded ==
  Cardinality({r \in Runs : active(r) /\ pods[r] \in {"none", "pending"}}) <= 1

(* Every Job frees its slot, whether its launch stopped half-way, its Pod  *)
(* never found a node or its worker ended (recover, retireSettledClaim).   *)
SlotsComeBack == \A r \in Runs : active(r) ~> ~active(r)

(* A Job that nobody deletes yet, and a deletion that recovery tracks, end *)
(* in an exit the console accepts, whatever happened before: calls that    *)
(* failed, restarts, reports lost (runExitReporter, reportRetired).        *)
(* Excused are a Job whose retention ran out and a fault yet to come, from *)
(* which a surviving Job starts anew.  A Job that was being deleted when a *)
(* restart or the failed call lost its tracking is under no obligation:    *)
(* nobody reports it, and the job's backstop is what is left               *)
(* (RepositoryJobs, SettledIsReconciled).                                  *)
EndsAreReported ==
  \A r \in Runs, n \in 0 .. MaxFaults :
    /\ (jobs[r].there /\ ~jobs[r].deleting) \/ r \in retiring
    /\ faults = n
    ~> console[r].exited \/ pods[r] = "expired" \/ faults # n

=============================================================================
