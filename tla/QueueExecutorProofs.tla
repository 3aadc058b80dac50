------------------------- MODULE QueueExecutorProofs -------------------------
(***************************************************************************)
(* The safety of QueueExecutor for any number of runs, slots and faults:   *)
(* an exit the console has accepted is physical, and at most one Job is on *)
(* its way to a node.                                                      *)
(***************************************************************************)
EXTENDS QueueExecutor, FiniteSetTheorems, TLAPS

Actors == {"poller", "sweep"}

ConsoleRun == [state : {"queued", "claimed", "settled"}, exited : BOOLEAN]

Job == [there : BOOLEAN, suspend : BOOLEAN, gen : Nat, rv : Nat, secret : BOOLEAN,
        deleting : BOOLEAN, terminal : BOOLEAN]

Actor ==
  [pc  : {"idle", "claim", "create", "secret", "resume", "fence", "update", "status", "skip",
          "delete"},
   run : Runs \cup {"none"},
   rv  : Nat]

ExecutorTypeOK ==
  /\ console \in [Runs -> ConsoleRun]
  /\ jobs \in [Runs -> Job]
  /\ pods \in [Runs -> {"none", "pending", "placed", "ended", "gone", "expired"}]
  /\ actors \in [Actors -> Actor]
  /\ retiring \subseteq Runs /\ inflight \subseteq Runs /\ reported \subseteq Runs
  /\ faults \in Nat

-----------------------------------------------------------------------------
(* The inductive invariant *)

creating(r) == at("poller", "create") /\ actors["poller"].run = r

(* The cluster's part: a Job outlives its Pod, and ends after it.          *)
ClusterInv ==
  \A r \in Runs :
    /\ ~jobs[r].there => pods[r] \in {"none", "gone", "expired"} /\ ~jobs[r].terminal
    /\ jobs[r].terminal => pods[r] \in {"ended", "gone"}

(* A run that is queued, or claimed for a Job still to be created, has     *)
(* nothing in the cluster yet.                                             *)
UnlaunchedInv ==
  /\ \A r \in Runs :
       console[r].state = "queued" \/ creating(r) => ~jobs[r].there /\ pods[r] = "none"
  /\ \A r \in Runs : creating(r) => console[r].state # "queued"

(* What an actor works on, and what recovery has deleted, was claimed.     *)
ClaimedInv ==
  /\ \A a \in Actors :
       actors[a].pc \notin {"idle", "claim"} =>
         actors[a].run \in Runs /\ console[actors[a].run].state # "queued"
  /\ at("sweep", "claim") = FALSE /\ at("sweep", "create") = FALSE
  /\ \A r \in retiring : console[r].state # "queued"

(* No worker of the run is there, and none will be.                        *)
Stopped(r) ==
  /\ pods[r] \notin {"pending", "placed"} /\ ~active(r)
  /\ console[r].state # "queued" /\ ~creating(r)

ExitInv ==
  \A r \in Runs : r \in inflight \/ r \in reported \/ console[r].exited => Stopped(r)

(* On its way to a node.                                                   *)
Waiting(r) == active(r) /\ pods[r] \in {"none", "pending"}

(* The poller goes on to claim only while nothing waits.                   *)
AdmissionInv ==
  /\ \A q, r \in Runs : Waiting(q) /\ Waiting(r) => q = r
  /\ actors["poller"].pc \in {"claim", "create"} => \A r \in Runs : ~Waiting(r)

ExecutorInv ==
  /\ ExecutorTypeOK /\ ClusterInv /\ UnlaunchedInv /\ ClaimedInv /\ ExitInv /\ AdmissionInv

-----------------------------------------------------------------------------
(* Facts about Jobs and actors *)

LEMMA FirstValues ==
  /\ NoJob \in Job /\ ~NoJob.there /\ ~NoJob.terminal
  /\ SuspendedJob \in Job /\ SuspendedJob.there /\ ~SuspendedJob.terminal
  /\ Idle \in Actor /\ Idle.pc = "idle"
BY DEF NoJob, SuspendedJob, Job, Idle, Actor

SameJob(j, n) == n \in Job /\ (n.there <=> j.there) /\ (n.terminal <=> j.terminal)

LEMMA JobUpdates ==
  ASSUME NEW j \in Job
  PROVE  /\ SameJob(j, newVersion(j))
         /\ SameJob(j, [newVersion(j) EXCEPT !.suspend = FALSE, !.gen = 2])
         /\ SameJob(j, [newVersion(j) EXCEPT !.deleting = TRUE])
         /\ SameJob(j, [j EXCEPT !.secret = j.there])
<1>1. /\ j.there \in BOOLEAN /\ j.suspend \in BOOLEAN /\ j.gen \in Nat /\ j.rv \in Nat
      /\ j.secret \in BOOLEAN /\ j.deleting \in BOOLEAN /\ j.terminal \in BOOLEAN
      /\ j.rv + 1 \in Nat /\ 2 \in Nat
  BY DEF Job
<1>2. newVersion(j) \in Job /\ newVersion(j).there = j.there /\ newVersion(j).terminal = j.terminal
  BY <1>1, Zenon DEF Job, newVersion
<1>3. ASSUME NEW v \in Job
      PROVE  /\ [v EXCEPT !.suspend = FALSE, !.gen = 2] \in Job
             /\ [v EXCEPT !.suspend = FALSE, !.gen = 2].there = v.there
             /\ [v EXCEPT !.suspend = FALSE, !.gen = 2].terminal = v.terminal
  BY <1>1, Zenon DEF Job
<1>4. ASSUME NEW v \in Job
      PROVE  /\ [v EXCEPT !.deleting = TRUE] \in Job
             /\ [v EXCEPT !.deleting = TRUE].there = v.there
             /\ [v EXCEPT !.deleting = TRUE].terminal = v.terminal
  BY Zenon DEF Job
<1>5. /\ [j EXCEPT !.secret = j.there] \in Job
      /\ [j EXCEPT !.secret = j.there].there = j.there
      /\ [j EXCEPT !.secret = j.there].terminal = j.terminal
  BY <1>1, Zenon DEF Job
<1> QED
  BY <1>2, <1>3, <1>4, <1>5, Zenon DEF SameJob

LEMMA JobEnded ==
  ASSUME NEW j \in Job
  PROVE  LET n == [newVersion(j) EXCEPT !.terminal = TRUE]
         IN  n \in Job /\ (n.there <=> j.there) /\ n.terminal
<1>1. newVersion(j) \in Job /\ (newVersion(j).there <=> j.there)
  BY JobUpdates DEF SameJob
<1>2. ASSUME NEW v \in Job
      PROVE  LET n == [v EXCEPT !.terminal = TRUE]
             IN  n \in Job /\ n.there = v.there /\ n.terminal
  BY Zenon DEF Job
<1> QED
  BY <1>1, <1>2, Zenon

-----------------------------------------------------------------------------
(* Steps that touch neither a worker nor the console *)

(* What they may do to the Jobs and to the executor's memory.              *)
QuietJobs == \A r \in Runs : SameJob(jobs[r], jobs'[r])

QuietActor(x, n) ==
  \/ n = x
  \/ /\ n \in Actor /\ n.pc \notin {"claim", "create"}
     /\ n.pc # "idle" => n.run \in Runs /\ console[n.run].state # "queued"

Quiet ==
  /\ console' = console /\ pods' = pods
  /\ jobs' \in [Runs -> Job] /\ QuietJobs
  /\ DOMAIN actors' = Actors /\ actors' = [a \in Actors |-> actors'[a]]
  /\ \A a \in Actors : QuietActor(actors[a], actors'[a])
  /\ inflight' \subseteq inflight /\ reported' \subseteq reported
  /\ \A r \in retiring' : r \in Runs /\ console[r].state # "queued"
  /\ faults' \in Nat

LEMMA QuietPreserves ==
  ASSUME ExecutorInv, Quiet
  PROVE  ExecutorInv'
<1>1. ExecutorTypeOK'
  <2>1. \A a \in Actors : actors'[a] \in Actor
    BY DEF Quiet, QuietActor, ExecutorInv, ExecutorTypeOK
  <2> QED
    BY <2>1 DEF Quiet, ExecutorInv, ExecutorTypeOK
<1>2. ClusterInv'
  BY DEF Quiet, QuietJobs, SameJob, ExecutorInv, ClusterInv
<1>3. \A r \in Runs : creating(r)' => creating(r)
  BY DEF Quiet, QuietActor, creating, at, Actors
<1>4. UnlaunchedInv'
  BY <1>3 DEF Quiet, QuietJobs, SameJob, ExecutorInv, UnlaunchedInv
<1>5. ClaimedInv'
  BY DEF Quiet, QuietActor, ExecutorInv, ClaimedInv, at, Actors
<1>6. \A r \in Runs : active(r)' <=> active(r)
  BY DEF Quiet, QuietJobs, SameJob, active, queueJobTerminal
<1>7. ExitInv'
  BY <1>3, <1>6 DEF Quiet, ExecutorInv, ExitInv, Stopped
<1>8. actors'["poller"].pc \in {"claim", "create"} => actors["poller"].pc \in {"claim", "create"}
  BY DEF Quiet, QuietActor, Actors
<1>9. AdmissionInv'
  BY <1>6, <1>8 DEF Quiet, ExecutorInv, AdmissionInv, Waiting
<1> QED
  BY <1>1, <1>2, <1>4, <1>5, <1>7, <1>9 DEF ExecutorInv

LEMMA QuietWrite ==
  ASSUME ExecutorInv,
         \/ jobs' = jobs
         \/ \E r \in Runs, n \in Job : SameJob(jobs[r], n) /\ jobs' = [jobs EXCEPT ![r] = n]
  PROVE  jobs' \in [Runs -> Job] /\ QuietJobs
<1>1. jobs \in [Runs -> Job]
  BY DEF ExecutorInv, ExecutorTypeOK
<1>2. \A r \in Runs : SameJob(jobs[r], jobs[r])
  BY <1>1 DEF SameJob
<1>3. ASSUME NEW r \in Runs, NEW n \in Job, SameJob(jobs[r], n), jobs' = [jobs EXCEPT ![r] = n]
      PROVE  jobs' \in [Runs -> Job] /\ QuietJobs
  <2>1. n \in Job
    BY <1>3 DEF SameJob
  <2>2. jobs' \in [Runs -> Job] /\ jobs'[r] = n /\ \A q \in Runs : q # r => jobs'[q] = jobs[q]
    BY <1>1, <1>3, <2>1
  <2> QED
    BY <1>2, <1>3, <2>2 DEF QuietJobs
<1> QED
  BY <1>1, <1>2, <1>3 DEF QuietJobs

LEMMA QuietMove ==
  ASSUME ExecutorInv, NEW a \in Actors, NEW n, QuietActor(actors[a], n),
         actors' = [actors EXCEPT ![a] = n]
  PROVE  /\ DOMAIN actors' = Actors /\ actors' = [x \in Actors |-> actors'[x]]
         /\ \A x \in Actors : QuietActor(actors[x], actors'[x])
BY DEF ExecutorInv, ExecutorTypeOK, QuietActor

LEMMA QuietStop ==
  ASSUME ExecutorInv, NEW a \in Actors, stop(a)
  PROVE  /\ DOMAIN actors' = Actors /\ actors' = [x \in Actors |-> actors'[x]]
         /\ \A x \in Actors : QuietActor(actors[x], actors'[x])
<1>1. QuietActor(actors[a], Idle)
  BY FirstValues DEF QuietActor
<1> QED
  BY <1>1, QuietMove DEF stop

LEMMA QuietGo ==
  ASSUME ExecutorInv, NEW a \in Actors, NEW r \in Runs, console[r].state # "queued",
         NEW pc \in {"secret", "resume", "fence", "update", "status", "skip", "delete"}, NEW v \in Nat,
         actors' = [actors EXCEPT ![a] = [pc |-> pc, run |-> r, rv |-> v]]
  PROVE  /\ DOMAIN actors' = Actors /\ actors' = [x \in Actors |-> actors'[x]]
         /\ \A x \in Actors : QuietActor(actors[x], actors'[x])
<1>1. QuietActor(actors[a], [pc |-> pc, run |-> r, rv |-> v])
  BY DEF QuietActor, Actor
<1> QED
  BY <1>1, QuietMove

LEMMA AtWork ==
  ASSUME ExecutorInv, NEW a \in Actors, actors[a].pc \notin {"idle", "claim"}
  PROVE  /\ actors[a].run \in Runs /\ console[actors[a].run].state # "queued"
         /\ jobs[actors[a].run] \in Job /\ actors[a].rv \in Nat
         /\ actors[a] = [pc |-> actors[a].pc, run |-> actors[a].run, rv |-> actors[a].rv]
<1>1. actors[a].run \in Runs /\ console[actors[a].run].state # "queued" /\ actors[a] \in Actor
  BY DEF ExecutorInv, ClaimedInv, ExecutorTypeOK
<1>2. actors[a].rv \in Nat
     /\ actors[a] = [pc |-> actors[a].pc, run |-> actors[a].run, rv |-> actors[a].rv]
  BY <1>1 DEF Actor
<1> QED
  BY <1>1, <1>2 DEF ExecutorInv, ExecutorTypeOK

LEMMA Remembered ==
  ASSUME ExecutorInv
  PROVE  /\ \A r \in retiring : r \in Runs /\ console[r].state # "queued"
         /\ faults \in Nat /\ (faults > 0 => faults - 1 \in Nat)
BY DEF ExecutorInv, ClaimedInv, ExecutorTypeOK

LEMMA CreateSecretQuiet ==
  ASSUME ExecutorInv, CreateSecret
  PROVE  Quiet
<1> DEFINE r == actors["poller"].run
           n == [jobs[r] EXCEPT !.secret = jobs[r].there]
<1>1. "poller" \in Actors /\ actors["poller"].pc \notin {"idle", "claim"}
  BY DEF CreateSecret, at, Actors
<1>2. r \in Runs /\ console[r].state # "queued" /\ jobs[r] \in Job
  BY <1>1, AtWork
<1>3. SameJob(jobs[r], n)
  BY <1>2, JobUpdates
<1>4. jobs' = jobs \/ jobs' = [jobs EXCEPT ![r] = n]
  BY DEF CreateSecret
<1>5. stop("poller") \/ goTo("poller", r, "resume")
  BY DEF CreateSecret
<1> HIDE DEF r, n
<1>6. jobs' \in [Runs -> Job] /\ QuietJobs
  BY <1>2, <1>3, <1>4, QuietWrite DEF SameJob
<1>7. /\ DOMAIN actors' = Actors /\ actors' = [x \in Actors |-> actors'[x]]
      /\ \A x \in Actors : QuietActor(actors[x], actors'[x])
  BY <1>1, <1>2, <1>5, QuietStop, QuietGo DEF goTo
<1>8. faults' \in Nat
  BY Remembered DEF CreateSecret
<1> QED
  BY <1>6, <1>7, <1>8, Remembered DEF Quiet, CreateSecret

LEMMA ResumeQuiet ==
  ASSUME ExecutorInv, NEW a \in Actors, ResumeRead(a) \/ VerifyRun(a) \/ Unsuspend(a)
  PROVE  Quiet
<1> DEFINE r == actors[a].run
           n == [newVersion(jobs[r]) EXCEPT !.suspend = FALSE, !.gen = 2]
<1>1. actors[a].pc \notin {"idle", "claim"}
  BY DEF ResumeRead, VerifyRun, Unsuspend, at
<1>2. /\ r \in Runs /\ console[r].state # "queued" /\ jobs[r] \in Job
      /\ actors[a] = [pc |-> actors[a].pc, run |-> r, rv |-> actors[a].rv] /\ actors[a].rv \in Nat
  BY <1>1, AtWork
<1>3. SameJob(jobs[r], n)
  BY <1>2, JobUpdates
<1>4. jobs' = jobs \/ jobs' = [jobs EXCEPT ![r] = n]
  BY DEF ResumeRead, VerifyRun, Unsuspend, cluster
<1>5. jobs[r].rv \in Nat
  BY <1>2 DEF Job
<1>6. \/ stop(a)
      \/ actors' = [actors EXCEPT ![a].pc = "fence", ![a].rv = jobs[r].rv]
      \/ actors' = [actors EXCEPT ![a].pc = "update"]
      \/ goTo(a, r, "resume")
  BY DEF ResumeRead, VerifyRun, Unsuspend
<1> HIDE DEF r, n
<1>8. jobs' \in [Runs -> Job] /\ QuietJobs
  BY <1>2, <1>3, <1>4, QuietWrite DEF SameJob
<1>7. actors[a] \in Actor
  BY DEF ExecutorInv, ExecutorTypeOK
<1>9. /\ DOMAIN actors' = Actors /\ actors' = [x \in Actors |-> actors'[x]]
      /\ \A x \in Actors : QuietActor(actors[x], actors'[x])
  <2>1. CASE stop(a)
    BY <2>1, QuietStop
  <2>2. CASE goTo(a, r, "resume")
    BY <1>2, <2>2, QuietGo DEF goTo
  <2>3. CASE actors' = [actors EXCEPT ![a].pc = "update"]
    <3> DEFINE y == [actors[a] EXCEPT !.pc = "update"]
    <3>1. actors' = [actors EXCEPT ![a] = y]
      BY <2>3
    <3>2. y \in Actor /\ y.pc = "update" /\ y.run = r
      BY <1>2, <1>7 DEF Actor, r
    <3> HIDE DEF y
    <3> QED
      BY <1>2, <3>1, <3>2, QuietMove DEF QuietActor
  <2>4. CASE actors' = [actors EXCEPT ![a].pc = "fence", ![a].rv = jobs[r].rv]
    <3> DEFINE y == [actors[a] EXCEPT !.pc = "fence", !.rv = jobs[r].rv]
    <3>1. actors' = [actors EXCEPT ![a] = y]
      BY <2>4
    <3>2. y \in Actor /\ y.pc = "fence" /\ y.run = r
      BY <1>2, <1>5, <1>7 DEF Actor, r
    <3> HIDE DEF y
    <3> QED
      BY <1>2, <3>1, <3>2, QuietMove DEF QuietActor
  <2> QED
    BY <1>6, <2>1, <2>2, <2>3, <2>4
<1> QED
  BY <1>8, <1>9, Remembered DEF Quiet, ResumeRead, VerifyRun, Unsuspend, cluster

LEMMA SweepTurnQuiet ==
  ASSUME ExecutorInv, NEW r \in Runs, SweepTurn(r)
  PROVE  Quiet
<1>1. jobs[r] \in Job /\ "sweep" \in Actors
  BY DEF ExecutorInv, ExecutorTypeOK, Actors
<1>2. jobs[r].rv \in Nat
  BY <1>1 DEF Job
<1>3. console[r].state # "queued"
  BY DEF SweepTurn, active, ExecutorInv, UnlaunchedInv
<1>4. PICK pc \in {"skip", "status"} :
        actors' = [actors EXCEPT !["sweep"] = [pc |-> pc, run |-> r, rv |-> jobs[r].rv]]
  BY DEF SweepTurn
<1>5. /\ DOMAIN actors' = Actors /\ actors' = [x \in Actors |-> actors'[x]]
      /\ \A x \in Actors : QuietActor(actors[x], actors'[x])
  BY <1>1, <1>2, <1>3, <1>4, QuietGo
<1>6. jobs' \in [Runs -> Job] /\ QuietJobs
  BY QuietWrite DEF SweepTurn, cluster
<1> QED
  BY <1>5, <1>6, Remembered DEF Quiet, SweepTurn, cluster

LEMMA ClaimSettledQuiet ==
  ASSUME ExecutorInv, ClaimSettled
  PROVE  Quiet
<1> DEFINE s == actors["sweep"]
<1>1. "sweep" \in Actors /\ s.pc \notin {"idle", "claim"}
  BY DEF ClaimSettled, at, Actors
<1>2. s.run \in Runs /\ console[s.run].state # "queued" /\ s \in Actor
  BY <1>1, AtWork DEF ExecutorInv, ExecutorTypeOK
<1>3. PICK pc \in {"delete", "skip"} : actors' = [actors EXCEPT !["sweep"].pc = pc]
  BY DEF ClaimSettled
<1> DEFINE n == [s EXCEPT !.pc = pc]
<1>4. actors' = [actors EXCEPT !["sweep"] = n]
  BY <1>3
<1>5. n \in Actor /\ n.pc = pc /\ n.run = s.run
  BY <1>2 DEF Actor
<1> HIDE DEF n
<1>6. QuietActor(s, n)
  BY <1>2, <1>5 DEF QuietActor
<1>7. jobs' \in [Runs -> Job] /\ QuietJobs
  BY QuietWrite DEF ClaimSettled, cluster
<1>8. /\ DOMAIN actors' = Actors /\ actors' = [x \in Actors |-> actors'[x]]
      /\ \A x \in Actors : QuietActor(actors[x], actors'[x])
  BY <1>1, <1>4, <1>6, QuietMove
<1> QED
  BY <1>7, <1>8, Remembered DEF Quiet, ClaimSettled, cluster

LEMMA DeleteJobQuiet ==
  ASSUME ExecutorInv, DeleteJob
  PROVE  Quiet
<1> DEFINE r == actors["sweep"].run
           n == [newVersion(jobs[r]) EXCEPT !.deleting = TRUE]
<1>1. "sweep" \in Actors /\ actors["sweep"].pc \notin {"idle", "claim"}
  BY DEF DeleteJob, at, Actors
<1>2. r \in Runs /\ console[r].state # "queued" /\ jobs[r] \in Job
  BY <1>1, AtWork
<1>3. SameJob(jobs[r], n)
  BY <1>2, JobUpdates
<1>4. jobs' = jobs \/ jobs' = [jobs EXCEPT ![r] = n]
  BY DEF DeleteJob
<1>5. retiring' \subseteq retiring \cup {r}
  BY DEF DeleteJob
<1> HIDE DEF r, n
<1>6. jobs' \in [Runs -> Job] /\ QuietJobs
  BY <1>2, <1>3, <1>4, QuietWrite DEF SameJob
<1>7. /\ DOMAIN actors' = Actors /\ actors' = [x \in Actors |-> actors'[x]]
      /\ \A x \in Actors : QuietActor(actors[x], actors'[x])
  BY <1>1, QuietStop DEF DeleteJob
<1>8. faults' \in Nat
  BY Remembered DEF DeleteJob
<1>9. \A q \in retiring' : q \in Runs /\ console[q].state # "queued"
  BY <1>2, <1>5, Remembered
<1> QED
  BY <1>6, <1>7, <1>8, <1>9 DEF Quiet, DeleteJob

LEMMA SweepOnQuiet ==
  ASSUME ExecutorInv, SweepOn
  PROVE  Quiet
<1> DEFINE r == actors["sweep"].run
<1>1. "sweep" \in Actors /\ actors["sweep"].pc \notin {"idle", "claim"}
  BY DEF SweepOn, at, Actors
<1>2. r \in Runs /\ console[r].state # "queued"
  BY <1>1, AtWork
<1>3. goTo("sweep", r, "resume") \/ stop("sweep")
  BY DEF SweepOn
<1> HIDE DEF r
<1>4. /\ DOMAIN actors' = Actors /\ actors' = [x \in Actors |-> actors'[x]]
      /\ \A x \in Actors : QuietActor(actors[x], actors'[x])
  BY <1>1, <1>2, <1>3, QuietStop, QuietGo DEF goTo
<1>5. jobs' \in [Runs -> Job] /\ QuietJobs
  BY QuietWrite DEF SweepOn, cluster
<1> QED
  BY <1>4, <1>5, Remembered DEF Quiet, SweepOn, cluster

LEMMA InterruptionQuiet ==
  ASSUME ExecutorInv, ClaimNothing \/ (\E a \in DOMAIN actors : CutOff(a)) \/ Restart
  PROVE  Quiet
<1>1. jobs' \in [Runs -> Job] /\ QuietJobs
  BY QuietWrite DEF ClaimNothing, CutOff, Restart, cluster
<1>2. DOMAIN actors = Actors /\ "poller" \in Actors
  BY DEF ExecutorInv, ExecutorTypeOK, Actors
<1>3. /\ DOMAIN actors' = Actors /\ actors' = [x \in Actors |-> actors'[x]]
      /\ \A x \in Actors : QuietActor(actors[x], actors'[x])
  <2>1. CASE Restart
    BY <1>2, <2>1, FirstValues DEF Restart, QuietActor
  <2>2. CASE ClaimNothing \/ \E a \in DOMAIN actors : CutOff(a)
    BY <1>2, <2>2, QuietStop DEF ClaimNothing, CutOff
  <2> QED
    BY <2>1, <2>2
<1>4. faults' \in Nat /\ \A r \in retiring' : r \in Runs /\ console[r].state # "queued"
  BY Remembered DEF ClaimNothing, CutOff, Restart
<1> QED
  BY <1>1, <1>3, <1>4 DEF Quiet, ClaimNothing, CutOff, Restart, cluster

-----------------------------------------------------------------------------
(* The workers and their Jobs *)

(* A step of the cluster on one run leaves the executor and the console    *)
(* alone.                                                                  *)
ClusterStep(r) ==
  /\ console' = console /\ actors' = actors
  /\ retiring' = retiring /\ inflight' = inflight /\ reported' = reported /\ faults' = faults
  /\ jobs' \in [Runs -> Job] /\ \A q \in Runs \ {r} : jobs'[q] = jobs[q]
  /\ pods' \in [Runs -> {"none", "pending", "placed", "ended", "gone", "expired"}]
  /\ \A q \in Runs \ {r} : pods'[q] = pods[q]

LEMMA ClusterPreserves ==
  ASSUME ExecutorInv, NEW r \in Runs, ClusterStep(r), console[r].state # "queued", ~creating(r),
         ~jobs'[r].there => pods'[r] \in {"none", "gone", "expired"} /\ ~jobs'[r].terminal,
         jobs'[r].terminal => pods'[r] \in {"ended", "gone"},
         active(r)' => active(r),
         Waiting(r)' => Waiting(r),
         pods'[r] \in {"pending", "placed"} => active(r) \/ pods[r] \in {"pending", "placed"}
  PROVE  ExecutorInv'
<1>1. ExecutorTypeOK'
  BY DEF ClusterStep, ExecutorInv, ExecutorTypeOK
<1>2. \A q \in Runs \ {r} : jobs'[q] = jobs[q] /\ pods'[q] = pods[q]
  BY DEF ClusterStep
<1>3. ClusterInv'
  BY <1>2 DEF ExecutorInv, ClusterInv
<1>4. console' = console /\ \A q \in Runs : creating(q)' <=> creating(q)
  BY DEF ClusterStep, creating, at
<1>5. UnlaunchedInv'
  BY <1>2, <1>4 DEF ExecutorInv, UnlaunchedInv
<1>6. ClaimedInv'
  BY DEF ClusterStep, ExecutorInv, ClaimedInv, at
<1>7. \A q \in Runs \ {r} : (active(q)' <=> active(q)) /\ (Waiting(q)' <=> Waiting(q))
  BY <1>2 DEF active, queueJobTerminal, Waiting
<1>8. ExitInv'
  BY <1>2, <1>4, <1>7 DEF ClusterStep, ExecutorInv, ExitInv, Stopped
<1>9. AdmissionInv'
  BY <1>7 DEF ClusterStep, ExecutorInv, AdmissionInv
<1> QED
  BY <1>1, <1>3, <1>5, <1>6, <1>8, <1>9 DEF ExecutorInv

LEMMA ClusterWrites ==
  ASSUME ExecutorInv, NEW r \in Runs, NEW j \in Job,
         NEW p \in {"none", "pending", "placed", "ended", "gone", "expired"},
         jobs' = [jobs EXCEPT ![r] = j], pods' = [pods EXCEPT ![r] = p],
         UNCHANGED <<console, memory, faults>>
  PROVE  ClusterStep(r) /\ jobs'[r] = j /\ pods'[r] = p
BY DEF ExecutorInv, ExecutorTypeOK, ClusterStep, memory

LEMMA RunFacts ==
  ASSUME ExecutorInv, NEW r \in Runs
  PROVE  /\ jobs[r] \in Job /\ jobs = [jobs EXCEPT ![r] = jobs[r]]
         /\ pods[r] \in {"none", "pending", "placed", "ended", "gone", "expired"}
         /\ pods = [pods EXCEPT ![r] = pods[r]]
         /\ ~jobs[r].there => pods[r] \in {"none", "gone", "expired"} /\ ~jobs[r].terminal
         /\ jobs[r].terminal => pods[r] \in {"ended", "gone"}
         /\ jobs[r].there \/ pods[r] # "none" => console[r].state # "queued" /\ ~creating(r)
BY DEF ExecutorInv, ExecutorTypeOK, ClusterInv, UnlaunchedInv

LEMMA CreatePodStep ==
  ASSUME ExecutorInv, NEW r \in Runs, CreatePod(r)
  PROVE  ExecutorInv'
<1>1. /\ jobs[r] \in Job /\ jobs[r].there /\ pods[r] = "none" /\ ~jobs[r].terminal
      /\ console[r].state # "queued" /\ ~creating(r)
  BY RunFacts DEF CreatePod
<1>2. SameJob(jobs[r], newVersion(jobs[r]))
  BY <1>1, JobUpdates
<1>3. ClusterStep(r) /\ jobs'[r] = newVersion(jobs[r]) /\ pods'[r] = "pending"
  BY <1>2, ClusterWrites DEF CreatePod, SameJob
<1>4. jobs'[r].there /\ ~jobs'[r].terminal
  BY <1>1, <1>2, <1>3 DEF SameJob
<1>5. active(r) /\ Waiting(r)
  BY <1>1 DEF active, Waiting, queueJobTerminal
<1> QED
  BY <1>1, <1>3, <1>4, <1>5, ClusterPreserves

LEMMA PodStep ==
  ASSUME ExecutorInv, NEW r \in Runs, Place(r) \/ PodEnds(r) \/ CollectPod(r)
  PROVE  ExecutorInv'
<1>1. PICK p \in {"placed", "ended", "gone"} :
        /\ pods' = [pods EXCEPT ![r] = p]
        /\ p = "placed" => pods[r] = "pending"
        /\ p = "ended" => pods[r] = "placed"
        /\ p = "gone" => pods[r] \in {"pending", "placed", "ended"}
  BY DEF Place, PodEnds, CollectPod
<1>2. jobs' = jobs /\ UNCHANGED <<console, memory, faults>>
  BY DEF Place, PodEnds, CollectPod
<1>3. ClusterStep(r) /\ jobs'[r] = jobs[r] /\ pods'[r] = p
  BY <1>1, <1>2, RunFacts, ClusterWrites
<1>4. console[r].state # "queued" /\ ~creating(r)
  BY <1>1, RunFacts
<1>5. active(r)' <=> active(r)
  BY <1>2 DEF active, queueJobTerminal
<1>6. ~Waiting(r)'
  BY <1>3 DEF Waiting
<1>7. /\ ~jobs'[r].there => pods'[r] \in {"none", "gone", "expired"} /\ ~jobs'[r].terminal
      /\ jobs'[r].terminal => pods'[r] \in {"ended", "gone"}
      /\ pods'[r] \in {"pending", "placed"} => pods[r] \in {"pending", "placed"}
  BY <1>1, <1>3, RunFacts
<1> QED
  BY <1>3, <1>4, <1>5, <1>6, <1>7, ClusterPreserves

LEMMA JobEndsStep ==
  ASSUME ExecutorInv, NEW r \in Runs, JobEnds(r)
  PROVE  ExecutorInv'
<1> DEFINE n == [newVersion(jobs[r]) EXCEPT !.terminal = TRUE]
<1>1. /\ jobs[r] \in Job /\ jobs[r].there /\ pods[r] = "ended"
      /\ console[r].state # "queued" /\ ~creating(r)
  BY RunFacts DEF JobEnds, active
<1>2. n \in Job /\ n.there /\ n.terminal
  BY <1>1, JobEnded
<1>3. jobs' = [jobs EXCEPT ![r] = n] /\ pods' = pods /\ UNCHANGED <<console, memory, faults>>
  BY DEF JobEnds
<1> HIDE DEF n
<1>4. ClusterStep(r) /\ jobs'[r] = n /\ pods'[r] = "ended"
  BY <1>1, <1>2, <1>3, RunFacts, ClusterWrites
<1>5. ~active(r)'
  BY <1>2, <1>4 DEF active, queueJobTerminal
<1>6. ~Waiting(r)'
  BY <1>5 DEF Waiting
<1> QED
  BY <1>1, <1>2, <1>4, <1>5, <1>6, ClusterPreserves

LEMMA CollectStep ==
  ASSUME ExecutorInv, NEW r \in Runs, CollectJob(r) \/ Retention(r)
  PROVE  ExecutorInv'
<1>1. CASE jobs[r].there
  <2>1. PICK p \in {"none", "gone", "expired"} : pods' = [pods EXCEPT ![r] = p]
    BY RunFacts DEF CollectJob, Retention
  <2>2. jobs' = [jobs EXCEPT ![r] = NoJob] /\ UNCHANGED <<console, memory, faults>>
    BY DEF CollectJob, Retention
  <2>3. ClusterStep(r) /\ jobs'[r] = NoJob /\ pods'[r] = p
    BY <2>1, <2>2, FirstValues, ClusterWrites
  <2>4. ~active(r)'
    BY <2>3, FirstValues DEF active
  <2>5. ~Waiting(r)'
    BY <2>4 DEF Waiting
  <2>6. console[r].state # "queued" /\ ~creating(r) /\ ~jobs'[r].there /\ ~jobs'[r].terminal
    BY <1>1, <2>3, RunFacts, FirstValues
  <2> QED
    BY <2>3, <2>4, <2>5, <2>6, ClusterPreserves
<1>2. CASE ~jobs[r].there
  <2>1. jobs' = [jobs EXCEPT ![r] = NoJob] /\ UNCHANGED <<console, pods, memory, faults>>
    BY <1>2 DEF CollectJob, Retention
  <2>2. SameJob(jobs[r], NoJob)
    BY <1>2, RunFacts, FirstValues DEF SameJob
  <2>3. jobs' \in [Runs -> Job] /\ QuietJobs
    BY <2>1, <2>2, FirstValues, QuietWrite
  <2>4. actors \in [Actors -> Actor]
    BY DEF ExecutorInv, ExecutorTypeOK
  <2>5. Quiet
    BY <2>1, <2>3, <2>4, Remembered DEF Quiet, QuietActor, memory
  <2> QED
    BY <2>5, QuietPreserves
<1> QED
  BY <1>1, <1>2

-----------------------------------------------------------------------------
(* The console *)

LEMMA ConsolePreserves ==
  ASSUME ExecutorInv, NEW r \in Runs, NEW c \in ConsoleRun, c.state # "queued",
         console' = [console EXCEPT ![r] = c], console[r].state # "queued",
         c.exited => console[r].exited \/ r \in inflight,
         UNCHANGED <<cluster, actors, retiring>>, faults' \in Nat,
         inflight' \subseteq inflight, reported' \subseteq reported \cup inflight
  PROVE  ExecutorInv'
<1>1. ExecutorTypeOK'
  BY DEF ExecutorInv, ExecutorTypeOK, cluster
<1>2. /\ jobs' = jobs /\ pods' = pods /\ actors' = actors /\ retiring' = retiring
      /\ console'[r] = c /\ \A q \in Runs \ {r} : console'[q] = console[q]
      /\ inflight \subseteq Runs /\ reported \subseteq Runs /\ retiring \subseteq Runs
  BY DEF ExecutorInv, ExecutorTypeOK, cluster
<1>3. /\ \A q \in Runs : console'[q].state = "queued" <=> console[q].state = "queued"
      /\ \A q \in Runs : console'[q].exited => console[q].exited \/ q \in inflight
  BY <1>2
<1>4. \A q \in Runs : (creating(q)' <=> creating(q)) /\ (active(q)' <=> active(q))
  BY <1>2 DEF creating, at, active, queueJobTerminal
<1>5. ClusterInv'
  BY <1>2 DEF ExecutorInv, ClusterInv
<1>6. UnlaunchedInv'
  BY <1>2, <1>3, <1>4 DEF ExecutorInv, UnlaunchedInv
<1>7. ClaimedInv'
  BY <1>2, <1>3 DEF ExecutorInv, ClaimedInv, at
<1>8. ExitInv'
  BY <1>2, <1>3, <1>4 DEF ExecutorInv, ExitInv, Stopped
<1>9. AdmissionInv'
  BY <1>2, <1>4 DEF ExecutorInv, AdmissionInv, Waiting
<1> QED
  BY <1>1, <1>5, <1>6, <1>7, <1>8, <1>9 DEF ExecutorInv

LEMMA SettleStep ==
  ASSUME ExecutorInv, NEW r \in Runs, Settle(r)
  PROVE  ExecutorInv'
<1> DEFINE c == [console[r] EXCEPT !.state = "settled"]
<1>1. console[r] \in ConsoleRun /\ console[r].state = "claimed" /\ inflight \subseteq Runs
  BY DEF ExecutorInv, ExecutorTypeOK, Settle, live
<1>2. c \in ConsoleRun /\ c.state = "settled" /\ c.exited = console[r].exited
  BY <1>1, Zenon DEF ConsoleRun
<1>3. console' = [console EXCEPT ![r] = c]
  BY DEF Settle
<1> HIDE DEF c
<1>4. /\ UNCHANGED <<cluster, actors, retiring>> /\ faults' \in Nat
      /\ inflight' \subseteq inflight /\ reported' \subseteq reported \cup inflight
  BY Remembered DEF Settle, memory
<1> QED
  BY <1>1, <1>2, <1>3, <1>4, ConsolePreserves

LEMMA PostExitStep ==
  ASSUME ExecutorInv, NEW r \in Runs, PostExit(r)
  PROVE  ExecutorInv'
<1> DEFINE c == [state |-> "settled", exited |-> TRUE]
<1>1. r \in inflight /\ faults' \in Nat /\ UNCHANGED <<cluster, actors, retiring>>
  BY Remembered DEF PostExit
<1>2. inflight' \subseteq inflight /\ reported' \subseteq reported \cup inflight
  BY <1>1 DEF PostExit
<1>3. console[r].state # "queued"
  BY <1>1 DEF ExecutorInv, ExitInv, Stopped
<1>4. CASE console' = executorExited(r)
  <2>1. c \in ConsoleRun /\ c.state # "queued" /\ console' = [console EXCEPT ![r] = c]
    BY <1>4 DEF executorExited, ConsoleRun
  <2> QED
    BY <1>1, <1>2, <1>3, <2>1, ConsolePreserves
<1>5. CASE console' = console
  <2>1. console[r] \in ConsoleRun /\ console' = [console EXCEPT ![r] = console[r]]
    BY <1>5 DEF ExecutorInv, ExecutorTypeOK
  <2> QED
    BY <1>1, <1>2, <1>3, <2>1, ConsolePreserves
<1> QED
  BY <1>4, <1>5 DEF PostExit

-----------------------------------------------------------------------------
(* The poller *)

LEMMA ReserveStep ==
  ASSUME ExecutorInv, Reserve
  PROVE  ExecutorInv'
<1> DEFINE ended   == {r \in Runs : jobs[r].there /\ queueJobTerminal(jobs[r])}
           settled == {r \in retiring : gone(r)}
<1>1. /\ console' = console /\ jobs' = jobs /\ pods' = pods /\ reported' = reported
      /\ faults' = faults /\ retiring' \subseteq retiring
      /\ inflight' \subseteq inflight \cup ended \cup settled
  BY DEF Reserve, observed, cluster
<1>2. \/ actors' = actors
      \/ admits /\ actors' = [actors EXCEPT !["poller"] = [pc |-> "claim", run |-> "none", rv |-> 0]]
  BY DEF Reserve, goTo
<1>3. actors["poller"].pc = "idle"
  BY DEF Reserve, at
<1>4. /\ actors' \in [Actors -> Actor] /\ actors'["sweep"] = actors["sweep"]
      /\ actors'["poller"].pc \in {"idle", "claim"}
  <2>1. [pc |-> "claim", run |-> "none", rv |-> 0] \in Actor
    BY DEF Actor
  <2> QED
    BY <1>2, <1>3, <2>1 DEF ExecutorInv, ExecutorTypeOK, Actors
<1>5. \A r \in Runs : ~creating(r) /\ ~creating(r)'
  BY <1>3, <1>4 DEF creating, at
<1>6. \A r \in ended \cup settled :
        /\ r \in Runs /\ pods[r] \notin {"pending", "placed"} /\ ~active(r)
        /\ console[r].state # "queued"
  BY RunFacts, Remembered DEF queueJobTerminal, active, gone
<1> HIDE DEF ended, settled
<1>7. ExecutorTypeOK'
  BY <1>1, <1>4, <1>6 DEF ExecutorInv, ExecutorTypeOK
<1>8. ClusterInv'
  BY <1>1 DEF ExecutorInv, ClusterInv
<1>9. UnlaunchedInv'
  BY <1>1, <1>5 DEF ExecutorInv, UnlaunchedInv
<1>10. ClaimedInv'
  BY <1>1, <1>4 DEF ExecutorInv, ClaimedInv, at, Actors
<1>11. \A r \in Runs : (active(r)' <=> active(r)) /\ (Waiting(r)' <=> Waiting(r))
  BY <1>1 DEF active, queueJobTerminal, Waiting
<1>12. ExitInv'
  BY <1>1, <1>5, <1>6, <1>11 DEF ExecutorInv, ExitInv, Stopped
<1>13. admits => \A r \in Runs : ~Waiting(r)
  BY DEF admits, pendingPlacement, waits, Waiting
<1>14. AdmissionInv'
  BY <1>2, <1>3, <1>11, <1>13 DEF ExecutorInv, AdmissionInv
<1> QED
  BY <1>7, <1>8, <1>9, <1>10, <1>12, <1>14 DEF ExecutorInv

LEMMA ClaimStep ==
  ASSUME ExecutorInv, NEW r \in Runs, Claim(r)
  PROVE  ExecutorInv'
<1> DEFINE c == [console[r] EXCEPT !.state = "claimed"]
           n == [pc |-> "create", run |-> r, rv |-> 0]
<1>1. /\ jobs' = jobs /\ pods' = pods /\ inflight' = inflight /\ reported' = reported
      /\ retiring' = retiring /\ faults' \in Nat /\ console[r].state = "queued"
      /\ console' = [console EXCEPT ![r] = c] /\ actors["poller"].pc = "claim"
  BY Remembered DEF Claim, cluster, at
<1>2. actors' = [actors EXCEPT !["poller"] = n] \/ actors' = [actors EXCEPT !["poller"] = Idle]
  BY DEF Claim, goTo, stop
<1>3. console[r] \in ConsoleRun /\ console \in [Runs -> ConsoleRun] /\ actors \in [Actors -> Actor]
  BY DEF ExecutorInv, ExecutorTypeOK
<1>4. c \in ConsoleRun /\ c.state = "claimed" /\ c.exited = console[r].exited
  BY <1>3, Zenon DEF ConsoleRun
<1>5. n \in Actor /\ Idle \in Actor /\ Idle.pc = "idle"
  BY FirstValues DEF Actor
<1> HIDE DEF c
<1>6. /\ actors' \in [Actors -> Actor] /\ actors'["sweep"] = actors["sweep"]
      /\ actors'["poller"] \in {n, Idle}
  BY <1>2, <1>3, <1>5 DEF Actors
<1>7. console'[r] = c /\ \A q \in Runs \ {r} : console'[q] = console[q]
  BY <1>1, <1>3
<1>8. /\ ~jobs[r].there /\ pods[r] = "none" /\ r \notin inflight /\ r \notin reported
      /\ ~console[r].exited
  BY <1>1 DEF ExecutorInv, UnlaunchedInv, ExitInv, Stopped
<1>9. \A q \in Runs \ {r} : ~creating(q)'
  BY <1>5, <1>6 DEF creating, at
<1>10. ExecutorTypeOK'
  BY <1>1, <1>3, <1>4, <1>6 DEF ExecutorInv, ExecutorTypeOK
<1>11. ClusterInv'
  BY <1>1 DEF ExecutorInv, ClusterInv
<1>12. UnlaunchedInv'
  BY <1>1, <1>4, <1>7, <1>8, <1>9 DEF ExecutorInv, UnlaunchedInv
<1>13. \A q \in Runs : console'[q].state = "queued" => console[q].state = "queued"
  BY <1>4, <1>7
<1>14. actors'["poller"].pc \notin {"idle", "claim"} => actors'["poller"].run = r
  BY <1>5, <1>6
<1>15. ClaimedInv'
  BY <1>1, <1>4, <1>6, <1>7, <1>13, <1>14, Remembered DEF ExecutorInv, ClaimedInv, at, Actors
<1>16. \A q \in Runs : (active(q)' <=> active(q)) /\ (Waiting(q)' <=> Waiting(q))
  BY <1>1 DEF active, queueJobTerminal, Waiting
<1>17. ExitInv'
  BY <1>1, <1>4, <1>7, <1>8, <1>9, <1>16 DEF ExecutorInv, ExitInv, Stopped
<1>18. AdmissionInv'
  BY <1>1, <1>16 DEF ExecutorInv, AdmissionInv
<1> QED
  BY <1>10, <1>11, <1>12, <1>15, <1>17, <1>18 DEF ExecutorInv

LEMMA CreateStep ==
  ASSUME ExecutorInv, Create
  PROVE  ExecutorInv'
<1> DEFINE r == actors["poller"].run
<1>1. "poller" \in Actors /\ actors["poller"].pc = "create" /\ actors \in [Actors -> Actor]
  BY DEF Create, at, Actors, ExecutorInv, ExecutorTypeOK
<1>2. r \in Runs /\ console[r].state # "queued"
  BY <1>1, AtWork
<1>3. creating(r) /\ ~jobs[r].there /\ pods[r] = "none"
  BY <1>1, <1>2 DEF creating, at, ExecutorInv, UnlaunchedInv
<1>4. r \notin inflight /\ r \notin reported /\ ~console[r].exited
  BY <1>2, <1>3 DEF ExecutorInv, ExitInv, Stopped
<1>5. \A q \in Runs : ~Waiting(q)
  BY <1>1 DEF ExecutorInv, AdmissionInv
<1>6. /\ console' = console /\ pods' = pods /\ retiring' = retiring /\ reported' = reported
      /\ faults' \in Nat
  BY Remembered DEF Create
<1>7. /\ \/ stop("poller")
         \/ goTo("poller", r, "secret")
      /\ jobs' = jobs \/ (jobs' = [jobs EXCEPT ![r] = SuspendedJob] /\ inflight' = inflight)
      /\ inflight' = inflight \/ inflight' = observed({r})
  BY DEF Create
<1> HIDE DEF r
<1>8. /\ DOMAIN actors' = Actors /\ actors' = [x \in Actors |-> actors'[x]]
      /\ \A x \in Actors : QuietActor(actors[x], actors'[x])
      /\ actors'["poller"].pc \in {"idle", "secret"}
  <2>1. CASE stop("poller")
    BY <1>1, <2>1, QuietStop, FirstValues DEF stop
  <2>2. CASE goTo("poller", r, "secret")
    BY <1>1, <1>2, <2>2, QuietGo DEF goTo
  <2> QED
    BY <1>7, <2>1, <2>2
<1>9. \A q \in Runs : ~creating(q)'
  BY <1>8 DEF creating, at
<1>10. inflight' \subseteq inflight \cup {r}
  BY <1>7 DEF observed
<1>11. /\ jobs' \in [Runs -> Job] /\ \A q \in Runs \ {r} : jobs'[q] = jobs[q]
       /\ ~jobs'[r].terminal
       /\ jobs'[r].there => inflight' = inflight
  BY <1>2, <1>3, <1>7, RunFacts, FirstValues DEF ExecutorInv, ExecutorTypeOK
<1>12. ExecutorTypeOK'
  <2>1. \A x \in Actors : actors'[x] \in Actor
    BY <1>1, <1>8 DEF QuietActor
  <2> QED
    BY <1>2, <1>6, <1>8, <1>10, <1>11, <2>1 DEF ExecutorInv, ExecutorTypeOK
<1>13. ClusterInv'
  BY <1>3, <1>6, <1>11 DEF ExecutorInv, ClusterInv
<1>14. UnlaunchedInv'
  BY <1>2, <1>6, <1>9, <1>11 DEF ExecutorInv, UnlaunchedInv
<1>15. ClaimedInv'
  BY <1>6, <1>8 DEF QuietActor, ExecutorInv, ClaimedInv, at, Actors
<1>16. \A q \in Runs \ {r} : (active(q)' <=> active(q)) /\ (Waiting(q)' <=> Waiting(q))
  BY <1>6, <1>11 DEF active, queueJobTerminal, Waiting
<1>17. ExitInv'
  <2>1. ASSUME NEW q \in Runs, q # r, q \in inflight' \/ q \in reported' \/ console'[q].exited
        PROVE  Stopped(q)'
    BY <1>6, <1>9, <1>10, <1>16, <2>1 DEF ExecutorInv, ExitInv, Stopped
  <2>2. ASSUME NEW q \in Runs, q = r, q \in inflight' \/ q \in reported' \/ console'[q].exited
        PROVE  Stopped(q)'
    <3>1. ~jobs'[q].there
      BY <1>4, <1>6, <1>11, <2>2
    <3> QED
      BY <1>2, <1>3, <1>6, <1>9, <2>2, <3>1 DEF Stopped, active
  <2> QED
    BY <2>1, <2>2 DEF ExitInv
<1>18. AdmissionInv'
  BY <1>5, <1>8, <1>16 DEF AdmissionInv
<1> QED
  BY <1>12, <1>13, <1>14, <1>15, <1>17, <1>18 DEF ExecutorInv

-----------------------------------------------------------------------------
(* The results *)

LEMMA ExecutorInit == Init => ExecutorInv
<1> SUFFICES ASSUME Init PROVE ExecutorInv
  OBVIOUS
<1>1. ExecutorTypeOK
  BY FirstValues, ExecutorAssumption DEF Init, ExecutorTypeOK, ConsoleRun, Actors
<1>2. \A r \in Runs : ~creating(r) /\ ~jobs[r].there /\ ~jobs[r].terminal /\ pods[r] = "none"
  BY FirstValues DEF Init, creating, at
<1>3. \A a \in Actors : actors[a].pc = "idle"
  BY FirstValues DEF Init, Actors
<1>4. ClusterInv /\ UnlaunchedInv
  BY <1>2 DEF ClusterInv, UnlaunchedInv
<1>5. ClaimedInv
  BY <1>3 DEF ClaimedInv, Init, at, Actors
<1>6. ExitInv
  BY DEF ExitInv, Init
<1>7. AdmissionInv
  BY <1>2 DEF AdmissionInv, Waiting, active
<1> QED
  BY <1>1, <1>4, <1>5, <1>6, <1>7 DEF ExecutorInv

LEMMA ExecutorNext == ExecutorInv /\ [Next]_vars => ExecutorInv'
<1> SUFFICES ASSUME ExecutorInv, [Next]_vars PROVE ExecutorInv'
  OBVIOUS
<1>1. "poller" \in Actors /\ "sweep" \in Actors
  BY DEF Actors
<1>2. CASE Poller
  BY <1>1, <1>2, ReserveStep, ClaimStep, CreateStep, CreateSecretQuiet, ResumeQuiet,
     InterruptionQuiet, QuietPreserves DEF Poller
<1>3. CASE Sweep
  BY <1>1, <1>3, ClaimSettledQuiet, DeleteJobQuiet, SweepOnQuiet, ResumeQuiet, QuietPreserves
     DEF Sweep
<1>4. ASSUME NEW r \in Runs,
             SweepTurn(r) \/ PostExit(r) \/ Settle(r) \/ Controllers(r) \/ Place(r) \/ Retention(r)
      PROVE  ExecutorInv'
  BY <1>4, SweepTurnQuiet, QuietPreserves, PostExitStep, SettleStep, CreatePodStep, PodStep,
     JobEndsStep, CollectStep DEF Controllers
<1>5. CASE (\E a \in DOMAIN actors : CutOff(a)) \/ Restart
  BY <1>5, InterruptionQuiet, QuietPreserves
<1>6. CASE UNCHANGED vars
  <2>1. jobs' \in [Runs -> Job] /\ QuietJobs
    BY <1>6, QuietWrite DEF vars
  <2>2. Quiet
    BY <1>6, <2>1, Remembered DEF vars, Quiet, QuietActor, ExecutorInv, ExecutorTypeOK
  <2> QED
    BY <2>2, QuietPreserves
<1> QED
  BY <1>2, <1>3, <1>4, <1>5, <1>6 DEF Next

(* The executor's inductive invariant holds in every reachable state.      *)
THEOREM ExecutorInvariance == Spec => []ExecutorInv
<1> QED
  BY ExecutorInit, ExecutorNext, PTL DEF Spec

(* An accepted exit is physical evidence: no worker of that claim runs or  *)
(* is still to come, whatever calls failed and however often the executor  *)
(* restarted.                                                              *)
THEOREM ExitsAreReal == Spec => []ExitMeansStopped
<1>1. ExecutorInv => ExitMeansStopped
  BY DEF ExecutorInv, ExitInv, Stopped, ExitMeansStopped
<1> QED
  BY <1>1, ExecutorInvariance, PTL

(* At most one Job is on its way to a node, for any number of runs, slots  *)
(* and faults.                                                             *)
THEOREM AdmissionIsBounded == Spec => []AdmissionBounded
<1>1. ASSUME ExecutorInv PROVE AdmissionBounded
  <2> DEFINE W == {r \in Runs : active(r) /\ pods[r] \in {"none", "pending"}}
  <2>1. \A q, r \in W : q = r
    BY <1>1 DEF ExecutorInv, AdmissionInv, Waiting
  <2> HIDE DEF W
  <2>2. CASE W = {}
    BY <2>2, FS_EmptySet DEF AdmissionBounded, W
  <2>3. ASSUME NEW r \in W PROVE AdmissionBounded
    <3>1. W = {r}
      BY <2>1, <2>3
    <3>2. Cardinality({r}) = 1
      BY FS_Singleton
    <3> QED
      BY <3>1, <3>2 DEF AdmissionBounded, W
  <2> QED
    BY <2>2, <2>3
<1> QED
  BY <1>1, ExecutorInvariance, PTL

=============================================================================
