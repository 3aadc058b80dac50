--------------------------- MODULE RepositoryJobs ---------------------------
(***************************************************************************)
(* One repository job: its catalog document, refreshed from the            *)
(* repository's default branch, the occurrences admitted for it by         *)
(* schedule or by hand, the Work minted for each, and the maintenance tick *)
(* that reconciles the active occurrence and admits the next one           *)
(* (repository-jobs.ts, repository-job-catalog.ts, repository-job-store.ts, *)
(* the recipe routes of runs-router.ts).                                   *)
(*                                                                         *)
(* Ticks, refreshes and invocations overlap and may be cut off at any      *)
(* step.  Work is seen from here: a run is queued, claimed or settled (see *)
(* RunLifecycle), and its worker has a bounded life (see QueueExecutor).   *)
(*                                                                         *)
(* Time counts minutes up to MaxTime and goes on uncounted after that.  A  *)
(* digest names a definition.  Profiles, credential sets and parameters    *)
(* are not told apart.  Grants are given and revoked between any two       *)
(* steps: each check of one may go either way.                             *)
(***************************************************************************)
EXTENDS Integers

CONSTANTS
  Digests,     \* definitions the repository may hold
  Requests,    \* request ids of manual invocations
  Due,         \* the minutes the schedule matches
  Handlers,    \* ticks, refreshes and invocations in flight together
  Window,      \* minutes a tick looks back for a due slot (5)
  Fresh,       \* minutes a refreshed catalog may be admitted from (10)
  Backstop,    \* RETIREMENT_BACKSTOP_MS
  PodLimit,    \* the executor's runtime limit of a worker
  MaxTime,     \* bound: minutes
  MaxChanges   \* bound: refreshes, operator decisions, invocations, cut-offs

ASSUME JobsAssumption ==
  /\ Window \in Nat \ {0} /\ Fresh \in Nat /\ PodLimit \in Nat \ {0} /\ Backstop \in Nat
  /\ PodLimit <= Backstop /\ MaxTime \in Nat /\ MaxChanges \in Nat
  /\ Due \subseteq 1 .. MaxTime

VARIABLES
  job,          \* the catalog document
  occurrences,  \* the occurrence documents
  work,         \* the run of each occurrence and its worker
  handlers,
  now,
  changes       \* changes left

vars == <<job, occurrences, work, handlers, now, changes>>

-----------------------------------------------------------------------------
(* The documents *)

None == "none"
Invalid == "invalid"  \* a manifest that does not parse
Gone == "gone"        \* a definition removed, or a source that could not be read

Operator == "operator"
Automation == "automation"

Ids == ({Operator, Automation} \X {"schedule"} \X Due) \cup ({Operator} \X {"manual"} \X Requests)

(* As its first refresh published it.                                      *)
Published(d) ==
  [digest |-> d, error |-> FALSE, refreshedAt |-> 0, enabled |-> TRUE, by |-> Automation,
   floor |-> 0, vetoed |-> FALSE, active |-> << >>, baseline |-> << >>]

NoOccurrence == [there |-> FALSE, digest |-> None, skipped |-> FALSE, artifact |-> None,
                 reconciled |-> FALSE]

(* result is the artifact a successful completion names; life what is left *)
(* of the worker's runtime; wait what is left of the backstop of a claimed *)
(* run that has settled and has not been retired by its executor's report. *)
NoWork == [run |-> None, result |-> None, wait |-> 0, life |-> 0]

Artifacts == {"complete", "incomplete"}

live(w) == w.run \in {"queued", "claimed", "started"}
working(w) == w.life > 0

settled(w, result) ==
  [w EXCEPT !.run = "settled", !.result = result,
            !.wait = IF w.run = "queued" THEN 0 ELSE Backstop]

change == changes > 0 /\ changes' = changes - 1

-----------------------------------------------------------------------------
(* Handlers *)

(* ready, by and floor are what a tick keeps of the job it listed.         *)
Idle == [pc |-> "idle", at |-> 0, id |-> << >>, digest |-> None, defer |-> FALSE,
         ready |-> FALSE, by |-> None, floor |-> 0, found |-> None]

go(h, x, pc) == handlers' = [handlers EXCEPT ![h] = [x EXCEPT !.pc = pc]]
end(h) == handlers' = [handlers EXCEPT ![h] = Idle]

-----------------------------------------------------------------------------
(* The catalog *)

(* The definition is fetched; the instant is the refresh's beginning.      *)
Refresh(h) ==
  /\ change /\ handlers[h] = Idle
  /\ \E found \in Digests \cup {Invalid, Gone} :
       go(h, [Idle EXCEPT !.at = now, !.digest = found], "publish")
  /\ UNCHANGED <<job, occurrences, work, now>>

\* Slip: a merged definition activates whatever the operator decided.
activates_Vetoed(d, grant) == d \in Digests /\ grant

activates(d, grant) == d \in Digests /\ ~job.vetoed /\ grant

(* An observation older than the stored one is dropped.  A definition that *)
(* is gone, broken or could not be read disables the job.                  *)
Publish(h) ==
  LET x         == handlers[h]
      unchanged == job.enabled /\ job.digest = x.digest
      row       == [job EXCEPT !.error = x.digest \notin Digests, !.refreshedAt = x.at,
                               !.digest = CASE x.digest = Gone    -> @
                                            [] x.digest = Invalid -> None
                                            [] OTHER              -> x.digest]
  IN  /\ x.pc = "publish" /\ end(h)
      /\ \/ job.refreshedAt > x.at /\ job' = job
         \/ job.refreshedAt <= x.at /\ unchanged /\ job' = row
         \/ /\ job.refreshedAt <= x.at /\ ~unchanged
            /\ \E grant \in BOOLEAN :
                 job' = IF activates(x.digest, grant)
                        THEN [row EXCEPT !.enabled = TRUE, !.by = Automation, !.floor = x.at]
                        ELSE [row EXCEPT !.enabled = FALSE]
      /\ UNCHANGED <<occurrences, work, now, changes>>

Enable ==
  /\ change /\ job.digest # None /\ ~job.error
  /\ job' = [job EXCEPT !.enabled = TRUE, !.by = Operator, !.floor = now, !.vetoed = FALSE]
  /\ UNCHANGED <<occurrences, work, handlers, now>>

Disable ==
  /\ change
  /\ job' = [job EXCEPT !.enabled = FALSE, !.vetoed = TRUE]
  /\ UNCHANGED <<occurrences, work, handlers, now>>

-----------------------------------------------------------------------------
(* Admission *)

(* By hand, at the definition of the request's receipt or the one in       *)
(* force; a named event waits while the job is busy, an explicit one is    *)
(* recorded as skipped.                                                    *)
Invoke(h, r, defer) ==
  LET id   == <<Operator, "manual", r>>
      seen == occurrences[id]
  IN  /\ change /\ handlers[h] = Idle /\ (job.digest # None \/ (defer /\ seen.there))
      /\ go(h, [Idle EXCEPT !.at = now, !.defer = defer, !.id = id,
                            !.digest = IF defer /\ seen.there THEN seen.digest ELSE job.digest],
            "admit")
      /\ UNCHANGED <<job, occurrences, work, now>>

eligible(x) ==
  /\ job.enabled /\ ~job.error /\ job.digest = x.digest /\ x.at - job.refreshedAt <= Fresh
  /\ x.defer => job.active = << >>
  /\ x.id[2] = "schedule" => x.at - x.id[3] <= Window /\ x.id[3] > job.floor

(* The occurrence and the active pointer commit together; a request seen   *)
(* before is answered with its receipt.                                    *)
Admit(h) ==
  LET x     == handlers[h]
      seen  == occurrences[x.id]
      skips == job.active # << >>
      mints == [Idle EXCEPT !.id = x.id]
  IN  /\ x.pc = "admit"
      /\ \/ end(h) /\ UNCHANGED <<job, occurrences>>     \* refused
         \/ /\ seen.there /\ seen.digest = x.digest /\ ~seen.skipped
            /\ go(h, mints, "mint") /\ UNCHANGED <<job, occurrences>>
         \/ /\ ~seen.there /\ eligible(x)
            /\ occurrences' = [occurrences EXCEPT ![x.id] =
                 [NoOccurrence EXCEPT !.there = TRUE, !.digest = x.digest, !.skipped = skips]]
            /\ job' = IF skips THEN job ELSE [job EXCEPT !.active = x.id]
            /\ IF skips THEN end(h) ELSE go(h, mints, "mint")
      /\ UNCHANGED <<work, now, changes>>

\* The Work of an occurrence, created once and only under a current grant.
minted(id, grant) ==
  IF work[id].run = None /\ grant THEN [work EXCEPT ![id].run = "queued"] ELSE work

Mint(h) ==
  /\ handlers[h].pc = "mint" /\ end(h)
  /\ \E grant \in BOOLEAN : work' = minted(handlers[h].id, grant)
  /\ UNCHANGED <<job, occurrences, now, changes>>

-----------------------------------------------------------------------------
(* The tick *)

ListJob(h) ==
  LET seen == [Idle EXCEPT !.id = job.active, !.digest = job.digest, !.by = job.by,
                           !.floor = job.floor, !.ready = job.enabled /\ ~job.error]
  IN  /\ handlers[h] = Idle
      /\ go(h, seen, IF job.active = << >> THEN "plan" ELSE "remint")
      /\ UNCHANGED <<job, occurrences, work, now, changes>>

(* An interrupted mint is made up for; refused, it ends this job's turn.   *)
(* Reservations of a deployment that kept credentials in the profile are   *)
(* left out: nothing creates one any more.                                 *)
Remint(h) ==
  LET x == handlers[h] IN
  /\ x.pc = "remint"
  /\ \E grant \in BOOLEAN : work' = minted(x.id, grant)
  /\ IF work'[x.id].run = None THEN end(h) ELSE go(h, x, "readRun")
  /\ UNCHANGED <<job, occurrences, now, changes>>

\* Slip: a settled run is taken for a stopped worker.
stopped_Settled(w) == w.run = "settled"

(* Settlement is no evidence that the worker has stopped: a claimed run    *)
(* waits for its executor's exit report, or for the backstop.              *)
stopped(w) == w.run = "settled" /\ w.wait = 0

ReadRun(h) ==
  LET x == handlers[h] IN
  /\ x.pc = "readRun"
  /\ IF stopped(work[x.id])
     THEN go(h, [x EXCEPT !.found = work[x.id].result], "reconcile")
     ELSE go(h, [x EXCEPT !.id = << >>], "plan")
  /\ UNCHANGED <<job, occurrences, work, now, changes>>

\* Slip: a staged artifact is a success.
succeeded_Staged(result, o) == o.artifact = "complete"

succeeded(result, o) == o.artifact = "complete" /\ result = o.artifact

\* Slip: the pointer is cleared whatever occurrence it names.
holdsPointer_Any(id) == TRUE

holdsPointer(id) == job.active = id

Reconcile(h) ==
  LET x == handlers[h]
      o == occurrences[x.id]
  IN  /\ x.pc = "reconcile" /\ go(h, [x EXCEPT !.id = << >>, !.found = None], "plan")
      /\ \/ /\ holdsPointer(x.id)
            /\ job' = [job EXCEPT !.active = << >>,
                                  !.baseline = IF succeeded(x.found, o) THEN x.id ELSE @]
            /\ occurrences' = [occurrences EXCEPT ![x.id].reconciled = TRUE]
         \/ ~holdsPointer(x.id) /\ UNCHANGED <<job, occurrences>>
      /\ UNCHANGED <<work, now, changes>>

(* The latest due minute of the window, under the job as listed.           *)
Plan(h) ==
  LET x    == handlers[h]
      due  == {m \in Due : m <= now /\ m > now - Window}
      slot == CHOOSE m \in due : \A n \in due : n <= m
  IN  /\ x.pc = "plan"
      /\ IF x.ready /\ due # {} /\ slot > x.floor
         THEN go(h, [Idle EXCEPT !.at = now, !.digest = x.digest, !.id = <<x.by, "schedule", slot>>],
                 "admit")
         ELSE end(h)
      /\ UNCHANGED <<job, occurrences, work, now, changes>>

(* A deadline, an error or a crash.                                        *)
CutOff(h) ==
  /\ change /\ handlers[h] # Idle /\ end(h)
  /\ UNCHANGED <<job, occurrences, work, now>>

-----------------------------------------------------------------------------
(* The run and its worker *)

ClaimRun(id) ==
  /\ work[id].run = "queued"
  /\ work' = [work EXCEPT ![id].run = "claimed"]
  /\ UNCHANGED <<job, occurrences, handlers, now, changes>>

(* Run-token routes refuse a settled run its recipe.                       *)
WorkerStarts(id) ==
  /\ work[id].run = "claimed"
  /\ work' = [work EXCEPT ![id].run = "started", ![id].life = PodLimit]
  /\ UNCHANGED <<job, occurrences, handlers, now, changes>>

(* The first half of recipeComplete.  The run may have settled since the   *)
(* call was let in.                                                        *)
Stage(id, a) ==
  /\ working(work[id])
  /\ occurrences[id].artifact = None /\ job.active = id /\ ~occurrences[id].reconciled
  /\ occurrences' = [occurrences EXCEPT ![id].artifact = a]
  /\ UNCHANGED <<job, work, handlers, now, changes>>

(* Its second half.                                                        *)
RecipeComplete(id) ==
  LET a == occurrences[id].artifact IN
  /\ working(work[id]) /\ work[id].run = "started" /\ a # None
  /\ work' = [work EXCEPT ![id] = settled(@, IF a = "complete" THEN a ELSE None)]
  /\ UNCHANGED <<job, occurrences, handlers, now, changes>>

(* Every other settlement: a cancellation, an expiry, a completion that    *)
(* names no artifact.                                                      *)
SettleRun(id) ==
  /\ live(work[id])
  /\ work' = [work EXCEPT ![id] = settled(@, None)]
  /\ UNCHANGED <<job, occurrences, handlers, now, changes>>

(* The executor's report, sent once the worker has physically stopped.  A  *)
(* worker that stops unreported is one that runs to its limit.             *)
ExitReport(id) ==
  LET w == work[id] IN
  /\ w.run \in {"claimed", "started"} \/ w.wait > 0
  /\ work' = [work EXCEPT ![id] =
       [(IF live(w) THEN settled(w, None) ELSE w) EXCEPT !.wait = 0, !.life = 0]]
  /\ UNCHANGED <<job, occurrences, handlers, now, changes>>

less1(n) == IF n > 0 THEN n - 1 ELSE n

\* Slip: nothing but the report frees the job.
waited_Never(n) == n

waited(n) == less1(n)

Clock ==
  /\ now' = IF now < MaxTime THEN now + 1 ELSE now
  /\ work' = [id \in Ids |-> [work[id] EXCEPT !.life = less1(@), !.wait = waited(@)]]
  /\ UNCHANGED <<job, occurrences, handlers, changes>>

-----------------------------------------------------------------------------
Init ==
  /\ job \in {Published(d) : d \in Digests}
  /\ occurrences = [id \in Ids |-> NoOccurrence]
  /\ work = [id \in Ids |-> NoWork]
  /\ handlers = [h \in Handlers |-> Idle]
  /\ now = 0 /\ changes = MaxChanges

Step(h) ==
  Publish(h) \/ Admit(h) \/ Mint(h) \/ Remint(h) \/ ReadRun(h) \/ Reconcile(h) \/ Plan(h)

Worker(id) ==
  \/ ClaimRun(id) \/ WorkerStarts(id) \/ RecipeComplete(id) \/ SettleRun(id) \/ ExitReport(id)
  \/ \E a \in Artifacts : Stage(id, a)

Next ==
  \/ Enable \/ Disable \/ Clock
  \/ \E h \in Handlers :
       \/ Refresh(h) \/ ListJob(h) \/ Step(h) \/ CutOff(h)
       \/ \E r \in Requests, defer \in BOOLEAN : Invoke(h, r, defer)
  \/ \E id \in Ids : Worker(id)

Spec == Init /\ [][Next]_vars

(* Maintenance ticks keep coming and time passes.  Nothing is asked of     *)
(* workers, executors or operators.                                        *)
Fairness ==
  /\ WF_vars(Clock)
  /\ \A h \in Handlers : WF_vars(Step(h))
  /\ SF_vars(\E h \in Handlers : ListJob(h))

FairSpec == Spec /\ Fairness

-----------------------------------------------------------------------------
(* Properties *)

(* Two workers of a job are never at work together, whatever was canceled, *)
(* lost, reported late or never, and however ticks overlap: an occurrence  *)
(* keeps the job until its worker has stopped (reconcile).                 *)
OneWorkerAtATime ==
  \A c, d \in Ids : working(work[c]) /\ working(work[d]) => c = d

(* The active pointer names exactly the occurrences that were admitted and *)
(* not reconciled: none is forgotten, and no overlapping tick frees the    *)
(* pointer of a newer one (admit, reconcile).                              *)
PointerNamesOpenOccurrence ==
  \A id \in Ids :
    LET o == occurrences[id] IN
    job.active = id <=> o.there /\ ~o.skipped /\ ~o.reconciled

(* The baseline is an occurrence whose run finished successfully with the  *)
(* artifact that is staged for it; failed, canceled and lost runs keep the *)
(* former one.                                                             *)
BaselineVerified ==
  job.baseline # << >> =>
    work[job.baseline].result = "complete" /\ occurrences[job.baseline].artifact = "complete"

(* The operator's veto stands until the operator lifts it: no refresh or   *)
(* changed definition enables the job, and no slot is admitted under it.   *)
VetoStands ==
  [][job.vetoed /\ job'.vetoed => ~job'.enabled /\ job'.active \in {job.active, << >>}]_vars

(* The occurrence of a settled run is reconciled in the end, its executor's *)
(* report lost or not.                                                     *)
SettledIsReconciled ==
  (job.active # << >> /\ work[job.active].run = "settled") ~> (job.active = << >>)

=============================================================================
