------------------------- MODULE RunLifecycleProofs -------------------------
(***************************************************************************)
(* Proofs about RunLifecycle for every value of its constants.             *)
(*                                                                         *)
(* The invariant is kept per document: RunInv about one Run, TaskInv about *)
(* a Task and its runs, EditInv about an in-flight close or edit.  A step  *)
(* is either a commit of a Task with its runs, a write of one Run, or a    *)
(* step of an edit, and one lemma per kind of write lifts the facts about  *)
(* the documents it writes to the whole store.                             *)
(***************************************************************************)
EXTENDS RunLifecycle, TLAPS

(* One Run: a credential operation belongs to a held claim; a pending      *)
(* completion is the claimant's and waits for a live operation; a result   *)
(* is the claimant's; a settled Codex claim owes or has proven its cleanup. *)
RunInv(r) ==
  /\ r.queue = "claimed" => r.token # NoToken
  /\ r.queue = "retired" => ~isLive(r)
  /\ r.operation # "none" => r.queue = "claimed" /\ usesCodexCredentials(r)
  /\ r.operation = "work" => isLive(r)
  /\ r.operation = "cleanup" => ~isLive(r)
  /\ r.pending # NoToken => r.operation = "work" /\ r.pending = r.token
  /\ r.state = "finished" => r.result # NoToken /\ r.result = r.token
  /\ usesCodexCredentials(r) /\ ~isLive(r) /\ r.queue \in {"claimed", "retired"} =>
       r.resolved \/ (r.queue = "claimed" /\ r.operation = "cleanup")

(* A Task and its runs: the lock names the one live run.                   *)
TaskInv(k, s) ==
  /\ k.active # NoRun => k.active \in DOMAIN s /\ isLive(s[k.active])
  /\ \A i \in DOMAIN s : isLive(s[i]) => k.active = i
  /\ k.closed => k.active = NoRun
  /\ \A i \in DOMAIN s : RunInv(s[i])

(* An edit whose read is still current knows the task and its lock.        *)
EditInv(e, k) ==
  /\ e.fresh => e.task = k
  /\ e.pc = "apply" /\ e.fresh => (e.live <=> k.active # NoRun)

LifecycleInv ==
  /\ \A t \in Tasks : TaskInv(tasks[t], runs[t])
  /\ \A t \in Tasks : \A x \in EditKinds : EditInv(edits[t][x], tasks[t])

IInv == TypeOK /\ LifecycleInv

-----------------------------------------------------------------------------
(* Facts about the documents *)

(* A run without a live lock may be rewritten only by a run of the same    *)
(* liveness.                                                               *)
LEMMA SameLiveness ==
  ASSUME NEW k \in Task, NEW s \in Seq(Run), TaskInv(k, s),
         NEW i \in DOMAIN s, NEW r \in Run, RunInv(r), isLive(r) <=> isLive(s[i])
  PROVE  /\ [s EXCEPT ![i] = r] \in Seq(Run)
         /\ TaskInv(k, [s EXCEPT ![i] = r])
BY DEF TaskInv, Task, NoRun

(* Settling a live run frees the lock that named it.                       *)
LEMMA SettledFreesLock ==
  ASSUME NEW k \in Task, NEW s \in Seq(Run), TaskInv(k, s),
         NEW i \in DOMAIN s, isLive(s[i]), NEW r \in Run, RunInv(r), ~isLive(r),
         NEW c \in Nat
  PROVE  LET n == [releaseLock(k, i) EXCEPT !.consecutiveLost = c]
         IN  /\ n \in Task /\ n.active = NoRun /\ n.closed = FALSE
             /\ [s EXCEPT ![i] = r] \in Seq(Run)
             /\ TaskInv(n, [s EXCEPT ![i] = r])
BY DEF TaskInv, Task, NoRun, releaseLock

(* Minting on a free lock.                                                 *)
LEMMA MintTakesLock ==
  ASSUME NEW k \in Task, NEW s \in Seq(Run), TaskInv(k, s), k.active = NoRun, ~k.closed,
         NEW r \in Run, RunInv(r), isLive(r)
  PROVE  /\ mintRun(k, s, r).task \in Task
         /\ mintRun(k, s, r).runs \in Seq(Run)
         /\ TaskInv(mintRun(k, s, r).task, mintRun(k, s, r).runs)
BY DEF TaskInv, Task, NoRun, mintRun

-----------------------------------------------------------------------------
(* Facts about the writes *)

LEMMA StaleEdits ==
  ASSUME NEW es \in [EditKinds -> Edit]
  PROVE  /\ stale(es) \in [EditKinds -> Edit]
         /\ \A x \in EditKinds : stale(es)[x].fresh = FALSE
<1>1. ASSUME NEW e \in Edit
      PROVE  [e EXCEPT !.fresh = FALSE] \in Edit /\ [e EXCEPT !.fresh = FALSE].fresh = FALSE
  BY DEF Edit
<1>2. \A x \in EditKinds : es[x] \in Edit
  OBVIOUS
<1> QED
  BY <1>1, <1>2, Zenon DEF stale

LEMMA CommitPreserves ==
  ASSUME IInv, NEW t \in Tasks, NEW k \in Task, NEW s \in Seq(Run), TaskInv(k, s),
         commit(t, k, s)
  PROVE  IInv'
<1>1. TypeOK'
  BY StaleEdits DEF IInv, TypeOK, commit
<1>2. \A u \in Tasks : TaskInv(tasks[u], runs[u])'
  BY DEF IInv, TypeOK, LifecycleInv, commit, TaskInv
<1>3. \A u \in Tasks : \A x \in EditKinds : EditInv(edits[u][x], tasks[u])'
  BY StaleEdits DEF IInv, TypeOK, LifecycleInv, commit, EditInv
<1> QED
  BY <1>1, <1>2, <1>3 DEF IInv, LifecycleInv

LEMMA CommitRunPreserves ==
  ASSUME IInv, NEW t \in Tasks, NEW i \in DOMAIN runs[t],
         NEW r \in Run, RunInv(r), isLive(r) <=> isLive(runs[t][i]),
         commitRun(t, i, r)
  PROVE  IInv'
<1> DEFINE s == [runs[t] EXCEPT ![i] = r]
<1>1. tasks[t] \in Task /\ runs[t] \in Seq(Run) /\ TaskInv(tasks[t], runs[t])
  BY DEF IInv, TypeOK, LifecycleInv
<1>2. s \in Seq(Run) /\ TaskInv(tasks[t], s)
  BY <1>1, SameLiveness
<1>3. commit(t, tasks[t], s)
  BY DEF commitRun
<1> HIDE DEF s
<1> QED
  BY <1>1, <1>2, <1>3, CommitPreserves

LEMMA WriteRunPreserves ==
  ASSUME IInv, NEW t \in Tasks, NEW i \in DOMAIN runs[t],
         NEW r \in Run, RunInv(r), isLive(r) <=> isLive(runs[t][i]),
         writeRun(t, i, r)
  PROVE  IInv'
<1> DEFINE s == [runs[t] EXCEPT ![i] = r]
<1>1. s \in Seq(Run) /\ TaskInv(tasks[t], s)
  BY SameLiveness DEF IInv, TypeOK, LifecycleInv
<1>2. runs' = [runs EXCEPT ![t] = s] /\ UNCHANGED <<tasks, edits>>
  BY DEF writeRun
<1>3. TypeOK'
  BY <1>1, <1>2 DEF IInv, TypeOK
<1>4. \A u \in Tasks : TaskInv(tasks[u], runs[u])'
  BY <1>1, <1>2 DEF IInv, TypeOK, LifecycleInv, TaskInv
<1>5. \A u \in Tasks : \A x \in EditKinds : EditInv(edits[u][x], tasks[u])'
  BY <1>2 DEF IInv, LifecycleInv, EditInv
<1> QED
  BY <1>3, <1>4, <1>5 DEF IInv, LifecycleInv

-----------------------------------------------------------------------------
(* Facts about the runs that decisions write *)

LEMMA NewRun ==
  ASSUME NEW p \in AllPipelines, NEW src \in {"caller", "auto-retry"},
         NEW req \in RequestIds \cup Nat
  PROVE  /\ newRun(p, src, req) \in Run
         /\ RunInv(newRun(p, src, req)) /\ isLive(newRun(p, src, req))
BY ConstantsAssumption
   DEF newRun, Run, RunInv, isLive, LiveStates, RunStates, NoToken, usesCodexCredentials

(* What RunInv reads of a Run, apart from its state.                       *)
SameClaim(n, r) ==
  /\ n.pipeline = r.pipeline /\ n.queue = r.queue /\ n.token = r.token
  /\ n.operation = r.operation /\ n.pending = r.pending /\ n.result = r.result
  /\ n.resolved = r.resolved

LEMMA KeptRun ==
  ASSUME NEW r \in Run, NEW n \in Run, RunInv(r), SameClaim(n, r),
         n.state = r.state \/ (isLive(n) /\ isLive(r))
  PROVE  RunInv(n) /\ (isLive(n) <=> isLive(r))
BY DEF RunInv, SameClaim, isLive, LiveStates, usesCodexCredentials

LEMMA SettleFields ==
  ASSUME NEW r \in Run, NEW st \in RunStates
  PROVE  settle(r, st) \in Run /\ settle(r, st).state = st /\ SameClaim(settle(r, st), r)
BY DEF settle, Run, SameClaim

LEMMA CleanupFields ==
  ASSUME NEW r \in Run
  PROVE  LET n == withCleanup(r)
         IN  /\ n \in Run /\ n.state = r.state
             /\ n.pipeline = r.pipeline /\ n.queue = r.queue /\ n.token = r.token
             /\ n.pending = r.pending /\ n.result = r.result /\ n.resolved = r.resolved
             /\ n.operation =
                  IF usesCodexCredentials(r) /\ r.queue = "claimed" /\ r.operation = "none"
                  THEN "cleanup" ELSE r.operation
BY DEF withCleanup, Run

(* A settled run that kept a live run's claim, with its cleanup reserved.  *)
LEMMA CleanupRunInv ==
  ASSUME NEW r \in Run, NEW a \in Run, RunInv(r), isLive(r), r.operation = "none",
         ~isLive(a), a.pipeline = r.pipeline, a.token = r.token, a.operation = "none",
         a.pending = NoToken, a.resolved = r.resolved,
         a.queue = r.queue \/ (a.queue = "retired" /\ ~usesCodexCredentials(a)),
         a.state = "finished" => a.result = a.token /\ a.queue = "claimed"
  PROVE  withCleanup(a) \in Run /\ RunInv(withCleanup(a)) /\ ~isLive(withCleanup(a))
<1> DEFINE n == withCleanup(a)
<1>1. /\ n \in Run /\ n.state = a.state
      /\ n.pipeline = a.pipeline /\ n.queue = a.queue /\ n.token = a.token
      /\ n.pending = a.pending /\ n.result = a.result
      /\ n.operation = IF usesCodexCredentials(a) /\ a.queue = "claimed"
                       THEN "cleanup" ELSE "none"
  BY CleanupFields
<1> HIDE DEF n
<1>2. ~isLive(n)
  BY <1>1 DEF isLive
<1>3. r.queue # "retired" /\ (r.queue = "claimed" => r.token # NoToken)
  BY DEF RunInv
<1>4. RunInv(n)
  BY <1>1, <1>2, <1>3 DEF RunInv, usesCodexCredentials, isLive
<1> QED
  BY <1>1, <1>2, <1>4 DEF n

LEMMA SettledRun ==
  ASSUME NEW r \in Run, RunInv(r), isLive(r), r.operation = "none",
         NEW st \in {"canceled", "lost"}
  PROVE  LET n == withCleanup(settle(r, st))
         IN  n \in Run /\ RunInv(n) /\ ~isLive(n)
<1> DEFINE a == settle(r, st)
<1>1. a \in Run /\ a.state = st /\ SameClaim(a, r)
  BY SettleFields DEF RunStates
<1> HIDE DEF a
<1>2. ~isLive(a) /\ a.pending = NoToken
  BY <1>1 DEF isLive, LiveStates, SameClaim, RunInv
<1> QED
  BY <1>1, <1>2, CleanupRunInv DEF SameClaim, a

LEMMA ExitedRun ==
  ASSUME NEW r \in Run, RunInv(r), isLive(r), r.operation = "none"
  PROVE  LET x == changeClaimedExit([r EXCEPT !.exited = TRUE])
             n == withCleanup(settle(x, "lost"))
         IN  x.pipeline = r.pipeline /\ n \in Run /\ RunInv(n) /\ ~isLive(n)
<1> DEFINE e == [r EXCEPT !.exited = TRUE]
           x == changeClaimedExit(e)
           a == settle(x, "lost")
<1>1. e \in Run /\ SameClaim(e, r)
  BY DEF Run, SameClaim
<1> HIDE DEF e
<1>2. /\ x \in Run /\ x.pipeline = e.pipeline /\ x.token = e.token
      /\ x.operation = e.operation /\ x.pending = e.pending /\ x.resolved = e.resolved
      /\ x.queue = e.queue \/ (x.queue = "retired" /\ ~usesCodexCredentials(e))
  BY <1>1 DEF Run, changeClaimedExit
<1> HIDE DEF x
<1>3. a \in Run /\ a.state = "lost" /\ SameClaim(a, x)
  BY <1>2, SettleFields DEF RunStates
<1> HIDE DEF a
<1>4. ~isLive(a) /\ a.pending = NoToken
  BY <1>1, <1>2, <1>3 DEF isLive, LiveStates, SameClaim, RunInv
<1>5. a.queue = r.queue \/ (a.queue = "retired" /\ ~usesCodexCredentials(a))
  BY <1>1, <1>2, <1>3 DEF SameClaim, usesCodexCredentials
<1>6. withCleanup(a) \in Run /\ RunInv(withCleanup(a)) /\ ~isLive(withCleanup(a))
  BY <1>1, <1>2, <1>3, <1>4, <1>5, CleanupRunInv DEF SameClaim
<1> QED
  BY <1>1, <1>2, <1>6 DEF a, x, e, SameClaim

LEMMA FinishFields ==
  ASSUME NEW r \in Run, NEW token \in Nat
  PROVE  LET n == finishRun(r, token)
         IN  /\ n \in Run /\ n.state = "finished" /\ n.result = token /\ n.pending = NoToken
             /\ n.pipeline = r.pipeline /\ n.queue = r.queue /\ n.token = r.token
             /\ n.operation = r.operation /\ n.resolved = r.resolved
BY DEF finishRun, settle, Run, RunStates, NoToken

LEMMA FinishedRun ==
  ASSUME NEW r \in Run, RunInv(r), isLive(r), r.operation = "none", r.queue = "claimed"
  PROVE  LET n == withCleanup(finishRun(r, r.token))
         IN  n \in Run /\ RunInv(n) /\ ~isLive(n)
<1> DEFINE a == finishRun(r, r.token)
<1>1. r.token \in Nat
  BY DEF Run
<1>2. /\ a \in Run /\ a.state = "finished" /\ a.result = r.token /\ a.pending = NoToken
      /\ a.pipeline = r.pipeline /\ a.queue = r.queue /\ a.token = r.token
      /\ a.operation = r.operation /\ a.resolved = r.resolved
  BY <1>1, FinishFields
<1> HIDE DEF a
<1>3. ~isLive(a)
  BY <1>2 DEF isLive, LiveStates
<1> QED
  BY <1>2, <1>3, CleanupRunInv DEF a

LEMMA LostTask ==
  ASSUME NEW k \in Task, NEW s \in Seq(Run), TaskInv(k, s),
         NEW i \in DOMAIN s, isLive(s[i]),
         NEW lost, lost.pipeline \in AllPipelines,
         withCleanup(settle(lost, "lost")) \in Run,
         RunInv(withCleanup(settle(lost, "lost"))),
         ~isLive(withCleanup(settle(lost, "lost")))
  PROVE  LET d == settleLostAndRetry(k, s, i, lost)
         IN  d.task \in Task /\ d.runs \in Seq(Run) /\ TaskInv(d.task, d.runs)
<1> DEFINE n        == withCleanup(settle(lost, "lost"))
           released == [releaseLock(k, i) EXCEPT !.consecutiveLost = k.consecutiveLost + 1]
           settled  == [s EXCEPT ![i] = n]
<1>1. released = [releaseLock(k, i) EXCEPT !.consecutiveLost = @ + 1]
  BY DEF releaseLock, Task
<1>2. /\ released \in Task /\ released.active = NoRun /\ released.closed = FALSE
      /\ settled \in Seq(Run) /\ TaskInv(released, settled)
  <2>1. k.consecutiveLost + 1 \in Nat
    BY DEF Task
  <2> QED
    BY <2>1, SettledFreesLock
<1>3. i \in RequestIds \cup Nat
  OBVIOUS
<1> DEFINE m == newRun(lost.pipeline, "auto-retry", i)
<1>4. m \in Run /\ RunInv(m) /\ isLive(m)
  BY <1>3, NewRun
<1>5. LET d == mintRun(released, settled, m)
      IN  d.task \in Task /\ d.runs \in Seq(Run) /\ TaskInv(d.task, d.runs)
  <2> HIDE DEF m, released, settled
  <2> QED
    BY <1>2, <1>4, MintTakesLock
<1>6. \/ settleLostAndRetry(k, s, i, lost) = [task |-> released, runs |-> settled]
      \/ settleLostAndRetry(k, s, i, lost) = mintRun(released, settled, m)
  BY <1>1 DEF settleLostAndRetry
<1> HIDE DEF m, released, settled
<1> QED
  BY <1>2, <1>5, <1>6

-----------------------------------------------------------------------------
(* The actions, one lemma each *)

LEMMA TaskFacts ==
  ASSUME IInv, NEW t \in Tasks
  PROVE  tasks[t] \in Task /\ runs[t] \in Seq(Run) /\ TaskInv(tasks[t], runs[t])
BY DEF IInv, TypeOK, LifecycleInv

LEMMA RunFacts ==
  ASSUME IInv, NEW t \in Tasks, NEW i \in DOMAIN runs[t]
  PROVE  /\ runs[t][i] \in Run /\ RunInv(runs[t][i])
         /\ isLive(runs[t][i]) => tasks[t].active = i
BY TaskFacts DEF TaskInv

LEMMA FreeLock ==
  ASSUME NEW k \in Task, NEW s \in Seq(Run), TaskInv(k, s), ~activeIsLive(k, s)
  PROVE  k.active = NoRun
BY DEF TaskInv, activeIsLive

LEMMA RequestStep ==
  ASSUME IInv, NEW t \in Tasks, NEW p \in Pipelines, NEW id \in RequestIds, Request(t, p, id)
  PROVE  IInv'
<1> DEFINE r == newRun(p, "caller", id)
<1>1. r \in Run /\ RunInv(r) /\ isLive(r)
  BY NewRun, ConstantsAssumption
<1> HIDE DEF r
<1>2. tasks[t].active = NoRun /\ ~tasks[t].closed
  BY TaskFacts, FreeLock DEF Request
<1>3. LET d == mintRun(tasks[t], runs[t], r)
      IN  d.task \in Task /\ d.runs \in Seq(Run) /\ TaskInv(d.task, d.runs)
  BY <1>1, <1>2, TaskFacts, MintTakesLock
<1>4. commit(t, mintRun(tasks[t], runs[t], r).task, mintRun(tasks[t], runs[t], r).runs)
  BY DEF Request, r
<1> QED
  BY <1>3, <1>4, CommitPreserves

LEMMA ReplaceQueuedRunStep ==
  ASSUME IInv, NEW t \in Tasks, NEW p \in Pipelines, NEW id \in RequestIds,
         ReplaceQueuedRun(t, p, id)
  PROVE  IInv'
<1> DEFINE a == tasks[t].active
           r == newRun(p, "caller", id)
           c == settle(runs[t][a], "canceled")
           k == resetLossBudgets(releaseLock(tasks[t], a))
           s == [runs[t] EXCEPT ![a] = c]
<1>1. r \in Run /\ RunInv(r) /\ isLive(r)
  BY NewRun, ConstantsAssumption
<1>2. /\ a \in DOMAIN runs[t] /\ isLive(runs[t][a])
      /\ runs[t][a].queue = "queued" /\ runs[t][a].operation = "none"
  BY TaskFacts DEF ReplaceQueuedRun, activeIsLive, TaskInv
<1>3. c \in Run /\ c.state = "canceled" /\ SameClaim(c, runs[t][a])
  BY <1>2, RunFacts, SettleFields DEF RunStates
<1> HIDE DEF c
<1>4. ~isLive(c) /\ RunInv(c)
  BY <1>2, <1>3, RunFacts DEF isLive, LiveStates, RunInv, SameClaim
<1>5. /\ k \in Task /\ k.active = NoRun /\ k.closed = FALSE
      /\ s \in Seq(Run) /\ TaskInv(k, s)
  BY <1>2, <1>3, <1>4, TaskFacts, SettledFreesLock DEF resetLossBudgets
<1>6. commit(t, mintRun(k, s, r).task, mintRun(k, s, r).runs)
  BY DEF ReplaceQueuedRun, c
<1> HIDE DEF k, s, r
<1>7. LET d == mintRun(k, s, r)
      IN  d.task \in Task /\ d.runs \in Seq(Run) /\ TaskInv(d.task, d.runs)
  BY <1>1, <1>5, MintTakesLock
<1> QED
  BY <1>6, <1>7, CommitPreserves

LEMMA DispatchReadStep ==
  ASSUME IInv, NEW t \in Tasks, NEW i \in DOMAIN runs[t], DispatchRead(t, i)
  PROVE  IInv'
<1> DEFINE r == runs[t][i]
           n == [r EXCEPT !.dispatch = IF r.state = "pending" THEN "read" ELSE "done"]
<1>1. n \in Run /\ n.state = r.state /\ SameClaim(n, r)
  BY RunFacts DEF Run, SameClaim
<1>2. writeRun(t, i, n)
  BY DEF DispatchRead
<1> HIDE DEF n
<1> QED
  BY <1>1, <1>2, RunFacts, KeptRun, WriteRunPreserves

LEMMA DispatchEnqueueStep ==
  ASSUME IInv, NEW t \in Tasks, NEW i \in DOMAIN runs[t], DispatchEnqueue(t, i)
  PROVE  IInv'
<1> DEFINE r == runs[t][i]
           n == [r EXCEPT !.dispatch = "enqueued", !.queue = IF @ = "none" THEN "queued" ELSE @]
<1>1. /\ n \in Run /\ n.state = r.state /\ n.pipeline = r.pipeline /\ n.token = r.token
      /\ n.operation = r.operation /\ n.pending = r.pending /\ n.result = r.result
      /\ n.resolved = r.resolved
      /\ n.queue = r.queue \/ (r.queue = "none" /\ n.queue = "queued")
  <2>1. r \in Run
    BY RunFacts
  <2> HIDE DEF r
  <2> QED
    BY <2>1 DEF Run
<1>2. writeRun(t, i, n)
  BY DEF DispatchEnqueue
<1> HIDE DEF n
<1>3. RunInv(n) /\ (isLive(n) <=> isLive(r))
  BY <1>1, RunFacts DEF RunInv, isLive, usesCodexCredentials
<1> QED
  BY <1>1, <1>2, <1>3, WriteRunPreserves

LEMMA DispatchConfirmStep ==
  ASSUME IInv, NEW t \in Tasks, NEW i \in DOMAIN runs[t], DispatchConfirm(t, i)
  PROVE  IInv'
<1> DEFINE r == runs[t][i]
           n == [r EXCEPT !.dispatch = "done"]
           m == [n EXCEPT !.state = "running", !.lease = RunLease]
<1>1. n \in Run /\ n.state = r.state /\ SameClaim(n, r)
  BY RunFacts DEF Run, SameClaim
<1>2. m \in Run /\ m.state = "running" /\ SameClaim(m, r)
  <2> HIDE DEF n
  <2>1. RunLease \in Nat
    BY ConstantsAssumption
  <2> QED
    BY <1>1, <2>1 DEF Run, SameClaim, RunStates, LiveStates
<1>3. \/ r.state = "pending" /\ commitRun(t, i, m)
      \/ commitRun(t, i, n) \/ writeRun(t, i, n)
  BY DEF DispatchConfirm
<1> HIDE DEF n, m
<1>4. CASE r.state = "pending" /\ commitRun(t, i, m)
  <2>1. isLive(m) /\ isLive(r)
    BY <1>2, <1>4 DEF isLive, LiveStates
  <2> QED
    BY <1>2, <1>4, <2>1, RunFacts, KeptRun, CommitRunPreserves
<1>5. CASE commitRun(t, i, n)
  BY <1>1, <1>5, RunFacts, KeptRun, CommitRunPreserves
<1>6. CASE writeRun(t, i, n)
  BY <1>1, <1>6, RunFacts, KeptRun, WriteRunPreserves
<1> QED
  BY <1>3, <1>4, <1>5, <1>6

LEMMA DispatchLapseStep ==
  ASSUME IInv, NEW t \in Tasks, NEW i \in DOMAIN runs[t], DispatchLapse(t, i)
  PROVE  IInv'
<1> DEFINE r == runs[t][i]
           n == [r EXCEPT !.dispatch = "pending"]
<1>1. n \in Run /\ n.state = r.state /\ SameClaim(n, r)
  BY RunFacts DEF Run, SameClaim
<1>2. writeRun(t, i, n)
  BY DEF DispatchLapse
<1> HIDE DEF n
<1> QED
  BY <1>1, <1>2, RunFacts, KeptRun, WriteRunPreserves

LEMMA ClaimStep ==
  ASSUME IInv, NEW t \in Tasks, NEW i \in DOMAIN runs[t], NEW aware \in BOOLEAN,
         Claim(t, i, aware)
  PROVE  IInv'
<1> DEFINE r == runs[t][i]
           n == claimQueuedRun(r, aware)
<1>1. /\ n \in Run /\ n.state = r.state /\ n.pipeline = r.pipeline /\ n.queue = "claimed"
      /\ n.token = r.token + 1 /\ n.operation = r.operation /\ n.pending = r.pending
      /\ n.result = r.result /\ n.resolved = r.resolved
  <2>1. r \in Run
    BY RunFacts
  <2>2. RunLease \in Nat /\ StartTimeout \in Nat /\ PlacementWaitMax \in Nat
    BY ConstantsAssumption
  <2> HIDE DEF r
  <2>3. r.token + 1 \in Nat
    BY <2>1 DEF Run
  <2>4. (IF aware THEN "waiting" ELSE "none") \in {"none", "waiting", "placed"}
    OBVIOUS
  <2>5. n \in Run
    BY <2>1, <2>2, <2>3, <2>4 DEF Run, claimQueuedRun
  <2> QED
    BY <2>1, <2>5 DEF Run, claimQueuedRun
<1>2. writeRun(t, i, n) /\ isLive(r) /\ r.operation = "none"
  BY DEF Claim
<1> HIDE DEF n
<1>3. r.token \in Nat
  BY RunFacts DEF Run
<1>4. RunInv(n) /\ isLive(n)
  BY <1>1, <1>2, <1>3, RunFacts DEF RunInv, isLive, LiveStates, NoToken
<1> QED
  BY <1>1, <1>2, <1>4, WriteRunPreserves

LEMMA ReleaseClaimStep ==
  ASSUME IInv, NEW t \in Tasks, NEW i \in DOMAIN runs[t], NEW token, NEW deferred \in BOOLEAN,
         ReleaseClaim(t, i, token, deferred)
  PROVE  IInv'
<1> DEFINE r == runs[t][i]
           n == [r EXCEPT !.queue = "queued", !.deferred = deferred,
                          !.placement = "none", !.beat = FALSE, !.start = 0, !.wait = 0]
<1>1. /\ n \in Run /\ n.state = r.state /\ n.pipeline = r.pipeline /\ n.queue = "queued"
      /\ n.token = r.token /\ n.operation = r.operation /\ n.pending = r.pending
      /\ n.result = r.result
  <2>1. r \in Run
    BY RunFacts
  <2> HIDE DEF r
  <2> QED
    BY <2>1 DEF Run
<1>2. writeRun(t, i, n) /\ isLive(r) /\ r.operation = "none"
  BY DEF ReleaseClaim
<1> HIDE DEF n
<1>3. RunInv(n) /\ isLive(n)
  BY <1>1, <1>2, RunFacts DEF RunInv, isLive, LiveStates
<1> QED
  BY <1>1, <1>2, <1>3, WriteRunPreserves

LEMMA ObserveStartupPlacementStep ==
  ASSUME IInv, NEW t \in Tasks, NEW i \in DOMAIN runs[t], NEW token, NEW placed \in BOOLEAN,
         ObserveStartupPlacement(t, i, token, placed)
  PROVE  IInv'
<1> DEFINE r == runs[t][i]
           n == [r EXCEPT !.placement = IF placed THEN "placed" ELSE "waiting",
                          !.start = IF placed THEN StartTimeout
                                    ELSE Min2(StartTimeout, r.wait),
                          !.lease = RunLease]
<1>1. r \in Run /\ RunInv(r)
  BY RunFacts
<1>2. commitRun(t, i, r) \/ commitRun(t, i, n)
  BY DEF ObserveStartupPlacement
<1>3. n \in Run /\ n.state = r.state /\ SameClaim(n, r)
  <2> HIDE DEF r
  <2>1. RunLease \in Nat /\ StartTimeout \in Nat
    BY ConstantsAssumption
  <2>2. Min2(StartTimeout, r.wait) \in Nat
    BY <1>1, <2>1 DEF Run, Min2
  <2> QED
    BY <1>1, <2>1, <2>2 DEF Run, SameClaim
<1> HIDE DEF n
<1>4. CASE commitRun(t, i, r)
  BY <1>1, <1>4, CommitRunPreserves
<1>5. CASE commitRun(t, i, n)
  BY <1>1, <1>3, <1>5, KeptRun, CommitRunPreserves
<1> QED
  BY <1>2, <1>4, <1>5

LEMMA RenewLeaseStep ==
  ASSUME IInv, NEW t \in Tasks, NEW i \in DOMAIN runs[t], NEW token, RenewLease(t, i, token)
  PROVE  IInv'
<1> DEFINE r == runs[t][i]
           n == [r EXCEPT !.beat = TRUE, !.lease = RunLease]
<1>1. r \in Run /\ RunInv(r)
  BY RunFacts
<1>2. commitRun(t, i, n)
  BY DEF RenewLease
<1>3. n \in Run /\ n.state = r.state /\ SameClaim(n, r)
  <2> HIDE DEF r
  <2>1. RunLease \in Nat
    BY ConstantsAssumption
  <2> QED
    BY <1>1, <2>1 DEF Run, SameClaim
<1> HIDE DEF n
<1> QED
  BY <1>1, <1>2, <1>3, KeptRun, CommitRunPreserves

LEMMA ReserveCredentialOperationStep ==
  ASSUME IInv, NEW t \in Tasks, NEW i \in DOMAIN runs[t], NEW token,
         ReserveCredentialOperation(t, i, token)
  PROVE  IInv'
<1> DEFINE r == runs[t][i]
           n == [r EXCEPT !.operation = "work"]
<1>1. r \in Run /\ RunInv(r)
  BY RunFacts
<1>2. /\ commitRun(t, i, n) /\ isLive(r) /\ usesCodexCredentials(r)
      /\ r.queue = "claimed" /\ r.operation = "none"
  BY DEF ReserveCredentialOperation, isClaimant
<1>3. /\ n \in Run /\ n.state = r.state /\ n.pipeline = r.pipeline /\ n.queue = r.queue
      /\ n.token = r.token /\ n.operation = "work" /\ n.pending = r.pending
      /\ n.result = r.result
  <2> HIDE DEF r
  <2> QED
    BY <1>1 DEF Run
<1> HIDE DEF n
<1>4. RunInv(n) /\ isLive(n)
  BY <1>1, <1>2, <1>3 DEF RunInv, isLive, LiveStates, usesCodexCredentials
<1> QED
  BY <1>2, <1>3, <1>4, CommitRunPreserves

LEMMA ReserveCleanupStep ==
  ASSUME IInv, NEW t \in Tasks, NEW i \in DOMAIN runs[t], NEW token, ReserveCleanup(t, i, token)
  PROVE  IInv'
<1> DEFINE r == runs[t][i]
           n == [r EXCEPT !.operation = "cleanup"]
<1>1. r \in Run /\ RunInv(r)
  BY RunFacts
<1>2. /\ commitRun(t, i, n) /\ ~isLive(r) /\ usesCodexCredentials(r)
      /\ r.queue = "claimed" /\ r.operation = "none"
  BY DEF ReserveCleanup, isClaimant
<1>3. /\ n \in Run /\ n.state = r.state /\ n.pipeline = r.pipeline /\ n.queue = r.queue
      /\ n.token = r.token /\ n.operation = "cleanup" /\ n.pending = r.pending
      /\ n.result = r.result
  <2> HIDE DEF r
  <2> QED
    BY <1>1 DEF Run
<1> HIDE DEF n
<1>4. RunInv(n) /\ ~isLive(n)
  BY <1>1, <1>2, <1>3 DEF RunInv, isLive, usesCodexCredentials
<1> QED
  BY <1>2, <1>3, <1>4, CommitRunPreserves

LEMMA CancelStep ==
  ASSUME IInv, NEW t \in Tasks, NEW i \in DOMAIN runs[t], Cancel(t, i)
  PROVE  IInv'
<1> DEFINE r == runs[t][i]
           n == withCleanup(settle(r, "canceled"))
           k == resetLossBudgets(releaseLock(tasks[t], i))
           s == [runs[t] EXCEPT ![i] = n]
<1>1. r \in Run /\ RunInv(r) /\ isLive(r) /\ r.operation = "none"
  BY RunFacts DEF Cancel
<1>2. n \in Run /\ RunInv(n) /\ ~isLive(n)
  BY <1>1, SettledRun
<1>3. commit(t, k, s)
  BY DEF Cancel
<1> HIDE DEF n
<1>4. k \in Task /\ s \in Seq(Run) /\ TaskInv(k, s)
  BY <1>1, <1>2, TaskFacts, SettledFreesLock DEF resetLossBudgets
<1> QED
  BY <1>3, <1>4, CommitPreserves

LEMMA ReportStep ==
  ASSUME IInv, NEW t \in Tasks, NEW i \in DOMAIN runs[t], NEW token, Report(t, i, token)
  PROVE  IInv'
<1> DEFINE r == runs[t][i]
           w == [r EXCEPT !.pending = token]
           n == withCleanup(finishRun(r, token))
           k == resetLossBudgets(releaseLock(tasks[t], i))
           s == [runs[t] EXCEPT ![i] = n]
<1>1. r \in Run /\ RunInv(r) /\ isLive(r) /\ r.queue = "claimed" /\ r.token = token
  BY RunFacts DEF Report, isClaimant
<1>2. CASE r.operation # "none" /\ commitRun(t, i, w)
  <2>1. /\ w \in Run /\ w.state = r.state /\ w.pipeline = r.pipeline /\ w.queue = r.queue
        /\ w.token = r.token /\ w.operation = r.operation /\ w.pending = r.token
        /\ w.result = r.result
    <3> HIDE DEF r
    <3> QED
      BY <1>1 DEF Run
  <2> HIDE DEF w
  <2>2. RunInv(w) /\ isLive(w)
    BY <1>1, <1>2, <2>1 DEF RunInv, isLive, LiveStates, usesCodexCredentials, Run
  <2> QED
    BY <1>1, <1>2, <2>1, <2>2, CommitRunPreserves
<1>3. CASE r.operation = "none" /\ commit(t, k, s)
  <2>1. n \in Run /\ RunInv(n) /\ ~isLive(n)
    BY <1>1, <1>3, FinishedRun
  <2> HIDE DEF n
  <2>2. k \in Task /\ s \in Seq(Run) /\ TaskInv(k, s)
    BY <1>1, <2>1, TaskFacts, SettledFreesLock DEF resetLossBudgets
  <2> QED
    BY <1>3, <2>2, CommitPreserves
<1> QED
  BY <1>2, <1>3 DEF Report

LEMMA FinishOperationFields ==
  ASSUME NEW r \in Run
  PROVE  LET n == finishCredentialOperation(r)
         IN  /\ n \in Run /\ n.state = r.state /\ n.pipeline = r.pipeline /\ n.token = r.token
             /\ n.operation = "none" /\ n.pending = r.pending /\ n.result = r.result
             /\ n.resolved = (r.resolved \/ r.operation = "cleanup" \/ r.pending # NoToken)
             /\ n.queue = r.queue \/ (n.queue = "retired" /\ ~isLive(r))
<1> DEFINE b == r.resolved \/ r.operation = "cleanup" \/ r.pending # NoToken
           x == [r EXCEPT !.operation = "none", !.resolved = b]
           y == [x EXCEPT !.queue = "retired"]
<1>1. b \in BOOLEAN
  BY DEF Run
<1>2. /\ finishCredentialOperation(r) = x \/ finishCredentialOperation(r) = y
      /\ isLive(r) => finishCredentialOperation(r) = x
  BY DEF finishCredentialOperation
<1> HIDE DEF b
<1>3. x \in Run
  BY <1>1 DEF Run
<1>4. /\ x.state = r.state /\ x.pipeline = r.pipeline /\ x.token = r.token
      /\ x.operation = "none" /\ x.pending = r.pending /\ x.result = r.result
      /\ x.queue = r.queue
  BY DEF Run
<1>5. x.resolved = b
  BY Zenon DEF Run
<1> HIDE DEF x
<1>6. y \in Run
  BY <1>3 DEF Run
<1>7. /\ y.state = x.state /\ y.pipeline = x.pipeline /\ y.token = x.token
      /\ y.operation = x.operation /\ y.pending = x.pending /\ y.result = x.result
      /\ y.queue = "retired"
  BY <1>3 DEF Run
<1>8. y.resolved = x.resolved
  BY <1>3, Zenon DEF Run
<1> HIDE DEF y
<1> QED
  BY <1>2, <1>3, <1>4, <1>5, <1>6, <1>7, <1>8 DEF b

LEMMA FinishCredentialOperationStep ==
  ASSUME IInv, NEW t \in Tasks, NEW i \in DOMAIN runs[t], FinishCredentialOperation(t, i)
  PROVE  IInv'
<1> DEFINE r == runs[t][i]
           c == finishCredentialOperation(r)
           n == finishRun(c, r.pending)
           k == resetLossBudgets(releaseLock(tasks[t], i))
           s == [runs[t] EXCEPT ![i] = n]
<1>1. r \in Run /\ RunInv(r) /\ r.operation # "none" /\ r.queue = "claimed"
  BY RunFacts DEF FinishCredentialOperation
<1>2. /\ c \in Run /\ c.state = r.state /\ c.pipeline = r.pipeline /\ c.token = r.token
      /\ c.operation = "none" /\ c.pending = r.pending /\ c.result = r.result
      /\ c.resolved = (r.resolved \/ r.operation = "cleanup" \/ r.pending # NoToken)
      /\ c.queue = r.queue \/ (c.queue = "retired" /\ ~isLive(r))
  <2> HIDE DEF r
  <2> QED
    BY <1>1, FinishOperationFields
<1> HIDE DEF c
<1>3. CASE r.pending = NoToken /\ commitRun(t, i, c)
  <2>1. isLive(c) <=> isLive(r)
    BY <1>2 DEF isLive
  <2>2. ~isLive(r) => r.operation = "cleanup"
    BY <1>1 DEF RunInv, Run
  <2>3. ~isLive(c) => c.resolved = TRUE
    BY <1>1, <1>2, <2>1, <2>2 DEF Run
  <2>4. RunInv(c)
    BY <1>1, <1>2, <1>3, <2>1, <2>3 DEF RunInv, usesCodexCredentials
  <2> QED
    BY <1>2, <1>3, <2>1, <2>4, CommitRunPreserves
<1>4. CASE /\ r.pending # NoToken /\ isLive(r) /\ r.token = r.pending
           /\ commit(t, k, s)
  <2>1. /\ n \in Run /\ n.state = "finished" /\ n.result = r.pending /\ n.pending = NoToken
        /\ n.pipeline = c.pipeline /\ n.queue = c.queue /\ n.token = c.token
        /\ n.operation = c.operation /\ n.resolved = c.resolved
    <3>1. r.pending \in Nat
      BY <1>1 DEF Run
    <3> HIDE DEF r
    <3> QED
      BY <1>2, <3>1, FinishFields
  <2> HIDE DEF n
  <2>2. ~isLive(n)
    BY <2>1 DEF isLive, LiveStates
  <2>3. n.resolved = TRUE
    BY <1>1, <1>2, <1>4, <2>1 DEF Run
  <2>4. RunInv(n)
    BY <1>1, <1>2, <1>4, <2>1, <2>2, <2>3 DEF RunInv
  <2>5. k \in Task /\ s \in Seq(Run) /\ TaskInv(k, s)
    BY <1>4, <2>1, <2>2, <2>4, TaskFacts, SettledFreesLock DEF resetLossBudgets
  <2> QED
    BY <1>4, <2>5, CommitPreserves
<1> QED
  BY <1>3, <1>4 DEF FinishCredentialOperation, isClaimant, c

LEMMA ExpireStep ==
  ASSUME IInv, NEW t \in Tasks, NEW i \in DOMAIN runs[t], Expire(t, i)
  PROVE  IInv'
<1> DEFINE r == runs[t][i]
           d == settleLostAndRetry(tasks[t], runs[t], i, r)
<1>1. r \in Run /\ RunInv(r) /\ isLive(r) /\ r.operation = "none"
  BY RunFacts DEF Expire
<1>2. /\ withCleanup(settle(r, "lost")) \in Run
      /\ RunInv(withCleanup(settle(r, "lost")))
      /\ ~isLive(withCleanup(settle(r, "lost")))
  BY <1>1, SettledRun
<1>3. r.pipeline \in AllPipelines
  BY <1>1 DEF Run
<1>4. d.task \in Task /\ d.runs \in Seq(Run) /\ TaskInv(d.task, d.runs)
  BY <1>1, <1>2, <1>3, TaskFacts, LostTask
<1>5. commit(t, d.task, d.runs)
  BY DEF Expire
<1> HIDE DEF d
<1> QED
  BY <1>4, <1>5, CommitPreserves

LEMMA ExecutorExitedStep ==
  ASSUME IInv, NEW t \in Tasks, NEW i \in DOMAIN runs[t], NEW token,
         ExecutorExited(t, i, token)
  PROVE  IInv'
<1> DEFINE r == runs[t][i]
           x == changeClaimedExit([r EXCEPT !.exited = TRUE])
           d == settleLostAndRetry(tasks[t], runs[t], i, x)
<1>1. r \in Run /\ RunInv(r) /\ isLive(r) /\ r.operation = "none"
  BY RunFacts DEF ExecutorExited
<1>2. /\ x.pipeline = r.pipeline
      /\ withCleanup(settle(x, "lost")) \in Run
      /\ RunInv(withCleanup(settle(x, "lost")))
      /\ ~isLive(withCleanup(settle(x, "lost")))
  BY <1>1, ExitedRun
<1>3. r.pipeline \in AllPipelines
  BY <1>1 DEF Run
<1>4. commit(t, d.task, d.runs)
  BY DEF ExecutorExited
<1> HIDE DEF x
<1>5. d.task \in Task /\ d.runs \in Seq(Run) /\ TaskInv(d.task, d.runs)
  BY <1>1, <1>2, <1>3, TaskFacts, LostTask
<1> HIDE DEF d
<1> QED
  BY <1>4, <1>5, CommitPreserves

LEMMA RetireSettledClaimStep ==
  ASSUME IInv, NEW t \in Tasks, NEW i \in DOMAIN runs[t],
         RetireSettledClaim(t, i)
  PROVE  IInv'
<1> DEFINE r == runs[t][i]
           e == [r EXCEPT !.exited = TRUE]
           n == [r EXCEPT !.queue = "retired"]
<1>1. r \in Run /\ RunInv(r) /\ ~isLive(r) /\ r.queue = "claimed"
  BY RunFacts DEF RetireSettledClaim
<1>2. CASE commitRun(t, i, e)
  <2>1. e \in Run /\ e.state = r.state /\ SameClaim(e, r)
    <3> HIDE DEF r
    <3> QED
      BY <1>1 DEF Run, SameClaim
  <2> HIDE DEF e
  <2> QED
    BY <1>1, <1>2, <2>1, KeptRun, CommitRunPreserves
<1>3. CASE r.operation = "none" /\ commitRun(t, i, n)
  <2>1. /\ n \in Run /\ n.state = r.state /\ n.pipeline = r.pipeline /\ n.queue = "retired"
        /\ n.token = r.token /\ n.operation = r.operation /\ n.pending = r.pending
        /\ n.result = r.result /\ n.resolved = r.resolved
    <3> HIDE DEF r
    <3> QED
      BY <1>1 DEF Run
  <2> HIDE DEF n
  <2>2. RunInv(n) /\ ~isLive(n)
    BY <1>1, <1>3, <2>1 DEF RunInv, isLive, usesCodexCredentials
  <2> QED
    BY <1>1, <1>3, <2>1, <2>2, CommitRunPreserves
<1> QED
  BY <1>2, <1>3 DEF RetireSettledClaim

LEMMA TransactReadStep ==
  ASSUME IInv, NEW t \in Tasks, NEW x \in EditKinds, TransactRead(t, x)
  PROVE  IInv'
<1> DEFINE e == [pc |-> "readRun", fresh |-> TRUE, retried |-> edits[t][x].pc = "again",
                 live |-> FALSE, task |-> tasks[t]]
<1>1. edits' = [edits EXCEPT ![t][x] = e] /\ UNCHANGED <<tasks, runs>>
  BY DEF TransactRead
<1>2. e \in Edit /\ EditInv(e, tasks[t])
  BY TaskFacts DEF Edit, EditInv
<1> HIDE DEF e
<1>3. TypeOK'
  BY <1>1, <1>2 DEF IInv, TypeOK
<1>4. \A u \in Tasks : TaskInv(tasks[u], runs[u])'
  BY <1>1 DEF IInv, LifecycleInv, TaskInv
<1>5. \A u \in Tasks : \A y \in EditKinds : EditInv(edits[u][y], tasks[u])'
  BY <1>1, <1>2 DEF IInv, TypeOK, LifecycleInv, EditInv
<1> QED
  BY <1>3, <1>4, <1>5 DEF IInv, LifecycleInv

LEMMA TransactReadActiveRunStep ==
  ASSUME IInv, NEW t \in Tasks, NEW x \in EditKinds, TransactReadActiveRun(t, x)
  PROVE  IInv'
<1> DEFINE o == edits[t][x]
           e == [o EXCEPT !.pc = "apply", !.live = activeIsLive(tasks[t], runs[t])]
<1>1. o \in Edit /\ EditInv(o, tasks[t])
  BY DEF IInv, TypeOK, LifecycleInv
<1>2. edits' = [edits EXCEPT ![t][x] = e] /\ UNCHANGED <<tasks, runs>>
  BY DEF TransactReadActiveRun, IInv, TypeOK
<1>3. activeIsLive(tasks[t], runs[t]) = (tasks[t].active # NoRun)
  BY TaskFacts DEF activeIsLive, TaskInv
<1>4. e \in Edit /\ EditInv(e, tasks[t])
  BY <1>1, <1>3 DEF Edit, EditInv
<1> HIDE DEF e
<1>5. TypeOK'
  BY <1>2, <1>4 DEF IInv, TypeOK
<1>6. \A u \in Tasks : TaskInv(tasks[u], runs[u])'
  BY <1>2 DEF IInv, LifecycleInv, TaskInv
<1>7. \A u \in Tasks : \A y \in EditKinds : EditInv(edits[u][y], tasks[u])'
  BY <1>2, <1>4 DEF IInv, TypeOK, LifecycleInv, EditInv
<1> QED
  BY <1>5, <1>6, <1>7 DEF IInv, LifecycleInv

(* The decided task of an edit that is neither refused nor stale.          *)
LEMMA FreshEdit ==
  ASSUME IInv, NEW t \in Tasks, NEW x \in EditKinds,
         edits[t][x].pc = "apply", ~editRefused(x, edits[t][x]), edits[t][x].fresh
  PROVE  LET k == editedTask(x, edits[t][x].task)
         IN  /\ edits[t][x].task = tasks[t] /\ tasks[t].active = NoRun
             /\ x = "close" => tasks[t].closed = FALSE
             /\ k \in Task /\ TaskInv(k, runs[t])
<1> DEFINE e == edits[t][x]
           k == editedTask(x, e.task)
<1>1. e \in Edit /\ EditInv(e, tasks[t])
  BY DEF IInv, TypeOK, LifecycleInv
<1>2. e.task = tasks[t] /\ tasks[t].active = NoRun
  BY <1>1 DEF EditInv, editRefused
<1>3. tasks[t] \in Task /\ TaskInv(tasks[t], runs[t])
  BY TaskFacts
<1>4. x = "close" => tasks[t].closed = FALSE
  BY <1>2, <1>3 DEF editRefused, Task
<1>5. k \in Task /\ k.active = NoRun
  <2>1. ASSUME NEW j \in Task
        PROVE  editedTask(x, j) \in Task /\ editedTask(x, j).active = j.active
    <3> DEFINE a == [j EXCEPT !.closed = TRUE]
               b == [j EXCEPT !.work = @ + 1]
    <3>1. a \in Task /\ a.active = j.active
      BY DEF Task
    <3>2. b \in Task /\ b.active = j.active
      BY DEF Task
    <3>3. editedTask(x, j) = a \/ editedTask(x, j) = b
      BY DEF editedTask
    <3> HIDE DEF a, b
    <3> QED
      BY <3>1, <3>2, <3>3
  <2> QED
    BY <1>2, <1>3, <2>1
<1>6. TaskInv(k, runs[t])
  BY <1>2, <1>3, <1>5 DEF TaskInv
<1> QED
  BY <1>2, <1>4, <1>5, <1>6

LEMMA IdleEditFacts ==
  /\ IdleEdit \in Edit /\ [IdleEdit EXCEPT !.pc = "again"] \in Edit
  /\ IdleEdit.fresh = FALSE /\ [IdleEdit EXCEPT !.pc = "again"].fresh = FALSE
BY DEF IdleEdit, Edit, NewTask, Task, NoRun

LEMMA TransactApplyStep ==
  ASSUME IInv, NEW t \in Tasks, NEW x \in EditKinds, TransactApply(t, x)
  PROVE  IInv'
<1> DEFINE e == edits[t][x]
           k == editedTask(x, e.task)
<1>1. UNCHANGED runs
  BY DEF TransactApply
<1>2. ASSUME NEW n \in Edit, n.fresh = FALSE,
             edits' = [edits EXCEPT ![t][x] = n], UNCHANGED tasks
      PROVE  IInv'
  <2>1. TypeOK'
    BY <1>1, <1>2 DEF IInv, TypeOK
  <2>2. \A u \in Tasks : TaskInv(tasks[u], runs[u])'
    BY <1>1, <1>2 DEF IInv, LifecycleInv, TaskInv
  <2>3. \A u \in Tasks : \A y \in EditKinds : EditInv(edits[u][y], tasks[u])'
    BY <1>2 DEF IInv, TypeOK, LifecycleInv, EditInv
  <2> QED
    BY <2>1, <2>2, <2>3 DEF IInv, LifecycleInv
<1>3. CASE /\ ~editRefused(x, e) /\ e.fresh
           /\ tasks' = [tasks EXCEPT ![t] = k]
           /\ edits' = [edits EXCEPT ![t] = [stale(@) EXCEPT ![x] = IdleEdit]]
  <2>1. k \in Task /\ TaskInv(k, runs[t])
    BY <1>3, FreshEdit DEF TransactApply
  <2> HIDE DEF k
  <2> DEFINE es == [stale(edits[t]) EXCEPT ![x] = IdleEdit]
  <2>2. es \in [EditKinds -> Edit] /\ \A y \in EditKinds : es[y].fresh = FALSE
    <3>1. edits[t] \in [EditKinds -> Edit]
      BY DEF IInv, TypeOK
    <3>2. /\ stale(edits[t]) \in [EditKinds -> Edit]
          /\ \A y \in EditKinds : stale(edits[t])[y].fresh = FALSE
      BY <3>1, StaleEdits
    <3> QED
      BY <3>2, IdleEditFacts
  <2>3. edits' = [edits EXCEPT ![t] = es]
    BY <1>3
  <2> HIDE DEF es
  <2>4. TypeOK'
    BY <1>1, <1>3, <2>1, <2>2, <2>3 DEF IInv, TypeOK
  <2>5. \A u \in Tasks : TaskInv(tasks[u], runs[u])'
    BY <1>1, <1>3, <2>1 DEF IInv, TypeOK, LifecycleInv, TaskInv
  <2>6. \A u \in Tasks : \A y \in EditKinds : EditInv(edits[u][y], tasks[u])'
    BY <1>3, <2>2, <2>3 DEF IInv, TypeOK, LifecycleInv, EditInv
  <2> QED
    BY <2>4, <2>5, <2>6 DEF IInv, LifecycleInv
<1> DEFINE again == [IdleEdit EXCEPT !.pc = "again"]
<1>4. CASE edits' = [edits EXCEPT ![t][x] = IdleEdit] /\ UNCHANGED tasks
  BY <1>2, <1>4, IdleEditFacts
<1>5. CASE edits' = [edits EXCEPT ![t][x] = again] /\ UNCHANGED tasks
  <2>1. again \in Edit /\ again.fresh = FALSE
    BY IdleEditFacts
  <2> HIDE DEF again
  <2> QED
    BY <1>2, <1>5, <2>1
<1> QED
  BY <1>3, <1>4, <1>5 DEF TransactApply

LEMMA TickRun ==
  ASSUME NEW r \in Run
  PROVE  tickRun(r) \in Run /\ tickRun(r).state = r.state /\ SameClaim(tickRun(r), r)
<1>1. Less1(r.start) \in Nat /\ Less1(r.wait) \in Nat /\ Less1(r.lease) \in Nat
  BY DEF Less1, Run
<1> DEFINE n == [r EXCEPT !.start = Less1(@), !.wait = Less1(@), !.lease = Less1(@),
                          !.deferred = FALSE]
<1>2. n \in Run /\ n.state = r.state /\ SameClaim(n, r)
  BY <1>1 DEF Run, SameClaim
<1>3. tickRun(r) = n \/ tickRun(r) = r
  BY DEF tickRun
<1> HIDE DEF n
<1> QED
  BY <1>2, <1>3 DEF SameClaim

LEMMA TickStep ==
  ASSUME IInv, Tick
  PROVE  IInv'
<1>1. \A t \in Tasks : \A i \in DOMAIN runs[t] :
        /\ tickRun(runs[t][i]) \in Run /\ RunInv(tickRun(runs[t][i]))
        /\ isLive(tickRun(runs[t][i])) <=> isLive(runs[t][i])
  BY RunFacts, TickRun, KeptRun
<1>2. \A t \in Tasks : runs'[t] = [i \in DOMAIN runs[t] |-> tickRun(runs[t][i])]
  BY DEF Tick
<1>3. \A t \in Tasks :
        /\ runs'[t] \in Seq(Run) /\ DOMAIN runs'[t] = DOMAIN runs[t]
        /\ \A i \in DOMAIN runs[t] : RunInv(runs'[t][i]) /\ (isLive(runs'[t][i]) <=> isLive(runs[t][i]))
  <2> TAKE t \in Tasks
  <2>1. runs[t] \in Seq(Run)
    BY TaskFacts
  <2>2. DOMAIN runs[t] = 1 .. Len(runs[t]) /\ Len(runs[t]) \in Nat
    BY <2>1
  <2> DEFINE n == Len(runs[t])
             g == [i \in 1 .. n |-> tickRun(runs[t][i])]
  <2>3. runs'[t] = g
    BY <1>2, <2>2
  <2>4. \A i \in 1 .. n : tickRun(runs[t][i]) \in Run
    BY <1>1, <2>2
  <2>5. g \in [1 .. n -> Run]
    BY <2>4, Zenon
  <2>6. \A i \in 1 .. n : g[i] = tickRun(runs[t][i])
    OBVIOUS
  <2> HIDE DEF g
  <2>7. g \in Seq(Run) /\ DOMAIN g = 1 .. n
    BY <2>2, <2>5
  <2> QED
    BY <1>1, <2>2, <2>3, <2>6, <2>7
<1>4. UNCHANGED <<tasks, edits>> /\ DOMAIN runs' = Tasks
  BY DEF Tick
<1>5. TypeOK'
  <2>1. runs' \in [Tasks -> Seq(Run)]
    BY <1>3, <1>4 DEF Tick
  <2> QED
    BY <1>4, <2>1 DEF IInv, TypeOK
<1>6. \A t \in Tasks : TaskInv(tasks[t], runs[t])'
  BY <1>3, <1>4, TaskFacts DEF TaskInv
<1>7. \A t \in Tasks : \A x \in EditKinds : EditInv(edits[t][x], tasks[t])'
  BY <1>4 DEF IInv, LifecycleInv, EditInv
<1> QED
  BY <1>5, <1>6, <1>7 DEF IInv, LifecycleInv

-----------------------------------------------------------------------------
(* The invariant *)

LEMMA InitEstablishes == Init => IInv
<1> SUFFICES ASSUME Init PROVE IInv
  OBVIOUS
<1>1. NewTask \in Task /\ NewTask.active = NoRun /\ NewTask.closed = FALSE
  BY DEF NewTask, Task, NoRun
<1>2. TypeOK
  BY <1>1, IdleEditFacts DEF Init, TypeOK
<1>3. \A t \in Tasks : TaskInv(tasks[t], runs[t])
  BY <1>1 DEF Init, TaskInv
<1>4. \A t \in Tasks : \A x \in EditKinds : EditInv(edits[t][x], tasks[t])
  BY IdleEditFacts DEF Init, EditInv
<1> QED
  BY <1>2, <1>3, <1>4 DEF IInv, LifecycleInv

LEMMA CallbackStep ==
  ASSUME IInv, NEW t \in Tasks, NEW i \in DOMAIN runs[t], NEW token, Callback(t, i, token)
  PROVE  IInv'
BY ReleaseClaimStep, ObserveStartupPlacementStep, RenewLeaseStep,
   ReserveCredentialOperationStep, ReserveCleanupStep, ReportStep, ExecutorExitedStep
   DEF Callback

LEMMA NextPreserves == IInv /\ [Next]_vars => IInv'
<1> SUFFICES ASSUME IInv, [Next]_vars PROVE IInv'
  OBVIOUS
<1>1. CASE Tick
  BY <1>1, TickStep
<1>2. ASSUME NEW t \in Tasks, NEW p \in Pipelines, NEW id \in RequestIds,
             Request(t, p, id) \/ ReplaceQueuedRun(t, p, id)
      PROVE  IInv'
  BY <1>2, RequestStep, ReplaceQueuedRunStep
<1>3. ASSUME NEW t \in Tasks, NEW x \in EditKinds,
             TransactRead(t, x) \/ TransactReadActiveRun(t, x) \/ TransactApply(t, x)
      PROVE  IInv'
  BY <1>3, TransactReadStep, TransactReadActiveRunStep, TransactApplyStep
<1>4. ASSUME NEW t \in Tasks, NEW i \in DOMAIN runs[t],
             \/ DispatchRead(t, i) \/ DispatchEnqueue(t, i)
             \/ DispatchConfirm(t, i) \/ DispatchLapse(t, i)
             \/ \E placementAware \in BOOLEAN : Claim(t, i, placementAware)
      PROVE  IInv'
  BY <1>4, DispatchReadStep, DispatchEnqueueStep, DispatchConfirmStep, DispatchLapseStep,
     ClaimStep
<1>5. ASSUME NEW t \in Tasks, NEW i \in DOMAIN runs[t],
             \/ \E token \in 1 .. runs[t][i].token : Callback(t, i, token)
             \/ FinishCredentialOperation(t, i) \/ Cancel(t, i)
             \/ CancelUnclaimedBefore(t, i) \/ Expire(t, i) \/ RetireSettledClaim(t, i)
      PROVE  IInv'
  BY <1>5, CallbackStep, FinishCredentialOperationStep, CancelStep, ExpireStep,
     RetireSettledClaimStep
     DEF CancelUnclaimedBefore
<1>6. CASE UNCHANGED vars
  BY <1>6 DEF vars, IInv, TypeOK, LifecycleInv, TaskInv, EditInv
<1> QED
  BY <1>1, <1>2, <1>3, <1>4, <1>5, <1>6 DEF Next

(* The inductive invariant holds in every reachable state.                 *)
THEOREM Invariance == Spec => []IInv
<1> QED
  BY InitEstablishes, NextPreserves, PTL DEF Spec

(* Every document keeps the shape of model.ts, whatever the interleaving.  *)
THEOREM TypeCorrect == Spec => []TypeOK
<1>1. IInv => TypeOK
  BY DEF IInv
<1> QED
  BY <1>1, Invariance, PTL

(* The per-task mutex: activeRunId and liveness always agree, for any      *)
(* number of tasks, requests, claims and retries.                          *)
THEOREM MutualExclusion == Spec => []MutexHeldByLiveRun
<1>1. IInv => MutexHeldByLiveRun
  BY DEF IInv, LifecycleInv, TaskInv, MutexHeldByLiveRun
<1> QED
  BY <1>1, Invariance, PTL

(* closeTask never leaves a live run behind, although it decides on reads  *)
(* that other transactions may overtake.                                   *)
THEOREM ClosedTasksAreIdle == Spec => []ClosedTaskIdle
<1>1. IInv => ClosedTaskIdle
  <2> SUFFICES ASSUME IInv, NEW t \in Tasks, tasks[t].closed, NEW i \in DOMAIN runs[t]
               PROVE  ~isLive(runs[t][i])
    BY DEF ClosedTaskIdle
  <2>1. runs[t] \in Seq(Run) /\ TaskInv(tasks[t], runs[t])
    BY TaskFacts
  <2>2. tasks[t].active = NoRun /\ i # NoRun
    BY <2>1 DEF TaskInv, NoRun
  <2> QED
    BY <2>1, <2>2 DEF TaskInv
<1> QED
  BY <1>1, Invariance, PTL

(* A finished run carries its claimant's result.                           *)
THEOREM ResultsAreTheClaimants == Spec => []ResultFromClaimant
<1>1. IInv => ResultFromClaimant
  BY DEF IInv, LifecycleInv, TaskInv, RunInv, ResultFromClaimant
<1> QED
  BY <1>1, Invariance, PTL

(* No settled Codex claim loses its credential cleanup.                    *)
THEOREM CleanupDebtIsKept == Spec => []CleanupDebtKept
<1>1. IInv => CleanupDebtKept
  BY DEF IInv, LifecycleInv, TaskInv, RunInv, CleanupDebtKept
<1> QED
  BY <1>1, Invariance, PTL

=============================================================================
