-------------------------- MODULE RunHistoryProofs --------------------------
(***************************************************************************)
(* What the steps of RunLifecycle do to the history of a task: every step  *)
(* leaves the outcomes alone or is one move of one task.  The refinement   *)
(* of TaskMutex, the action properties and the retry budget follow from    *)
(* the moves.                                                              *)
(***************************************************************************)
EXTENDS RunLifecycleProofs, FiniteSetTheorems

(* The cap of a waiting claim.                                             *)
Capped(r) == isLive(r) /\ r.queue = "claimed" /\ r.placement = "waiting" => r.start <= r.wait

SameRequest(r, n) == n.pipeline = r.pipeline /\ n.source = r.source /\ n.request = r.request

(* A run that goes on, or stays settled.                                   *)
Continues(r, n) ==
  /\ SameRequest(r, n)
  /\ isLive(n) <=> isLive(r)
  /\ ~isLive(r) => n.state = r.state
  /\ n.result = r.result
  /\ r.pending # NoToken => n.pending = r.pending
  /\ Capped(r) => Capped(n)

(* A live run that settles; an accepted completion can only be its result. *)
Ends(r, n, outcome) ==
  /\ SameRequest(r, n)
  /\ isLive(r) /\ n.state = outcome
  /\ r.pending # NoToken => outcome = "finished" /\ n.result = r.pending

-----------------------------------------------------------------------------
(* The moves of a task, from the documents k and s to m and u *)

Kept(k, s, m, u) ==
  m = k /\ DOMAIN u = DOMAIN s /\ \A i \in DOMAIN s : Continues(s[i], u[i])

Started(k, s, m, u) ==
  /\ k.active = NoRun /\ ~k.closed
  /\ \E p \in AllPipelines, id \in RequestIds :
       LET minted == mintRun(k, s, newRun(p, "caller", id)) IN m = minted.task /\ u = minted.runs

\* The lock is free, and c losses are counted.
freed(k, c) == [k EXCEPT !.active = NoRun, !.consecutiveLost = c]

Settled(k, s, m, u) ==
  /\ k.active \in DOMAIN s
  /\ \E outcome \in {"finished", "canceled"}, n \in Run :
       /\ Ends(s[k.active], n, outcome)
       /\ m = freed(k, 0) /\ u = [s EXCEPT ![k.active] = n]

Replaced(k, s, m, u) ==
  /\ k.active \in DOMAIN s
  /\ \E n \in Run, p \in AllPipelines, id \in RequestIds :
       LET minted == mintRun(freed(k, 0), [s EXCEPT ![k.active] = n], newRun(p, "caller", id))
       IN  Ends(s[k.active], n, "canceled") /\ m = minted.task /\ u = minted.runs

Lost(k, s, m, u) ==
  /\ k.active \in DOMAIN s
  /\ \E n \in Run :
       /\ Ends(s[k.active], n, "lost")
       /\ m = freed(k, k.consecutiveLost + 1) /\ u = [s EXCEPT ![k.active] = n]

Retried(k, s, m, u) ==
  /\ k.active \in DOMAIN s /\ ~isRecipe(s[k.active]) /\ k.consecutiveLost < MaxAutoRetries
  /\ \E n \in Run :
       LET minted == mintRun(freed(k, k.consecutiveLost + 1), [s EXCEPT ![k.active] = n],
                             newRun(s[k.active].pipeline, "auto-retry", k.active))
       IN  Ends(s[k.active], n, "lost") /\ m = minted.task /\ u = minted.runs

Edited(k, s, m, u) ==
  /\ k.active = NoRun /\ u = s
  /\ \/ ~k.closed /\ m = [k EXCEPT !.closed = TRUE]
     \/ m = [k EXCEPT !.work = @ + 1]

Move(k, s, m, u) ==
  \/ Kept(k, s, m, u) \/ Started(k, s, m, u) \/ Settled(k, s, m, u) \/ Replaced(k, s, m, u)
  \/ Lost(k, s, m, u) \/ Retried(k, s, m, u) \/ Edited(k, s, m, u)

MoveOf(t) ==
  /\ Move(tasks[t], runs[t], tasks'[t], runs'[t])
  /\ \A v \in Tasks \ {t} : tasks'[v] = tasks[v] /\ runs'[v] = runs[v]

NothingSettles == \A t \in Tasks : Kept(tasks[t], runs[t], tasks'[t], runs'[t])

-----------------------------------------------------------------------------
(* Writes as moves *)

LEMMA CommitMoves ==
  ASSUME IInv, NEW t \in Tasks, NEW k, NEW s, commit(t, k, s), Move(tasks[t], runs[t], k, s)
  PROVE  MoveOf(t)
<1>1. tasks' = [tasks EXCEPT ![t] = k] /\ runs' = [runs EXCEPT ![t] = s]
  BY DEF commit
<1>2. tasks'[t] = k /\ runs'[t] = s
  BY <1>1 DEF IInv, TypeOK
<1>3. \A v \in Tasks \ {t} : tasks'[v] = tasks[v] /\ runs'[v] = runs[v]
  BY <1>1 DEF IInv, TypeOK
<1> QED
  BY <1>2, <1>3 DEF MoveOf

LEMMA Unmoved ==
  ASSUME NEW r
  PROVE  Continues(r, r)
BY DEF Continues, SameRequest

LEMMA KeptByOne ==
  ASSUME NEW k \in Task, NEW s \in Seq(Run), NEW i \in DOMAIN s, NEW n, Continues(s[i], n)
  PROVE  Kept(k, s, k, [s EXCEPT ![i] = n])
BY Unmoved DEF Kept

LEMMA RunContinues ==
  ASSUME IInv, NEW t \in Tasks, NEW i \in DOMAIN runs[t], NEW n, Continues(runs[t][i], n),
         commitRun(t, i, n) \/ writeRun(t, i, n)
  PROVE  MoveOf(t)
<1> DEFINE s == [runs[t] EXCEPT ![i] = n]
<1>1. tasks[t] \in Task /\ runs[t] \in Seq(Run)
  BY TaskFacts
<1>2. Move(tasks[t], runs[t], tasks[t], s)
  BY <1>1, KeptByOne DEF Move
<1> HIDE DEF s
<1>3. CASE commitRun(t, i, n)
  BY <1>2, <1>3, CommitMoves DEF commitRun, s
<1>4. CASE writeRun(t, i, n)
  <2>1. runs' = [runs EXCEPT ![t] = s] /\ tasks' = tasks
    BY <1>4 DEF writeRun, s
  <2>2. runs'[t] = s /\ \A v \in Tasks \ {t} : runs'[v] = runs[v]
    BY <2>1 DEF IInv, TypeOK
  <2> QED
    BY <1>2, <2>1, <2>2 DEF MoveOf
<1> QED
  BY <1>3, <1>4

-----------------------------------------------------------------------------
(* Steps that settle nothing *)

LEMMA DispatchMoves ==
  ASSUME IInv, NEW t \in Tasks, NEW i \in DOMAIN runs[t],
         \/ DispatchRead(t, i) \/ DispatchEnqueue(t, i)
         \/ DispatchConfirm(t, i) \/ DispatchLapse(t, i)
  PROVE  MoveOf(t)
<1> DEFINE r    == runs[t][i]
           done == [r EXCEPT !.dispatch = "done"]
           run  == [done EXCEPT !.state = "running", !.lease = RunLease]
           q    == [r EXCEPT !.dispatch = "enqueued", !.queue = IF @ = "none" THEN "queued" ELSE @]
<1>1. r \in Run
  BY RunFacts
<1>2. ASSUME NEW d PROVE Continues(r, [r EXCEPT !.dispatch = d])
  <2> HIDE DEF r
  <2> QED
    BY <1>1 DEF Run, Continues, SameRequest, isLive, Capped
<1>3. ASSUME r.state = "pending" PROVE Continues(r, run)
  <2> HIDE DEF r
  <2> QED
    BY <1>1, <1>3 DEF Run, Continues, SameRequest, isLive, Capped, LiveStates
<1>4. Continues(r, q)
  <2> HIDE DEF r
  <2> QED
    BY <1>1 DEF Run, Continues, SameRequest, isLive, Capped
<1>5. CASE DispatchRead(t, i)
  BY <1>2, <1>5, RunContinues DEF DispatchRead
<1>6. CASE DispatchEnqueue(t, i)
  BY <1>4, <1>6, RunContinues DEF DispatchEnqueue
<1>7. CASE DispatchConfirm(t, i)
  BY <1>2, <1>3, <1>7, RunContinues DEF DispatchConfirm
<1>8. CASE DispatchLapse(t, i)
  BY <1>2, <1>8, RunContinues DEF DispatchLapse
<1> QED
  BY <1>5, <1>6, <1>7, <1>8

LEMMA ClaimMoves ==
  ASSUME IInv, NEW t \in Tasks, NEW i \in DOMAIN runs[t], NEW aware \in BOOLEAN,
         Claim(t, i, aware)
  PROVE  MoveOf(t)
<1> DEFINE r == runs[t][i]
           n == claimQueuedRun(r, aware)
<1>1. r \in Run /\ writeRun(t, i, n)
  BY RunFacts DEF Claim
<1>2. /\ SameRequest(r, n) /\ n.state = r.state /\ n.result = r.result /\ n.pending = r.pending
      /\ n.start = StartTimeout /\ n.wait = PlacementWaitMax
  <2> HIDE DEF r
  <2> QED
    BY <1>1 DEF Run, claimQueuedRun, SameRequest
<1> HIDE DEF n
<1>3. Continues(r, n)
  BY <1>2, ConstantsAssumption DEF Continues, Capped, isLive
<1> QED
  BY <1>1, <1>3, RunContinues

LEMMA ReleaseClaimMoves ==
  ASSUME IInv, NEW t \in Tasks, NEW i \in DOMAIN runs[t], NEW token, NEW deferred \in BOOLEAN,
         ReleaseClaim(t, i, token, deferred)
  PROVE  MoveOf(t)
<1> DEFINE r == runs[t][i]
           n == [r EXCEPT !.queue = "queued", !.deferred = deferred,
                          !.placement = "none", !.beat = FALSE, !.start = 0, !.wait = 0]
<1>1. r \in Run /\ writeRun(t, i, n)
  BY RunFacts DEF ReleaseClaim
<1>2. /\ SameRequest(r, n) /\ n.state = r.state /\ n.result = r.result /\ n.pending = r.pending
      /\ n.queue = "queued"
  <2> HIDE DEF r
  <2> QED
    BY <1>1 DEF Run, SameRequest
<1> HIDE DEF n
<1>3. Continues(r, n)
  BY <1>2 DEF Continues, Capped, isLive
<1> QED
  BY <1>1, <1>3, RunContinues

LEMMA ObserveStartupPlacementMoves ==
  ASSUME IInv, NEW t \in Tasks, NEW i \in DOMAIN runs[t], NEW token, NEW placed \in BOOLEAN,
         ObserveStartupPlacement(t, i, token, placed)
  PROVE  MoveOf(t)
<1> DEFINE r == runs[t][i]
           n == [r EXCEPT !.placement = IF placed THEN "placed" ELSE "waiting",
                          !.start = IF placed THEN StartTimeout
                                    ELSE Min2(StartTimeout, r.wait),
                          !.lease = RunLease]
<1>1. r \in Run /\ (commitRun(t, i, r) \/ commitRun(t, i, n))
  BY RunFacts DEF ObserveStartupPlacement
<1>2. /\ SameRequest(r, n) /\ n.state = r.state /\ n.result = r.result /\ n.pending = r.pending
      /\ n.wait = r.wait /\ n.wait \in Nat
      /\ n.placement = (IF placed THEN "placed" ELSE "waiting")
      /\ n.start = IF placed THEN StartTimeout ELSE Min2(StartTimeout, r.wait)
  <2> HIDE DEF r
  <2> QED
    BY <1>1 DEF Run, SameRequest
<1> HIDE DEF n
<1>3. Capped(n)
  BY <1>2, ConstantsAssumption DEF Capped, Min2
<1>4. Continues(r, n)
  BY <1>2, <1>3 DEF Continues, isLive
<1> QED
  BY <1>1, <1>4, Unmoved, RunContinues

LEMMA ClaimantMoves ==
  ASSUME IInv, NEW t \in Tasks, NEW i \in DOMAIN runs[t], NEW token,
         \/ RenewLease(t, i, token) \/ ReserveCredentialOperation(t, i, token)
         \/ ReserveCleanup(t, i, token)
  PROVE  MoveOf(t)
<1> DEFINE r == runs[t][i]
           b == [r EXCEPT !.beat = TRUE, !.lease = RunLease]
<1>1. r \in Run
  BY RunFacts
<1>2. Continues(r, b)
  <2> HIDE DEF r
  <2> QED
    BY <1>1 DEF Run, Continues, SameRequest, isLive, Capped
<1>3. ASSUME NEW o PROVE Continues(r, [r EXCEPT !.operation = o])
  <2> HIDE DEF r
  <2> QED
    BY <1>1 DEF Run, Continues, SameRequest, isLive, Capped
<1>4. CASE RenewLease(t, i, token)
  BY <1>2, <1>4, RunContinues DEF RenewLease
<1>5. CASE ReserveCredentialOperation(t, i, token) \/ ReserveCleanup(t, i, token)
  BY <1>3, <1>5, RunContinues DEF ReserveCredentialOperation, ReserveCleanup
<1> QED
  BY <1>4, <1>5

LEMMA RetireSettledClaimMoves ==
  ASSUME IInv, NEW t \in Tasks, NEW i \in DOMAIN runs[t], RetireSettledClaim(t, i)
  PROVE  MoveOf(t)
<1> DEFINE r == runs[t][i]
           e == [r EXCEPT !.exited = TRUE]
           q == [r EXCEPT !.queue = "retired"]
<1>1. r \in Run /\ (commitRun(t, i, e) \/ commitRun(t, i, q))
  BY RunFacts DEF RetireSettledClaim
<1>2. Continues(r, e)
  <2> HIDE DEF r
  <2> QED
    BY <1>1 DEF Run, Continues, SameRequest, isLive, Capped
<1>3. Continues(r, q)
  <2> HIDE DEF r
  <2> QED
    BY <1>1 DEF Run, Continues, SameRequest, isLive, Capped
<1> QED
  BY <1>1, <1>2, <1>3, RunContinues

-----------------------------------------------------------------------------
(* Steps that settle or mint *)

LEMMA HeldLock ==
  ASSUME IInv, NEW t \in Tasks, NEW i \in DOMAIN runs[t], isLive(runs[t][i])
  PROVE  /\ tasks[t] \in Task /\ runs[t] \in Seq(Run) /\ runs[t][i] \in Run /\ RunInv(runs[t][i])
         /\ tasks[t].active = i
         /\ resetLossBudgets(releaseLock(tasks[t], i)) = freed(tasks[t], 0)
<1>1. /\ tasks[t] \in Task /\ runs[t] \in Seq(Run) /\ TaskInv(tasks[t], runs[t])
      /\ runs[t][i] \in Run /\ RunInv(runs[t][i])
  BY TaskFacts, RunFacts
<1>2. tasks[t].active = i
  BY <1>1 DEF TaskInv
<1> QED
  BY <1>1, <1>2 DEF resetLossBudgets, releaseLock, freed

LEMMA SettleKeepsRequest ==
  ASSUME NEW r \in Run, NEW st \in RunStates
  PROVE  /\ SameRequest(r, settle(r, st)) /\ settle(r, st).state = st
         /\ settle(r, st) \in Run
BY DEF settle, Run, SameRequest

LEMMA CleanupKeepsRequest ==
  ASSUME NEW r \in Run
  PROVE  /\ SameRequest(r, withCleanup(r)) /\ withCleanup(r).state = r.state
         /\ withCleanup(r).result = r.result /\ withCleanup(r) \in Run
BY DEF withCleanup, Run, SameRequest

LEMMA FinishKeepsRequest ==
  ASSUME NEW r \in Run, NEW token \in Nat
  PROVE  SameRequest(r, finishRun(r, token))
BY DEF finishRun, settle, Run, SameRequest

LEMMA SameRequestTransitive ==
  ASSUME NEW a, NEW b, NEW c, SameRequest(a, b), SameRequest(b, c)
  PROVE  SameRequest(a, c)
BY DEF SameRequest

(* A run without credential IO has no accepted completion to lose.         *)
LEMMA SettledEnds ==
  ASSUME NEW r \in Run, RunInv(r), isLive(r), r.operation = "none",
         NEW st \in {"canceled", "lost"}
  PROVE  /\ Ends(r, settle(r, st), st) /\ settle(r, st) \in Run
         /\ Ends(r, withCleanup(settle(r, st)), st) /\ withCleanup(settle(r, st)) \in Run
<1> DEFINE a == settle(r, st)
<1>1. a \in Run /\ SameRequest(r, a) /\ a.state = st
  BY SettleKeepsRequest DEF RunStates
<1> HIDE DEF a
<1>2. /\ SameRequest(a, withCleanup(a)) /\ withCleanup(a).state = st /\ withCleanup(a) \in Run
  BY <1>1, CleanupKeepsRequest
<1>3. r.pending = NoToken
  BY DEF RunInv
<1> QED
  BY <1>1, <1>2, <1>3, SameRequestTransitive DEF Ends, a

LEMMA RequestMoves ==
  ASSUME IInv, NEW t \in Tasks, NEW p \in Pipelines, NEW id \in RequestIds, Request(t, p, id)
  PROVE  MoveOf(t)
<1> DEFINE d == mintRun(tasks[t], runs[t], newRun(p, "caller", id))
<1>1. tasks[t].active = NoRun /\ ~tasks[t].closed
  BY TaskFacts, FreeLock DEF Request
<1>2. commit(t, d.task, d.runs) /\ p \in AllPipelines
  BY ConstantsAssumption DEF Request
<1>3. Started(tasks[t], runs[t], d.task, d.runs)
  BY <1>1, <1>2 DEF Started
<1> HIDE DEF d
<1> QED
  BY <1>2, <1>3, CommitMoves DEF Move

LEMMA ReplaceQueuedRunMoves ==
  ASSUME IInv, NEW t \in Tasks, NEW p \in Pipelines, NEW id \in RequestIds,
         ReplaceQueuedRun(t, p, id)
  PROVE  MoveOf(t)
<1> DEFINE k == tasks[t]
           a == k.active
           n == settle(runs[t][a], "canceled")
           d == mintRun(freed(k, 0), [runs[t] EXCEPT ![a] = n], newRun(p, "caller", id))
<1>1. a \in DOMAIN runs[t] /\ isLive(runs[t][a]) /\ runs[t][a].operation = "none"
  BY TaskFacts DEF ReplaceQueuedRun, activeIsLive, TaskInv
<1>2. /\ runs[t][a] \in Run /\ RunInv(runs[t][a])
      /\ resetLossBudgets(releaseLock(k, a)) = freed(k, 0)
  BY <1>1, HeldLock
<1>3. n \in Run /\ Ends(runs[t][a], n, "canceled")
  BY <1>1, <1>2, SettledEnds
<1>4. commit(t, d.task, d.runs) /\ p \in AllPipelines
  BY <1>2, ConstantsAssumption DEF ReplaceQueuedRun
<1> HIDE DEF n
<1>5. Replaced(k, runs[t], d.task, d.runs)
  BY <1>1, <1>3, <1>4 DEF Replaced
<1> HIDE DEF d
<1> QED
  BY <1>4, <1>5, CommitMoves DEF Move

LEMMA CancelMoves ==
  ASSUME IInv, NEW t \in Tasks, NEW i \in DOMAIN runs[t], Cancel(t, i)
  PROVE  MoveOf(t)
<1> DEFINE r == runs[t][i]
           n == withCleanup(settle(r, "canceled"))
<1>1. isLive(r) /\ r.operation = "none"
  BY DEF Cancel
<1>2. /\ r \in Run /\ RunInv(r) /\ tasks[t].active = i
      /\ resetLossBudgets(releaseLock(tasks[t], i)) = freed(tasks[t], 0)
  BY <1>1, HeldLock
<1>3. n \in Run /\ Ends(r, n, "canceled")
  BY <1>1, <1>2, SettledEnds
<1>4. commit(t, freed(tasks[t], 0), [runs[t] EXCEPT ![i] = n])
  BY <1>2 DEF Cancel
<1> HIDE DEF n
<1>5. Settled(tasks[t], runs[t], freed(tasks[t], 0), [runs[t] EXCEPT ![i] = n])
  BY <1>2, <1>3 DEF Settled
<1> QED
  BY <1>4, <1>5, CommitMoves DEF Move

LEMMA ReportMoves ==
  ASSUME IInv, NEW t \in Tasks, NEW i \in DOMAIN runs[t], NEW token, Report(t, i, token)
  PROVE  MoveOf(t)
<1> DEFINE r == runs[t][i]
           w == [r EXCEPT !.pending = token]
           f == finishRun(r, token)
           n == withCleanup(f)
<1>1. isLive(r) /\ r.queue = "claimed" /\ r.token = token /\ r.pending \in {NoToken, token}
  BY DEF Report, isClaimant
<1>2. /\ r \in Run /\ RunInv(r) /\ tasks[t].active = i /\ token \in Nat
      /\ resetLossBudgets(releaseLock(tasks[t], i)) = freed(tasks[t], 0)
  BY <1>1, HeldLock DEF Run
<1>3. CASE commitRun(t, i, w)
  <2>1. Continues(r, w)
    <3> HIDE DEF r
    <3> QED
      BY <1>1, <1>2 DEF Run, Continues, SameRequest, isLive, Capped
  <2> QED
    BY <1>3, <2>1, RunContinues
<1>4. CASE commit(t, freed(tasks[t], 0), [runs[t] EXCEPT ![i] = n])
  <2>1. f \in Run /\ f.state = "finished" /\ f.result = token /\ SameRequest(r, f)
    BY <1>2, FinishFields, FinishKeepsRequest
  <2> HIDE DEF f
  <2>2. n \in Run /\ n.state = "finished" /\ n.result = token /\ SameRequest(r, n)
    BY <2>1, CleanupKeepsRequest, SameRequestTransitive
  <2> HIDE DEF n
  <2>3. Ends(r, n, "finished")
    BY <1>1, <2>2 DEF Ends
  <2>4. Settled(tasks[t], runs[t], freed(tasks[t], 0), [runs[t] EXCEPT ![i] = n])
    BY <1>2, <2>2, <2>3 DEF Settled
  <2> QED
    BY <1>4, <2>4, CommitMoves DEF Move
<1> QED
  BY <1>2, <1>3, <1>4 DEF Report

LEMMA FinishOperationKeepsRequest ==
  ASSUME NEW r \in Run
  PROVE  LET n == finishCredentialOperation(r)
         IN  /\ n \in Run /\ SameRequest(r, n) /\ n.state = r.state
             /\ n.result = r.result /\ n.pending = r.pending
             /\ n.placement = r.placement /\ n.start = r.start /\ n.wait = r.wait
             /\ n.queue = r.queue \/ n.queue = "retired"
<1> DEFINE b == r.resolved \/ r.operation = "cleanup" \/ r.pending # NoToken
           x == [r EXCEPT !.operation = "none", !.resolved = b]
           y == [x EXCEPT !.queue = "retired"]
           n == finishCredentialOperation(r)
<1>1. n \in Run /\ n.state = r.state /\ n.result = r.result /\ n.pending = r.pending
      /\ n.pipeline = r.pipeline /\ (n.queue = r.queue \/ n.queue = "retired")
  BY FinishOperationFields
<1>2. n = x \/ n = y
  BY DEF finishCredentialOperation
<1> HIDE DEF n, b
<1>3. /\ x.source = r.source /\ x.request = r.request /\ x.placement = r.placement
      /\ x.start = r.start /\ x.wait = r.wait
  BY DEF Run
<1>4. /\ y.source = r.source /\ y.request = r.request /\ y.placement = r.placement
      /\ y.start = r.start /\ y.wait = r.wait
  BY DEF Run
<1> HIDE DEF x, y
<1> QED
  BY <1>1, <1>2, <1>3, <1>4 DEF SameRequest, n

LEMMA FinishCredentialOperationMoves ==
  ASSUME IInv, NEW t \in Tasks, NEW i \in DOMAIN runs[t], FinishCredentialOperation(t, i)
  PROVE  MoveOf(t)
<1> DEFINE r == runs[t][i]
           c == finishCredentialOperation(r)
           n == finishRun(c, r.pending)
<1>1. r \in Run /\ RunInv(r)
  BY RunFacts
<1>2. /\ c \in Run /\ SameRequest(r, c) /\ c.state = r.state
      /\ c.result = r.result /\ c.pending = r.pending
      /\ c.placement = r.placement /\ c.start = r.start /\ c.wait = r.wait
      /\ c.queue = r.queue \/ c.queue = "retired"
  BY <1>1, FinishOperationKeepsRequest
<1> HIDE DEF c
<1>3. CASE commitRun(t, i, c)
  <2>1. Continues(r, c)
    BY <1>2 DEF Continues, isLive, Capped
  <2> QED
    BY <1>3, <2>1, RunContinues
<1>4. CASE /\ isLive(r)
           /\ commit(t, resetLossBudgets(releaseLock(tasks[t], i)), [runs[t] EXCEPT ![i] = n])
  <2>1. /\ tasks[t].active = i /\ r.pending \in Nat
        /\ resetLossBudgets(releaseLock(tasks[t], i)) = freed(tasks[t], 0)
    BY <1>4, HeldLock DEF Run
  <2>2. n \in Run /\ n.state = "finished" /\ n.result = r.pending /\ SameRequest(r, n)
    BY <1>2, <2>1, FinishFields, FinishKeepsRequest, SameRequestTransitive
  <2> HIDE DEF n
  <2>3. Ends(r, n, "finished")
    BY <1>4, <2>2 DEF Ends
  <2>4. Settled(tasks[t], runs[t], freed(tasks[t], 0), [runs[t] EXCEPT ![i] = n])
    BY <2>1, <2>2, <2>3 DEF Settled
  <2> QED
    BY <1>4, <2>1, <2>4, CommitMoves DEF Move
<1> QED
  BY <1>3, <1>4 DEF FinishCredentialOperation, c

LEMMA LossMoves ==
  ASSUME IInv, NEW t \in Tasks, NEW i \in DOMAIN runs[t], isLive(runs[t][i]),
         NEW lost, lost.pipeline = runs[t][i].pipeline,
         Ends(runs[t][i], withCleanup(settle(lost, "lost")), "lost"),
         withCleanup(settle(lost, "lost")) \in Run,
         LET d == settleLostAndRetry(tasks[t], runs[t], i, lost) IN commit(t, d.task, d.runs)
  PROVE  MoveOf(t)
<1> DEFINE k == tasks[t]
           n == withCleanup(settle(lost, "lost"))
           f == freed(k, k.consecutiveLost + 1)
           s == [runs[t] EXCEPT ![i] = n]
           d == settleLostAndRetry(k, runs[t], i, lost)
           m == mintRun(f, s, newRun(lost.pipeline, "auto-retry", i))
<1>1. k \in Task /\ k.active = i
  BY HeldLock
<1>2. [releaseLock(k, i) EXCEPT !.consecutiveLost = @ + 1] = f
  BY <1>1 DEF releaseLock, freed, Task
<1>3. f.consecutiveLost = k.consecutiveLost + 1 /\ k.consecutiveLost \in Nat
  BY <1>1 DEF freed, Task
<1>4. d = IF isRecipe(lost) \/ k.consecutiveLost + 1 > MaxAutoRetries
          THEN [task |-> f, runs |-> s] ELSE m
  BY <1>2, <1>3 DEF settleLostAndRetry
<1>5. isRecipe(lost) <=> isRecipe(runs[t][i])
  BY DEF isRecipe
<1> HIDE DEF n, f, d
<1>6. CASE d = [task |-> f, runs |-> s]
  <2>1. Lost(k, runs[t], f, s)
    BY <1>1 DEF Lost, n, f
  <2> QED
    BY <1>6, <2>1, CommitMoves DEF Move, d
<1>7. CASE ~isRecipe(lost) /\ ~(k.consecutiveLost + 1 > MaxAutoRetries) /\ d = m
  <2>1. Retried(k, runs[t], m.task, m.runs)
    BY <1>1, <1>3, <1>5, <1>7, ConstantsAssumption DEF Retried, n, f
  <2> HIDE DEF m
  <2> QED
    BY <1>7, <2>1, CommitMoves DEF Move, d
<1> QED
  BY <1>4, <1>6, <1>7

LEMMA ExpireMoves ==
  ASSUME IInv, NEW t \in Tasks, NEW i \in DOMAIN runs[t], Expire(t, i)
  PROVE  MoveOf(t)
<1>1. isLive(runs[t][i]) /\ runs[t][i].operation = "none"
  BY DEF Expire
<1>2. runs[t][i] \in Run /\ RunInv(runs[t][i])
  BY RunFacts
<1>3. /\ Ends(runs[t][i], withCleanup(settle(runs[t][i], "lost")), "lost")
      /\ withCleanup(settle(runs[t][i], "lost")) \in Run
  BY <1>1, <1>2, SettledEnds
<1> QED
  BY <1>1, <1>3, LossMoves DEF Expire

LEMMA ExecutorExitedMoves ==
  ASSUME IInv, NEW t \in Tasks, NEW i \in DOMAIN runs[t], NEW token,
         ExecutorExited(t, i, token)
  PROVE  MoveOf(t)
<1> DEFINE r == runs[t][i]
           e == [r EXCEPT !.exited = TRUE]
           x == changeClaimedExit(e)
           a == settle(x, "lost")
           n == withCleanup(a)
<1>1. r \in Run /\ RunInv(r) /\ isLive(r) /\ r.operation = "none"
  BY RunFacts DEF ExecutorExited
<1>2. e \in Run /\ SameRequest(r, e)
  <2> HIDE DEF r
  <2> QED
    BY <1>1 DEF Run, SameRequest
<1> HIDE DEF e
<1>3. x \in Run /\ SameRequest(e, x)
  BY <1>2 DEF Run, changeClaimedExit, SameRequest
<1> HIDE DEF x
<1>4. a \in Run /\ SameRequest(x, a) /\ a.state = "lost"
  BY <1>3, SettleKeepsRequest DEF RunStates
<1> HIDE DEF a
<1>5. n \in Run /\ SameRequest(a, n) /\ n.state = "lost"
  BY <1>4, CleanupKeepsRequest
<1>6. r.pending = NoToken
  BY <1>1 DEF RunInv
<1> HIDE DEF n
<1>7. SameRequest(r, n)
  BY <1>2, <1>3, <1>4, <1>5, SameRequestTransitive
<1>8. Ends(r, n, "lost")
  BY <1>1, <1>5, <1>6, <1>7 DEF Ends
<1>9. x.pipeline = r.pipeline
  BY <1>2, <1>3 DEF SameRequest
<1> QED
  BY <1>1, <1>5, <1>8, <1>9, LossMoves DEF ExecutorExited, n, a, x, e

LEMMA TransactMoves ==
  ASSUME IInv, NEW t \in Tasks, NEW x \in EditKinds,
         TransactRead(t, x) \/ TransactReadActiveRun(t, x) \/ TransactApply(t, x)
  PROVE  NothingSettles \/ MoveOf(t)
<1> DEFINE e == edits[t][x]
           k == editedTask(x, e.task)
<1>1. CASE UNCHANGED <<tasks, runs>>
  BY <1>1, Unmoved DEF NothingSettles, Kept
<1>2. CASE TransactApply(t, x) /\ ~editRefused(x, e) /\ e.fresh /\ tasks' = [tasks EXCEPT ![t] = k]
  <2>1. /\ e.task = tasks[t] /\ tasks[t].active = NoRun
        /\ x = "close" => tasks[t].closed = FALSE
    BY <1>2, FreshEdit DEF TransactApply
  <2>2. Edited(tasks[t], runs[t], k, runs[t])
    BY <2>1 DEF Edited, editedTask
  <2> HIDE DEF k
  <2>3. runs' = runs /\ tasks'[t] = k /\ \A v \in Tasks \ {t} : tasks'[v] = tasks[v]
    BY <1>2 DEF TransactApply, IInv, TypeOK
  <2> QED
    BY <2>2, <2>3 DEF MoveOf, Move
<1> QED
  BY <1>1, <1>2 DEF TransactRead, TransactReadActiveRun, TransactApply

LEMMA TickContinues ==
  ASSUME NEW r \in Run
  PROVE  Continues(r, tickRun(r))
<1> DEFINE n == [r EXCEPT !.start = Less1(@), !.wait = Less1(@), !.lease = Less1(@),
                          !.deferred = FALSE]
<1>1. /\ SameRequest(r, n) /\ n.state = r.state /\ n.result = r.result /\ n.pending = r.pending
      /\ n.queue = r.queue /\ n.placement = r.placement
      /\ n.start = Less1(r.start) /\ n.wait = Less1(r.wait)
  BY DEF Run, SameRequest
<1>2. r.start \in Nat /\ r.wait \in Nat
  BY DEF Run
<1>3. r.start <= r.wait => Less1(r.start) <= Less1(r.wait)
  BY <1>2 DEF Less1
<1>4. tickRun(r) = n \/ tickRun(r) = r
  BY DEF tickRun
<1> HIDE DEF n
<1>5. Continues(r, n)
  BY <1>1, <1>3 DEF Continues, Capped, isLive
<1> QED
  BY <1>4, <1>5, Unmoved

LEMMA TickMoves ==
  ASSUME IInv, Tick
  PROVE  NothingSettles
<1> SUFFICES ASSUME NEW t \in Tasks PROVE Kept(tasks[t], runs[t], tasks'[t], runs'[t])
  BY DEF NothingSettles
<1>1. tasks'[t] = tasks[t] /\ runs'[t] = [i \in DOMAIN runs[t] |-> tickRun(runs[t][i])]
  BY DEF Tick
<1>2. \A i \in DOMAIN runs[t] : Continues(runs[t][i], tickRun(runs[t][i]))
  BY RunFacts, TickContinues
<1> QED
  BY <1>1, <1>2, Zenon DEF Kept

(* Every step leaves all outcomes alone or is one move of one task.        *)
LEMMA StepMoves ==
  ASSUME IInv, [Next]_vars
  PROVE  NothingSettles \/ \E t \in Tasks : MoveOf(t)
<1>1. CASE Tick
  BY <1>1, TickMoves
<1>2. ASSUME NEW t \in Tasks, NEW p \in Pipelines, NEW id \in RequestIds,
             Request(t, p, id) \/ ReplaceQueuedRun(t, p, id)
      PROVE  MoveOf(t)
  BY <1>2, RequestMoves, ReplaceQueuedRunMoves
<1>3. ASSUME NEW t \in Tasks, NEW x \in EditKinds,
             TransactRead(t, x) \/ TransactReadActiveRun(t, x) \/ TransactApply(t, x)
      PROVE  NothingSettles \/ MoveOf(t)
  BY <1>3, TransactMoves
<1>4. ASSUME NEW t \in Tasks, NEW i \in DOMAIN runs[t],
             \/ DispatchRead(t, i) \/ DispatchEnqueue(t, i)
             \/ DispatchConfirm(t, i) \/ DispatchLapse(t, i)
             \/ \E placementAware \in BOOLEAN : Claim(t, i, placementAware)
      PROVE  MoveOf(t)
  BY <1>4, DispatchMoves, ClaimMoves
<1>5. ASSUME NEW t \in Tasks, NEW i \in DOMAIN runs[t], NEW token, Callback(t, i, token)
      PROVE  MoveOf(t)
  BY <1>5, ReleaseClaimMoves, ObserveStartupPlacementMoves, ClaimantMoves, ReportMoves,
     ExecutorExitedMoves DEF Callback
<1>6. ASSUME NEW t \in Tasks, NEW i \in DOMAIN runs[t],
             \/ FinishCredentialOperation(t, i) \/ Cancel(t, i)
             \/ CancelUnclaimedBefore(t, i) \/ Expire(t, i) \/ RetireSettledClaim(t, i)
      PROVE  MoveOf(t)
  BY <1>6, FinishCredentialOperationMoves, CancelMoves, ExpireMoves, RetireSettledClaimMoves
     DEF CancelUnclaimedBefore
<1>7. CASE UNCHANGED vars
  BY <1>7, Unmoved DEF vars, NothingSettles, Kept
<1> QED
  BY <1>1, <1>2, <1>3, <1>4, <1>5, <1>6, <1>7 DEF Next

-----------------------------------------------------------------------------
(* Outcomes *)

(* Whatever step is taken, the documents of every task make a move.        *)
LEMMA EveryTaskMoves ==
  ASSUME IInv, [Next]_vars, NEW t \in Tasks
  PROVE  Move(tasks[t], runs[t], tasks'[t], runs'[t])
<1>1. CASE NothingSettles
  BY <1>1 DEF NothingSettles, Move
<1>2. ASSUME NEW v \in Tasks, MoveOf(v) PROVE Move(tasks[t], runs[t], tasks'[t], runs'[t])
  <2>1. CASE v = t
    BY <1>2, <2>1 DEF MoveOf
  <2>2. CASE v # t
    BY <1>2, <2>2, Unmoved DEF MoveOf, Move, Kept
  <2> QED
    BY <2>1, <2>2
<1> QED
  BY <1>1, <1>2, StepMoves

LEMMA AppendedKeeps ==
  ASSUME NEW s \in Seq(Run), NEW j \in DOMAIN s, NEW n \in Run, NEW x \in Run, NEW i \in DOMAIN s
  PROVE  /\ Append(s, x)[i] = s[i]
         /\ [s EXCEPT ![j] = n] \in Seq(Run)
         /\ Append([s EXCEPT ![j] = n], x)[i] = IF i = j THEN n ELSE s[i]
OBVIOUS

LEMMA RetryRun ==
  ASSUME NEW s \in Seq(Run), NEW i \in DOMAIN s
  PROVE  /\ newRun(s[i].pipeline, "auto-retry", i) \in Run
         /\ isLive(newRun(s[i].pipeline, "auto-retry", i))
<1>1. s[i] \in Run /\ i \in Nat
  OBVIOUS
<1>2. s[i].pipeline \in AllPipelines
  BY <1>1 DEF Run
<1> QED
  BY <1>1, <1>2, NewRun

(* A move changes a run only by letting it go on or by settling it.        *)
LEMMA MoveOnRun ==
  ASSUME NEW k \in Task, NEW s \in Seq(Run), NEW m, NEW u, Move(k, s, m, u), NEW i \in DOMAIN s
  PROVE  \/ Continues(s[i], u[i])
         \/ i = k.active /\ \E o \in {"finished", "canceled", "lost"} : Ends(s[i], u[i], o)
<1>1. CASE Kept(k, s, m, u)
  BY <1>1 DEF Kept
<1>2. CASE Started(k, s, m, u)
  <2>1. PICK p \in AllPipelines, id \in RequestIds : u = Append(s, newRun(p, "caller", id))
    BY <1>2 DEF Started, mintRun
  <2>2. u[i] = s[i]
    BY <2>1, NewRun, AppendedKeeps
  <2> QED
    BY <2>2, Unmoved
<1>3. CASE Settled(k, s, m, u)
  BY <1>3, Unmoved DEF Settled
<1>4. CASE Replaced(k, s, m, u)
  <2>1. PICK n \in Run, p \in AllPipelines, id \in RequestIds :
          /\ k.active \in DOMAIN s /\ Ends(s[k.active], n, "canceled")
          /\ u = Append([s EXCEPT ![k.active] = n], newRun(p, "caller", id))
    BY <1>4 DEF Replaced, mintRun
  <2>2. u[i] = IF i = k.active THEN n ELSE s[i]
    BY <2>1, NewRun, AppendedKeeps
  <2> QED
    BY <2>1, <2>2, Unmoved
<1>5. CASE Lost(k, s, m, u)
  BY <1>5, Unmoved DEF Lost
<1>6. CASE Retried(k, s, m, u)
  <2>1. PICK n \in Run :
          /\ k.active \in DOMAIN s /\ Ends(s[k.active], n, "lost")
          /\ u = Append([s EXCEPT ![k.active] = n],
                        newRun(s[k.active].pipeline, "auto-retry", k.active))
    BY <1>6 DEF Retried, mintRun
  <2>2. u[i] = IF i = k.active THEN n ELSE s[i]
    BY <2>1, RetryRun, AppendedKeeps
  <2> QED
    BY <2>1, <2>2, Unmoved
<1>7. CASE Edited(k, s, m, u)
  BY <1>7, Unmoved DEF Edited
<1> QED
  BY <1>1, <1>2, <1>3, <1>4, <1>5, <1>6, <1>7 DEF Move

(* No late report, sweep, cancellation or dispatch changes the outcome of  *)
(* a settled run, in any number of tasks and runs.                         *)
THEOREM OutcomesAreFinal == Spec => SettledIsFinal
<1>1. ASSUME IInv, [Next]_vars, NEW t \in Tasks, NEW i \in DOMAIN runs[t], ~isLive(runs[t][i])
      PROVE  /\ runs'[t][i].state = runs[t][i].state
             /\ runs'[t][i].result = runs[t][i].result
  <2>1. \/ Continues(runs[t][i], runs'[t][i])
        \/ \E o \in {"finished", "canceled", "lost"} : Ends(runs[t][i], runs'[t][i], o)
    BY <1>1, EveryTaskMoves, TaskFacts, MoveOnRun
  <2> QED
    BY <1>1, <2>1 DEF Continues, Ends
<1>2. IInv /\ [Next]_vars =>
        [\A t \in Tasks : \A i \in DOMAIN runs[t] :
           ~isLive(runs[t][i]) =>
             /\ runs'[t][i].state = runs[t][i].state
             /\ runs'[t][i].result = runs[t][i].result]_vars
  BY <1>1
<1> QED
  BY <1>2, Invariance, PTL DEF Spec, SettledIsFinal

(* A completion accepted while credential IO was in flight stays pending   *)
(* until it becomes the result: no sweep or cancellation overtakes it.     *)
THEOREM CompletionsAreKept == Spec => AcceptedCompletionKept
<1>1. ASSUME IInv, [Next]_vars, NEW t \in Tasks, NEW i \in DOMAIN runs[t],
             runs[t][i].pending # NoToken
      PROVE  \/ isLive(runs'[t][i]) /\ runs'[t][i].pending = runs[t][i].pending
             \/ runs'[t][i].state = "finished" /\ runs'[t][i].result = runs[t][i].pending
  <2>1. \/ Continues(runs[t][i], runs'[t][i])
        \/ \E o \in {"finished", "canceled", "lost"} : Ends(runs[t][i], runs'[t][i], o)
    BY <1>1, EveryTaskMoves, TaskFacts, MoveOnRun
  <2>2. isLive(runs[t][i])
    BY <1>1, RunFacts DEF RunInv
  <2> QED
    BY <1>1, <2>1, <2>2 DEF Continues, Ends
<1>2. IInv /\ [Next]_vars =>
        [\A t \in Tasks : \A i \in DOMAIN runs[t] :
           LET r == runs[t][i]
               n == runs'[t][i]
           IN  r.pending # NoToken =>
                 \/ isLive(n) /\ n.pending = r.pending
                 \/ n.state = "finished" /\ n.result = r.pending]_vars
  BY <1>1
<1> QED
  BY <1>2, Invariance, PTL DEF Spec, AcceptedCompletionKept

(* The work payload and the closing of an item change only between runs,   *)
(* although the edits decide on reads that other steps may overtake.       *)
THEOREM WorkIsFrozen == Spec => WorkFrozenUnderRun
<1>1. ASSUME IInv, [Next]_vars, NEW t \in Tasks
      PROVE  /\ tasks[t].closed => tasks'[t].closed
             /\ tasks'[t].work # tasks[t].work \/ tasks'[t].closed # tasks[t].closed =>
                  tasks[t].active = NoRun
  <2> DEFINE k == tasks[t]
             m == tasks'[t]
             s == runs[t]
             u == runs'[t]
  <2>1. Move(k, s, m, u) /\ k \in Task
    BY <1>1, EveryTaskMoves, TaskFacts
  <2> HIDE DEF k, m, s, u
  <2>2. (k.closed => m.closed) /\ (m.work # k.work \/ m.closed # k.closed => k.active = NoRun)
    BY <2>1, Zenon
       DEF Move, Kept, Started, Settled, Replaced, Lost, Retried, Edited, mintRun, freed, Task
  <2> QED
    BY <2>2 DEF k, m
<1>2. ASSUME IInv, NEW t \in Tasks, tasks[t].active = NoRun, NEW i \in DOMAIN runs[t]
      PROVE  ~isLive(runs[t][i])
  BY <1>2, TaskFacts DEF TaskInv, NoRun
<1>3. IInv /\ [Next]_vars =>
        [\A t \in Tasks :
           /\ tasks[t].closed => tasks'[t].closed
           /\ tasks'[t].work # tasks[t].work \/ tasks'[t].closed # tasks[t].closed =>
                \A i \in DOMAIN runs[t] : ~isLive(runs[t][i])]_vars
  BY <1>1, <1>2
<1> QED
  BY <1>3, Invariance, PTL DEF Spec, WorkFrozenUnderRun

-----------------------------------------------------------------------------
(* The refinement *)

(* The abstract history of a task.                                         *)
outcomes(s) == [i \in DOMAIN s |-> outcomeOf(s[i])]

LEMMA OutcomesOfSeq ==
  ASSUME NEW s \in Seq(Run)
  PROVE  outcomes(s) \in Seq(RunStates \cup {"live"}) /\ Len(outcomes(s)) = Len(s)
<1>1. ASSUME NEW r \in Run PROVE outcomeOf(r) \in RunStates \cup {"live"}
  BY DEF outcomeOf, Run
<1>2. \A i \in DOMAIN s : outcomeOf(s[i]) \in RunStates \cup {"live"}
  BY <1>1
<1> QED
  BY <1>2 DEF outcomes

LEMMA OutcomesOfSettled ==
  ASSUME NEW s \in Seq(Run), NEW j \in DOMAIN s, NEW n \in Run, NEW o,
         n.state = o, o \notin LiveStates
  PROVE  outcomes([s EXCEPT ![j] = n]) = [outcomes(s) EXCEPT ![j] = o]
<1>1. outcomeOf(n) = o
  BY DEF outcomeOf, isLive
<1> QED
  BY <1>1 DEF outcomes

LEMMA OutcomesOfMinted ==
  ASSUME NEW s \in Seq(Run), NEW n \in Run, isLive(n)
  PROVE  outcomes(Append(s, n)) = Append(outcomes(s), "live")
<1>1. outcomeOf(n) = "live"
  BY DEF outcomeOf
<1>2. Append(s, n) \in Seq(Run) /\ Len(Append(s, n)) = Len(s) + 1
  OBVIOUS
<1>3. Append(outcomes(s), "live") \in Seq(RunStates \cup {"live"})
  BY OutcomesOfSeq
<1>4. Len(Append(outcomes(s), "live")) = Len(s) + 1
  BY OutcomesOfSeq
<1>5. outcomes(Append(s, n)) \in Seq(RunStates \cup {"live"}) /\ Len(outcomes(Append(s, n))) = Len(s) + 1
  BY <1>2, OutcomesOfSeq
<1>6. \A i \in 1 .. Len(s) + 1 : outcomes(Append(s, n))[i] = Append(outcomes(s), "live")[i]
  <2> SUFFICES ASSUME NEW i \in 1 .. Len(s) + 1
               PROVE  outcomes(Append(s, n))[i] = Append(outcomes(s), "live")[i]
    OBVIOUS
  <2>1. outcomes(Append(s, n))[i] = outcomeOf(Append(s, n)[i])
    BY <1>2 DEF outcomes
  <2>2. Append(s, n)[i] = IF i = Len(s) + 1 THEN n ELSE s[i]
    OBVIOUS
  <2>3. Append(outcomes(s), "live")[i] = IF i = Len(s) + 1 THEN "live" ELSE outcomes(s)[i]
    BY OutcomesOfSeq
  <2>4. i # Len(s) + 1 => outcomes(s)[i] = outcomeOf(s[i])
    BY DEF outcomes
  <2> QED
    BY <1>1, <2>1, <2>2, <2>3, <2>4
<1> QED
  BY <1>3, <1>4, <1>5, <1>6

LEMMA OutcomesOfKept ==
  ASSUME NEW k, NEW s, NEW m, NEW u, Kept(k, s, m, u)
  PROVE  m = k /\ outcomes(u) = outcomes(s)
<1>1. \A i \in DOMAIN s : outcomeOf(u[i]) = outcomeOf(s[i])
  BY DEF Kept, Continues, outcomeOf
<1> QED
  BY <1>1, Zenon DEF Kept, outcomes

(* The steps of TaskMutex, on the documents of one task.                   *)
MutexStarts(k, s, m, u) ==
  /\ k.active = NoRun /\ ~k.closed
  /\ outcomes(u) = Append(outcomes(s), "live")
  /\ m = [k EXCEPT !.active = Len(outcomes(s)) + 1]

MutexEnds(k, s, m, u, o, c) ==
  /\ k.active # NoRun
  /\ outcomes(u) = [outcomes(s) EXCEPT ![k.active] = o]
  /\ m = freed(k, c)

MutexPasses(k, s, m, u, o, c) ==
  /\ k.active # NoRun
  /\ outcomes(u) = Append([outcomes(s) EXCEPT ![k.active] = o], "live")
  /\ m = [freed(k, c) EXCEPT !.active = Len(outcomes(s)) + 1]

MutexMove(k, s, m, u) ==
  \/ m = k /\ outcomes(u) = outcomes(s)
  \/ MutexStarts(k, s, m, u)
  \/ \E o \in {"finished", "canceled"} : MutexEnds(k, s, m, u, o, 0)
  \/ MutexPasses(k, s, m, u, "canceled", 0)
  \/ MutexEnds(k, s, m, u, "lost", k.consecutiveLost + 1)
  \/ /\ k.consecutiveLost < MaxAutoRetries
     /\ MutexPasses(k, s, m, u, "lost", k.consecutiveLost + 1)
  \/ /\ k.active = NoRun /\ outcomes(u) = outcomes(s)
     /\ \/ ~k.closed /\ m = [k EXCEPT !.closed = TRUE]
        \/ m = [k EXCEPT !.work = @ + 1]

LEMMA MovesOfMutex ==
  ASSUME NEW k \in Task, NEW s \in Seq(Run), NEW m, NEW u, Move(k, s, m, u)
  PROVE  MutexMove(k, s, m, u)
<1>1. CASE Kept(k, s, m, u)
  BY <1>1, OutcomesOfKept DEF MutexMove
<1>2. CASE Started(k, s, m, u)
  <2>1. PICK p \in AllPipelines, id \in RequestIds :
          /\ u = Append(s, newRun(p, "caller", id))
          /\ m = [k EXCEPT !.active = Len(s) + 1]
    BY <1>2 DEF Started, mintRun
  <2>2. outcomes(u) = Append(outcomes(s), "live")
    BY <2>1, NewRun, OutcomesOfMinted
  <2>3. k.active = NoRun /\ ~k.closed
    BY <1>2 DEF Started
  <2> QED
    BY <2>1, <2>2, <2>3, OutcomesOfSeq DEF MutexMove, MutexStarts
<1>3. k.active \in DOMAIN s => k.active # NoRun
  BY DEF NoRun
<1>4. CASE Settled(k, s, m, u)
  <2>1. PICK o \in {"finished", "canceled"}, n \in Run :
          /\ k.active \in DOMAIN s /\ Ends(s[k.active], n, o)
          /\ m = freed(k, 0) /\ u = [s EXCEPT ![k.active] = n]
    BY <1>4 DEF Settled
  <2>2. outcomes(u) = [outcomes(s) EXCEPT ![k.active] = o]
    <3>1. k.active \in DOMAIN s /\ n.state = o /\ o \notin LiveStates
      BY <2>1 DEF Ends, LiveStates
    <3>2. outcomes([s EXCEPT ![k.active] = n]) = [outcomes(s) EXCEPT ![k.active] = o]
      BY <3>1, OutcomesOfSettled
    <3> QED
      BY <2>1, <3>2
  <2> QED
    BY <1>3, <2>1, <2>2 DEF MutexMove, MutexEnds
<1>5. CASE Lost(k, s, m, u)
  <2>1. PICK n \in Run :
          /\ k.active \in DOMAIN s /\ Ends(s[k.active], n, "lost")
          /\ m = freed(k, k.consecutiveLost + 1) /\ u = [s EXCEPT ![k.active] = n]
    BY <1>5 DEF Lost
  <2>2. outcomes(u) = [outcomes(s) EXCEPT ![k.active] = "lost"]
    <3>1. k.active \in DOMAIN s /\ n.state = "lost" /\ "lost" \notin LiveStates
      BY <2>1 DEF Ends, LiveStates
    <3>2. outcomes([s EXCEPT ![k.active] = n]) = [outcomes(s) EXCEPT ![k.active] = "lost"]
      BY <3>1, OutcomesOfSettled
    <3> QED
      BY <2>1, <3>2
  <2> QED
    BY <1>3, <2>1, <2>2 DEF MutexMove, MutexEnds
<1>6. ASSUME NEW o \in {"canceled", "lost"}, NEW c, NEW n \in Run, NEW x \in Run, isLive(x),
             k.active \in DOMAIN s, Ends(s[k.active], n, o),
             m = [freed(k, c) EXCEPT !.active = Len([s EXCEPT ![k.active] = n]) + 1],
             u = Append([s EXCEPT ![k.active] = n], x)
      PROVE  MutexPasses(k, s, m, u, o, c)
  <2> DEFINE z == [s EXCEPT ![k.active] = n]
  <2>1. z \in Seq(Run) /\ Len(z) = Len(s)
    BY <1>6
  <2>2. outcomes(z) = [outcomes(s) EXCEPT ![k.active] = o]
    <3>1. n.state = o /\ o \notin LiveStates
      BY <1>6 DEF Ends, LiveStates
    <3> QED
      BY <1>6, <3>1, OutcomesOfSettled
  <2> HIDE DEF z
  <2>3. outcomes(Append(z, x)) = Append(outcomes(z), "live")
    BY <1>6, <2>1, OutcomesOfMinted
  <2>4. Len(outcomes(s)) = Len(s)
    BY OutcomesOfSeq
  <2> QED
    BY <1>3, <1>6, <2>1, <2>2, <2>3, <2>4 DEF z, MutexPasses
<1>7. CASE Replaced(k, s, m, u)
  <2>1. PICK n \in Run, p \in AllPipelines, id \in RequestIds :
          /\ k.active \in DOMAIN s /\ Ends(s[k.active], n, "canceled")
          /\ m = [freed(k, 0) EXCEPT !.active = Len([s EXCEPT ![k.active] = n]) + 1]
          /\ u = Append([s EXCEPT ![k.active] = n], newRun(p, "caller", id))
    BY <1>7 DEF Replaced, mintRun
  <2>2. newRun(p, "caller", id) \in Run /\ isLive(newRun(p, "caller", id))
    BY NewRun
  <2>3. MutexPasses(k, s, m, u, "canceled", 0)
    BY <1>6, <2>1, <2>2
  <2> QED
    BY <2>3 DEF MutexMove
<1>8. CASE Retried(k, s, m, u)
  <2>1. PICK n \in Run :
          /\ k.active \in DOMAIN s /\ Ends(s[k.active], n, "lost")
          /\ m = [freed(k, k.consecutiveLost + 1)
                    EXCEPT !.active = Len([s EXCEPT ![k.active] = n]) + 1]
          /\ u = Append([s EXCEPT ![k.active] = n],
                        newRun(s[k.active].pipeline, "auto-retry", k.active))
    BY <1>8 DEF Retried, mintRun
  <2> DEFINE x == newRun(s[k.active].pipeline, "auto-retry", k.active)
  <2>2. x \in Run /\ isLive(x)
    BY <2>1, RetryRun
  <2> HIDE DEF x
  <2>3. MutexPasses(k, s, m, u, "lost", k.consecutiveLost + 1)
    BY <1>6, <2>1, <2>2 DEF x
  <2> QED
    BY <1>8, <2>3 DEF MutexMove, Retried
<1>9. CASE Edited(k, s, m, u)
  BY <1>9 DEF MutexMove, Edited
<1> QED
  BY <1>1, <1>2, <1>4, <1>5, <1>7, <1>8, <1>9 DEF Move

(* A move of one task is a step of TaskMutex.                              *)
LEMMA MoveRefines ==
  ASSUME IInv, IInv', NEW t \in Tasks, MoveOf(t)
  PROVE  [Mutex!Next]_(Mutex!mutexVars)
<1> DEFINE k == tasks[t]
           m == tasks'[t]
           s == runs[t]
           u == runs'[t]
<1>1. k \in Task /\ s \in Seq(Run) /\ MutexMove(k, s, m, u)
  BY TaskFacts, MovesOfMutex DEF MoveOf
<1>2. \A v \in Tasks \ {t} : tasks'[v] = tasks[v] /\ runs'[v] = runs[v]
  BY DEF MoveOf
<1> DEFINE h(ks) == [v \in Tasks |-> ks[v].active]
           o(ss) == [v \in Tasks |-> outcomes(ss[v])]
           c(ks) == [v \in Tasks |-> ks[v].consecutiveLost]
           d(ks) == [v \in Tasks |-> ks[v].closed]
           w(ks) == [v \in Tasks |-> ks[v].work]
<1>3. /\ h(tasks') = [h(tasks) EXCEPT ![t] = m.active]
      /\ o(runs') = [o(runs) EXCEPT ![t] = outcomes(u)]
      /\ c(tasks') = [c(tasks) EXCEPT ![t] = m.consecutiveLost]
      /\ d(tasks') = [d(tasks) EXCEPT ![t] = m.closed]
      /\ w(tasks') = [w(tasks) EXCEPT ![t] = m.work]
  BY <1>2
<1>4. /\ h(tasks)[t] = k.active /\ o(runs)[t] = outcomes(s) /\ c(tasks)[t] = k.consecutiveLost
      /\ d(tasks)[t] = k.closed /\ w(tasks)[t] = k.work
  OBVIOUS
<1>5. /\ m.active = k.active => h(tasks') = h(tasks)
      /\ outcomes(u) = outcomes(s) => o(runs') = o(runs)
      /\ m.consecutiveLost = k.consecutiveLost => c(tasks') = c(tasks)
      /\ m.closed = k.closed => d(tasks') = d(tasks)
      /\ m.work = k.work => w(tasks') = w(tasks)
  BY <1>3
<1>6. CASE m = k /\ outcomes(u) = outcomes(s)
  BY <1>5, <1>6 DEF h, o, c, d, w, outcomes, Mutex!mutexVars
<1>7. CASE MutexStarts(k, s, m, u)
  BY <1>1, <1>3, <1>4, <1>5, <1>7
  DEF MutexStarts, Mutex!Start, Mutex!Next, outcomes, Task, NoRun
<1>8. ASSUME NEW q \in {"finished", "canceled"}, MutexEnds(k, s, m, u, q, 0)
      PROVE  Mutex!Settle(t, q)
  BY <1>1, <1>3, <1>4, <1>5, <1>8
  DEF MutexEnds, freed, Mutex!Settle, Mutex!settledOutcomes, outcomes, Task, NoRun
<1>9. CASE MutexPasses(k, s, m, u, "canceled", 0)
  <2>1. Mutex!Replace(t)
    BY <1>1, <1>3, <1>4, <1>5, <1>9
    DEF MutexPasses, freed, Mutex!Replace, Mutex!settledOutcomes, outcomes, Task, NoRun
  <2> QED
    BY <2>1 DEF Mutex!Next
<1>10. CASE MutexEnds(k, s, m, u, "lost", k.consecutiveLost + 1)
  <2>1. Mutex!Lose(t)
    BY <1>1, <1>3, <1>4, <1>5, <1>10
    DEF MutexEnds, freed, Mutex!Lose, Mutex!settledOutcomes, outcomes, Task, NoRun
  <2> QED
    BY <2>1 DEF Mutex!Next
<1>11. CASE /\ k.consecutiveLost < MaxAutoRetries
            /\ MutexPasses(k, s, m, u, "lost", k.consecutiveLost + 1)
  <2>1. Mutex!LoseAndRetry(t)
    BY <1>1, <1>3, <1>4, <1>5, <1>11
    DEF MutexPasses, freed, Mutex!LoseAndRetry, Mutex!settledOutcomes, outcomes, Task, NoRun
  <2> QED
    BY <2>1 DEF Mutex!Next
<1>12. CASE /\ k.active = NoRun /\ outcomes(u) = outcomes(s)
            /\ \/ ~k.closed /\ m = [k EXCEPT !.closed = TRUE]
               \/ m = [k EXCEPT !.work = @ + 1]
  <2>1. Mutex!Close(t) \/ Mutex!EditWork(t)
    BY <1>1, <1>3, <1>4, <1>5, <1>12 DEF Mutex!Close, Mutex!EditWork, outcomes, Task, NoRun
  <2> QED
    BY <2>1 DEF Mutex!Next
<1>13. (\E q \in {"finished", "canceled"} : Mutex!Settle(t, q)) => Mutex!Next
  BY DEF Mutex!Next
<1> HIDE DEF k, m, s, u
<1> QED
  BY <1>1, <1>6, <1>7, <1>8, <1>9, <1>10, <1>11, <1>12, <1>13 DEF MutexMove

(* Every store transaction is one step of the abstract task or leaves it   *)
(* alone, for any number of tasks, requests, claims and retries.           *)
THEOREM TaskMutexImplemented == Spec => ImplementsTaskMutex
<1>1. Init => Mutex!Init
  BY DEF Init, Mutex!Init, NewTask, NoRun
<1>2. IInv /\ IInv' /\ [Next]_vars => [Mutex!Next]_(Mutex!mutexVars)
  <2> SUFFICES ASSUME IInv, IInv', [Next]_vars PROVE [Mutex!Next]_(Mutex!mutexVars)
    OBVIOUS
  <2>1. CASE NothingSettles
    <3>1. \A v \in Tasks : tasks'[v] = tasks[v] /\ outcomes(runs'[v]) = outcomes(runs[v])
      BY <2>1, OutcomesOfKept DEF NothingSettles
    <3> QED
      BY <3>1 DEF Mutex!mutexVars, outcomes
  <2> QED
    BY <2>1, StepMoves, MoveRefines
<1> QED
  BY <1>1, <1>2, Invariance, PTL DEF Spec, ImplementsTaskMutex, Mutex!Spec

-----------------------------------------------------------------------------
(* The inductive invariant of a task's history *)

(* The automatic retries among the runs after i, up to j.                  *)
retriesIn(s, i, j) == {n \in i + 1 .. j : s[n].source = "auto-retry"}

AllLost(s, i, j) == \A n \in i .. j - 1 : s[n].state = "lost"

SucceedsLost(s, i) ==
  s[i].source = "auto-retry" =>
    /\ s[i].request = i - 1 /\ s[i].request \in DOMAIN s
    /\ s[s[i].request].state = "lost"
    /\ s[s[i].request].pipeline = s[i].pipeline /\ ~isRecipe(s[i])

(* The lock is the last run's; an unbroken streak of losses before the     *)
(* last run holds no more retries than the task counts losses, one fewer   *)
(* once the last run is itself lost.                                       *)
HistoryInv(k, s) ==
  /\ k.active # NoRun => k.active = Len(s)
  /\ \A i \in DOMAIN s : Capped(s[i])
  /\ \A i \in DOMAIN s : SucceedsLost(s, i)
  /\ \A i, j \in DOMAIN s : AllLost(s, i, j) => Cardinality(retriesIn(s, i, j)) <= MaxAutoRetries
  /\ \A i \in DOMAIN s : AllLost(s, i, Len(s)) =>
       /\ isLive(s[Len(s)]) => Cardinality(retriesIn(s, i, Len(s))) <= k.consecutiveLost
       /\ s[Len(s)].state = "lost" =>
            Cardinality(retriesIn(s, i, Len(s))) + 1 <= k.consecutiveLost

Histories == \A t \in Tasks : HistoryInv(tasks[t], runs[t])

LEMMA RetriesFinite ==
  ASSUME NEW s, NEW i \in Nat, NEW j \in Nat
  PROVE  /\ IsFiniteSet(retriesIn(s, i, j)) /\ Cardinality(retriesIn(s, i, j)) \in Nat
         /\ i >= j => Cardinality(retriesIn(s, i, j)) = 0
<1>1. IsFiniteSet(i + 1 .. j) /\ retriesIn(s, i, j) \in SUBSET (i + 1 .. j)
  BY FS_Interval DEF retriesIn
<1>2. IsFiniteSet(retriesIn(s, i, j))
  BY <1>1, FS_Subset
<1>3. i >= j => retriesIn(s, i, j) = {}
  BY DEF retriesIn
<1> QED
  BY <1>2, <1>3, FS_CardinalityType, FS_EmptySet

LEMMA RetriesAgree ==
  ASSUME NEW s, NEW u, NEW i \in Nat, NEW j \in Nat, \A n \in 1 .. j : u[n].source = s[n].source
  PROVE  retriesIn(u, i, j) = retriesIn(s, i, j)
<1>1. \A n \in i + 1 .. j : u[n].source = s[n].source
  OBVIOUS
<1> QED
  BY <1>1, Zenon DEF retriesIn

LEMMA LossesAgree ==
  ASSUME NEW s, NEW u, NEW i \in Nat \ {0}, NEW j \in Nat,
         \A n \in 1 .. j - 1 : u[n].state = "lost" <=> s[n].state = "lost"
  PROVE  AllLost(u, i, j) <=> AllLost(s, i, j)
<1>1. \A n \in i .. j - 1 : u[n].state = "lost" <=> s[n].state = "lost"
  OBVIOUS
<1> QED
  BY <1>1, Zenon DEF AllLost

LEMMA KeptHistory ==
  ASSUME NEW k \in Task, NEW s \in Seq(Run), NEW m, NEW u \in Seq(Run),
         HistoryInv(k, s), Kept(k, s, m, u)
  PROVE  HistoryInv(m, u)
<1>1. m = k /\ Len(u) = Len(s) /\ DOMAIN u = 1 .. Len(s) /\ DOMAIN s = 1 .. Len(s)
  BY DEF Kept
<1>2. \A n \in 1 .. Len(s) :
        /\ SameRequest(s[n], u[n]) /\ (Capped(s[n]) => Capped(u[n]))
        /\ isLive(u[n]) <=> isLive(s[n])
        /\ u[n].state = "lost" <=> s[n].state = "lost"
  BY <1>1 DEF Kept, Continues, isLive, LiveStates
<1>3. \A i, j \in 1 .. Len(s) :
        retriesIn(u, i, j) = retriesIn(s, i, j) /\ (AllLost(u, i, j) <=> AllLost(s, i, j))
  <2> SUFFICES ASSUME NEW i \in 1 .. Len(s), NEW j \in 1 .. Len(s)
               PROVE  /\ retriesIn(u, i, j) = retriesIn(s, i, j)
                      /\ AllLost(u, i, j) <=> AllLost(s, i, j)
    OBVIOUS
  <2>1. \A n \in 1 .. j : u[n].source = s[n].source
    BY <1>2 DEF SameRequest
  <2>2. \A n \in 1 .. j - 1 : u[n].state = "lost" <=> s[n].state = "lost"
    BY <1>2
  <2>3. i \in Nat \ {0} /\ j \in Nat
    OBVIOUS
  <2>4. retriesIn(u, i, j) = retriesIn(s, i, j)
    BY <2>1, <2>3, RetriesAgree
  <2>5. AllLost(u, i, j) <=> AllLost(s, i, j)
    BY <2>2, <2>3, LossesAgree
  <2> QED
    BY <2>4, <2>5
<1>4. \A i \in DOMAIN u : SucceedsLost(u, i)
  BY <1>1, <1>2 DEF HistoryInv, SucceedsLost, SameRequest, isRecipe
<1>5. Len(s) \in Nat
  OBVIOUS
<1>6. \A i \in DOMAIN u : Len(s) \in 1 .. Len(s)
  BY <1>1
<1> QED
  BY <1>1, <1>2, <1>3, <1>4, <1>6 DEF HistoryInv

LEMMA EndHistory ==
  ASSUME NEW k \in Task, NEW s \in Seq(Run), HistoryInv(k, s), k.active \in DOMAIN s,
         NEW n \in Run, NEW o \in {"finished", "canceled", "lost"}, Ends(s[k.active], n, o),
         NEW c \in Nat, o = "lost" => c = k.consecutiveLost + 1
  PROVE  HistoryInv(freed(k, c), [s EXCEPT ![k.active] = n])
<1> DEFINE u == [s EXCEPT ![k.active] = n]
           m == freed(k, c)
<1>1. m.active = NoRun /\ m.consecutiveLost = c /\ k.consecutiveLost \in Nat
  BY DEF freed, Task
<1>2. Len(u) = Len(s) /\ DOMAIN u = 1 .. Len(s) /\ DOMAIN s = 1 .. Len(s) /\ u[Len(s)] = n
      /\ k.active = Len(s) /\ Len(s) \in Nat \ {0}
  BY DEF HistoryInv, NoRun
<1>3. SameRequest(s[Len(s)], n) /\ n.state = o /\ isLive(s[Len(s)]) /\ ~isLive(n)
  BY <1>2 DEF Ends, isLive, LiveStates
<1>4. \A i \in 1 .. Len(s) - 1 : u[i] = s[i]
  <2>1. \A i \in DOMAIN s : i # k.active => u[i] = s[i]
    OBVIOUS
  <2> HIDE DEF u
  <2>2. k.active = Len(s) /\ Len(s) \in Nat /\ DOMAIN s = 1 .. Len(s)
    BY <1>2
  <2>3. ASSUME NEW N \in Nat, NEW i \in 1 .. N - 1 PROVE i \in 1 .. N /\ i # N
    BY <2>3
  <2> QED
    BY <2>1, <2>2, <2>3
<1>5. \A i, j \in 1 .. Len(s) :
        retriesIn(u, i, j) = retriesIn(s, i, j) /\ (AllLost(u, i, j) <=> AllLost(s, i, j))
  <2> SUFFICES ASSUME NEW i \in 1 .. Len(s), NEW j \in 1 .. Len(s)
               PROVE  /\ retriesIn(u, i, j) = retriesIn(s, i, j)
                      /\ AllLost(u, i, j) <=> AllLost(s, i, j)
    OBVIOUS
  <2> HIDE DEF u
  <2>1. \A x \in 1 .. j : u[x].source = s[x].source
    BY <1>2, <1>3, <1>4 DEF SameRequest
  <2>2. \A x \in 1 .. j - 1 : u[x].state = "lost" <=> s[x].state = "lost"
    BY <1>2, <1>4
  <2>3. i \in Nat \ {0} /\ j \in Nat
    OBVIOUS
  <2>4. retriesIn(u, i, j) = retriesIn(s, i, j)
    BY <2>1, <2>3, RetriesAgree
  <2>5. AllLost(u, i, j) <=> AllLost(s, i, j)
    BY <2>2, <2>3, LossesAgree
  <2> QED
    BY <2>4, <2>5
<1> HIDE DEF u, m
<1>6. \A i \in DOMAIN u : Capped(u[i])
  BY <1>2, <1>3, <1>4 DEF HistoryInv, Capped
<1>7. ASSUME NEW i \in DOMAIN u PROVE SucceedsLost(u, i)
  <2>1. u[i].source = s[i].source /\ u[i].request = s[i].request /\ u[i].pipeline = s[i].pipeline
    BY <1>2, <1>3, <1>4, <1>7 DEF SameRequest
  <2>2. SucceedsLost(s, i)
    BY <1>2, <1>7 DEF HistoryInv
  <2>3. \A x \in DOMAIN s : s[x].state = "lost" => u[x] = s[x]
    BY <1>2, <1>3, <1>4 DEF isLive, LiveStates
  <2> QED
    BY <1>2, <2>1, <2>2, <2>3 DEF SucceedsLost, isRecipe
<1>8. \A i \in 1 .. Len(s) : AllLost(s, i, Len(s)) =>
        Cardinality(retriesIn(s, i, Len(s))) <= k.consecutiveLost
  BY <1>2, <1>3 DEF HistoryInv
<1>9. \A i \in 1 .. Len(s) : Cardinality(retriesIn(s, i, Len(s))) \in Nat
  BY RetriesFinite
<1>10. \A i \in 1 .. Len(s) : AllLost(u, i, Len(s)) /\ n.state = "lost" =>
        Cardinality(retriesIn(u, i, Len(s))) + 1 <= c
  BY <1>1, <1>2, <1>3, <1>5, <1>8, <1>9
<1>11. \A i, j \in DOMAIN u : AllLost(u, i, j) => Cardinality(retriesIn(u, i, j)) <= MaxAutoRetries
  BY <1>2, <1>5 DEF HistoryInv
<1>12. HistoryInv(m, u)
  BY <1>1, <1>2, <1>3, <1>6, <1>7, <1>10, <1>11 DEF HistoryInv
<1> QED
  BY <1>12 DEF m, u

(* The run appended by mintRun may be a caller's, or within the budget the *)
(* retry of the last run.                                                  *)
MayMint(k, s, x) ==
  \/ x.source = "caller"
  \/ /\ Len(s) # 0 /\ k.consecutiveLost <= MaxAutoRetries
     /\ x.source = "auto-retry" /\ x.request = Len(s)
     /\ s[Len(s)].state = "lost" /\ s[Len(s)].pipeline = x.pipeline /\ ~isRecipe(x)

LEMMA MintRetries ==
  ASSUME NEW s \in Seq(Run), NEW x \in Run, NEW i \in 1 .. Len(s)
  PROVE  /\ x.source = "caller" =>
              Cardinality(retriesIn(Append(s, x), i, Len(s) + 1)) =
              Cardinality(retriesIn(s, i, Len(s)))
         /\ Cardinality(retriesIn(Append(s, x), i, Len(s) + 1)) <=
            Cardinality(retriesIn(s, i, Len(s))) + 1
<1> DEFINE N == Len(s)
           u == Append(s, x)
           R == retriesIn(s, i, N)
<1>1. N \in Nat /\ i \in Nat /\ i <= N /\ u[N + 1] = x /\ \A n \in 1 .. N : u[n] = s[n]
  OBVIOUS
<1> HIDE DEF N, u
<1>2. retriesIn(u, i, N) = R
  BY <1>1, RetriesAgree
<1>3. i + 1 .. N + 1 = (i + 1 .. N) \cup {N + 1}
  BY <1>1
<1>4. retriesIn(u, i, N + 1) =
        retriesIn(u, i, N) \cup (IF x.source = "auto-retry" THEN {N + 1} ELSE {})
  BY <1>1, <1>3 DEF retriesIn
<1>5. IsFiniteSet(R) /\ Cardinality(R) \in Nat
  BY <1>1, RetriesFinite
<1> HIDE DEF R
<1>6. Cardinality(R \cup {N + 1}) <= Cardinality(R) + 1
  <2> DEFINE y == N + 1
  <2> HIDE DEF y
  <2>1. Cardinality(R \cup {y}) = IF y \in R THEN Cardinality(R) ELSE Cardinality(R) + 1
    BY <1>5, FS_AddElement
  <2> QED
    BY <1>5, <2>1 DEF y
<1>7. CASE x.source = "auto-retry"
  BY <1>2, <1>4, <1>6, <1>7 DEF N, u, R
<1>8. CASE x.source # "auto-retry"
  <2>1. retriesIn(u, i, N + 1) = R
    BY <1>2, <1>4, <1>8
  <2> QED
    BY <1>5, <2>1 DEF N, u, R
<1>9. x.source = "caller" => x.source # "auto-retry"
  OBVIOUS
<1> QED
  BY <1>7, <1>8, <1>9

LEMMA MintHistory ==
  ASSUME NEW k \in Task, NEW s \in Seq(Run), HistoryInv(k, s), k.active = NoRun,
         \A i \in DOMAIN s : ~isLive(s[i]),
         NEW x \in Run, x.state = "pending", x.queue = "none", MayMint(k, s, x)
  PROVE  HistoryInv([k EXCEPT !.active = Len(s) + 1], Append(s, x))
<1> DEFINE N == Len(s)
           u == Append(s, x)
           m == [k EXCEPT !.active = N + 1]
           c == k.consecutiveLost
<1>1. m.active = N + 1 /\ m.consecutiveLost = c /\ c \in Nat
  BY DEF Task
<1>2. /\ u \in Seq(Run) /\ Len(u) = N + 1 /\ DOMAIN u = 1 .. N + 1 /\ DOMAIN s = 1 .. N
      /\ u[N + 1] = x /\ N \in Nat /\ \A i \in 1 .. N : u[i] = s[i]
  OBVIOUS
<1>3. isLive(x) /\ x.state # "lost" /\ Capped(x)
  BY DEF isLive, LiveStates, Capped
<1>4. MaxAutoRetries \in Nat
  BY ConstantsAssumption
<1>5. \A i \in 1 .. N :
        /\ x.source = "caller" =>
             Cardinality(retriesIn(u, i, N + 1)) = Cardinality(retriesIn(s, i, N))
        /\ Cardinality(retriesIn(u, i, N + 1)) <= Cardinality(retriesIn(s, i, N)) + 1
  BY MintRetries
<1> HIDE DEF N, u, m
<1>6. \A i \in DOMAIN u : i \in 1 .. N \/ i = N + 1
  BY <1>2
<1>7. \A i \in DOMAIN u : Capped(u[i])
  BY <1>2, <1>3, <1>6 DEF HistoryInv
<1>8. ASSUME NEW i \in DOMAIN u PROVE SucceedsLost(u, i)
  <2>1. CASE i \in 1 .. N
    <3>1. SucceedsLost(s, i) /\ u[i] = s[i]
      BY <1>2, <2>1 DEF HistoryInv
    <3>2. \A r \in DOMAIN s : r \in DOMAIN u /\ u[r] = s[r]
      BY <1>2
    <3> QED
      BY <3>1, <3>2 DEF SucceedsLost
  <2>2. CASE i = N + 1
    <3>1. CASE x.source = "caller"
      BY <1>2, <2>2, <3>1 DEF SucceedsLost
    <3>2. CASE x.source = "auto-retry"
      <4>1. /\ N # 0 /\ x.request = N /\ s[N].state = "lost" /\ s[N].pipeline = x.pipeline
            /\ ~isRecipe(x)
        BY <3>2 DEF MayMint, N
      <4>2. N \in 1 .. N /\ N \in 1 .. N + 1 /\ N = (N + 1) - 1
        BY <1>2, <4>1
      <4> QED
        BY <1>2, <2>2, <4>1, <4>2 DEF SucceedsLost
    <3> QED
      BY <3>1, <3>2 DEF MayMint
  <2> QED
    BY <1>6, <1>8, <2>1, <2>2
<1>9. \A i \in 1 .. N, j \in 1 .. N :
        retriesIn(u, i, j) = retriesIn(s, i, j) /\ (AllLost(u, i, j) <=> AllLost(s, i, j))
  <2> SUFFICES ASSUME NEW i \in 1 .. N, NEW j \in 1 .. N
               PROVE  /\ retriesIn(u, i, j) = retriesIn(s, i, j)
                      /\ AllLost(u, i, j) <=> AllLost(s, i, j)
    OBVIOUS
  <2>1. \A n \in 1 .. j : u[n] = s[n]
    BY <1>2
  <2>2. i \in Nat \ {0} /\ j \in Nat /\ \A n \in 1 .. j - 1 : n \in 1 .. j
    BY <1>2
  <2>3. retriesIn(u, i, j) = retriesIn(s, i, j)
    <3>1. \A n \in 1 .. j : u[n].source = s[n].source
      BY <2>1
    <3> QED
      BY <2>2, <3>1, RetriesAgree
  <2>4. AllLost(u, i, j) <=> AllLost(s, i, j)
    BY <2>1, <2>2, LossesAgree
  <2> QED
    BY <2>3, <2>4
<1>10. ASSUME NEW i \in 1 .. N, AllLost(u, i, N + 1)
       PROVE  /\ AllLost(s, i, N) /\ s[N].state = "lost" /\ Cardinality(retriesIn(s, i, N)) \in Nat
              /\ Cardinality(retriesIn(s, i, N)) + 1 <= c
              /\ Cardinality(retriesIn(s, i, N)) <= MaxAutoRetries
  <2>1. \A n \in i .. N : u[n].state = "lost" /\ u[n] = s[n]
    BY <1>2, <1>10 DEF AllLost
  <2>2. AllLost(s, i, N) /\ s[N].state = "lost"
    BY <1>2, <2>1 DEF AllLost
  <2>3. N \in DOMAIN s /\ i \in DOMAIN s
    BY <1>2
  <2>4. /\ Cardinality(retriesIn(s, i, N)) + 1 <= c
        /\ Cardinality(retriesIn(s, i, N)) <= MaxAutoRetries
    BY <2>2, <2>3 DEF HistoryInv, N
  <2>5. Cardinality(retriesIn(s, i, N)) \in Nat
    BY <1>2, RetriesFinite
  <2> QED
    BY <2>2, <2>4, <2>5
<1>11. ASSUME NEW i \in DOMAIN u, AllLost(u, i, N + 1)
       PROVE  /\ Cardinality(retriesIn(u, i, N + 1)) <= c
              /\ Cardinality(retriesIn(u, i, N + 1)) <= MaxAutoRetries
  <2>1. Cardinality(retriesIn(u, i, N + 1)) \in Nat
    BY <1>2, RetriesFinite
  <2>2. CASE i = N + 1
    BY <1>1, <1>2, <1>4, <2>2, RetriesFinite
  <2>3. CASE i \in 1 .. N /\ x.source = "caller"
    BY <1>5, <1>10, <1>11, <2>3, <1>1, <1>4
  <2>4. CASE i \in 1 .. N /\ x.source = "auto-retry"
    <3>1. c <= MaxAutoRetries
      BY <2>4 DEF MayMint
    <3>2. Cardinality(retriesIn(s, i, N)) \in Nat /\ Cardinality(retriesIn(s, i, N)) + 1 <= c
      BY <1>10, <1>11, <2>4
    <3>3. Cardinality(retriesIn(u, i, N + 1)) <= Cardinality(retriesIn(s, i, N)) + 1
      BY <1>5, <2>4
    <3> QED
      BY <1>1, <1>4, <2>1, <3>1, <3>2, <3>3
  <2> QED
    BY <1>6, <1>11, <2>2, <2>3, <2>4 DEF MayMint
<1>12. ASSUME NEW i \in DOMAIN u, NEW j \in DOMAIN u, AllLost(u, i, j)
       PROVE  Cardinality(retriesIn(u, i, j)) <= MaxAutoRetries
  <2>1. CASE j = N + 1
    BY <1>11, <1>12, <2>1
  <2>2. CASE j \in 1 .. N /\ i = N + 1
    <3>1. i \in Nat /\ j \in Nat /\ i >= j
      BY <1>2, <2>2
    <3> QED
      BY <1>4, <3>1, RetriesFinite
  <2>3. CASE j \in 1 .. N /\ i \in 1 .. N
    BY <1>2, <1>9, <1>12, <2>3 DEF HistoryInv
  <2> QED
    BY <1>6, <2>1, <2>2, <2>3
<1>13. HistoryInv(m, u)
  <2>1. \A i \in DOMAIN u : AllLost(u, i, Len(u)) =>
          Cardinality(retriesIn(u, i, Len(u))) <= m.consecutiveLost
    BY <1>1, <1>2, <1>11
  <2>2. u[Len(u)].state # "lost" /\ m.active = Len(u)
    BY <1>1, <1>2, <1>3
  <2> QED
    BY <1>7, <1>8, <1>12, <2>1, <2>2 DEF HistoryInv
<1> QED
  BY <1>13 DEF m, u, N

(* Every move keeps the history.                                           *)
LEMMA MoveHistory ==
  ASSUME NEW k \in Task, NEW s \in Seq(Run), NEW m \in Task, NEW u \in Seq(Run),
         HistoryInv(k, s), TaskInv(k, s), Move(k, s, m, u)
  PROVE  HistoryInv(m, u)
<1>1. CASE Kept(k, s, m, u)
  BY <1>1, KeptHistory
<1>2. CASE Started(k, s, m, u)
  <2>1. PICK p \in AllPipelines, id \in RequestIds :
          /\ u = Append(s, newRun(p, "caller", id))
          /\ m = [k EXCEPT !.active = Len(s) + 1]
    BY <1>2 DEF Started, mintRun
  <2> DEFINE x == newRun(p, "caller", id)
  <2>2. x \in Run
    BY NewRun
  <2>3. x.source = "caller" /\ x.state = "pending" /\ x.queue = "none"
    BY DEF newRun
  <2>4. k.active = NoRun /\ \A i \in DOMAIN s : ~isLive(s[i])
    BY <1>2 DEF Started, TaskInv, NoRun
  <2> HIDE DEF x
  <2>5. HistoryInv([k EXCEPT !.active = Len(s) + 1], Append(s, x))
    BY <2>2, <2>3, <2>4, MintHistory DEF MayMint
  <2> QED
    BY <2>1, <2>5 DEF x
<1>3. k.consecutiveLost \in Nat /\ k.consecutiveLost + 1 \in Nat
  BY DEF Task
<1>4. CASE Settled(k, s, m, u)
  <2>1. PICK o \in {"finished", "canceled"}, n \in Run :
          /\ k.active \in DOMAIN s /\ Ends(s[k.active], n, o)
          /\ m = freed(k, 0) /\ u = [s EXCEPT ![k.active] = n]
    BY <1>4 DEF Settled
  <2>2. HistoryInv(freed(k, 0), [s EXCEPT ![k.active] = n])
    BY <2>1, EndHistory
  <2> QED
    BY <2>1, <2>2
<1>5. CASE Lost(k, s, m, u)
  <2>1. PICK n \in Run :
          /\ k.active \in DOMAIN s /\ Ends(s[k.active], n, "lost")
          /\ m = freed(k, k.consecutiveLost + 1) /\ u = [s EXCEPT ![k.active] = n]
    BY <1>5 DEF Lost
  <2>2. HistoryInv(freed(k, k.consecutiveLost + 1), [s EXCEPT ![k.active] = n])
    BY <1>3, <2>1, EndHistory
  <2> QED
    BY <2>1, <2>2
<1>6. ASSUME k.active \in DOMAIN s, NEW n \in Run, NEW o \in {"canceled", "lost"},
             Ends(s[k.active], n, o), NEW c \in Nat, o = "lost" => c = k.consecutiveLost + 1,
             NEW x \in Run, x.state = "pending", x.queue = "none",
             MayMint(freed(k, c), [s EXCEPT ![k.active] = n], x)
      PROVE  HistoryInv([freed(k, c) EXCEPT !.active = Len([s EXCEPT ![k.active] = n]) + 1],
                        Append([s EXCEPT ![k.active] = n], x))
  <2> DEFINE z == [s EXCEPT ![k.active] = n]
             f == freed(k, c)
  <2>1. HistoryInv(f, z)
    BY <1>6, EndHistory
  <2>2. f \in Task /\ f.active = NoRun
    BY <1>6 DEF freed, Task, NoRun
  <2>3. z \in Seq(Run) /\ DOMAIN z = DOMAIN s /\ z[k.active] = n
        /\ \A i \in DOMAIN s : i # k.active => z[i] = s[i]
    BY <1>6
  <2> HIDE DEF z, f
  <2>4. ~isLive(n)
    BY <1>6 DEF Ends, isLive, LiveStates
  <2>5. \A i \in DOMAIN z : ~isLive(z[i])
    BY <2>3, <2>4 DEF TaskInv
  <2>6. HistoryInv([f EXCEPT !.active = Len(z) + 1], Append(z, x))
    BY <1>6, <2>1, <2>2, <2>3, <2>5, MintHistory DEF f, z
  <2> QED
    BY <2>6 DEF f, z
<1>7. CASE Replaced(k, s, m, u)
  <2>1. PICK n \in Run, p \in AllPipelines, id \in RequestIds :
          /\ k.active \in DOMAIN s /\ Ends(s[k.active], n, "canceled")
          /\ m = [freed(k, 0) EXCEPT !.active = Len([s EXCEPT ![k.active] = n]) + 1]
          /\ u = Append([s EXCEPT ![k.active] = n], newRun(p, "caller", id))
    BY <1>7 DEF Replaced, mintRun
  <2> DEFINE x == newRun(p, "caller", id)
  <2>2. x \in Run
    BY NewRun
  <2>3. x.source = "caller" /\ x.state = "pending" /\ x.queue = "none"
    BY DEF newRun
  <2> HIDE DEF x
  <2>4. MayMint(freed(k, 0), [s EXCEPT ![k.active] = n], x)
    BY <2>3 DEF MayMint
  <2>5. HistoryInv([freed(k, 0) EXCEPT !.active = Len([s EXCEPT ![k.active] = n]) + 1],
                   Append([s EXCEPT ![k.active] = n], x))
    BY <1>6, <2>1, <2>2, <2>3, <2>4
  <2> QED
    BY <2>1, <2>5 DEF x
<1>8. CASE Retried(k, s, m, u)
  <2> DEFINE x == newRun(s[k.active].pipeline, "auto-retry", k.active)
             c == k.consecutiveLost + 1
  <2>1. PICK n \in Run :
          /\ k.active \in DOMAIN s /\ Ends(s[k.active], n, "lost")
          /\ m = [freed(k, c) EXCEPT !.active = Len([s EXCEPT ![k.active] = n]) + 1]
          /\ u = Append([s EXCEPT ![k.active] = n], x)
    BY <1>8 DEF Retried, mintRun
  <2>2. x \in Run
    BY <2>1, RetryRun
  <2>3. /\ x.source = "auto-retry" /\ x.state = "pending" /\ x.queue = "none"
        /\ x.request = k.active /\ x.pipeline = s[k.active].pipeline
    BY DEF newRun
  <2>4. ~isRecipe(x)
    BY <1>8, <2>3 DEF Retried, isRecipe
  <2> HIDE DEF x
  <2> DEFINE z == [s EXCEPT ![k.active] = n]
  <2>5. k.active = Len(s) /\ Len(s) # 0
    BY <2>1 DEF HistoryInv, NoRun
  <2>6. Len(z) = Len(s) /\ z[k.active] = n
    BY <2>1
  <2>7. n.state = "lost" /\ n.pipeline = s[k.active].pipeline
    BY <2>1 DEF Ends, SameRequest
  <2>8. freed(k, c).consecutiveLost = c /\ c <= MaxAutoRetries
    <3>1. freed(k, c).consecutiveLost = c
      BY DEF freed, Task
    <3>2. k.consecutiveLost < MaxAutoRetries
      BY <1>8 DEF Retried
    <3> QED
      BY <1>3, <3>1, <3>2, ConstantsAssumption
  <2> HIDE DEF z
  <2>9. MayMint(freed(k, c), z, x)
    BY <2>3, <2>4, <2>5, <2>6, <2>7, <2>8 DEF MayMint
  <2>10. HistoryInv([freed(k, c) EXCEPT !.active = Len(z) + 1], Append(z, x))
    BY <1>3, <1>6, <2>1, <2>2, <2>3, <2>9 DEF z
  <2> QED
    BY <2>1, <2>10 DEF z
<1>9. CASE Edited(k, s, m, u)
  <2>1. u = s /\ m.active = k.active /\ m.consecutiveLost = k.consecutiveLost
    BY <1>9 DEF Edited, Task
  <2> QED
    BY <2>1 DEF HistoryInv
<1> QED
  BY <1>1, <1>2, <1>4, <1>5, <1>7, <1>8, <1>9 DEF Move

LEMMA HistoriesInvariant == Spec => []Histories
<1>1. Init => Histories
  <2> SUFFICES ASSUME Init, NEW t \in Tasks PROVE HistoryInv(tasks[t], runs[t])
    BY DEF Histories
  <2>1. tasks[t].active = NoRun /\ runs[t] = << >>
    BY DEF Init, NewTask
  <2> QED
    BY <2>1 DEF HistoryInv
<1>2. IInv /\ IInv' /\ Histories /\ [Next]_vars => Histories'
  <2> SUFFICES ASSUME IInv, IInv', Histories, [Next]_vars, NEW t \in Tasks
               PROVE  HistoryInv(tasks'[t], runs'[t])
    BY DEF Histories
  <2>1. Move(tasks[t], runs[t], tasks'[t], runs'[t])
    BY EveryTaskMoves
  <2>2. /\ tasks[t] \in Task /\ runs[t] \in Seq(Run) /\ TaskInv(tasks[t], runs[t])
        /\ tasks'[t] \in Task /\ runs'[t] \in Seq(Run)
    BY TaskFacts DEF IInv, TypeOK
  <2>3. HistoryInv(tasks[t], runs[t])
    BY DEF Histories
  <2> QED
    BY <2>1, <2>2, <2>3, MoveHistory
<1> QED
  BY <1>1, <1>2, Invariance, PTL DEF Spec

(* An automatic retry directly follows the lost run it names and repeats   *)
(* its pipeline, whatever requests, reports and sweeps interleave.         *)
THEOREM RetriesSucceed == Spec => []RetriesSucceedLostRun
<1>1. Histories => RetriesSucceedLostRun
  BY DEF Histories, HistoryInv, SucceedsLost, RetriesSucceedLostRun
<1> QED
  BY <1>1, HistoriesInvariant, PTL

(* The start deadline of a waiting claim never passes its cap, however     *)
(* often its executor reports an unplaced Job.                             *)
THEOREM PlacementWaitIsCapped == Spec => []PlacementWaitCapped
<1>1. Histories => PlacementWaitCapped
  BY DEF Histories, HistoryInv, Capped, PlacementWaitCapped
<1> QED
  BY <1>1, HistoriesInvariant, PTL

(* Between two finished or canceled runs at most MaxAutoRetries runs are   *)
(* automatic retries: requests neither clear nor renew the budget.         *)
THEOREM RetryBudget == Spec => []RetryBudgetKept
<1>1. Histories => RetryBudgetKept
  BY DEF Histories, HistoryInv, AllLost, retriesIn, RetryBudgetKept
<1> QED
  BY <1>1, HistoriesInvariant, PTL

=============================================================================
