------------------------ MODULE RepositoryJobsProofs ------------------------
(***************************************************************************)
(* The safety of RepositoryJobs for any definitions, schedule, requests    *)
(* and number of overlapping handlers.                                     *)
(***************************************************************************)
EXTENDS RepositoryJobs, WellFoundedInduction, TLAPS

Digest == Digests \cup {None, Invalid, Gone}

Owners == {Operator, Automation}

JobDoc ==
  [digest : Digest, error : BOOLEAN, refreshedAt : Nat, enabled : BOOLEAN, by : Owners,
   floor : Nat, vetoed : BOOLEAN, active : Ids \cup {<< >>}, baseline : Ids \cup {<< >>}]

Occurrence ==
  [there : BOOLEAN, digest : Digest, skipped : BOOLEAN, artifact : Artifacts \cup {None},
   reconciled : BOOLEAN]

Work ==
  [run : {None, "queued", "claimed", "started", "settled"}, result : {None, "complete"},
   wait : Nat, life : Nat]

Handler ==
  [pc : {"idle", "publish", "admit", "mint", "remint", "readRun", "reconcile", "plan"},
   at : Nat, id : Ids \cup {<< >>}, digest : Digest, defer : BOOLEAN, ready : BOOLEAN,
   by : Owners \cup {None}, floor : Nat, found : {None, "complete"}]

JobsTypeOK ==
  /\ job \in JobDoc
  /\ occurrences \in [Ids -> Occurrence]
  /\ work \in [Ids -> Work]
  /\ handlers \in [Handlers -> Handler]
  /\ now \in Nat /\ changes \in Nat

-----------------------------------------------------------------------------
(* The inductive invariant *)

(* A worker's life fits in what is left of the backstop of its settled run. *)
WorkInv(w) ==
  /\ w.life > 0 => w.run \in {"started", "settled"}
  /\ w.wait > 0 => w.run = "settled"
  /\ w.run = "started" => w.life <= PodLimit
  /\ w.run = "settled" => w.life <= w.wait

(* An occurrence has Work only if it holds or held the pointer, an         *)
(* artifact only if it was admitted, and was reconciled only after its     *)
(* worker had stopped.                                                     *)
OccurrenceInv(o, w) ==
  /\ w.run # None => o.there /\ ~o.skipped
  /\ o.artifact # None => o.there
  /\ o.reconciled => stopped(w)

PointerInv(j, id, o) == j.active = id <=> o.there /\ ~o.skipped /\ ~o.reconciled

BaselineInv(j, os, ws) ==
  j.baseline # << >> =>
    /\ ws[j.baseline].run = "settled" /\ ws[j.baseline].result = "complete"
    /\ os[j.baseline].artifact = "complete"

DocumentsInv(j, os, ws) ==
  /\ \A id \in Ids :
       WorkInv(ws[id]) /\ OccurrenceInv(os[id], ws[id]) /\ PointerInv(j, id, os[id])
  /\ BaselineInv(j, os, ws)
  /\ j.vetoed => ~j.enabled

(* What a handler remembers stays true however late it acts on it.         *)
HandlerInv(x, os, ws) ==
  /\ x.pc \in {"admit", "mint", "remint", "readRun", "reconcile"} => x.id \in Ids
  /\ x.pc \in {"remint", "readRun", "reconcile", "plan"} => x.by \in Owners
  /\ x.pc \in {"mint", "remint", "readRun", "reconcile"} => os[x.id].there /\ ~os[x.id].skipped
  /\ x.pc = "reconcile" => stopped(ws[x.id]) /\ x.found = ws[x.id].result

JobsInv ==
  /\ JobsTypeOK
  /\ DocumentsInv(job, occurrences, work)
  /\ \A h \in Handlers : HandlerInv(handlers[h], occurrences, work)

-----------------------------------------------------------------------------
(* The latest due minute of a window *)

LEMMA LargestElement ==
  ASSUME NEW n \in Nat, NEW T \in SUBSET (0 .. n), T # {}
  PROVE  \E x \in T : \A y \in T : y <= x
<1> DEFINE D == {n - y : y \in T}
           R == OpToRel(<, Nat)
<1>1. D \subseteq Nat /\ D # {}
  <2>1. \A y \in T : n - y \in Nat
    OBVIOUS
  <2> QED
    BY <2>1
<1>2. \A e, d \in Nat : e < d => <<e, d>> \in R
  BY Zenon DEF OpToRel
<1>3. IsWellFoundedOn(R, Nat)
  BY NatLessThanWellFounded, Zenon
<1> HIDE DEF D, R
<1>4. \E d \in D : \A e \in D : ~(<<e, d>> \in R)
  BY <1>1, <1>3, WFMin
<1>5. PICK d \in D : \A e \in D : ~(e < d)
  BY <1>1, <1>2, <1>4
<1>6. PICK x \in T : \A y \in T : ~(n - y < n - x)
  BY <1>5 DEF D
<1>7. \A y \in T : y \in Int
  OBVIOUS
<1> QED
  BY <1>6, <1>7

-----------------------------------------------------------------------------
(* What every step keeps *)

LEMMA NoIdIsEmpty == << >> \notin Ids
BY DEF Ids

LEMMA Facts ==
  ASSUME JobsInv
  PROVE  /\ job \in JobDoc /\ now \in Nat /\ changes \in Nat
         /\ occurrences \in [Ids -> Occurrence] /\ work \in [Ids -> Work]
         /\ handlers \in [Handlers -> Handler]
         /\ \A id \in Ids : /\ occurrences[id] \in Occurrence /\ work[id] \in Work
                            /\ WorkInv(work[id]) /\ OccurrenceInv(occurrences[id], work[id])
                            /\ PointerInv(job, id, occurrences[id])
         /\ \A h \in Handlers : handlers[h] \in Handler /\ HandlerInv(handlers[h], occurrences, work)
BY DEF JobsInv, JobsTypeOK, DocumentsInv

(* Work goes forward: a settled run keeps its result, and its backstop     *)
(* only runs down.                                                         *)
Advances(w, n) ==
  /\ n \in Work /\ WorkInv(n)
  /\ w.run = "settled" => n.run = "settled" /\ n.result = w.result /\ n.wait <= w.wait
  /\ w.run # None => n.run # None

(* Occurrences are never unmade, nor are admissions and artifacts revised. *)
Grows(o, n) ==
  /\ n \in Occurrence
  /\ o.there => n.there /\ n.skipped = o.skipped
  /\ o.artifact # None => n.artifact = o.artifact
  /\ o.reconciled => n.reconciled

DocumentsGrow ==
  /\ occurrences' \in [Ids -> Occurrence] /\ work' \in [Ids -> Work]
  /\ \A id \in Ids : Advances(work[id], work'[id]) /\ Grows(occurrences[id], occurrences'[id])

LEMMA StoppedStays ==
  ASSUME NEW w \in Work, NEW n, Advances(w, n), stopped(w)
  PROVE  stopped(n) /\ n.result = w.result
<1>1. n.run = "settled" /\ n.result = w.result /\ n.wait <= w.wait /\ w.wait = 0
  BY DEF Advances, stopped
<1>2. n.wait \in Nat
  BY DEF Advances, Work
<1> QED
  BY <1>1, <1>2 DEF stopped

LEMMA HandlersRemember ==
  ASSUME JobsInv, DocumentsGrow, NEW x \in Handler, HandlerInv(x, occurrences, work)
  PROVE  HandlerInv(x, occurrences', work')
<1>1. \A id \in Ids : stopped(work[id]) => stopped(work'[id]) /\ work'[id].result = work[id].result
  BY Facts, StoppedStays DEF DocumentsGrow
<1>2. \A id \in Ids : occurrences[id].there /\ ~occurrences[id].skipped =>
                      occurrences'[id].there /\ ~occurrences'[id].skipped
  BY DEF DocumentsGrow, Grows
<1> QED
  BY <1>1, <1>2 DEF HandlerInv

(* The handlers after a step of handler h.                                 *)
LEMMA HandlerSteps ==
  ASSUME JobsInv, DocumentsGrow, NEW h \in Handlers, NEW n \in Handler,
         HandlerInv(n, occurrences', work'), handlers' = [handlers EXCEPT ![h] = n]
  PROVE  /\ handlers' \in [Handlers -> Handler]
         /\ \A g \in Handlers : HandlerInv(handlers'[g], occurrences', work')
<1>1. /\ handlers' \in [Handlers -> Handler] /\ handlers'[h] = n
      /\ \A g \in Handlers : g # h => handlers'[g] = handlers[g]
  BY Facts
<1> QED
  BY <1>1, Facts, HandlersRemember

LEMMA HandlersUnmoved ==
  ASSUME JobsInv, DocumentsGrow, handlers' = handlers
  PROVE  /\ handlers' \in [Handlers -> Handler]
         /\ \A g \in Handlers : HandlerInv(handlers'[g], occurrences', work')
BY Facts, HandlersRemember

LEMMA IdleHandler ==
  /\ Idle \in Handler /\ Idle.pc = "idle"
  /\ \A os, ws : HandlerInv(Idle, os, ws)
BY DEF Idle, Handler, HandlerInv, Digest

LEMMA UnchangedGrows ==
  ASSUME NEW o \in Occurrence, NEW w \in Work, WorkInv(w)
  PROVE  Grows(o, o) /\ Advances(w, w)
<1>1. w.wait <= w.wait
  BY DEF Work
<1> QED
  BY <1>1 DEF Grows, Advances

-----------------------------------------------------------------------------
(* Steps of a handler alone *)

LEMMA DocumentsUnchanged ==
  ASSUME JobsInv, UNCHANGED <<occurrences, work>>
  PROVE  DocumentsGrow
BY Facts, UnchangedGrows DEF DocumentsGrow

LEMMA Changed ==
  ASSUME JobsInv, change
  PROVE  changes' \in Nat
BY Facts DEF change

LEMMA HandlerOnly ==
  ASSUME JobsInv, NEW h \in Handlers, NEW n \in Handler, HandlerInv(n, occurrences, work),
         handlers' = [handlers EXCEPT ![h] = n], UNCHANGED <<job, occurrences, work>>,
         now' \in Nat, changes' \in Nat
  PROVE  JobsInv'
<1>1. DocumentsGrow
  BY DocumentsUnchanged
<1>2. HandlerInv(n, occurrences', work')
  BY <1>1, HandlersRemember
<1>3. /\ handlers' \in [Handlers -> Handler]
      /\ \A g \in Handlers : HandlerInv(handlers'[g], occurrences', work')
  BY <1>1, <1>2, HandlerSteps
<1>4. DocumentsInv(job', occurrences', work')
  BY DEF JobsInv
<1> QED
  BY <1>3, <1>4, Facts DEF JobsInv, JobsTypeOK

LEMMA RefreshStep ==
  ASSUME JobsInv, NEW h \in Handlers, Refresh(h)
  PROVE  JobsInv'
<1>1. PICK found \in Digests \cup {Invalid, Gone} :
        go(h, [Idle EXCEPT !.at = now, !.digest = found], "publish")
  BY DEF Refresh
<1> DEFINE n == [[Idle EXCEPT !.at = now, !.digest = found] EXCEPT !.pc = "publish"]
<1>2. n \in Handler /\ n.pc = "publish"
  BY Facts DEF Idle, Handler, Digest
<1>3. handlers' = [handlers EXCEPT ![h] = n]
  BY <1>1 DEF go
<1> HIDE DEF n
<1>4. HandlerInv(n, occurrences, work)
  BY <1>2 DEF HandlerInv
<1> QED
  BY <1>2, <1>3, <1>4, Facts, Changed, HandlerOnly DEF Refresh

LEMMA InvokeStep ==
  ASSUME JobsInv, NEW h \in Handlers, NEW r \in Requests, NEW defer \in BOOLEAN,
         Invoke(h, r, defer)
  PROVE  JobsInv'
<1> DEFINE id == <<Operator, "manual", r>>
           d == IF defer /\ occurrences[id].there THEN occurrences[id].digest ELSE job.digest
           n == [[Idle EXCEPT !.at = now, !.defer = defer, !.id = id, !.digest = d]
                   EXCEPT !.pc = "admit"]
<1>1. id \in Ids
  BY DEF Ids
<1>2. d \in Digest
  <2>1. occurrences[id].digest \in Digest
    BY <1>1, Facts DEF Occurrence
  <2>2. job.digest \in Digest
    BY Facts DEF JobDoc
  <2> QED
    BY <2>1, <2>2
<1>3. handlers' = [handlers EXCEPT ![h] = n]
  BY DEF Invoke, go
<1> HIDE DEF id, d
<1>4. n \in Handler /\ n.pc = "admit" /\ n.id = id
  BY <1>1, <1>2, Facts DEF Idle, Handler, Digest
<1> HIDE DEF n
<1>5. HandlerInv(n, occurrences, work)
  BY <1>1, <1>4 DEF HandlerInv
<1> QED
  BY <1>3, <1>4, <1>5, Facts, Changed, HandlerOnly DEF Invoke

LEMMA ListJobStep ==
  ASSUME JobsInv, NEW h \in Handlers, ListJob(h)
  PROVE  JobsInv'
<1> DEFINE pc == IF job.active = << >> THEN "plan" ELSE "remint"
           y == job.enabled /\ ~job.error
           n == [[Idle EXCEPT !.id = job.active, !.digest = job.digest, !.by = job.by,
                              !.floor = job.floor, !.ready = y] EXCEPT !.pc = pc]
<1>1. /\ job.active \in Ids \cup {<< >>} /\ job.digest \in Digest /\ job.by \in Owners
      /\ job.floor \in Nat /\ y \in BOOLEAN
  BY Facts DEF JobDoc
<1>2. handlers' = [handlers EXCEPT ![h] = n]
  BY DEF ListJob, go
<1>3. pc \in {"plan", "remint"} /\ (pc = "remint" => job.active \in Ids)
  BY <1>1
<1> HIDE DEF pc, y
<1>4. n \in Handler /\ n.pc = pc /\ n.id = job.active /\ n.by = job.by
  BY <1>1, <1>3 DEF Idle, Handler, Digest
<1> HIDE DEF n
<1>5. pc = "remint" => occurrences[job.active].there /\ ~occurrences[job.active].skipped
  BY <1>3, Facts DEF PointerInv
<1>6. HandlerInv(n, occurrences, work)
  BY <1>1, <1>3, <1>4, <1>5 DEF HandlerInv
<1> QED
  BY <1>2, <1>4, <1>6, Facts, HandlerOnly DEF ListJob

LEMMA CutOffStep ==
  ASSUME JobsInv, NEW h \in Handlers, CutOff(h)
  PROVE  JobsInv'
<1>1. handlers' = [handlers EXCEPT ![h] = Idle]
  BY DEF CutOff, end
<1> QED
  BY <1>1, Facts, Changed, IdleHandler, HandlerOnly DEF CutOff

LEMMA ReadRunStep ==
  ASSUME JobsInv, NEW h \in Handlers, ReadRun(h)
  PROVE  JobsInv'
<1> DEFINE x == handlers[h]
           w == work[x.id]
<1>1. /\ x \in Handler /\ x.pc = "readRun" /\ x.id \in Ids /\ x.by \in Owners
      /\ occurrences[x.id].there /\ ~occurrences[x.id].skipped
  BY Facts DEF ReadRun, HandlerInv
<1>2. w \in Work
  BY <1>1, Facts
<1>3. w.result \in {None, "complete"}
  BY <1>2 DEF Work
<1>4. CASE stopped(w)
  <2> DEFINE n == [[x EXCEPT !.found = w.result] EXCEPT !.pc = "reconcile"]
  <2>1. handlers' = [handlers EXCEPT ![h] = n]
    BY <1>4 DEF ReadRun, go
  <2> HIDE DEF x, w
  <2>2. n \in Handler /\ n.pc = "reconcile" /\ n.id = x.id /\ n.by = x.by /\ n.found = w.result
    BY <1>1, <1>3 DEF Handler
  <2> HIDE DEF n
  <2>3. HandlerInv(n, occurrences, work)
    BY <1>1, <1>4, <2>2 DEF HandlerInv, w
  <2> QED
    BY <2>1, <2>2, <2>3, Facts, HandlerOnly DEF ReadRun
<1>5. CASE ~stopped(w)
  <2> DEFINE n == [[x EXCEPT !.id = << >>] EXCEPT !.pc = "plan"]
  <2>1. handlers' = [handlers EXCEPT ![h] = n]
    BY <1>5 DEF ReadRun, go
  <2> HIDE DEF x, w
  <2>2. n \in Handler /\ n.pc = "plan" /\ n.by = x.by
    BY <1>1 DEF Handler
  <2> HIDE DEF n
  <2>3. HandlerInv(n, occurrences, work)
    BY <1>1, <2>2 DEF HandlerInv
  <2> QED
    BY <2>1, <2>2, <2>3, Facts, HandlerOnly DEF ReadRun
<1> QED
  BY <1>4, <1>5

LEMMA PlanStep ==
  ASSUME JobsInv, NEW h \in Handlers, Plan(h)
  PROVE  JobsInv'
<1> DEFINE x    == handlers[h]
           due  == {m \in Due : m <= now /\ m > now - Window}
           slot == CHOOSE m \in due : \A n \in due : n <= m
           y    == [[Idle EXCEPT !.at = now, !.digest = x.digest, !.id = <<x.by, "schedule", slot>>]
                      EXCEPT !.pc = "admit"]
<1>1. x \in Handler /\ x.by \in Owners
  BY Facts DEF Plan, HandlerInv
<1>2. x.digest \in Digest
  BY <1>1 DEF Handler
<1>3. CASE due # {} /\ handlers' = [handlers EXCEPT ![h] = y]
  <2>1. due \in SUBSET (0 .. MaxTime) /\ MaxTime \in Nat
    <3>1. MaxTime \in Nat /\ \A m \in Due : m \in 1 .. MaxTime
      BY JobsAssumption
    <3>2. \A m \in Due : m \in 0 .. MaxTime
      BY <3>1
    <3> QED
      BY <3>1, <3>2
  <2>2. \E m \in due : \A n \in due : n <= m
    BY <1>3, <2>1, LargestElement
  <2>3. slot \in Due
    BY <2>2
  <2>4. <<x.by, "schedule", slot>> \in Ids
    BY <1>1, <2>3 DEF Ids, Owners
  <2> HIDE DEF slot, x
  <2>5. y \in Handler /\ y.pc = "admit" /\ y.id = <<x.by, "schedule", slot>>
    BY <1>1, <1>2, <2>4, Facts DEF Idle, Handler, Digest
  <2> HIDE DEF y
  <2>6. HandlerInv(y, occurrences, work)
    BY <2>4, <2>5 DEF HandlerInv
  <2> QED
    BY <1>3, <2>5, <2>6, Facts, HandlerOnly DEF Plan
<1>4. CASE handlers' = [handlers EXCEPT ![h] = Idle]
  BY <1>4, Facts, IdleHandler, HandlerOnly DEF Plan
<1> QED
  BY <1>3, <1>4 DEF Plan, go, end

-----------------------------------------------------------------------------
(* The catalog *)

LEMMA JobOnly ==
  ASSUME JobsInv, NEW j \in JobDoc, job' = j, j.active = job.active, j.baseline = job.baseline,
         j.vetoed => ~j.enabled, UNCHANGED <<occurrences, work>>
  PROVE  DocumentsInv(job', occurrences', work') /\ DocumentsGrow
<1>1. DocumentsGrow
  BY DocumentsUnchanged
<1>2. \A id \in Ids : /\ WorkInv(work[id]) /\ OccurrenceInv(occurrences[id], work[id])
                      /\ PointerInv(j, id, occurrences[id])
  BY Facts DEF PointerInv
<1>3. BaselineInv(j, occurrences, work)
  BY DEF JobsInv, DocumentsInv, BaselineInv
<1> QED
  BY <1>1, <1>2, <1>3 DEF DocumentsInv

LEMMA PublishStep ==
  ASSUME JobsInv, NEW h \in Handlers, Publish(h)
  PROVE  JobsInv'
<1> DEFINE x == handlers[h]
           d == CASE x.digest = Gone    -> job.digest
                  [] x.digest = Invalid -> None
                  [] OTHER              -> x.digest
           e == x.digest \notin Digests
           row == [job EXCEPT !.error = e, !.refreshedAt = x.at, !.digest = d]
           on == [row EXCEPT !.enabled = TRUE, !.by = Automation, !.floor = x.at]
           off == [row EXCEPT !.enabled = FALSE]
<1>1. /\ job \in JobDoc /\ x \in Handler /\ (job.vetoed => ~job.enabled)
  BY Facts DEF JobsInv, DocumentsInv
<1>2. x.at \in Nat /\ x.digest \in Digest /\ job.digest \in Digest /\ e \in BOOLEAN
  BY <1>1 DEF Handler, JobDoc
<1>3. d \in Digest
  BY <1>2 DEF Digest
<1>4. \/ job' = job
      \/ job.enabled /\ job' = row
      \/ ~job.vetoed /\ job' = on
      \/ job' = off
  BY DEF Publish, activates
<1>5. handlers' = [handlers EXCEPT ![h] = Idle] /\ UNCHANGED <<occurrences, work, now, changes>>
  BY DEF Publish, end
<1> HIDE DEF x, d, e
<1>6. /\ row \in JobDoc /\ row.active = job.active /\ row.baseline = job.baseline
      /\ row.vetoed = job.vetoed /\ row.enabled = job.enabled
  BY <1>1, <1>2, <1>3 DEF JobDoc
<1> HIDE DEF row
<1>7. /\ on \in JobDoc /\ on.active = job.active /\ on.baseline = job.baseline
      /\ on.vetoed = job.vetoed
  BY <1>2, <1>6 DEF JobDoc, Owners
<1>8. /\ off \in JobDoc /\ off.active = job.active /\ off.baseline = job.baseline
      /\ ~off.enabled
  BY <1>6 DEF JobDoc
<1> HIDE DEF on, off
<1>9. PICK j \in JobDoc :
        /\ job' = j /\ j.active = job.active /\ j.baseline = job.baseline
        /\ j.vetoed => ~j.enabled
  BY <1>1, <1>4, <1>6, <1>7, <1>8
<1>10. DocumentsInv(job', occurrences', work') /\ DocumentsGrow
  BY <1>5, <1>9, JobOnly
<1>11. /\ handlers' \in [Handlers -> Handler]
       /\ \A g \in Handlers : HandlerInv(handlers'[g], occurrences', work')
  BY <1>5, <1>10, IdleHandler, HandlerSteps
<1> QED
  BY <1>5, <1>9, <1>10, <1>11, Facts DEF JobsInv, JobsTypeOK

LEMMA DecideStep ==
  ASSUME JobsInv, Enable \/ Disable
  PROVE  JobsInv'
<1> DEFINE on == [job EXCEPT !.enabled = TRUE, !.by = Operator, !.floor = now, !.vetoed = FALSE]
           off == [job EXCEPT !.enabled = FALSE, !.vetoed = TRUE]
<1>1. job' = on \/ job' = off
  BY DEF Enable, Disable
<1>2. changes' \in Nat /\ UNCHANGED <<occurrences, work, handlers, now>>
  BY Changed DEF Enable, Disable
<1>3. on \in JobDoc /\ on.active = job.active /\ on.baseline = job.baseline /\ ~on.vetoed
  BY Facts DEF JobDoc, Owners
<1>4. off \in JobDoc /\ off.active = job.active /\ off.baseline = job.baseline /\ ~off.enabled
  BY Facts DEF JobDoc
<1> HIDE DEF on, off
<1>5. DocumentsInv(job', occurrences', work') /\ DocumentsGrow
  BY <1>1, <1>2, <1>3, <1>4, JobOnly
<1>6. /\ handlers' \in [Handlers -> Handler]
      /\ \A g \in Handlers : HandlerInv(handlers'[g], occurrences', work')
  BY <1>2, <1>5, HandlersUnmoved
<1> QED
  BY <1>1, <1>2, <1>3, <1>4, <1>5, <1>6, Facts DEF JobsInv, JobsTypeOK

-----------------------------------------------------------------------------
(* Work *)

LEMMA WorkOnly ==
  ASSUME JobsInv, UNCHANGED <<job, occurrences>>, work' \in [Ids -> Work],
         \A id \in Ids : Advances(work[id], work'[id]),
         \A id \in Ids : work'[id].run # None =>
           work[id].run # None \/ (occurrences[id].there /\ ~occurrences[id].skipped)
  PROVE  DocumentsInv(job', occurrences', work') /\ DocumentsGrow
<1>1. DocumentsGrow
  BY Facts, UnchangedGrows DEF DocumentsGrow
<1>2. ASSUME NEW id \in Ids
      PROVE  /\ WorkInv(work'[id]) /\ OccurrenceInv(occurrences[id], work'[id])
             /\ PointerInv(job, id, occurrences[id])
  <2>1. /\ WorkInv(work'[id]) /\ PointerInv(job, id, occurrences[id])
        /\ OccurrenceInv(occurrences[id], work[id]) /\ Advances(work[id], work'[id])
    BY <1>2, Facts DEF Advances
  <2>2. stopped(work[id]) => stopped(work'[id])
    BY <1>2, <2>1, Facts, StoppedStays
  <2> QED
    BY <1>2, <2>1, <2>2 DEF OccurrenceInv
<1>3. BaselineInv(job, occurrences, work')
  <2>1. job.baseline \in Ids \cup {<< >>}
    BY Facts DEF JobDoc
  <2> QED
    BY <2>1 DEF JobsInv, DocumentsInv, BaselineInv, Advances
<1> QED
  BY <1>1, <1>2, <1>3 DEF DocumentsInv, JobsInv

LEMMA WorkOfOne ==
  ASSUME JobsInv, NEW id \in Ids, NEW n, Advances(work[id], n),
         n.run # None => work[id].run # None \/ (occurrences[id].there /\ ~occurrences[id].skipped),
         work' = [work EXCEPT ![id] = n], UNCHANGED <<job, occurrences>>
  PROVE  DocumentsInv(job', occurrences', work') /\ DocumentsGrow /\ work' \in [Ids -> Work]
<1>1. n \in Work
  BY DEF Advances
<1>2. /\ work' \in [Ids -> Work] /\ work'[id] = n
      /\ \A c \in Ids : c # id => work'[c] = work[c]
  BY <1>1, Facts
<1>3. \A c \in Ids : Advances(work[c], work'[c])
  BY <1>2, Facts, UnchangedGrows
<1> QED
  BY <1>2, <1>3, WorkOnly

LEMMA WorkFields ==
  ASSUME NEW w \in Work
  PROVE  /\ w.run \in {None, "queued", "claimed", "started", "settled"}
         /\ w.result \in {None, "complete"} /\ w.wait \in Nat /\ w.life \in Nat
BY DEF Work

LEMMA SettledWork ==
  ASSUME NEW w \in Work, WorkInv(w), live(w), NEW res \in {None, "complete"}
  PROVE  /\ Advances(w, settled(w, res))
         /\ settled(w, res).run = "settled" /\ settled(w, res).result = res
<1> DEFINE t == IF w.run = "queued" THEN 0 ELSE Backstop
           n == settled(w, res)
<1>1. PodLimit \in Nat /\ Backstop \in Nat /\ PodLimit <= Backstop
  BY JobsAssumption
<1>2. t \in Nat
  BY <1>1
<1>3. /\ n \in Work /\ n.run = "settled" /\ n.result = res /\ n.wait = t /\ n.life = w.life
  BY <1>2 DEF Work, settled
<1>4. w.life <= t
  BY <1>1, WorkFields DEF WorkInv, live
<1> HIDE DEF n, t
<1>5. WorkInv(n)
  BY <1>3, <1>4 DEF WorkInv
<1>6. w.run # "settled"
  BY DEF live
<1> QED
  BY <1>3, <1>5, <1>6 DEF Advances, n, None

LEMMA RunAdvances ==
  ASSUME JobsInv, NEW id \in Ids,
         \/ ClaimRun(id) \/ WorkerStarts(id) \/ RecipeComplete(id) \/ SettleRun(id)
         \/ ExitReport(id)
  PROVE  \E n : /\ Advances(work[id], n) /\ work' = [work EXCEPT ![id] = n]
                /\ work[id].run # None
<1> DEFINE w == work[id]
<1>1. w \in Work /\ WorkInv(w)
  BY Facts
<1>2. /\ w.run \in {None, "queued", "claimed", "started", "settled"}
      /\ w.result \in {None, "complete"} /\ w.wait \in Nat /\ w.life \in Nat
  BY <1>1, WorkFields
<1>3. PodLimit \in Nat /\ PodLimit <= PodLimit
  BY JobsAssumption
<1>4. CASE ClaimRun(id)
  <2> DEFINE n == [w EXCEPT !.run = "claimed"]
  <2>1. work' = [work EXCEPT ![id] = n] /\ w.run = "queued"
    BY <1>4 DEF ClaimRun
  <2> HIDE DEF w
  <2>2. n \in Work /\ n.run = "claimed" /\ n.life = w.life /\ n.wait = w.wait
    BY <1>1 DEF Work
  <2> HIDE DEF n
  <2>3. Advances(w, n) /\ w.run # None
    BY <1>1, <1>2, <2>1, <2>2 DEF Advances, WorkInv, None
  <2> QED
    BY <2>1, <2>3 DEF w
<1>5. CASE WorkerStarts(id)
  <2> DEFINE n == [w EXCEPT !.run = "started", !.life = PodLimit]
  <2>1. work' = [work EXCEPT ![id] = n] /\ w.run = "claimed"
    BY <1>5 DEF WorkerStarts
  <2> HIDE DEF w
  <2>2. n \in Work /\ n.run = "started" /\ n.life = PodLimit /\ n.wait = w.wait
    BY <1>1, <1>3 DEF Work
  <2> HIDE DEF n
  <2>3. Advances(w, n) /\ w.run # None
    BY <1>1, <1>2, <1>3, <2>1, <2>2 DEF Advances, WorkInv, None
  <2> QED
    BY <2>1, <2>3 DEF w
<1>6. CASE RecipeComplete(id) \/ SettleRun(id)
  <2>1. PICK res \in {None, "complete"} : work' = [work EXCEPT ![id] = settled(w, res)] /\ live(w)
    BY <1>6 DEF RecipeComplete, SettleRun, live
  <2>2. Advances(w, settled(w, res)) /\ w.run # None
    BY <1>1, <2>1, SettledWork DEF live, None
  <2> QED
    BY <2>1, <2>2
<1>7. CASE ExitReport(id)
  <2> DEFINE v == IF live(w) THEN settled(w, None) ELSE w
             n == [v EXCEPT !.wait = 0, !.life = 0]
  <2>1. /\ work' = [work EXCEPT ![id] = n]
        /\ w.run \in {"claimed", "started"} \/ w.wait > 0
    BY <1>7 DEF ExitReport
  <2>2. /\ v \in Work /\ (w.run = "settled" => v.run = "settled" /\ v.result = w.result)
        /\ w.run # None => v.run # None
    BY <1>1, SettledWork DEF Advances, live, None
  <2>3. w.run # None
    BY <1>1, <2>1 DEF WorkInv, None
  <2> HIDE DEF v, w
  <2>4. n \in Work /\ n.run = v.run /\ n.result = v.result /\ n.wait = 0 /\ n.life = 0
    BY <2>2 DEF Work
  <2> HIDE DEF n
  <2>5. WorkInv(n)
    BY <1>3, <2>4 DEF WorkInv
  <2>6. Advances(w, n)
    BY <1>2, <2>2, <2>4, <2>5 DEF Advances
  <2> QED
    BY <2>1, <2>3, <2>6 DEF w
<1> QED
  BY <1>4, <1>5, <1>6, <1>7

LEMMA WorkerStep ==
  ASSUME JobsInv, NEW id \in Ids,
         \/ ClaimRun(id) \/ WorkerStarts(id) \/ RecipeComplete(id) \/ SettleRun(id)
         \/ ExitReport(id)
  PROVE  JobsInv'
<1>1. PICK n : /\ Advances(work[id], n) /\ work' = [work EXCEPT ![id] = n]
               /\ work[id].run # None
  BY RunAdvances
<1>2. UNCHANGED <<job, occurrences, handlers, now, changes>>
  BY DEF ClaimRun, WorkerStarts, RecipeComplete, SettleRun, ExitReport
<1>3. DocumentsInv(job', occurrences', work') /\ DocumentsGrow /\ work' \in [Ids -> Work]
  BY <1>1, <1>2, WorkOfOne
<1>4. /\ handlers' \in [Handlers -> Handler]
      /\ \A g \in Handlers : HandlerInv(handlers'[g], occurrences', work')
  BY <1>2, <1>3, HandlersUnmoved
<1> QED
  BY <1>2, <1>3, <1>4, Facts DEF JobsInv, JobsTypeOK

LEMMA MintedWork ==
  ASSUME JobsInv, NEW id \in Ids, occurrences[id].there /\ ~occurrences[id].skipped,
         NEW grant \in BOOLEAN, work' = minted(id, grant), UNCHANGED <<job, occurrences>>
  PROVE  DocumentsInv(job', occurrences', work') /\ DocumentsGrow /\ work' \in [Ids -> Work]
<1> DEFINE w == work[id]
           n == [w EXCEPT !.run = "queued"]
<1>1. w \in Work /\ WorkInv(w)
  BY Facts
<1>2. CASE w.run = None /\ work' = [work EXCEPT ![id].run = "queued"]
  <2>1. work' = [work EXCEPT ![id] = n]
    BY <1>2
  <2>2. n \in Work /\ n.run = "queued" /\ n.life = w.life /\ n.wait = w.wait
    BY <1>1 DEF Work
  <2>3. w.wait \in Nat /\ w.life \in Nat
    BY <1>1, WorkFields
  <2> HIDE DEF n
  <2>4. Advances(w, n)
    BY <1>1, <1>2, <2>2, <2>3 DEF Advances, WorkInv, None
  <2> QED
    BY <2>1, <2>4, WorkOfOne
<1>3. CASE work' = work
  BY <1>3, Facts, UnchangedGrows, WorkOnly
<1> QED
  BY <1>2, <1>3 DEF minted

LEMMA MintStep ==
  ASSUME JobsInv, NEW h \in Handlers, Mint(h)
  PROVE  JobsInv'
<1>1. PICK grant \in BOOLEAN : work' = minted(handlers[h].id, grant)
  BY DEF Mint
<1>2. /\ handlers[h].id \in Ids
      /\ occurrences[handlers[h].id].there /\ ~occurrences[handlers[h].id].skipped
  BY Facts DEF Mint, HandlerInv
<1>3. handlers' = [handlers EXCEPT ![h] = Idle] /\ UNCHANGED <<job, occurrences, now, changes>>
  BY DEF Mint, end
<1>4. DocumentsInv(job', occurrences', work') /\ DocumentsGrow /\ work' \in [Ids -> Work]
  BY <1>1, <1>2, <1>3, MintedWork
<1>5. /\ handlers' \in [Handlers -> Handler]
      /\ \A g \in Handlers : HandlerInv(handlers'[g], occurrences', work')
  BY <1>3, <1>4, IdleHandler, HandlerSteps
<1> QED
  BY <1>3, <1>4, <1>5, Facts DEF JobsInv, JobsTypeOK

LEMMA RemintStep ==
  ASSUME JobsInv, NEW h \in Handlers, Remint(h)
  PROVE  JobsInv'
<1> DEFINE x == handlers[h]
           n == [x EXCEPT !.pc = "readRun"]
<1>1. PICK grant \in BOOLEAN : work' = minted(x.id, grant)
  BY DEF Remint
<1>2. /\ x \in Handler /\ x.id \in Ids /\ x.by \in Owners
      /\ occurrences[x.id].there /\ ~occurrences[x.id].skipped
  BY Facts DEF Remint, HandlerInv
<1>3. /\ handlers' = [handlers EXCEPT ![h] = Idle] \/ handlers' = [handlers EXCEPT ![h] = n]
      /\ UNCHANGED <<job, occurrences, now, changes>>
  BY DEF Remint, end, go
<1>4. DocumentsInv(job', occurrences', work') /\ DocumentsGrow /\ work' \in [Ids -> Work]
  BY <1>1, <1>2, <1>3, MintedWork
<1> HIDE DEF x
<1>5. n \in Handler /\ n.pc = "readRun" /\ n.id = x.id /\ n.by = x.by
  BY <1>2 DEF Handler
<1> HIDE DEF n
<1>6. HandlerInv(n, occurrences', work')
  BY <1>2, <1>3, <1>5 DEF HandlerInv
<1>7. /\ handlers' \in [Handlers -> Handler]
      /\ \A g \in Handlers : HandlerInv(handlers'[g], occurrences', work')
  BY <1>3, <1>4, <1>5, <1>6, IdleHandler, HandlerSteps
<1> QED
  BY <1>3, <1>4, <1>7, Facts DEF JobsInv, JobsTypeOK

LEMMA ClockStep ==
  ASSUME JobsInv, Clock
  PROVE  JobsInv'
<1>1. ASSUME NEW w \in Work, WorkInv(w)
      PROVE  Advances(w, [w EXCEPT !.life = less1(@), !.wait = waited(@)])
  <2> DEFINE n == [w EXCEPT !.life = less1(@), !.wait = waited(@)]
  <2>1. w.wait \in Nat /\ w.life \in Nat
    BY <1>1, WorkFields
  <2>2. /\ less1(w.life) \in Nat /\ waited(w.wait) \in Nat
        /\ less1(w.life) <= w.life /\ waited(w.wait) <= w.wait
        /\ w.life <= w.wait => less1(w.life) <= waited(w.wait)
    BY <2>1 DEF less1, waited
  <2>3. /\ n \in Work /\ n.run = w.run /\ n.result = w.result
        /\ n.life = less1(w.life) /\ n.wait = waited(w.wait)
    BY <1>1, <2>2 DEF Work
  <2> HIDE DEF n
  <2>4. PodLimit \in Nat
    BY JobsAssumption
  <2>5. WorkInv(n)
    BY <1>1, <2>1, <2>2, <2>3, <2>4 DEF WorkInv
  <2>6. Advances(w, n)
    BY <2>2, <2>3, <2>5 DEF Advances
  <2> QED
    BY <2>6 DEF n
<1>2. /\ work' = [id \in Ids |-> [work[id] EXCEPT !.life = less1(@), !.wait = waited(@)]]
      /\ UNCHANGED <<job, occurrences, handlers, changes>>
  BY DEF Clock
<1>3. \A id \in Ids : Advances(work[id], work'[id])
  BY <1>1, <1>2, Facts
<1>4. work' \in [Ids -> Work]
  <2>1. \A id \in Ids : work'[id] \in Work
    BY <1>3 DEF Advances
  <2> QED
    BY <1>2, <2>1
<1>5. \A id \in Ids : work'[id].run = work[id].run
  BY <1>2, Facts DEF Work
<1>6. DocumentsInv(job', occurrences', work') /\ DocumentsGrow
  BY <1>2, <1>3, <1>4, <1>5, WorkOnly
<1>7. /\ handlers' \in [Handlers -> Handler]
      /\ \A g \in Handlers : HandlerInv(handlers'[g], occurrences', work')
  BY <1>2, <1>6, HandlersUnmoved
<1>8. now' \in Nat
  <2>1. now \in Nat /\ now' \in {now, now + 1}
    BY Facts DEF Clock
  <2> QED
    BY <2>1
<1> QED
  BY <1>2, <1>4, <1>6, <1>7, <1>8, Facts DEF JobsInv, JobsTypeOK

-----------------------------------------------------------------------------
(* Occurrences *)

LEMMA StageStep ==
  ASSUME JobsInv, NEW id \in Ids, NEW a \in Artifacts, Stage(id, a)
  PROVE  JobsInv'
<1> DEFINE o == occurrences[id]
           n == [o EXCEPT !.artifact = a]
<1>1. o \in Occurrence /\ o.artifact = None /\ o.there
  BY Facts DEF Stage, PointerInv
<1>2. occurrences' = [occurrences EXCEPT ![id] = n] /\ UNCHANGED <<job, work, handlers, now, changes>>
  BY DEF Stage
<1> HIDE DEF o
<1>3. /\ n \in Occurrence /\ n.there = o.there /\ n.skipped = o.skipped
      /\ n.reconciled = o.reconciled /\ n.artifact = a
  BY <1>1 DEF Occurrence
<1> HIDE DEF n
<1>4. /\ occurrences' \in [Ids -> Occurrence] /\ occurrences'[id] = n
      /\ \A c \in Ids : c # id => occurrences'[c] = occurrences[c]
  BY <1>2, <1>3, Facts
<1>5. Grows(o, n)
  BY <1>1, <1>3 DEF Grows
<1>6. DocumentsGrow
  BY <1>2, <1>4, <1>5, Facts, UnchangedGrows DEF DocumentsGrow, o
<1>7. \A c \in Ids : OccurrenceInv(occurrences'[c], work[c]) /\ PointerInv(job, c, occurrences'[c])
  BY <1>1, <1>3, <1>4, Facts DEF OccurrenceInv, PointerInv, o
<1>8. BaselineInv(job, occurrences', work)
  <2>1. job.baseline \in Ids \cup {<< >>}
    BY Facts DEF JobDoc
  <2>2. job.baseline # id
    BY <1>1, NoIdIsEmpty DEF JobsInv, DocumentsInv, BaselineInv, o, None
  <2> QED
    BY <1>4, <2>1, <2>2 DEF JobsInv, DocumentsInv, BaselineInv
<1>9. DocumentsInv(job', occurrences', work')
  BY <1>2, <1>7, <1>8 DEF JobsInv, DocumentsInv
<1>10. /\ handlers' \in [Handlers -> Handler]
       /\ \A g \in Handlers : HandlerInv(handlers'[g], occurrences', work')
  BY <1>2, <1>6, HandlersUnmoved
<1> QED
  BY <1>2, <1>4, <1>9, <1>10, Facts DEF JobsInv, JobsTypeOK

LEMMA ReconcileStep ==
  ASSUME JobsInv, NEW h \in Handlers, Reconcile(h)
  PROVE  JobsInv'
<1> DEFINE x == handlers[h]
           id == x.id
           o == occurrences[id]
           y == [[x EXCEPT !.id = << >>, !.found = None] EXCEPT !.pc = "plan"]
<1>1. /\ x \in Handler /\ id \in Ids /\ x.by \in Owners
      /\ stopped(work[id]) /\ x.found = work[id].result
  BY Facts DEF Reconcile, HandlerInv
<1>2. handlers' = [handlers EXCEPT ![h] = y] /\ UNCHANGED <<work, now, changes>>
  BY DEF Reconcile, go
<1>3. y \in Handler /\ y.pc = "plan" /\ y.by = x.by
  <2> HIDE DEF x
  <2> QED
    BY <1>1 DEF Handler
<1>4. CASE UNCHANGED <<job, occurrences>>
  <2>1. HandlerInv(y, occurrences, work)
    BY <1>1, <1>3 DEF HandlerInv
  <2> QED
    BY <1>2, <1>3, <1>4, <2>1, Facts, HandlerOnly
<1>5. CASE /\ holdsPointer(id)
           /\ job' = [job EXCEPT !.active = << >>,
                                 !.baseline = IF succeeded(x.found, o) THEN id ELSE @]
           /\ occurrences' = [occurrences EXCEPT ![id].reconciled = TRUE]
  <2> DEFINE b == IF succeeded(x.found, o) THEN id ELSE job.baseline
             j == [job EXCEPT !.active = << >>, !.baseline = b]
             n == [o EXCEPT !.reconciled = TRUE]
  <2>1. job' = j /\ occurrences' = [occurrences EXCEPT ![id] = n] /\ job.active = id
    BY <1>5 DEF holdsPointer
  <2>2. /\ job \in JobDoc /\ o \in Occurrence /\ job.baseline \in Ids \cup {<< >>}
        /\ o.there /\ ~o.skipped
    <3>1. job \in JobDoc /\ o \in Occurrence /\ PointerInv(job, id, o)
      BY <1>1, Facts
    <3> QED
      BY <2>1, <3>1 DEF JobDoc, PointerInv
  <2>3. b \in Ids \cup {<< >>}
    BY <1>1, <2>2
  <2>4. succeeded(x.found, o) =>
          /\ work[id].run = "settled" /\ work[id].result = "complete" /\ o.artifact = "complete"
    BY <1>1 DEF succeeded, stopped
  <2>5. b # << >> => /\ b \in Ids /\ work[b].run = "settled" /\ work[b].result = "complete"
                     /\ occurrences[b].artifact = "complete"
    BY <1>1, <2>2, <2>4 DEF JobsInv, DocumentsInv, BaselineInv
  <2> HIDE DEF x, id, o, b, y
  <2>6. /\ j \in JobDoc /\ j.active = << >> /\ j.baseline = b /\ j.vetoed = job.vetoed
        /\ j.enabled = job.enabled
    BY <2>2, <2>3 DEF JobDoc
  <2>7. /\ n \in Occurrence /\ n.there = o.there /\ n.skipped = o.skipped
        /\ n.artifact = o.artifact /\ n.reconciled
    BY <2>2 DEF Occurrence
  <2> HIDE DEF j, n
  <2>8. /\ occurrences' \in [Ids -> Occurrence] /\ occurrences'[id] = n
        /\ \A c \in Ids : c # id => occurrences'[c] = occurrences[c]
    BY <1>1, <2>1, <2>7, Facts
  <2>9. Grows(o, n)
    BY <2>7 DEF Grows
  <2>10. DocumentsGrow
    BY <1>1, <1>2, <2>8, <2>9, Facts, UnchangedGrows DEF DocumentsGrow, o
  <2>11. \A c \in Ids : OccurrenceInv(occurrences'[c], work[c])
    BY <1>1, <2>2, <2>7, <2>8, Facts DEF OccurrenceInv
  <2>12. \A c \in Ids : PointerInv(j, c, occurrences'[c])
    BY <1>1, <2>1, <2>6, <2>7, <2>8, Facts, NoIdIsEmpty DEF PointerInv
  <2>13. BaselineInv(j, occurrences', work)
    BY <2>5, <2>6, <2>7, <2>8 DEF BaselineInv, o
  <2>14. DocumentsInv(job', occurrences', work')
    BY <1>2, <2>1, <2>6, <2>11, <2>12, <2>13 DEF JobsInv, DocumentsInv
  <2>15. HandlerInv(y, occurrences', work')
    BY <1>1, <1>3 DEF HandlerInv
  <2>16. /\ handlers' \in [Handlers -> Handler]
         /\ \A g \in Handlers : HandlerInv(handlers'[g], occurrences', work')
    BY <1>2, <1>3, <2>10, <2>15, HandlerSteps
  <2> QED
    BY <1>2, <2>1, <2>6, <2>8, <2>14, <2>16, Facts DEF JobsInv, JobsTypeOK
<1> QED
  BY <1>4, <1>5 DEF Reconcile

LEMMA AdmitStep ==
  ASSUME JobsInv, NEW h \in Handlers, Admit(h)
  PROVE  JobsInv'
<1> DEFINE x == handlers[h]
           id == x.id
           o == occurrences[id]
           skips == job.active # << >>
           n == [NoOccurrence EXCEPT !.there = TRUE, !.digest = x.digest, !.skipped = skips]
           y == [[Idle EXCEPT !.id = id] EXCEPT !.pc = "mint"]
<1>1. x \in Handler /\ id \in Ids
  BY Facts DEF Admit, HandlerInv
<1>2. x.digest \in Digest
  BY <1>1 DEF Handler
<1>3. o \in Occurrence /\ job \in JobDoc /\ UNCHANGED <<work, now, changes>>
  BY <1>1, Facts DEF Admit
<1>4. y \in Handler /\ y.pc = "mint" /\ y.id = id
  <2> HIDE DEF id
  <2> QED
    BY <1>1 DEF Idle, Handler, Digest
<1>5. CASE handlers' = [handlers EXCEPT ![h] = Idle] /\ UNCHANGED <<job, occurrences>>
  BY <1>3, <1>5, Facts, IdleHandler, HandlerOnly
<1>6. CASE /\ o.there /\ ~o.skipped
           /\ handlers' = [handlers EXCEPT ![h] = y] /\ UNCHANGED <<job, occurrences>>
  <2>1. HandlerInv(y, occurrences, work)
    BY <1>1, <1>4, <1>6 DEF HandlerInv
  <2> QED
    BY <1>3, <1>4, <1>6, <2>1, Facts, HandlerOnly
<1>7. CASE /\ ~o.there /\ occurrences' = [occurrences EXCEPT ![id] = n]
           /\ job' = IF skips THEN job ELSE [job EXCEPT !.active = id]
           /\ handlers' = IF skips THEN [handlers EXCEPT ![h] = Idle]
                                   ELSE [handlers EXCEPT ![h] = y]
  <2> DEFINE j == IF skips THEN job ELSE [job EXCEPT !.active = id]
  <2>1. /\ j \in JobDoc /\ j.active = (IF skips THEN job.active ELSE id)
        /\ j.baseline = job.baseline /\ j.vetoed = job.vetoed /\ j.enabled = job.enabled
    <3> HIDE DEF id
    <3> QED
      BY <1>1, <1>3 DEF JobDoc
  <2>2. skips \in BOOLEAN
    OBVIOUS
  <2>3. job' = j
    BY <1>7
  <2>4. job.active \in Ids \cup {<< >>} /\ job.baseline \in Ids \cup {<< >>}
    BY <1>3 DEF JobDoc
  <2>5. job.active # id /\ ~o.reconciled /\ work[id].run = None
    BY <1>1, <1>7, Facts DEF PointerInv, OccurrenceInv, stopped, None
  <2> HIDE DEF x, id, o, y, j
  <2>6. n \in Occurrence /\ n.there /\ (n.skipped <=> skips) /\ ~n.reconciled
    BY <1>2, <2>2 DEF NoOccurrence, Occurrence
  <2> HIDE DEF n
  <2>7. /\ occurrences' \in [Ids -> Occurrence] /\ occurrences'[id] = n
        /\ \A c \in Ids : c # id => occurrences'[c] = occurrences[c]
    BY <1>1, <1>7, <2>6, Facts
  <2>8. o.artifact = None
    BY <1>1, <1>7, Facts DEF OccurrenceInv, o
  <2>9. Grows(o, n)
    BY <1>7, <2>5, <2>6, <2>8 DEF Grows
  <2>10. DocumentsGrow
    BY <1>1, <1>3, <2>7, <2>9, Facts, UnchangedGrows DEF DocumentsGrow, o
  <2>11. \A c \in Ids : OccurrenceInv(occurrences'[c], work[c])
    BY <1>1, <2>5, <2>6, <2>7, Facts DEF OccurrenceInv
  <2>12. \A c \in Ids : PointerInv(j, c, occurrences'[c])
    <3>1. PointerInv(j, id, n)
      BY <2>1, <2>5, <2>6 DEF PointerInv
    <3>2. ASSUME NEW c \in Ids, c # id
          PROVE  PointerInv(j, c, occurrences[c])
      BY <3>2, <2>1, Facts, NoIdIsEmpty DEF PointerInv
    <3> QED
      BY <2>7, <3>1, <3>2
  <2>13. BaselineInv(j, occurrences', work)
    <3>1. job.baseline # id
      BY <2>5, <1>1, NoIdIsEmpty DEF JobsInv, DocumentsInv, BaselineInv, None
    <3> QED
      BY <2>1, <2>4, <2>7, <3>1 DEF JobsInv, DocumentsInv, BaselineInv
  <2>14. DocumentsInv(job', occurrences', work')
    BY <1>3, <2>1, <2>3, <2>11, <2>12, <2>13 DEF JobsInv, DocumentsInv
  <2>15. ~skips => HandlerInv(y, occurrences', work')
    BY <1>1, <1>4, <2>6, <2>7 DEF HandlerInv
  <2>16. /\ handlers' \in [Handlers -> Handler]
         /\ \A g \in Handlers : HandlerInv(handlers'[g], occurrences', work')
    BY <1>4, <1>7, <2>10, <2>15, IdleHandler, HandlerSteps
  <2> QED
    BY <1>3, <2>1, <2>3, <2>7, <2>14, <2>16, Facts DEF JobsInv, JobsTypeOK
<1> QED
  BY <1>5, <1>6, <1>7 DEF Admit, go, end

-----------------------------------------------------------------------------
(* The invariant *)

LEMMA JobsInit ==
  ASSUME Init
  PROVE  JobsInv
<1>1. PICK d \in Digests : job = Published(d)
  BY DEF Init
<1>2. /\ job \in JobDoc /\ job.active = << >> /\ job.baseline = << >> /\ ~job.vetoed
  BY <1>1 DEF Published, JobDoc, Digest, Owners
<1>3. /\ NoOccurrence \in Occurrence /\ ~NoOccurrence.there /\ ~NoOccurrence.reconciled
      /\ NoOccurrence.artifact = None
  BY DEF NoOccurrence, Occurrence, Digest
<1>4. /\ NoWork \in Work /\ NoWork.run = None /\ NoWork.life = 0 /\ NoWork.wait = 0
  BY DEF NoWork, Work
<1>5. WorkInv(NoWork)
  BY <1>4 DEF WorkInv, None
<1>6. OccurrenceInv(NoOccurrence, NoWork)
  BY <1>3, <1>4 DEF OccurrenceInv
<1>7. \A id \in Ids : PointerInv(job, id, NoOccurrence)
  BY <1>2, <1>3, NoIdIsEmpty DEF PointerInv
<1>8. JobsTypeOK
  BY <1>2, <1>3, <1>4, IdleHandler, JobsAssumption DEF Init, JobsTypeOK
<1>9. DocumentsInv(job, occurrences, work)
  BY <1>2, <1>5, <1>6, <1>7 DEF Init, DocumentsInv, BaselineInv
<1>10. \A h \in Handlers : HandlerInv(handlers[h], occurrences, work)
  BY IdleHandler DEF Init
<1> QED
  BY <1>8, <1>9, <1>10 DEF JobsInv

LEMMA JobsStutter ==
  ASSUME JobsInv, UNCHANGED vars
  PROVE  JobsInv'
BY DEF JobsInv, JobsTypeOK, vars

LEMMA JobsNext ==
  ASSUME JobsInv, [Next]_vars
  PROVE  JobsInv'
<1>1. CASE Enable \/ Disable
  BY <1>1, DecideStep
<1>2. CASE Clock
  BY <1>2, ClockStep
<1>3. ASSUME NEW h \in Handlers, Refresh(h) \/ ListJob(h) \/ CutOff(h)
      PROVE  JobsInv'
  BY <1>3, RefreshStep, ListJobStep, CutOffStep
<1>4. ASSUME NEW h \in Handlers, Step(h)
      PROVE  JobsInv'
  BY <1>4, PublishStep, AdmitStep, MintStep, RemintStep, ReadRunStep, ReconcileStep, PlanStep
     DEF Step
<1>5. ASSUME NEW h \in Handlers, NEW r \in Requests, NEW defer \in BOOLEAN, Invoke(h, r, defer)
      PROVE  JobsInv'
  BY <1>5, InvokeStep
<1>6. ASSUME NEW id \in Ids, Worker(id)
      PROVE  JobsInv'
  BY <1>6, WorkerStep, StageStep DEF Worker
<1> QED
  BY <1>1, <1>2, <1>3, <1>4, <1>5, <1>6, JobsStutter DEF Next

(* Every reachable state satisfies the inductive invariant: documents and  *)
(* handlers are well typed, a worker's life fits in what is left of its    *)
(* settled run's backstop, Work exists only under an admitted occurrence,  *)
(* and what a handler remembers is still true when it acts on it.          *)
THEOREM JobsInvariance == Spec => []JobsInv
<1>1. Init => JobsInv
  BY JobsInit
<1>2. JobsInv /\ [Next]_vars => JobsInv'
  BY JobsNext
<1> QED
  BY <1>1, <1>2, PTL DEF Spec

(* The active pointer names exactly the admitted occurrence that is not    *)
(* yet reconciled, for any number of overlapping ticks, refreshes and      *)
(* invocations cut off anywhere (admit, reconcile).                        *)
THEOREM PointerIsExact == Spec => []PointerNamesOpenOccurrence
<1>1. JobsInv => PointerNamesOpenOccurrence
  BY Facts DEF PointerInv, PointerNamesOpenOccurrence
<1> QED
  BY <1>1, JobsInvariance, PTL

(* Two workers of a job are never at work together: Work is minted only    *)
(* for an occurrence that holds the pointer, which it gives up only after  *)
(* its executor's report or a backstop no shorter than a worker's life     *)
(* (reconcile, RETIREMENT_BACKSTOP_MS).                                    *)
THEOREM WorkersDoNotOverlap == Spec => []OneWorkerAtATime
<1>1. ASSUME JobsInv, NEW c \in Ids, working(work[c])
      PROVE  job.active = c
  <2> DEFINE w == work[c]
             o == occurrences[c]
  <2>1. /\ w \in Work /\ WorkInv(w) /\ OccurrenceInv(o, w) /\ PointerInv(job, c, o)
    BY <1>1, Facts
  <2>2. w.life > 0 /\ w.life \in Nat /\ w.wait \in Nat
    BY <1>1, <2>1, WorkFields DEF working
  <2> HIDE DEF w, o
  <2>3. w.run \in {"started", "settled"} /\ ~stopped(w)
    BY <2>1, <2>2 DEF WorkInv, stopped
  <2> QED
    BY <2>1, <2>3 DEF OccurrenceInv, PointerInv, None
<1>2. JobsInv => OneWorkerAtATime
  BY <1>1 DEF OneWorkerAtATime
<1> QED
  BY <1>2, JobsInvariance, PTL

(* The baseline a later occurrence is given is one whose run finished      *)
(* successfully with the artifact that is staged for it (reconcile).       *)
THEOREM BaselinesAreVerified == Spec => []BaselineVerified
<1>1. JobsInv => BaselineVerified
  BY DEF JobsInv, DocumentsInv, BaselineInv, BaselineVerified
<1> QED
  BY <1>1, JobsInvariance, PTL

(* A step makes an occurrence active only while the job is enabled.        *)
LEMMA OnlyEnabledAdmits ==
  ASSUME JobsInv, [Next]_vars
  PROVE  job'.active \in {job.active, << >>} \/ job.enabled
<1>0. job \in JobDoc
  BY Facts
<1>1. CASE Enable \/ Disable
  BY <1>0, <1>1 DEF Enable, Disable, JobDoc
<1>2. ASSUME NEW h \in Handlers, Publish(h)
      PROVE  job'.active = job.active
  BY <1>0, <1>2 DEF Publish, JobDoc
<1>3. ASSUME NEW h \in Handlers, Admit(h)
      PROVE  job' = job \/ job.enabled
  BY <1>3 DEF Admit, eligible
<1>4. ASSUME NEW h \in Handlers, Reconcile(h)
      PROVE  job'.active \in {job.active, << >>}
  BY <1>0, <1>4 DEF Reconcile, JobDoc
<1>5. ASSUME NEW h \in Handlers,
             Mint(h) \/ Remint(h) \/ ReadRun(h) \/ Plan(h) \/ Refresh(h) \/ ListJob(h) \/ CutOff(h)
      PROVE  job' = job
  BY <1>5 DEF Mint, Remint, ReadRun, Plan, Refresh, ListJob, CutOff
<1>6. ASSUME NEW h \in Handlers, NEW r \in Requests, NEW defer \in BOOLEAN, Invoke(h, r, defer)
      PROVE  job' = job
  BY <1>6 DEF Invoke
<1>7. ASSUME NEW id \in Ids, Worker(id)
      PROVE  job' = job
  BY <1>7 DEF Worker, ClaimRun, WorkerStarts, RecipeComplete, SettleRun, ExitReport, Stage
<1>8. CASE Clock \/ UNCHANGED vars
  BY <1>8 DEF Clock, vars
<1> QED
  BY <1>1, <1>2, <1>3, <1>4, <1>5, <1>6, <1>7, <1>8 DEF Next, Step

(* The operator's veto stands until the operator lifts it, however         *)
(* refreshes and ticks that began before it end (disable, publish, admit). *)
THEOREM VetoesStand == Spec => VetoStands
<1>1. ASSUME JobsInv, JobsInv', [Next]_vars, job.vetoed, job'.vetoed
      PROVE  ~job'.enabled /\ job'.active \in {job.active, << >>}
  <2>1. ~job.enabled /\ ~job'.enabled
    BY <1>1 DEF JobsInv, DocumentsInv
  <2> QED
    BY <1>1, <2>1, OnlyEnabledAdmits
<1>2. JobsInv /\ JobsInv' /\ [Next]_vars =>
        [job.vetoed /\ job'.vetoed => ~job'.enabled /\ job'.active \in {job.active, << >>}]_vars
  BY <1>1
<1> QED
  BY <1>2, JobsInvariance, PTL DEF Spec, VetoStands

=============================================================================
