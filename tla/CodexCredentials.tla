-------------------------- MODULE CodexCredentials --------------------------
(***************************************************************************)
(* The broker of the one Codex subscription: two objects in a bucket (the  *)
(* subscription lease and the credential), each written only against an    *)
(* expected generation, and the journal of each claimed run that prepares  *)
(* such a write before it is sent and acknowledges it after                *)
(* (codex-credential-operations.ts, codex-auth-store.ts,                   *)
(* credential-operation.ts).                                               *)
(*                                                                         *)
(* A handler serves one call of a run's worker, or one candidate of the    *)
(* maintenance tick that recovers what a call left behind.  A handler may  *)
(* take arbitrarily long or crash, a read may fail, and a write may answer *)
(* "unavailable" and still commit much later.                              *)
(*                                                                         *)
(* Runs have one claim here.  Generations count up; 0 is no object.  The   *)
(* credential a run writes is named after the run.  Expiry instants are    *)
(* the flag "alive" of the lease, cleared by time.                         *)
(***************************************************************************)
EXTENDS Naturals

CONSTANTS
  Runs,         \* claimed Codex runs
  Handlers,     \* requests and ticks that can be in flight together
  Attempts,     \* tries of an acquisition and of a fence (5 in the code)
  MaxSequence,  \* mutations of one operation (100 in the code)
  MaxOps,       \* bound: operations, all runs together
  MaxFaults     \* bound: crashes, failed reads, unavailable writes, expiries

ASSUME CredentialsAssumption ==
  /\ Attempts \in Nat \ {0} /\ MaxSequence \in Nat /\ MaxOps \in Nat /\ MaxFaults \in Nat

VARIABLES
  objects,   \* the bucket
  runs,      \* the credential journal of each Run document
  calls,     \* the handlers in flight
  net,       \* writes that answered "unavailable" and may still commit
  ops,       \* operations begun (their ids are fresh UUIDs)
  faults     \* faults left

vars == <<objects, runs, calls, net, ops, faults>>

-----------------------------------------------------------------------------
(* The documents *)

None == "none"

Kinds == {"restore", "renew", "persist", "cleanup"}

(* A mutation of run c's operation n: its conditional write.               *)
Write(obj, c, n, s, gen, effect) ==
  [obj |-> obj, id |-> <<c, n, s>>, gen |-> gen, effect |-> effect, fence |-> FALSE]

NoWrite == [obj |-> None, id |-> << >>, gen |-> 0, effect |-> None, fence |-> FALSE]

NoOp == [n |-> 0, kind |-> None, seq |-> 0, mutation |-> NoWrite]

NoReceipt == [id |-> << >>, gen |-> 0]

NewRun == [live |-> TRUE, pending |-> FALSE, restored |-> FALSE, receipt |-> NoReceipt,
           op |-> NoOp, heldGen |-> 0]

NoObject == [gen |-> 0, by |-> NoWrite, owner |-> None, alive |-> FALSE,
             receipt |-> NoReceipt]

SeededAuth == [NoObject EXCEPT !.gen = 1]

ServedRun == [NewRun EXCEPT !.restored = TRUE, !.heldGen = 1]

HeldLease(c) == [NoObject EXCEPT !.gen = 1, !.owner = c, !.alive = TRUE,
                                 !.by = Write("lease", c, 0, 1, 0, "take")]

NoProof == MaxSequence + 1  \* no sequence

NoCall == [pc |-> "idle", tick |-> FALSE, run |-> None, kind |-> None, n |-> 0, seq |-> 0, phase |-> "main",
           todo |-> NoWrite, goal |-> None, ok |-> TRUE, receipt |-> NoReceipt,
           leaseGen |-> 0, base |-> 0, proof |-> NoProof, tries |-> 0, snapGen |-> 0, rotated |-> FALSE]

lease == objects["lease"]
auth == objects["auth"]

hasOp(c) == runs[c].op # NoOp
mine(w) == hasOp(w.run) /\ runs[w.run].op.n = w.n
owned(w) == lease.owner = w.run
ownsLive(w) == owned(w) /\ lease.alive

-----------------------------------------------------------------------------
(* The bucket *)

(* A retained, expired record stands for a released lease; a fence keeps   *)
(* the bytes it finds, or leaves a barrier where nothing was.              *)
stored(o, q) ==
  LET next == [o EXCEPT !.gen = @ + 1, !.by = q]
      c    == q.id[1]
  IN  CASE q.effect = "take"   -> [next EXCEPT !.owner = c, !.alive = TRUE]
        [] q.effect = "expire" -> [next EXCEPT !.owner = c, !.alive = FALSE]
        [] q.effect = "rotate" -> [next EXCEPT !.receipt = [id |-> q.id, gen |-> q.gen]]
        [] q.effect = "keep"   -> IF o.gen = 0 THEN [next EXCEPT !.owner = c] ELSE next

\* Slip: the write does not compare the generation.
accepts_Always(q) == TRUE

accepts(q) == objects[q.obj].gen = q.gen

committed(q) == [objects EXCEPT ![q.obj] = stored(@, q)]

-----------------------------------------------------------------------------
(* The journal's transactions *)

newOp(kind) == [n |-> ops + 1, kind |-> kind, seq |-> 0, mutation |-> NoWrite]

reserve(c, kind) ==
  runs' = [runs EXCEPT ![c].op = newOp(kind)] /\ ops' = ops + 1

prepares(w) ==
  LET op == runs[w.run].op IN
  /\ mine(w) /\ op.mutation = NoWrite
  /\ w.todo.id[3] = op.seq + 1 /\ op.seq < MaxSequence

acknowledges(w, id) == mine(w) /\ runs[w.run].op.mutation.id = id

acknowledged(c, receipt) ==
  [runs EXCEPT ![c].op.mutation = NoWrite,
               ![c].receipt = IF receipt = NoReceipt THEN @ ELSE receipt]

\* Slip: any earlier lease read proves retirement.
needsProof_Stale(c, proof) ==
  (runs[c].op.kind = "cleanup" \/ runs[c].pending) /\ proof = NoProof

(* Cleanup debt and an accepted completion need the lease's retirement,    *)
(* proven at this very sequence.                                           *)
needsProof(c, proof) ==
  (runs[c].op.kind = "cleanup" \/ runs[c].pending) /\ proof # runs[c].op.seq

finishes(w) == mine(w) /\ runs[w.run].op.mutation = NoWrite /\ ~needsProof(w.run, w.proof)

-----------------------------------------------------------------------------
(* Handlers *)

go(h, w, pc) == calls' = [calls EXCEPT ![h] = [w EXCEPT !.pc = pc]]

\* What a call no longer needs once its write is answered, or its work is over.
written(w) == [w EXCEPT !.todo = NoWrite, !.goal = None, !.ok = TRUE, !.base = 0]
settledCall(w) == [written(w) EXCEPT !.proof = NoProof, !.tries = 0, !.snapGen = 0, !.rotated = FALSE]

\* Give back the lease a restore or a persist holds.
releasing(w) ==
  [settledCall(w) EXCEPT !.pc = "prepare", !.phase = "unwind", !.goal = "release",
     !.leaseGen = 0,
     !.todo = Write("lease", w.run, w.n, w.seq + 1, w.leaseGen, "expire")]

(* Where an error leads, and the tail of a persist: the held lease is given *)
(* back, then the operation is finished if it has no unresolved write, then *)
(* the call ends.  The checks of both re-reads are those of the transaction *)
(* that follows.                                                            *)
abortedCall(w) ==
  IF w.tick \/ w.phase = "last" THEN NoCall
  ELSE IF w.phase = "main" /\ w.leaseGen # 0 THEN releasing(w)
  ELSE [settledCall(w) EXCEPT !.pc = "finish", !.phase = "last"]

abort(h) == calls' = [calls EXCEPT ![h] = abortedCall(calls[h])]

(* The lease is retired as of sequence s; the third round is the last.     *)
proven(h, w, s) ==
  \/ w.tries = 2 /\ abort(h)
  \/ w.tries < 2 /\ go(h, [w EXCEPT !.proof = s, !.tries = @ + 1, !.base = 0], "finish")

(* The next mutation of the operation, under its local sequence.           *)
mutate(h, w, obj, gen, effect, goal) ==
  go(h, [w EXCEPT !.seq = @ + 1, !.goal = goal, !.ok = TRUE,
                  !.todo = Write(obj, w.run, w.n, w.seq + 1, gen, effect)], "prepare")

\* A release whose sequence comes from the stored journal.
retire(h, w, goal) ==
  go(h, [w EXCEPT !.goal = goal, !.ok = TRUE,
                  !.todo = Write("lease", w.run, w.n, w.base + 1, lease.gen, "expire")], "prepare")

Begin(h, c, kind, rotated) ==
  LET r == runs[c]
      w == [NoCall EXCEPT !.run = c, !.kind = kind, !.n = ops + 1, !.rotated = rotated]
  IN  /\ calls[h] = NoCall /\ ~hasOp(c) /\ ops < MaxOps
      /\ r.live <=> kind # "cleanup"
      /\ kind = "persist" => r.heldGen # 0
      /\ rotated => kind = "persist"
      /\ reserve(c, kind)
      /\ go(h, w, CASE kind = "restore" -> "acquire"
                    [] kind = "renew"   -> "renew"
                    [] kind = "persist" -> "persist"
                    [] kind = "cleanup" -> "finish")
      /\ UNCHANGED <<objects, net, faults>>

(* A completion or another settlement.  It waits for an operation in       *)
(* flight, or reserves the cleanup in its own transaction.                 *)
SettleRun(c) ==
  /\ runs[c].live /\ ~runs[c].pending
  /\ \/ hasOp(c) /\ runs' = [runs EXCEPT ![c].pending = TRUE] /\ UNCHANGED ops
     \/ /\ ~hasOp(c) /\ ops < MaxOps /\ ops' = ops + 1
        /\ runs' = [runs EXCEPT ![c].live = FALSE, ![c].op = newOp("cleanup")]
  /\ UNCHANGED <<objects, calls, net, faults>>

(* releaseCodexCredentialLease of a run whose cleanup is reserved.         *)
ResumeCleanup(h, c) ==
  LET op == runs[c].op IN
  /\ calls[h] = NoCall /\ hasOp(c) /\ op.kind = "cleanup" /\ op.mutation = NoWrite
  /\ go(h, [NoCall EXCEPT !.run = c, !.kind = "cleanup", !.n = op.n, !.seq = op.seq], "finish")
  /\ UNCHANGED <<objects, runs, net, faults, ops>>

Acquire(h) ==
  LET w == calls[h] IN
  /\ w.pc = "acquire"
  /\ \/ ownsLive(w) /\ go(h, [w EXCEPT !.leaseGen = lease.gen], "readAuth")
     \/ ~owned(w) /\ lease.alive /\ abort(h)
     \/ ~lease.alive /\ mutate(h, w, "lease", lease.gen, "take", "acquire")
  /\ UNCHANGED <<objects, runs, net, faults, ops>>

(* The heartbeat is refused, or renews the lease if the run has one.       *)
Renew(h) ==
  LET w == calls[h] IN
  /\ w.pc = "renew"
  /\ \/ abort(h)
     \/ owned(w) /\ mutate(h, w, "lease", lease.gen, "take", "renew")
     \/ ~owned(w) /\ ~runs[w.run].restored /\ go(h, w, "finish")
     \/ ~owned(w) /\ runs[w.run].restored /\ abort(h)
  /\ UNCHANGED <<objects, runs, net, faults, ops>>

(* An exact retry of a confirmed rotation writes nothing.                  *)
Persist(h) ==
  LET w    == calls[h]
      r    == runs[w.run]
      kept == [w EXCEPT !.leaseGen = lease.gen]
  IN  /\ w.pc = "persist"
      /\ \/ w.rotated /\ r.receipt.gen = r.heldGen /\ abort(h)
         \/ /\ ~(w.rotated /\ r.receipt.gen = r.heldGen)
            /\ \/ ~ownsLive(w) /\ abort(h)
               \/ /\ ownsLive(w) /\ ~w.rotated
                  /\ calls' = [calls EXCEPT ![h] = abortedCall(kept)]
               \/ ownsLive(w) /\ w.rotated /\ mutate(h, kept, "auth", r.heldGen, "rotate", "rotate")
      /\ UNCHANGED <<objects, runs, net, faults, ops>>

Prepare(h) ==
  LET w == calls[h] IN
  /\ w.pc = "prepare"
  /\ \/ /\ prepares(w)
        /\ runs' = [runs EXCEPT ![w.run].op.mutation = w.todo, ![w.run].op.seq = @ + 1]
        /\ go(h, w, "save")
     \/ ~prepares(w) /\ abort(h) /\ UNCHANGED runs
  /\ UNCHANGED <<objects, net, faults, ops>>

(* A refused release is a definitive no-op; a lease taken is read back.    *)
Save(h) ==
  LET w == calls[h] IN
  /\ w.pc = "save"
  /\ \/ /\ accepts(w.todo)
        /\ objects' = committed(w.todo)
        /\ go(h, w, IF w.todo.effect = "take" THEN "confirm" ELSE "ack")
     \/ /\ ~accepts(w.todo)
        /\ go(h, [w EXCEPT !.ok = w.todo.effect = "expire"], "ack")
        /\ UNCHANGED objects
  /\ UNCHANGED <<runs, net, faults, ops>>

SaveUnavailable(h) ==
  /\ calls[h].pc \in {"save", "fenceSave"} /\ faults > 0
  /\ faults' = faults - 1
  /\ net' = net \cup {calls[h].todo}
  /\ abort(h)
  /\ UNCHANGED <<objects, runs, ops>>

Confirm(h) ==
  LET w == calls[h] IN
  /\ w.pc = "confirm"
  /\ go(h, [w EXCEPT !.ok = lease.by = w.todo, !.base = lease.gen], "ack")
  /\ UNCHANGED <<objects, runs, net, faults, ops>>

Acknowledge(h) ==
  LET w       == calls[h]
      done    == written(w)
      receipt == IF w.goal = "rotate" /\ w.ok THEN [id |-> w.todo.id, gen |-> w.todo.gen]
                 ELSE NoReceipt
  IN  /\ w.pc = "ack"
      /\ \/ ~acknowledges(w, w.todo.id) /\ abort(h) /\ UNCHANGED runs
         \/ /\ acknowledges(w, w.todo.id)
            /\ runs' = acknowledged(w.run, receipt)
            /\ \/ w.goal = "acquire" /\ w.ok /\ go(h, [done EXCEPT !.leaseGen = w.base], "readAuth")
               \/ w.goal = "acquire" /\ ~w.ok /\ w.seq < Attempts /\ go(h, done, "acquire")
               \/ w.goal = "acquire" /\ ~w.ok /\ w.seq >= Attempts /\ abort(h)
               \/ w.goal = "renew" /\ w.ok /\ go(h, done, "finish")
               \/ w.goal = "renew" /\ ~w.ok /\ abort(h)
               \/ w.goal \in {"rotate", "release"} /\ abort(h)
               \/ w.goal = "retire" /\ proven(h, done, runs[w.run].op.seq)
               \/ w.goal = "recoverRelease" /\ go(h, done, "finish")
      /\ UNCHANGED <<objects, net, faults, ops>>

ReadAuth(h) ==
  LET w == calls[h] IN
  /\ w.pc = "readAuth"
  /\ go(h, [w EXCEPT !.snapGen = auth.gen], "finish")
  /\ UNCHANGED <<objects, runs, net, faults, ops>>

(* The last transaction.  It settles a completion accepted meanwhile, and  *)
(* only a restore that finds the run still live answers with the           *)
(* credential.                                                             *)
Finish(h) ==
  LET w       == calls[h]
      r       == runs[w.run]
      served  == w.kind = "restore" /\ w.phase = "main" /\ ~w.tick
      answers == served /\ ~r.pending
  IN  /\ w.pc = "finish"
      /\ \/ ~mine(w) /\ abort(h) /\ UNCHANGED runs
         \/ mine(w) /\ ~finishes(w) /\ go(h, w, "resolve") /\ UNCHANGED runs
         \/ /\ finishes(w)
            /\ runs' = [runs EXCEPT ![w.run] =
                 [r EXCEPT !.op = NoOp, !.restored = @ \/ served,
                           !.live = @ /\ ~r.pending, !.pending = FALSE,
                           !.heldGen = IF answers THEN w.snapGen ELSE @]]
            /\ calls' = [calls EXCEPT ![h] = NoCall]
      /\ UNCHANGED <<objects, net, faults, ops>>

\* Slip: only reserved cleanup is resolved, not an accepted completion.
resolves_CleanupOnly(c) == runs[c].op.mutation = NoWrite /\ runs[c].op.kind = "cleanup"

resolves(c) == runs[c].op.mutation = NoWrite /\ (runs[c].op.kind = "cleanup" \/ runs[c].pending)

ResolveRun(h) ==
  LET w == calls[h] IN
  /\ w.pc = "resolve"
  /\ \/ /\ mine(w) /\ resolves(w.run)
        /\ go(h, [w EXCEPT !.base = runs[w.run].op.seq], "resolveLease")
     \/ ~(mine(w) /\ resolves(w.run)) /\ abort(h)
  /\ UNCHANGED <<objects, runs, net, faults, ops>>

ResolveLease(h) ==
  LET w == calls[h] IN
  /\ w.pc = "resolveLease"
  /\ \/ ownsLive(w) /\ retire(h, w, "retire")
     \/ ~ownsLive(w) /\ proven(h, w, w.base)
  /\ UNCHANGED <<objects, runs, net, faults, ops>>

-----------------------------------------------------------------------------
(* Recovery *)

(* A tick works on the operation it listed, which may be gone or further   *)
(* by the time its turn comes.                                             *)
List(h, c) ==
  LET op == runs[c].op IN
  /\ calls[h] = NoCall /\ hasOp(c)
  /\ go(h, [NoCall EXCEPT !.tick = TRUE, !.run = c, !.kind = op.kind, !.n = op.n,
                          !.todo = op.mutation, !.goal = op.mutation.effect], "retry")
  /\ UNCHANGED <<objects, runs, net, faults, ops>>

RetryRecovery(h) ==
  LET w == calls[h] IN
  /\ w.pc = "retry"
  /\ \/ ~mine(w) /\ abort(h)
     \/ mine(w) /\ w.todo = NoWrite /\ go(h, w, "check")
     \/ mine(w) /\ w.todo # NoWrite /\ go(h, w, "fenceRead")
  /\ UNCHANGED <<objects, runs, net, faults, ops>>

\* Slip: recovery acknowledges the mutation without fencing its write.
fences_Never(o, m) == FALSE

(* A write is settled once its generation has passed.                      *)
fences(o, m) == o.gen = m.gen

\* Slip: recovery forgets what it found.
foundReceipt_None(o, m) == NoReceipt

foundReceipt(o, m) == IF m.effect = "rotate" /\ o.receipt.id = m.id THEN o.receipt ELSE NoReceipt

(* The fence of an unsettled write advances the generation under the bytes *)
(* it found; the fence of a release completes it.                          *)
FenceRead(h) ==
  LET w     == calls[h]
      m     == w.todo
      o     == objects[m.obj]
      last  == m.effect = "expire" /\ o.owner = w.run
      fence == [m EXCEPT !.fence = TRUE, !.effect = IF last THEN "expire" ELSE "keep"]
  IN  /\ w.pc = "fenceRead"
      /\ \/ fences(o, m) /\ go(h, [w EXCEPT !.todo = fence], "fenceSave")
         \/ ~fences(o, m) /\ go(h, [w EXCEPT !.receipt = foundReceipt(o, m)], "fenceAck")
      /\ UNCHANGED <<objects, runs, net, faults, ops>>

FenceSave(h) ==
  LET w     == calls[h]
      again == [w EXCEPT !.tries = @ + 1, !.todo.fence = FALSE, !.todo.effect = w.goal]
  IN  /\ w.pc = "fenceSave"
      /\ \/ accepts(w.todo) /\ objects' = committed(w.todo) /\ go(h, w, "fenceAck")
         \/ /\ ~accepts(w.todo) /\ UNCHANGED objects
            /\ IF again.tries < Attempts THEN go(h, again, "fenceRead") ELSE abort(h)
      /\ UNCHANGED <<runs, net, faults, ops>>

FenceAcknowledge(h) ==
  LET w == calls[h] IN
  /\ w.pc = "fenceAck"
  /\ \/ /\ acknowledges(w, w.todo.id)
        /\ runs' = acknowledged(w.run, w.receipt)
        /\ go(h, settledCall([w EXCEPT !.receipt = NoReceipt]), "check")
     \/ ~acknowledges(w, w.todo.id) /\ abort(h) /\ UNCHANGED runs
  /\ UNCHANGED <<objects, net, faults, ops>>

(* A restore that never answered, a persist and every debt give the lease  *)
(* back; a renewal keeps it.                                               *)
Check(h) ==
  LET w    == calls[h]
      r    == runs[w.run]
      owes == \/ w.kind \in {"persist", "cleanup"} \/ r.pending
              \/ w.kind = "restore" /\ ~r.restored
  IN  /\ w.pc = "check"
      /\ \/ ~mine(w) /\ abort(h)
         \/ mine(w) /\ owes /\ go(h, [w EXCEPT !.base = r.op.seq], "releaseRead")
         \/ mine(w) /\ ~owes /\ go(h, w, "finish")
      /\ UNCHANGED <<objects, runs, net, faults, ops>>

ReleaseRead(h) ==
  LET w == calls[h] IN
  /\ w.pc = "releaseRead"
  /\ \/ ownsLive(w) /\ retire(h, w, "recoverRelease")
     \/ ~ownsLive(w) /\ go(h, [w EXCEPT !.base = 0], "finish")
  /\ UNCHANGED <<objects, runs, net, faults, ops>>

-----------------------------------------------------------------------------
(* Faults and time *)

(* A read of the bucket fails; the operation keeps what it has prepared.   *)
ReadFails(h) ==
  /\ calls[h].pc \in {"acquire", "persist", "confirm", "readAuth", "resolveLease",
                     "fenceRead", "releaseRead"}
  /\ faults > 0 /\ faults' = faults - 1
  /\ abort(h)
  /\ UNCHANGED <<objects, runs, net, ops>>

Crash(h) ==
  /\ calls[h] # NoCall
  /\ faults > 0 /\ faults' = faults - 1
  /\ calls' = [calls EXCEPT ![h] = NoCall]
  /\ \/ UNCHANGED net
     \/ calls[h].pc \in {"save", "fenceSave"} /\ net' = net \cup {calls[h].todo}
  /\ UNCHANGED <<objects, runs, ops>>

LateWrite(q) ==
  /\ q \in net
  /\ net' = net \ {q}
  /\ objects' = IF accepts(q) THEN committed(q) ELSE objects
  /\ UNCHANGED <<runs, calls, faults, ops>>

LeaseExpires ==
  /\ lease.alive
  /\ faults > 0 /\ faults' = faults - 1
  /\ objects' = [objects EXCEPT !["lease"].alive = FALSE]
  /\ UNCHANGED <<runs, calls, net, ops>>

-----------------------------------------------------------------------------
(* The subscription is free and unused, or a run has been served already.  *)
Init ==
  /\ \/ /\ runs = [c \in Runs |-> NewRun]
        /\ objects = [lease |-> NoObject, auth |-> SeededAuth]
     \/ \E o \in Runs :
          /\ runs = [c \in Runs |-> IF c = o THEN ServedRun ELSE NewRun]
          /\ objects = [lease |-> HeldLease(o), auth |-> SeededAuth]
  /\ calls = [h \in Handlers |-> NoCall]
  /\ net = {}
  /\ ops = 0
  /\ faults = MaxFaults

Step(h) ==
  \/ Acquire(h) \/ Renew(h) \/ Persist(h) \/ Prepare(h) \/ Save(h) \/ Confirm(h)
  \/ Acknowledge(h) \/ ReadAuth(h) \/ Finish(h) \/ ResolveRun(h) \/ ResolveLease(h)
  \/ RetryRecovery(h) \/ FenceRead(h) \/ FenceSave(h) \/ FenceAcknowledge(h)
  \/ Check(h) \/ ReleaseRead(h)

Next ==
  \/ \E c \in Runs : SettleRun(c)
  \/ \E h \in Handlers, c \in Runs :
       \/ \E kind \in Kinds, rotated \in BOOLEAN : Begin(h, c, kind, rotated)
       \/ ResumeCleanup(h, c) \/ List(h, c)
  \/ \E h \in Handlers : Step(h) \/ SaveUnavailable(h) \/ ReadFails(h) \/ Crash(h)
  \/ \E q \in net : LateWrite(q)
  \/ LeaseExpires

Spec == Init /\ [][Next]_vars

(* Requests run on, maintenance ticks keep coming and rotate over their    *)
(* candidates (each listing postpones its candidate).                      *)
Fairness ==
  /\ \A h \in Handlers : WF_vars(Step(h))
  /\ \A c \in Runs : SF_vars(\E h \in Handlers : List(h, c))

FairSpec == Spec /\ Fairness

-----------------------------------------------------------------------------
(* Properties *)

journalled(q) == runs[q.id[1]].op.mutation.id = q.id

(* A write lands only while its run's journal still names it: a write that *)
(* was acknowledged or fenced never changes the bucket afterwards, however *)
(* late it commits (fenceMutation).                                        *)
FencedWritesNeverLand ==
  [][\A o \in DOMAIN objects : objects'[o].gen # objects[o].gen => journalled(objects'[o].by)]_vars

(* The lease of a run is taken by another only after it expired or was     *)
(* released (acquire, takeLease).                                          *)
LiveLeaseNotStolen ==
  [][lease.alive => lease'.owner = lease.owner]_vars

(* A settled run without cleanup debt holds no lease of the subscription   *)
(* (the proof of finishCredentialOperation).                               *)
RetiredForGood ==
  \A c \in Runs : ~runs[c].live /\ ~hasOp(c) => ~(lease.owner = c /\ lease.alive)

(* When a rotation is the stored credential and its operation no longer    *)
(* awaits an answer, its run has the receipt, so a retry recognises it.    *)
RotationRemembered ==
  LET id == auth.receipt.id IN
  auth.receipt # NoReceipt /\ ~journalled(auth.receipt)
    => runs[id[1]].receipt = auth.receipt

(* Every operation ends, whatever its handler met (the recovery tick).     *)
OperationsResolve == \A c \in Runs : hasOp(c) ~> ~hasOp(c)

=============================================================================
