------------------------------- MODULE Outbox -------------------------------
(***************************************************************************)
(* The transactional outbox of libs/orchestrator and the drains of the     *)
(* console that deliver it (orchestrator-dispatch.ts drainOutbox).  A      *)
(* drain claims one entry under a lease, runs the handler of its kind, and *)
(* settles the claim; several drains run at once, and a drain may crash,   *)
(* outlive its lease, or see a store call throw.                           *)
(*                                                                         *)
(* Entries are numbered in the order of their createdAt.  Every claim      *)
(* increments attempts, so the number of the attempt stands for the random *)
(* claimId.  Instants are ticks left (lease, next, fresh) or ticks passed  *)
(* since (failing); what a handler sends is abstracted to its outcome.     *)
(***************************************************************************)
EXTENDS Integers

CONSTANTS
  Entries,       \* outbox entries, 1 .. n
  Monitors,      \* the monitor-delivery entries
  Reports,       \* the report-outcome entries
  Drains,        \* concurrent drainOutbox invocations
  OutboxLease,   \* OUTBOX_LEASE_MS, in ticks
  RetireAfter,   \* OUTBOX_RETIRE_AFTER_MS
  BackoffBase,   \* OUTBOX_BACKOFF_BASE_MS
  BackoffCap,    \* OUTBOX_BACKOFF_CAP_MS
  Fallback,      \* DELIVERY_MONITOR_FALLBACK_MS
  StaleAge,      \* OUTBOX_STALE_REPORT_AGE_MS
  DrainLimit,    \* claims of one invocation
  MaxEvents      \* bound: crashes, store errors, overrun leases, wakes, PRs found waiting

ASSUME OutboxAssumption ==
  /\ Entries \subseteq Nat \ {0} /\ Monitors \subseteq Entries /\ Reports \subseteq Entries
  /\ Monitors \cap Reports = {}
  /\ OutboxLease \in Nat \ {0} /\ RetireAfter \in Nat \ {0} /\ StaleAge \in Nat
  /\ BackoffBase \in Nat \ {0} /\ BackoffCap \in Nat \ {0} /\ Fallback \in Nat \ {0}
  /\ DrainLimit \in Nat \ {0} /\ MaxEvents \in Nat

VARIABLES
  entries,   \* the OutboxEntry documents
  drains,    \* the in-flight invocations
  suffered,  \* history: ticks since an entry's first real failure after its last recovery
  budget     \* events left

vars == <<entries, drains, suffered, budget>>

-----------------------------------------------------------------------------
(* The documents *)

Never == -1    \* firstFailedAt absent
NoEntry == 0

Clock == Nat \cup {Never}

Entry == [ state    : {"absent", "pending", "leased", "done", "failed"},
           attempts : Nat,
           lease    : Nat,     \* leaseExpiresAt
           next     : Nat,     \* nextAttemptAt
           failing  : Clock,   \* ticks since firstFailedAt
           failures : Nat,     \* deliveryFailures
           fresh    : Nat ]    \* ticks until the entry is a stale report

Verdicts == {"handling", "done", "permanent", "closed", "waiting", "retry", "caught"}

(* A delivery failure settled by the handler, or by the drain's own catch. *)
Failing == {"retry", "caught"}

(* An invocation between two claims ("idle"), or with the leased snapshot  *)
(* it claimed and how its handler decided to settle it.                    *)
Drain == [ verdict  : Verdicts \cup {"idle"},
           entry    : Entries \cup {NoEntry},
           claim    : Nat,
           failing  : Clock,
           failures : Nat,
           excluded : SUBSET Entries,   \* failedThisDrain
           claimed  : Nat ]

NewEntry == [state |-> "absent", attempts |-> 0, lease |-> 0, next |-> 0,
             failing |-> Never, failures |-> 0, fresh |-> StaleAge]

IdleDrain == [verdict |-> "idle", entry |-> NoEntry, claim |-> 0, failing |-> Never,
              failures |-> 0, excluded |-> {}, claimed |-> 0]

Terminal == {"done", "failed"}

-----------------------------------------------------------------------------
(* Pure decisions *)

Least(a, b) == IF a <= b THEN a ELSE b

\* Slip: the delay does not double.
backoff_Flat(n) == Least(BackoffCap, BackoffBase)

backoff(n) == Least(BackoffCap, BackoffBase * 2 ^ (n - 1))

byOutboxClaimFairness(a, b) ==
  \/ entries[a].attempts < entries[b].attempts
  \/ entries[a].attempts = entries[b].attempts /\ a <= b

\* Slip: a lease is taken over before it has expired.
expiredLeases_AnyLease == {e \in Entries : entries[e].state = "leased"}

\* Slip: an expired lease is never recovered.
expiredLeases_None == {}

expiredLeases == {e \in Entries : entries[e].state = "leased" /\ entries[e].lease = 0}

duePending(excluded) ==
  {e \in Entries \ excluded : entries[e].state = "pending" /\ entries[e].next = 0}

(* Expired leases first, whatever the drain excludes; then the due pending *)
(* entries, least attempted and oldest first.                              *)
claimable(excluded) ==
  IF expiredLeases # {}
  THEN expiredLeases
  ELSE {e \in duePending(excluded) :
          \A f \in duePending(excluded) : byOutboxClaimFairness(e, f)}

\* Slip: an entry released after a success keeps its failure clock.
released_KeepsClock(n) == [n EXCEPT !.state = "pending", !.lease = 0, !.next = Fallback]

released(n) == [n EXCEPT !.state = "pending", !.lease = 0, !.next = Fallback,
                         !.failing = Never, !.failures = 0]

(* settleRetryableFailure: judged by the leased snapshot, retired once     *)
(* failing for the whole window, else released with backoff.               *)
retried(n, w) ==
  LET since == IF w.failing = Never THEN 0 ELSE w.failing IN
  IF since >= RetireAfter
  THEN [n EXCEPT !.state = "failed", !.lease = 0, !.next = 0, !.failing = since]
  ELSE [n EXCEPT !.state = "pending", !.lease = 0, !.failing = since,
                 !.failures = w.failures + 1, !.next = backoff(w.failures + 1)]

verdictApplied(n, w) ==
  CASE w.verdict \in {"done", "permanent"} -> [n EXCEPT !.state = "done", !.lease = 0, !.next = 0]
    [] w.verdict = "closed"  -> [n EXCEPT !.state = "failed", !.lease = 0, !.next = 0]
    [] w.verdict = "waiting" -> released(n)
    [] w.verdict \in Failing -> retried(n, w)

\* Slip: the claimId is not compared.
owns_AnyClaim(w) == w.verdict # "idle"

owns(w) ==
  /\ w.verdict # "idle"
  /\ entries[w.entry].state = "leased" /\ entries[w.entry].attempts = w.claim

(* settleOutboxEntry: only the owner of the lease settles.                 *)
settleOutbox(w) ==
  IF owns(w) THEN [entries EXCEPT ![w.entry] = verdictApplied(@, w)] ELSE entries

(* The drain goes on to its next claim; what it failed, and every monitor, *)
(* is excluded from the rest of this invocation.                           *)
handled(w) ==
  [IdleDrain EXCEPT
     !.claimed = w.claimed,
     !.excluded = IF w.verdict \in Failing \cup {"permanent", "closed"} \/ w.entry \in Monitors
                  THEN w.excluded \cup {w.entry} ELSE w.excluded]

passed(c) == IF c = Never THEN Never ELSE Least(c + 1, RetireAfter)

left(n) == IF n = 0 THEN 0 ELSE n - 1

firstOf(c) == IF c = Never THEN 0 ELSE c

-----------------------------------------------------------------------------
(* The environment *)

(* A committed decision writes its outbox entry.                           *)
Emit(e) ==
  /\ entries[e].state = "absent"
  /\ \A f \in Entries : f < e => entries[f].state # "absent"
  /\ entries' = [entries EXCEPT ![e].state = "pending"]
  /\ UNCHANGED <<drains, suffered, budget>>

overrun == \E d \in Drains : owns(drains[d]) /\ entries[drains[d].entry].lease = 1

(* Time passes.  A lease that runs out under its handler is an event.      *)
Tick ==
  /\ overrun => budget > 0
  /\ budget' = IF overrun THEN budget - 1 ELSE budget
  /\ entries' = [e \in Entries |->
       IF entries[e].state \in Terminal \cup {"absent"} THEN entries[e]
       ELSE [entries[e] EXCEPT !.lease = left(@), !.next = left(@), !.fresh = left(@),
                               !.failing = passed(@)]]
  /\ drains' = [d \in Drains |-> [drains[d] EXCEPT !.failing = passed(@)]]
  /\ suffered' = [e \in Entries |->
       IF entries[e].state \in Terminal THEN suffered[e] ELSE passed(suffered[e])]

wakeOutboxEntry(e) == entries[e].state = "pending" /\ entries[e].next > 0

(* A webhook about the PR makes its monitor due now.                       *)
Wake(e) ==
  /\ e \in Monitors /\ budget > 0
  /\ wakeOutboxEntry(e)
  /\ budget' = budget - 1
  /\ entries' = [entries EXCEPT ![e].next = 0]
  /\ UNCHANGED <<drains, suffered>>

-----------------------------------------------------------------------------
(* A drain *)

ClaimNext(d) ==
  LET w == drains[d] IN
  /\ w.verdict = "idle" /\ w.claimed < DrainLimit
  /\ \E e \in claimable(w.excluded) :
       /\ entries' = [entries EXCEPT ![e].state = "leased", ![e].lease = OutboxLease,
                                     ![e].attempts = @ + 1]
       /\ drains' = [drains EXCEPT ![d] =
            [w EXCEPT !.verdict = "handling", !.entry = e, !.claim = entries[e].attempts + 1,
                      !.failing = entries[e].failing, !.failures = entries[e].failures,
                      !.claimed = @ + 1]]
  /\ UNCHANGED <<suffered, budget>>

(* The invocation returns, and a later one starts over.                    *)
EndDrain(d) ==
  LET w == drains[d] IN
  /\ w.verdict = "idle"
  /\ w.claimed = DrainLimit \/ claimable(w.excluded) = {}
  /\ drains' = [drains EXCEPT ![d] = IdleDrain]
  /\ UNCHANGED <<entries, suffered, budget>>

decide(d, verdict) ==
  /\ drains[d].verdict = "handling"
  /\ drains' = [drains EXCEPT ![d].verdict = verdict]

(* Delivered, or nothing left to deliver: a stale dispatch, a settled or   *)
(* closed delivery.                                                        *)
Succeed(d) == decide(d, "done") /\ UNCHANGED <<entries, suffered, budget>>

(* A report whose anchor cannot be resolved.                               *)
FailForGood(d) ==
  /\ drains[d].entry \in Reports
  /\ decide(d, "permanent")
  /\ UNCHANGED <<entries, suffered, budget>>

(* A report older than the backlog age whose anchor is closed.             *)
AnchorClosed(d) ==
  /\ drains[d].entry \in Reports /\ entries[drains[d].entry].fresh = 0
  /\ decide(d, "closed")
  /\ UNCHANGED <<entries, suffered, budget>>

(* The monitor read its PR, which is still waiting.                        *)
StillWaiting(d) ==
  /\ drains[d].entry \in Monitors /\ budget > 0
  /\ decide(d, "waiting")
  /\ budget' = budget - 1
  /\ UNCHANGED <<entries, suffered>>

(* Only a report settles its failure itself; other handlers throw it.      *)
Fail(d) ==
  /\ \/ drains[d].entry \in Reports /\ decide(d, "retry")
     \/ decide(d, "caught")
  /\ suffered' = [suffered EXCEPT ![drains[d].entry] = firstOf(@)]
  /\ UNCHANGED <<entries, budget>>

recovers(w) == owns(w) /\ w.verdict = "waiting"

Settle(d) ==
  LET w == drains[d] IN
  /\ w.verdict \in Verdicts \ {"handling"}
  /\ entries' = settleOutbox(w)
  /\ drains' = [drains EXCEPT ![d] = handled(w)]
  /\ suffered' = IF recovers(w) THEN [suffered EXCEPT ![w.entry] = Never] ELSE suffered
  /\ UNCHANGED budget

(* The settlement throws, its write committed or not: the drain catches it *)
(* as a retryable failure and settles again, once, then gives up.          *)
SettleThrows(d, committed) ==
  LET w == drains[d] IN
  /\ w.verdict \in Verdicts \ {"handling"} /\ budget > 0
  /\ budget' = budget - 1
  /\ entries' = IF committed THEN settleOutbox(w) ELSE entries
  /\ drains' = [drains EXCEPT ![d] =
       IF w.verdict = "caught" THEN handled(w) ELSE [w EXCEPT !.verdict = "caught"]]
  /\ suffered' = [suffered EXCEPT ![w.entry] =
       IF committed /\ recovers(w) THEN Never ELSE firstOf(@)]

Crash(d) ==
  /\ drains[d].verdict # "idle" /\ budget > 0
  /\ budget' = budget - 1
  /\ drains' = [drains EXCEPT ![d] = IdleDrain]
  /\ UNCHANGED <<entries, suffered>>

-----------------------------------------------------------------------------
(* The specification *)

Init ==
  /\ entries = [e \in Entries |-> NewEntry]
  /\ drains = [d \in Drains |-> IdleDrain]
  /\ suffered = [e \in Entries |-> Never]
  /\ budget = MaxEvents

Proceed(d) ==
  \/ ClaimNext(d) \/ EndDrain(d) \/ Settle(d)
  \/ Succeed(d) \/ FailForGood(d) \/ AnchorClosed(d) \/ StillWaiting(d) \/ Fail(d)

Next ==
  \/ Tick
  \/ \E e \in Entries : Emit(e) \/ Wake(e)
  \/ \E d \in Drains :
       \/ Proceed(d)
       \/ \E committed \in BOOLEAN : SettleThrows(d, committed)
       \/ Crash(d)

Spec == Init /\ [][Next]_vars

(* Time passes, the maintenance tick keeps starting drains, and every      *)
(* handler returns or throws.  No delivery is ever owed.                   *)
Fairness == WF_vars(Tick) /\ \A d \in Drains : WF_vars(Proceed(d))

FairSpec == Spec /\ Fairness

-----------------------------------------------------------------------------
(* Properties *)

(* Every document and every in-flight snapshot keeps its shape.            *)
TypeOK ==
  /\ entries \in [Entries -> Entry]
  /\ drains \in [Drains -> Drain]
  /\ suffered \in [Entries -> Clock]
  /\ budget \in Nat

leaseKept(e) ==
  /\ entries'[e].state = "leased" /\ entries'[e].attempts = entries[e].attempts
  /\ entries'[e].failures = entries[e].failures

(* An entry whose lease is running changes hands, or is settled, by no     *)
(* step but one of the drain that owns the lease: neither another drain's  *)
(* claim, nor a late settlement, nor a webhook wake races its owner.       *)
OwnerUndisturbed ==
  [][\A d \in Drains :
       owns(drains[d]) /\ entries[drains[d].entry].lease > 0 =>
         drains'[d].verdict # drains[d].verdict \/ leaseKept(drains[d].entry)]_vars

(* A delivered or retired entry is never claimed, released or woken again, *)
(* however late the drains that once held it settle.                       *)
SettledForGood ==
  [][\A e \in Entries : entries[e].state \in Terminal =>
                          entries'[e].state = entries[e].state]_vars

(* An entry is dead-lettered only after real delivery failures spanning    *)
(* the whole window with no recovery recorded between, whatever leases     *)
(* were lost to crashes meanwhile, or as a stale report of a closed anchor. *)
RetirementEarned ==
  \A e \in Entries : entries[e].state = "failed" =>
    suffered[e] >= RetireAfter \/ (e \in Reports /\ entries[e].fresh = 0)

spacing[n \in Nat] == IF n <= 1 THEN 0 ELSE spacing[n - 1] + Least(BackoffCap, BackoffBase * 2 ^ (n - 2))

(* The recorded failures of an entry no webhook wakes are spaced by the    *)
(* doubling backoff, so the window bounds their number, however many       *)
(* drains compete for the entry.                                           *)
FailuresSpaced ==
  \A e \in Entries \ Monitors :
    entries[e].failures > 0 => spacing[entries[e].failures] <= entries[e].failing

(* Every emitted entry is eventually delivered or retired, even if every   *)
(* delivery fails and drains crash holding its lease.                      *)
EveryEntrySettles ==
  \A e \in Entries : entries[e].state = "pending" ~> entries[e].state \in Terminal

=============================================================================
