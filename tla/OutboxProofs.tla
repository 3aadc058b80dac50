---------------------------- MODULE OutboxProofs ----------------------------
(***************************************************************************)
(* Proofs about Outbox, for any entries, drains and delays: settlement is  *)
(* fenced by the claim, a settled entry stays settled, no entry is retired *)
(* before its failures span the window, and the backoff spaces them.       *)
(*                                                                         *)
(* The invariant ties what a drain remembers to the document it claimed.   *)
(* While it owns the lease, its snapshot of the failure clock is the       *)
(* stored one; no two drains hold the same claim; the stored clock never   *)
(* runs ahead of the failures that really happened.  The spacing of the    *)
(* failures has an invariant of its own, about the delay a pending entry   *)
(* still has to wait out.                                                  *)
(***************************************************************************)
EXTENDS Outbox, FiniteSets, FiniteSetTheorems, WellFoundedInduction, TLAPS

busy(w) == w.verdict # "idle"

(* What a busy drain w knows of its entry's document n and history c.      *)
Fits(w, n, c) ==
  /\ w.claim <= n.attempts
  /\ w.verdict = "closed" => w.entry \in Reports /\ n.fresh = 0
  /\ n.state = "leased" /\ n.attempts = w.claim =>
       w.failing = n.failing /\ (w.verdict \in Failing => c # Never)

EntryFits(e, n, c) ==
  /\ n.failing <= c
  /\ n.state = "absent" => n.failing = Never
  /\ n.state = "failed" => c >= RetireAfter \/ (e \in Reports /\ n.fresh = 0)

DistinctClaims ==
  \A c, d \in Drains :
    c # d /\ busy(drains[c]) /\ busy(drains[d]) /\ drains[c].entry = drains[d].entry =>
      drains[c].claim # drains[d].claim

OutboxInv ==
  /\ TypeOK
  /\ \A d \in Drains : busy(drains[d]) =>
       LET e == drains[d].entry IN e \in Entries /\ Fits(drains[d], entries[e], suffered[e])
  /\ \A e \in Entries : EntryFits(e, entries[e], suffered[e])
  /\ DistinctClaims

-----------------------------------------------------------------------------
(* Arithmetic and documents *)

LEMMA PowerNat == \A n \in Nat : 2 ^ n \in Nat
<1> TAKE n \in Nat
<1>1. IsFiniteSet(1 .. n) /\ Cardinality(1 .. n) = n
  BY FS_Interval
<1>2. IsFiniteSet(SUBSET (1 .. n)) /\ Cardinality(SUBSET (1 .. n)) = 2 ^ n
  BY <1>1, FS_SUBSET
<1> QED
  BY <1>2, FS_CardinalityType

LEMMA BackoffNat == \A n \in Nat : backoff(n + 1) \in Nat
<1> TAKE n \in Nat
<1>1. (n + 1) - 1 = n
  OBVIOUS
<1>2. 2 ^ ((n + 1) - 1) \in Nat
  BY <1>1, PowerNat
<1> DEFINE p == 2 ^ ((n + 1) - 1)
<1>3. p \in Nat
  BY <1>2
<1> HIDE DEF p
<1>4. BackoffBase * p \in Nat
  BY <1>3, OutboxAssumption
<1> DEFINE q == BackoffBase * p
<1> HIDE DEF q
<1>5. Least(BackoffCap, q) \in Nat
  BY <1>4, OutboxAssumption DEF Least, q
<1> QED
  BY <1>5 DEF backoff, p, q

LEMMA IdleDrainType == IdleDrain \in Drain /\ ~busy(IdleDrain)
BY DEF IdleDrain, Drain, busy, NoEntry, Never, Clock

LEMMA PassedClock ==
  ASSUME NEW c \in Clock
  PROVE  passed(c) \in Clock /\ (passed(c) = Never <=> c = Never)
BY OutboxAssumption DEF passed, Clock, Never, Least

LEMMA PassedMonotone ==
  ASSUME NEW b \in Clock, NEW c \in Clock, b <= c
  PROVE  passed(b) <= passed(c)
BY OutboxAssumption DEF passed, Clock, Never, Least

LEMMA LeftNat == \A n \in Nat : left(n) \in Nat /\ (n = 0 => left(n) = 0)
BY DEF left

(* What a drain's verdict makes of the entry it owns.                      *)
LEMMA VerdictApplied ==
  ASSUME NEW n \in Entry, NEW w \in Drain, NEW c \in Clock,
         w.verdict \in Verdicts \ {"handling"}, w.entry \in Entries,
         n.state = "leased", n.attempts = w.claim,
         Fits(w, n, c), EntryFits(w.entry, n, c)
  PROVE  /\ verdictApplied(n, w) \in Entry
         /\ verdictApplied(n, w).state # "leased"
         /\ verdictApplied(n, w).attempts = n.attempts
         /\ verdictApplied(n, w).fresh = n.fresh
         /\ EntryFits(w.entry, verdictApplied(n, w), c)
         /\ w.verdict = "waiting" => EntryFits(w.entry, verdictApplied(n, w), Never)
<1>1. CASE w.verdict \in {"done", "permanent"}
  <2> DEFINE m == [n EXCEPT !.state = "done", !.lease = 0, !.next = 0]
  <2>1. verdictApplied(n, w) = m
    BY <1>1 DEF verdictApplied, Failing
  <2>2. /\ m \in Entry /\ m.state = "done" /\ m.attempts = n.attempts /\ m.fresh = n.fresh
        /\ m.failing = n.failing
    BY DEF Entry
  <2> HIDE DEF m
  <2> QED
    BY <1>1, <2>1, <2>2 DEF EntryFits
<1>2. CASE w.verdict = "closed"
  <2> DEFINE m == [n EXCEPT !.state = "failed", !.lease = 0, !.next = 0]
  <2>1. verdictApplied(n, w) = m
    BY <1>2 DEF verdictApplied, Failing
  <2>2. /\ m \in Entry /\ m.state = "failed" /\ m.attempts = n.attempts /\ m.fresh = n.fresh
        /\ m.failing = n.failing
    BY DEF Entry
  <2> HIDE DEF m
  <2> QED
    BY <1>2, <2>1, <2>2 DEF EntryFits, Fits
<1>3. CASE w.verdict = "waiting"
  <2> DEFINE m == released(n)
  <2>1. verdictApplied(n, w) = m
    BY <1>3 DEF verdictApplied, Failing
  <2>2. /\ m \in Entry /\ m.state = "pending" /\ m.attempts = n.attempts /\ m.fresh = n.fresh
        /\ m.failing = Never
    BY OutboxAssumption DEF Entry, released, Clock
  <2> HIDE DEF m
  <2> QED
    BY <2>1, <2>2 DEF EntryFits, Never, Clock
<1>4. CASE w.verdict \in Failing
  <2> DEFINE s == IF w.failing = Never THEN 0 ELSE w.failing
             f == [n EXCEPT !.state = "failed", !.lease = 0, !.next = 0, !.failing = s]
             p == [n EXCEPT !.state = "pending", !.lease = 0, !.failing = s,
                            !.failures = w.failures + 1, !.next = backoff(w.failures + 1)]
  <2>1. verdictApplied(n, w) = IF s >= RetireAfter THEN f ELSE p
    BY <1>4 DEF verdictApplied, retried, Failing
  <2>2. s \in Nat /\ s <= c /\ w.failures + 1 \in Nat
    BY <1>4 DEF Fits, EntryFits, Clock, Never, Drain
  <2>3. backoff(w.failures + 1) \in Nat
    BY BackoffNat DEF Drain
  <2> DEFINE b == backoff(w.failures + 1)
             k == w.failures + 1
  <2> HIDE DEF s, b, k
  <2>4. /\ f \in Entry /\ f.state = "failed" /\ f.attempts = n.attempts /\ f.fresh = n.fresh
        /\ f.failing = s
    BY <2>2 DEF Entry, Clock
  <2>5. /\ p \in Entry /\ p.state = "pending" /\ p.attempts = n.attempts /\ p.fresh = n.fresh
        /\ p.failing = s
    <3>1. b \in Nat /\ k \in Nat
      BY <2>2, <2>3 DEF b, k
    <3>2. p = [n EXCEPT !.state = "pending", !.lease = 0, !.failing = s,
                        !.failures = k, !.next = b]
      BY DEF b, k
    <3> HIDE DEF p
    <3> QED
      BY <2>2, <3>1, <3>2 DEF Entry, Clock
  <2> HIDE DEF f, p
  <2>6. CASE s >= RetireAfter
    <3>1. c >= RetireAfter
      BY <2>2, <2>6, OutboxAssumption DEF Clock, Never
    <3> QED
      BY <1>4, <2>1, <2>2, <2>4, <2>6, <3>1 DEF EntryFits, Failing
  <2>7. CASE ~(s >= RetireAfter)
    BY <1>4, <2>1, <2>2, <2>5, <2>7 DEF EntryFits, Failing
  <2> QED
    BY <2>6, <2>7
<1> QED
  BY <1>1, <1>2, <1>3, <1>4 DEF Verdicts, Failing
-----------------------------------------------------------------------------
(* Two shapes of step *)

(* The entry of drain d becomes n, its history c, and the drain v.         *)
DrainStep(d, e, n, v, c) ==
  /\ entries' = [entries EXCEPT ![e] = n]
  /\ drains' = [drains EXCEPT ![d] = v]
  /\ suffered' = [suffered EXCEPT ![e] = c]
  /\ budget' \in Nat
  /\ n.attempts >= entries[e].attempts /\ n.fresh = entries[e].fresh
  /\ EntryFits(e, n, c)
  /\ busy(v) => v.entry = e /\ Fits(v, n, c)
  /\ \A x \in Drains : x # d /\ busy(drains[x]) /\ drains[x].entry = e =>
       /\ busy(v) => drains[x].claim # v.claim
       /\ Fits(drains[x], n, c)

LEMMA DrainStepPreserves ==
  ASSUME OutboxInv, NEW d \in Drains, NEW e \in Entries,
         NEW n \in Entry, NEW v \in Drain, NEW c \in Clock, DrainStep(d, e, n, v, c)
  PROVE  OutboxInv'
<1> USE DEF DrainStep
<1>1. TypeOK'
  BY DEF OutboxInv, TypeOK
<1>2. ASSUME NEW x \in Drains, busy(drains'[x])
      PROVE  /\ drains'[x].entry \in Entries
             /\ Fits(drains'[x], entries'[drains'[x].entry], suffered'[drains'[x].entry])
  <2>1. CASE x = d
    BY <1>2, <2>1 DEF OutboxInv, TypeOK
  <2>2. CASE x # d
    <3>1. drains'[x] = drains[x]
      BY <2>2 DEF OutboxInv, TypeOK
    <3>2. drains[x].entry \in Entries
          /\ Fits(drains[x], entries[drains[x].entry], suffered[drains[x].entry])
      BY <1>2, <3>1 DEF OutboxInv
    <3>3. CASE drains[x].entry = e
      BY <1>2, <2>2, <3>1, <3>2, <3>3 DEF OutboxInv, TypeOK
    <3>4. CASE drains[x].entry # e
      BY <3>1, <3>2, <3>4 DEF OutboxInv, TypeOK
    <3> QED
      BY <3>3, <3>4
  <2> QED
    BY <2>1, <2>2
<1>3. \A f \in Entries : EntryFits(f, entries'[f], suffered'[f])
  BY DEF OutboxInv, TypeOK
<1>4. DistinctClaims'
  <2> SUFFICES ASSUME NEW x \in Drains, NEW y \in Drains, x # y,
                      busy(drains'[x]), busy(drains'[y]),
                      drains'[x].entry = drains'[y].entry
               PROVE  drains'[x].claim # drains'[y].claim
    BY DEF DistinctClaims, busy
  <2>1. \A z \in Drains : z # d => drains'[z] = drains[z]
    BY DEF OutboxInv, TypeOK
  <2>2. drains'[d] = v
    BY DEF OutboxInv, TypeOK
  <2>3. CASE x # d /\ y # d
    BY <2>1, <2>3 DEF OutboxInv, DistinctClaims
  <2>4. CASE x = d
    BY <2>1, <2>2, <2>4
  <2>5. CASE y = d
    BY <2>1, <2>2, <2>5
  <2> QED
    BY <2>3, <2>4, <2>5
<1> QED
  BY <1>1, <1>2, <1>3, <1>4 DEF OutboxInv, busy, Fits, EntryFits

(* The entry becomes n under no drain's hand, keeping what drains rely on. *)
LEMMA EntryStepPreserves ==
  ASSUME OutboxInv, NEW e \in Entries, NEW n \in Entry,
         entries' = [entries EXCEPT ![e] = n],
         UNCHANGED <<drains, suffered>>, budget' \in Nat,
         n.attempts = entries[e].attempts, n.fresh = entries[e].fresh,
         n.failing = entries[e].failing,
         n.state = "pending"
  PROVE  OutboxInv'
<1>1. TypeOK'
  BY DEF OutboxInv, TypeOK
<1>2. ASSUME NEW x \in Drains, busy(drains[x])
      PROVE  /\ drains[x].entry \in Entries
             /\ Fits(drains[x], entries'[drains[x].entry], suffered[drains[x].entry])
  <2>1. drains[x].entry \in Entries
        /\ Fits(drains[x], entries[drains[x].entry], suffered[drains[x].entry])
    BY <1>2 DEF OutboxInv
  <2>2. CASE drains[x].entry = e
    BY <2>1, <2>2 DEF OutboxInv, TypeOK, Fits
  <2>3. CASE drains[x].entry # e
    BY <2>1, <2>3 DEF OutboxInv, TypeOK
  <2> QED
    BY <2>2, <2>3
<1>3. \A f \in Entries : EntryFits(f, entries'[f], suffered[f])
  BY DEF OutboxInv, TypeOK, EntryFits
<1>4. DistinctClaims'
  BY DEF OutboxInv, DistinctClaims, busy
<1> QED
  BY <1>1, <1>2, <1>3, <1>4 DEF OutboxInv, busy, Fits, EntryFits

-----------------------------------------------------------------------------
(* One lemma per action *)

LEMMA BusyFacts ==
  ASSUME OutboxInv, NEW d \in Drains, busy(drains[d])
  PROVE  LET w == drains[d]
             e == w.entry
         IN  /\ w \in Drain /\ e \in Entries /\ entries[e] \in Entry
             /\ suffered[e] \in Clock /\ budget \in Nat
             /\ Fits(w, entries[e], suffered[e]) /\ EntryFits(e, entries[e], suffered[e])
             /\ \A x \in Drains : x # d /\ busy(drains[x]) /\ drains[x].entry = e =>
                  /\ drains[x].claim # w.claim
                  /\ Fits(drains[x], entries[e], suffered[e])
BY DEF OutboxInv, TypeOK, DistinctClaims

LEMMA EmitStep == ASSUME OutboxInv, NEW e \in Entries, Emit(e) PROVE OutboxInv'
<1> DEFINE n == [entries[e] EXCEPT !.state = "pending"]
<1>1. entries[e] \in Entry /\ budget \in Nat
  BY DEF OutboxInv, TypeOK
<1>2. /\ n \in Entry /\ n.state = "pending" /\ n.attempts = entries[e].attempts
      /\ n.fresh = entries[e].fresh /\ n.failing = entries[e].failing
  BY <1>1 DEF Entry
<1>3. entries' = [entries EXCEPT ![e] = n] /\ UNCHANGED <<drains, suffered, budget>>
  BY DEF Emit, OutboxInv, TypeOK
<1> HIDE DEF n
<1> QED
  BY <1>1, <1>2, <1>3, EntryStepPreserves

LEMMA WakeStep == ASSUME OutboxInv, NEW e \in Entries, Wake(e) PROVE OutboxInv'
<1> DEFINE n == [entries[e] EXCEPT !.next = 0]
<1>1. entries[e] \in Entry /\ budget \in Nat /\ budget > 0 /\ entries[e].state = "pending"
  BY DEF OutboxInv, TypeOK, Wake, wakeOutboxEntry
<1>2. /\ n \in Entry /\ n.state = "pending" /\ n.attempts = entries[e].attempts
      /\ n.fresh = entries[e].fresh /\ n.failing = entries[e].failing
  BY <1>1 DEF Entry
<1>3. /\ entries' = [entries EXCEPT ![e] = n] /\ UNCHANGED <<drains, suffered>>
      /\ budget' = budget - 1
  BY DEF Wake, OutboxInv, TypeOK
<1> HIDE DEF n
<1>4. budget' \in Nat
  BY <1>1, <1>3
<1> QED
  BY <1>2, <1>3, <1>4, EntryStepPreserves

LEMMA TickStep == ASSUME OutboxInv, Tick PROVE OutboxInv'
<1>1. budget' \in Nat
  <2>1. budget \in Nat
    BY DEF OutboxInv, TypeOK
  <2>2. CASE overrun
    <3>1. budget > 0 /\ budget' = budget - 1
      BY <2>2, Zenon DEF Tick
    <3> QED
      BY <2>1, <3>1
  <2>3. CASE ~overrun
    <3>1. budget' = budget
      BY <2>3, Zenon DEF Tick
    <3> QED
      BY <2>1, <3>1
  <2> QED
    BY <2>2, <2>3
<1>2. ASSUME NEW e \in Entries
      PROVE  /\ entries[e] \in Entry /\ entries'[e] \in Entry
             /\ entries'[e].state = entries[e].state
             /\ entries'[e].attempts = entries[e].attempts
             /\ entries[e].fresh = 0 => entries'[e].fresh = 0
             /\ entries'[e].failing = IF entries[e].state \in Terminal \cup {"absent"}
                                      THEN entries[e].failing ELSE passed(entries[e].failing)
  <2> DEFINE o == entries[e]
             n == [o EXCEPT !.lease = left(@), !.next = left(@), !.fresh = left(@),
                            !.failing = passed(@)]
  <2>1. o \in Entry
    BY DEF OutboxInv, TypeOK
  <2>2. entries'[e] = IF o.state \in Terminal \cup {"absent"} THEN o ELSE n
    BY DEF Tick
  <2>3. /\ left(o.lease) \in Nat /\ left(o.next) \in Nat /\ left(o.fresh) \in Nat
        /\ passed(o.failing) \in Clock /\ (o.fresh = 0 => left(o.fresh) = 0)
    BY <2>1, LeftNat, PassedClock DEF Entry
  <2>4. /\ n \in Entry /\ n.state = o.state /\ n.attempts = o.attempts
        /\ n.fresh = left(o.fresh) /\ n.failing = passed(o.failing)
    <3> HIDE DEF o
    <3> QED
      BY <2>1, <2>3 DEF Entry
  <2> HIDE DEF n
  <2> QED
    BY <2>1, <2>2, <2>3, <2>4
<1>3. ASSUME NEW d \in Drains
      PROVE  /\ drains[d] \in Drain /\ drains'[d] \in Drain
             /\ drains'[d].verdict = drains[d].verdict /\ drains'[d].entry = drains[d].entry
             /\ drains'[d].claim = drains[d].claim
             /\ drains'[d].failing = passed(drains[d].failing)
  <2> DEFINE o == drains[d]
             n == [o EXCEPT !.failing = passed(@)]
  <2>1. o \in Drain
    BY DEF OutboxInv, TypeOK
  <2>2. drains'[d] = n
    BY DEF Tick
  <2>3. passed(o.failing) \in Clock
    BY <2>1, PassedClock DEF Drain
  <2>4. /\ n \in Drain /\ n.verdict = o.verdict /\ n.entry = o.entry /\ n.claim = o.claim
        /\ n.failing = passed(o.failing)
    <3> HIDE DEF o
    <3> QED
      BY <2>1, <2>3 DEF Drain
  <2> HIDE DEF n
  <2> QED
    BY <2>1, <2>2, <2>4
<1>4. ASSUME NEW e \in Entries
      PROVE  /\ suffered[e] \in Clock /\ suffered'[e] \in Clock
             /\ suffered'[e] = IF entries[e].state \in Terminal THEN suffered[e]
                               ELSE passed(suffered[e])
             /\ suffered[e] # Never => suffered'[e] # Never
             /\ suffered[e] <= suffered'[e] \/ suffered[e] >= RetireAfter
  <2>1. suffered[e] \in Clock
    BY DEF OutboxInv, TypeOK
  <2>2. suffered'[e] = IF entries[e].state \in Terminal THEN suffered[e] ELSE passed(suffered[e])
    BY DEF Tick
  <2>3. /\ passed(suffered[e]) \in Clock /\ (passed(suffered[e]) = Never <=> suffered[e] = Never)
        /\ suffered[e] <= passed(suffered[e]) \/ suffered[e] >= RetireAfter
    BY <2>1, PassedClock, OutboxAssumption DEF passed, Clock, Never, Least
  <2> QED
    BY <2>1, <2>2, <2>3 DEF Clock, Never
<1>5. TypeOK'
  <2>1. DOMAIN entries' = Entries /\ entries' = [e \in Entries |-> entries'[e]]
    BY DEF Tick
  <2>2. entries' \in [Entries -> Entry]
    BY <1>2, <2>1
  <2>3. drains' = [d \in Drains |-> drains'[d]]
    BY DEF Tick
  <2>4. drains' \in [Drains -> Drain]
    BY <1>3, <2>3
  <2>5. suffered' = [e \in Entries |-> suffered'[e]]
    BY DEF Tick
  <2>6. suffered' \in [Entries -> Clock]
    BY <1>4, <2>5
  <2> QED
    BY <1>1, <2>2, <2>4, <2>6 DEF TypeOK
<1>6. ASSUME NEW d \in Drains, busy(drains'[d])
      PROVE  /\ drains'[d].entry \in Entries
             /\ Fits(drains'[d], entries'[drains'[d].entry], suffered'[drains'[d].entry])
  <2> DEFINE e == drains[d].entry
  <2>1. e \in Entries /\ Fits(drains[d], entries[e], suffered[e])
    BY <1>3, <1>6 DEF OutboxInv, busy
  <2>2. drains'[d].entry = e
    BY <1>3
  <2> HIDE DEF e
  <2>3. entries[e].state = "leased" => entries'[e].failing = passed(entries[e].failing)
    BY <1>2, <2>1 DEF Terminal
  <2> QED
    BY <1>2, <1>3, <1>4, <2>1, <2>2, <2>3 DEF Fits, e
<1>7. ASSUME NEW e \in Entries PROVE EntryFits(e, entries'[e], suffered'[e])
  <2>1. EntryFits(e, entries[e], suffered[e]) /\ entries[e].failing \in Clock
    BY <1>2 DEF OutboxInv, Entry
  <2>2. CASE entries[e].state \in Terminal
    BY <1>2, <1>4, <2>1, <2>2 DEF EntryFits
  <2>3. CASE entries[e].state \notin Terminal /\ entries[e].state # "absent"
    BY <1>2, <1>4, <2>1, <2>3, PassedMonotone DEF EntryFits, Terminal
  <2>4. CASE entries[e].state = "absent"
    <3>1. entries[e].failing = Never /\ Never <= passed(suffered[e])
      BY <1>4, <2>1, <2>4, PassedClock DEF EntryFits, Clock, Never
    <3> QED
      BY <1>2, <1>4, <2>4, <3>1 DEF EntryFits, Terminal
  <2> QED
    BY <2>2, <2>3, <2>4
<1>8. DistinctClaims'
  <2> SUFFICES ASSUME NEW x \in Drains, NEW y \in Drains, x # y,
                      busy(drains'[x]), busy(drains'[y]),
                      drains'[x].entry = drains'[y].entry
               PROVE  drains'[x].claim # drains'[y].claim
    BY DEF DistinctClaims, busy
  <2> QED
    BY <1>3 DEF OutboxInv, DistinctClaims, busy
<1> QED
  BY <1>5, <1>6, <1>7, <1>8 DEF OutboxInv, busy, Fits, EntryFits

LEMMA IdleStepPreserves ==
  ASSUME OutboxInv, NEW d \in Drains, NEW v \in Drain, ~busy(v),
         drains' = [drains EXCEPT ![d] = v],
         UNCHANGED <<entries, suffered>>, budget' \in Nat
  PROVE  OutboxInv'
<1>1. TypeOK'
  BY DEF OutboxInv, TypeOK
<1>2. \A x \in Drains : busy(drains'[x]) => drains'[x] = drains[x]
  BY DEF OutboxInv, TypeOK
<1>3. ASSUME NEW x \in Drains, busy(drains'[x])
      PROVE  /\ drains'[x].entry \in Entries
             /\ Fits(drains'[x], entries[drains'[x].entry], suffered[drains'[x].entry])
  BY <1>2, <1>3 DEF OutboxInv
<1>4. \A f \in Entries : EntryFits(f, entries[f], suffered[f])
  BY DEF OutboxInv
<1>5. DistinctClaims'
  <2> SUFFICES ASSUME NEW x \in Drains, NEW y \in Drains, x # y,
                      busy(drains'[x]), busy(drains'[y]),
                      drains'[x].entry = drains'[y].entry
               PROVE  drains'[x].claim # drains'[y].claim
    BY DEF DistinctClaims, busy
  <2> QED
    BY <1>2 DEF OutboxInv, DistinctClaims
<1> QED
  BY <1>1, <1>3, <1>4, <1>5 DEF OutboxInv, busy, Fits, EntryFits

LEMMA EndDrainStep == ASSUME OutboxInv, NEW d \in Drains, EndDrain(d) PROVE OutboxInv'
<1>1. budget' \in Nat
  BY DEF EndDrain, OutboxInv, TypeOK
<1> QED
  BY <1>1, IdleDrainType, IdleStepPreserves DEF EndDrain

LEMMA CrashStep == ASSUME OutboxInv, NEW d \in Drains, Crash(d) PROVE OutboxInv'
<1>1. budget' \in Nat
  BY DEF Crash, OutboxInv, TypeOK
<1> QED
  BY <1>1, IdleDrainType, IdleStepPreserves DEF Crash

(* Another claim is a larger attempt number than any drain remembers.      *)
LEMMA ClaimNextStep == ASSUME OutboxInv, NEW d \in Drains, ClaimNext(d) PROVE OutboxInv'
<1> DEFINE w == drains[d]
<1>1. PICK e \in claimable(w.excluded) :
        /\ entries' = [entries EXCEPT ![e].state = "leased", ![e].lease = OutboxLease,
                                      ![e].attempts = @ + 1]
        /\ drains' = [drains EXCEPT ![d] =
             [w EXCEPT !.verdict = "handling", !.entry = e, !.claim = entries[e].attempts + 1,
                       !.failing = entries[e].failing, !.failures = entries[e].failures,
                       !.claimed = @ + 1]]
  BY DEF ClaimNext
<1>2. e \in Entries
  BY DEF claimable, expiredLeases, duePending
<1> DEFINE o == entries[e]
           k == o.attempts + 1
           j == w.claimed + 1
           n == [o EXCEPT !.state = "leased", !.lease = OutboxLease, !.attempts = k]
           v == [w EXCEPT !.verdict = "handling", !.entry = e, !.claim = k,
                          !.failing = o.failing, !.failures = o.failures,
                          !.claimed = j]
           c == suffered[e]
<1>3. o \in Entry /\ w \in Drain /\ suffered[e] \in Clock /\ EntryFits(e, o, suffered[e])
  BY <1>2 DEF OutboxInv, TypeOK
<1>4. /\ entries' = [entries EXCEPT ![e] = n] /\ drains' = [drains EXCEPT ![d] = v]
      /\ suffered' = [suffered EXCEPT ![e] = suffered[e]] /\ budget' \in Nat
  BY <1>1, <1>2 DEF OutboxInv, TypeOK, ClaimNext
<1>5. \A x \in Drains : busy(drains[x]) /\ drains[x].entry = e =>
        Fits(drains[x], o, suffered[e]) /\ drains[x].claim \in Nat
  BY DEF OutboxInv, TypeOK, Drain
<1>6. k \in Nat /\ j \in Nat /\ o.attempts \in Nat /\ k = o.attempts + 1
  BY <1>3 DEF Entry, Drain
<1> HIDE DEF o, w, j, k
<1>7. /\ n \in Entry /\ n.state = "leased" /\ n.attempts = k
      /\ n.fresh = o.fresh /\ n.failing = o.failing
  BY <1>3, <1>6, OutboxAssumption DEF Entry
<1>8. v \in Drain /\ v.verdict = "handling" /\ v.entry = e /\ v.claim = k /\ v.failing = o.failing
  BY <1>2, <1>3, <1>6 DEF Entry, Drain, Verdicts
<1>9. /\ entries' = [entries EXCEPT ![e] = n] /\ drains' = [drains EXCEPT ![d] = v]
      /\ suffered' = [suffered EXCEPT ![e] = c] /\ budget' \in Nat /\ c \in Clock
  BY <1>3, <1>4
<1>10. n.attempts >= entries[e].attempts /\ n.fresh = entries[e].fresh
  BY <1>6, <1>7 DEF o
<1>11. EntryFits(e, n, c)
  BY <1>3, <1>7 DEF EntryFits
<1>12. busy(v) => v.entry = e /\ Fits(v, n, c)
  BY <1>6, <1>7, <1>8 DEF Fits, Failing
<1>13. \A x \in Drains : x # d /\ busy(drains[x]) /\ drains[x].entry = e =>
         /\ busy(v) => drains[x].claim # v.claim
         /\ Fits(drains[x], n, c)
  BY <1>5, <1>6, <1>7, <1>8 DEF Fits
<1> HIDE DEF n, v, c
<1>14. DrainStep(d, e, n, v, c)
  BY <1>9, <1>10, <1>11, <1>12, <1>13 DEF DrainStep
<1> QED
  BY <1>2, <1>7, <1>8, <1>9, <1>14, DrainStepPreserves

(* A handler's verdict, with what it adds to the history of failures.      *)
LEMMA DecideStep ==
  ASSUME OutboxInv, NEW d \in Drains, NEW verdict \in Verdicts, decide(d, verdict),
         UNCHANGED entries, budget' \in Nat, NEW c \in Clock,
         suffered' = [suffered EXCEPT ![drains[d].entry] = c],
         suffered[drains[d].entry] <= c,
         verdict = "closed" => /\ drains[d].entry \in Reports
                               /\ entries[drains[d].entry].fresh = 0,
         verdict \in Failing => c # Never
  PROVE  OutboxInv'
<1> DEFINE w == drains[d]
           e == w.entry
           o == entries[e]
           s == suffered[e]
           v == [w EXCEPT !.verdict = verdict]
<1>1. busy(w)
  BY DEF decide, busy
<1>2. /\ w \in Drain /\ e \in Entries /\ o \in Entry /\ s \in Clock
      /\ Fits(w, o, s) /\ EntryFits(e, o, s)
      /\ \A x \in Drains : x # d /\ busy(drains[x]) /\ drains[x].entry = e =>
           drains[x].claim # w.claim /\ Fits(drains[x], o, s)
  BY <1>1, BusyFacts
<1>3. /\ entries' = [entries EXCEPT ![e] = o] /\ drains' = [drains EXCEPT ![d] = v]
      /\ suffered' = [suffered EXCEPT ![e] = c] /\ budget' \in Nat
  BY DEF decide, OutboxInv, TypeOK
<1>4. o.attempts >= entries[e].attempts /\ o.fresh = entries[e].fresh
  BY <1>2 DEF Entry
<1>5. s <= c /\ (verdict = "closed" => e \in Reports /\ o.fresh = 0)
  OBVIOUS
<1> HIDE DEF w, e, o, s
<1>6. v \in Drain /\ v.verdict = verdict /\ v.claim = w.claim /\ v.failing = w.failing /\ v.entry = e
  BY <1>2 DEF Drain, e
<1> HIDE DEF v
<1>7. EntryFits(e, o, c)
  BY <1>2, <1>5, OutboxAssumption DEF EntryFits, Clock, Never, Entry
<1>8. \A x \in Drains : x # d /\ busy(drains[x]) /\ drains[x].entry = e =>
        drains[x].claim # v.claim /\ Fits(drains[x], o, c)
  BY <1>2, <1>5, <1>6 DEF Fits, Clock, Never
<1>9. Fits(v, o, c)
  BY <1>2, <1>5, <1>6 DEF Fits
<1>10. DrainStep(d, e, o, v, c)
  BY <1>3, <1>4, <1>6, <1>7, <1>8, <1>9 DEF DrainStep
<1> QED
  BY <1>2, <1>6, <1>10, DrainStepPreserves

LEMMA FirstOfClock ==
  ASSUME NEW c \in Clock
  PROVE  firstOf(c) \in Clock /\ c <= firstOf(c) /\ firstOf(c) # Never
BY DEF firstOf, Clock, Never

LEMMA VerdictStep ==
  ASSUME OutboxInv, NEW d \in Drains,
         \/ Succeed(d) \/ FailForGood(d) \/ AnchorClosed(d) \/ StillWaiting(d) \/ Fail(d)
  PROVE  OutboxInv'
<1> DEFINE e == drains[d].entry
<1>1. busy(drains[d])
  BY DEF Succeed, FailForGood, AnchorClosed, StillWaiting, Fail, decide, busy
<1>2. e \in Entries /\ suffered[e] \in Clock /\ budget \in Nat /\ suffered[e] <= suffered[e]
      /\ suffered = [suffered EXCEPT ![e] = suffered[e]]
  BY <1>1, BusyFacts DEF OutboxInv, TypeOK, Clock, Never
<1>3. CASE Succeed(d)
  BY <1>2, <1>3, DecideStep DEF Succeed, Verdicts, Failing
<1>4. CASE FailForGood(d)
  BY <1>2, <1>4, DecideStep DEF FailForGood, Verdicts, Failing
<1>5. CASE AnchorClosed(d)
  BY <1>2, <1>5, DecideStep DEF AnchorClosed, Verdicts, Failing
<1>6. CASE StillWaiting(d)
  <2>1. budget' \in Nat
    BY <1>2, <1>6 DEF StillWaiting
  <2> QED
    BY <1>2, <1>6, <2>1, DecideStep DEF StillWaiting, Verdicts, Failing
<1>7. CASE Fail(d)
  <2>1. suffered' = [suffered EXCEPT ![e] = firstOf(suffered[e])]
    BY <1>7 DEF Fail
  <2> QED
    BY <1>2, <1>7, <2>1, FirstOfClock, DecideStep DEF Fail, Verdicts
<1> QED
  BY <1>3, <1>4, <1>5, <1>6, <1>7

LEMMA HandledIdle == ASSUME NEW w \in Drain, w.entry \in Entries
                     PROVE  handled(w) \in Drain /\ ~busy(handled(w))
<1> DEFINE x == IF w.verdict \in Failing \cup {"permanent", "closed"} \/ w.entry \in Monitors
                THEN w.excluded \cup {w.entry} ELSE w.excluded
<1>1. x \in SUBSET Entries /\ w.claimed \in Nat
  BY DEF Drain
<1>2. handled(w) = [IdleDrain EXCEPT !.claimed = w.claimed, !.excluded = x]
  BY DEF handled
<1> HIDE DEF x
<1> QED
  BY <1>1, <1>2, IdleDrainType DEF Drain, busy, IdleDrain

(* A committed settlement by the owner, whatever becomes of the drain.     *)
LEMMA OwnerSettles ==
  ASSUME OutboxInv, NEW d \in Drains, drains[d].verdict \in Verdicts \ {"handling"},
         owns(drains[d]), entries' = settleOutbox(drains[d]), budget' \in Nat,
         NEW v \in Drain, drains' = [drains EXCEPT ![d] = v],
         busy(v) => v.entry = drains[d].entry /\ v.claim = drains[d].claim /\ v.verdict = "caught",
         NEW c \in Clock, suffered' = [suffered EXCEPT ![drains[d].entry] = c],
         IF drains[d].verdict = "waiting" THEN c = Never ELSE suffered[drains[d].entry] <= c
  PROVE  OutboxInv'
<1> DEFINE w == drains[d]
           e == w.entry
           o == entries[e]
           s == suffered[e]
           n == verdictApplied(o, w)
<1>1. busy(w)
  BY DEF owns, busy
<1>2. /\ w \in Drain /\ e \in Entries /\ o \in Entry /\ s \in Clock
      /\ Fits(w, o, s) /\ EntryFits(e, o, s)
      /\ \A x \in Drains : x # d /\ busy(drains[x]) /\ drains[x].entry = e =>
           drains[x].claim # w.claim /\ Fits(drains[x], o, s)
  BY <1>1, BusyFacts
<1>3. o.state = "leased" /\ o.attempts = w.claim
  BY DEF owns
<1>4. /\ n \in Entry /\ n.state # "leased" /\ n.attempts = o.attempts /\ n.fresh = o.fresh
      /\ EntryFits(e, n, s) /\ (w.verdict = "waiting" => EntryFits(e, n, Never))
  BY <1>2, <1>3, VerdictApplied
<1>5. entries' = [entries EXCEPT ![e] = n] /\ drains' = [drains EXCEPT ![d] = v]
      /\ suffered' = [suffered EXCEPT ![e] = c] /\ budget' \in Nat
  BY DEF settleOutbox
<1>6. n.attempts >= entries[e].attempts /\ n.fresh = entries[e].fresh
  BY <1>2, <1>4 DEF Entry
<1>7. (w.verdict = "waiting" => c = Never) /\ (w.verdict # "waiting" => s <= c)
  OBVIOUS
<1>8. busy(v) => v.entry = e /\ v.claim = w.claim /\ v.verdict = "caught"
  OBVIOUS
<1> HIDE DEF w, e, o, s, n
<1>9. EntryFits(e, n, c)
  <2>1. CASE w.verdict = "waiting"
    BY <1>4, <1>7, <2>1
  <2>2. CASE w.verdict # "waiting"
    BY <1>2, <1>4, <1>7, <2>2, OutboxAssumption DEF EntryFits, Clock, Never, Entry
  <2> QED
    BY <2>1, <2>2
<1>10. busy(v) => v.entry = e /\ Fits(v, n, c)
  BY <1>2, <1>3, <1>4, <1>8 DEF Fits
<1>11. \A x \in Drains : x # d /\ busy(drains[x]) /\ drains[x].entry = e =>
         /\ busy(v) => drains[x].claim # v.claim
         /\ Fits(drains[x], n, c)
  BY <1>2, <1>4, <1>8 DEF Fits
<1>12. DrainStep(d, e, n, v, c)
  BY <1>5, <1>6, <1>9, <1>10, <1>11 DEF DrainStep
<1> QED
  BY <1>2, <1>4, <1>12, DrainStepPreserves

LEMMA SettleStep == ASSUME OutboxInv, NEW d \in Drains, Settle(d) PROVE OutboxInv'
<1> DEFINE w == drains[d]
           e == w.entry
           c == IF w.verdict = "waiting" THEN Never ELSE suffered[e]
<1>1. busy(w) /\ w.verdict \in Verdicts \ {"handling"}
  BY DEF Settle, busy, Verdicts
<1>2. w \in Drain /\ e \in Entries /\ suffered[e] \in Clock /\ budget' \in Nat
  BY <1>1, BusyFacts DEF Settle
<1>3. handled(w) \in Drain /\ ~busy(handled(w)) /\ drains' = [drains EXCEPT ![d] = handled(w)]
  BY <1>2, HandledIdle DEF Settle
<1>4. entries' = settleOutbox(w)
  BY DEF Settle
<1>5. CASE owns(w)
  <2>1. suffered' = [suffered EXCEPT ![e] = c]
    BY <1>5 DEF Settle, recovers, OutboxInv, TypeOK
  <2>2. c \in Clock /\ (IF w.verdict = "waiting" THEN c = Never ELSE suffered[e] <= c)
    BY <1>2 DEF Clock, Never
  <2> HIDE DEF c
  <2> QED
    BY <1>1, <1>2, <1>3, <1>4, <1>5, <2>1, <2>2, OwnerSettles
<1>6. CASE ~owns(w)
  <2>1. entries' = entries /\ suffered' = suffered
    BY <1>4, <1>6, Zenon DEF Settle, recovers, settleOutbox
  <2> QED
    BY <1>2, <1>3, <2>1, IdleStepPreserves
<1> QED
  BY <1>5, <1>6

LEMMA SettleThrowsStep ==
  ASSUME OutboxInv, NEW d \in Drains, NEW committed \in BOOLEAN, SettleThrows(d, committed)
  PROVE  OutboxInv'
<1> DEFINE w == drains[d]
           e == w.entry
           o == entries[e]
           s == suffered[e]
           r == [w EXCEPT !.verdict = "caught"]
           v == IF w.verdict = "caught" THEN handled(w) ELSE r
           c == IF committed /\ recovers(w) THEN Never ELSE firstOf(s)
<1>1. busy(w) /\ w.verdict \in Verdicts \ {"handling"}
  BY DEF SettleThrows, busy, Verdicts
<1>2. /\ w \in Drain /\ e \in Entries /\ o \in Entry /\ s \in Clock /\ budget \in Nat
      /\ Fits(w, o, s) /\ EntryFits(e, o, s)
      /\ \A x \in Drains : x # d /\ busy(drains[x]) /\ drains[x].entry = e =>
           drains[x].claim # w.claim /\ Fits(drains[x], o, s)
  BY <1>1, BusyFacts
<1>3. budget' \in Nat
  BY <1>2 DEF SettleThrows
<1>4. drains' = [drains EXCEPT ![d] = v] /\ suffered' = [suffered EXCEPT ![e] = c]
  BY DEF SettleThrows
<1>5. firstOf(s) \in Clock /\ s <= firstOf(s) /\ firstOf(s) # Never
  BY <1>2, FirstOfClock
<1>6. /\ v \in Drain /\ (busy(v) => v.entry = e /\ v.claim = w.claim /\ v.failing = w.failing
                                    /\ v.verdict = "caught")
  <2>1. /\ r \in Drain /\ r.entry = e /\ r.claim = w.claim /\ r.failing = w.failing
        /\ r.verdict = "caught"
    BY <1>2 DEF Drain, Verdicts
  <2>2. handled(w) \in Drain /\ ~busy(handled(w))
    BY <1>2, HandledIdle
  <2> QED
    BY <2>1, <2>2
<1>7. CASE committed /\ owns(w)
  <2>1. entries' = settleOutbox(w)
    BY <1>7, Zenon DEF SettleThrows
  <2>2. CASE w.verdict = "waiting"
    <3>1. c = Never
      BY <1>7, <2>2, Zenon DEF recovers
    <3>2. c \in Clock /\ (IF w.verdict = "waiting" THEN c = Never ELSE s <= c)
      BY <2>2, <3>1 DEF Clock
    <3> HIDE DEF c, v
    <3> QED
      BY <1>1, <1>3, <1>4, <1>6, <1>7, <2>1, <3>2, OwnerSettles
  <2>3. CASE w.verdict # "waiting"
    <3>1. c = firstOf(s)
      BY <2>3, Zenon DEF recovers
    <3>2. c \in Clock /\ (IF w.verdict = "waiting" THEN c = Never ELSE s <= c)
      BY <1>5, <2>3, <3>1
    <3> HIDE DEF c, v
    <3> QED
      BY <1>1, <1>3, <1>4, <1>6, <1>7, <2>1, <3>2, OwnerSettles
  <2> QED
    BY <2>2, <2>3
<1>8. CASE ~(committed /\ owns(w))
  <2>1. entries' = entries
    BY <1>8, Zenon DEF SettleThrows, settleOutbox
  <2>2. c = firstOf(s)
    BY <1>8, Zenon DEF recovers
  <2>3. c \in Clock /\ s <= c /\ c # Never
    BY <1>5, <2>2
  <2>4. entries' = [entries EXCEPT ![e] = o]
    BY <2>1 DEF OutboxInv, TypeOK
  <2>5. o.attempts >= entries[e].attempts /\ o.fresh = entries[e].fresh
    BY <1>2 DEF Entry
  <2> HIDE DEF c, v, o, s, e, w
  <2>6. EntryFits(e, o, c)
    BY <1>2, <2>3, OutboxAssumption DEF EntryFits, Clock, Never, Entry
  <2>7. busy(v) => v.entry = e /\ Fits(v, o, c)
    BY <1>2, <1>6, <2>3 DEF Fits
  <2>8. \A x \in Drains : x # d /\ busy(drains[x]) /\ drains[x].entry = e =>
          /\ busy(v) => drains[x].claim # v.claim
          /\ Fits(drains[x], o, c)
    BY <1>2, <1>6, <2>3 DEF Fits
  <2>9. DrainStep(d, e, o, v, c)
    BY <1>3, <1>4, <2>4, <2>5, <2>6, <2>7, <2>8 DEF DrainStep
  <2> QED
    BY <1>2, <1>6, <2>3, <2>9, DrainStepPreserves
<1> QED
  BY <1>7, <1>8

-----------------------------------------------------------------------------
(* The theorems *)

LEMMA InitEstablishes == ASSUME Init PROVE OutboxInv
<1>1. NewEntry \in Entry /\ NewEntry.failing = Never /\ NewEntry.state = "absent"
  BY OutboxAssumption DEF NewEntry, Entry, Never, Clock
<1>2. IdleDrain \in Drain /\ ~busy(IdleDrain)
  BY IdleDrainType
<1>3. TypeOK
  BY <1>1, <1>2, OutboxAssumption DEF Init, TypeOK, Clock
<1>4. \A d \in Drains : ~busy(drains[d])
  BY <1>2 DEF Init
<1>5. ASSUME NEW e \in Entries PROVE EntryFits(e, entries[e], suffered[e])
  <2>1. entries[e] = NewEntry /\ suffered[e] = Never
    BY DEF Init
  <2>2. Never <= Never
    BY DEF Never
  <2> QED
    BY <1>1, <2>1, <2>2 DEF EntryFits
<1> QED
  BY <1>3, <1>4, <1>5 DEF OutboxInv, DistinctClaims

LEMMA StutterPreserves == ASSUME OutboxInv, UNCHANGED vars PROVE OutboxInv'
BY DEF vars, OutboxInv, TypeOK, DistinctClaims, busy, Fits, EntryFits

LEMMA NextPreserves == ASSUME OutboxInv, Next PROVE OutboxInv'
<1>1. CASE Tick
  BY <1>1, TickStep
<1>2. CASE \E e \in Entries : Emit(e) \/ Wake(e)
  BY <1>2, EmitStep, WakeStep
<1>3. ASSUME NEW d \in Drains, Proceed(d) PROVE OutboxInv'
  BY <1>3, ClaimNextStep, EndDrainStep, SettleStep, VerdictStep DEF Proceed
<1>4. ASSUME NEW d \in Drains, NEW committed \in BOOLEAN, SettleThrows(d, committed)
      PROVE  OutboxInv'
  BY <1>4, SettleThrowsStep
<1>5. ASSUME NEW d \in Drains, Crash(d) PROVE OutboxInv'
  BY <1>5, CrashStep
<1> QED
  BY <1>1, <1>2, <1>3, <1>4, <1>5 DEF Next

(* The inductive invariant holds in every reachable state.                 *)
THEOREM Invariance == Spec => []OutboxInv
<1>1. Init => OutboxInv
  BY InitEstablishes
<1>2. OutboxInv /\ [Next]_vars => OutboxInv'
  BY NextPreserves, StutterPreserves
<1> QED
  BY <1>1, <1>2, PTL DEF Spec

(* Every stored entry and every drain's snapshot keeps its shape.          *)
THEOREM TypeCorrect == Spec => []TypeOK
<1>1. OutboxInv => TypeOK
  BY DEF OutboxInv
<1> QED
  BY <1>1, Invariance, PTL

(* settleRetryableFailure dead-letters no entry before its real failures,  *)
(* uninterrupted by a recovery, span the window (or its anchor closed),    *)
(* for any number of drains, crashes, lost leases and store errors.        *)
THEOREM RetirementIsEarned == Spec => []RetirementEarned
<1>1. OutboxInv => RetirementEarned
  BY DEF OutboxInv, EntryFits, RetirementEarned
<1> QED
  BY <1>1, Invariance, PTL

-----------------------------------------------------------------------------
(* What a step may never do *)

(* A claim takes only pending entries and leases that have expired.        *)
LEMMA ClaimTakes ==
  ASSUME NEW x \in Drains, ClaimNext(x), OutboxInv, NEW e \in Entries,
         entries'[e] # entries[e]
  PROVE  entries[e].state = "pending" \/ (entries[e].state = "leased" /\ entries[e].lease = 0)
<1>1. PICK f \in claimable(drains[x].excluded) :
        entries' = [entries EXCEPT ![f].state = "leased", ![f].lease = OutboxLease,
                                   ![f].attempts = @ + 1]
  BY DEF ClaimNext
<1>2. f = e
  BY <1>1 DEF OutboxInv, TypeOK
<1> QED
  BY <1>2 DEF claimable, expiredLeases, duePending

(* A settlement changes only the entry its drain owns.                     *)
LEMMA SettlementTakes ==
  ASSUME OutboxInv, NEW x \in Drains, NEW e \in Entries, settleOutbox(drains[x])[e] # entries[e]
  PROVE  owns(drains[x]) /\ drains[x].entry = e
BY DEF settleOutbox, OutboxInv, TypeOK

(* Which entries a step changes, other than by the passage of time.        *)
LEMMA StepTakes ==
  ASSUME OutboxInv, Next, ~Tick, NEW e \in Entries, entries'[e] # entries[e]
  PROVE  \/ entries[e].state \in {"absent", "pending"}
         \/ entries[e].state = "leased" /\ entries[e].lease = 0
         \/ \E x \in Drains : /\ owns(drains[x]) /\ drains[x].entry = e
                              /\ drains'[x].verdict # drains[x].verdict
<1>1. ASSUME NEW f \in Entries, Emit(f) \/ Wake(f) PROVE entries[e].state \in {"absent", "pending"}
  <2>1. f = e
    BY <1>1 DEF Emit, Wake, OutboxInv, TypeOK
  <2> QED
    BY <1>1, <2>1 DEF Emit, Wake, wakeOutboxEntry
<1>2. ASSUME NEW x \in Drains, ClaimNext(x)
      PROVE  entries[e].state = "pending" \/ (entries[e].state = "leased" /\ entries[e].lease = 0)
  BY <1>2, ClaimTakes
<1>3. ASSUME NEW x \in Drains, Settle(x)
      PROVE  owns(drains[x]) /\ drains[x].entry = e /\ drains'[x].verdict # drains[x].verdict
  <2>1. owns(drains[x]) /\ drains[x].entry = e
    BY <1>3, SettlementTakes DEF Settle
  <2>2. drains'[x] = handled(drains[x])
    BY <1>3 DEF Settle, OutboxInv, TypeOK
  <2>3. ~busy(drains'[x]) /\ busy(drains[x])
    BY <1>3, <2>1, <2>2, HandledIdle DEF OutboxInv, TypeOK, owns, busy
  <2> QED
    BY <2>1, <2>3 DEF busy
<1>4. ASSUME NEW x \in Drains, NEW committed \in BOOLEAN, SettleThrows(x, committed)
      PROVE  owns(drains[x]) /\ drains[x].entry = e /\ drains'[x].verdict # drains[x].verdict
  <2>1. entries' = settleOutbox(drains[x])
    BY <1>4, Zenon DEF SettleThrows
  <2>2. owns(drains[x]) /\ drains[x].entry = e
    BY <2>1, SettlementTakes
  <2>3. CASE drains[x].verdict = "caught"
    <3>1. drains'[x] = handled(drains[x])
      BY <1>4, <2>3 DEF SettleThrows, OutboxInv, TypeOK
    <3>2. ~busy(drains'[x]) /\ busy(drains[x])
      BY <1>4, <2>2, <3>1, HandledIdle DEF OutboxInv, TypeOK, owns, busy
    <3> QED
      BY <2>2, <3>2 DEF busy
  <2>4. CASE drains[x].verdict # "caught"
    <3>1. drains'[x] = [drains[x] EXCEPT !.verdict = "caught"] /\ drains[x] \in Drain
      BY <1>4, <2>4 DEF SettleThrows, OutboxInv, TypeOK
    <3> QED
      BY <2>2, <2>4, <3>1 DEF Drain
  <2> QED
    BY <2>3, <2>4
<1>5. ASSUME NEW x \in Drains,
             \/ EndDrain(x) \/ Crash(x) \/ Succeed(x) \/ FailForGood(x) \/ AnchorClosed(x)
             \/ StillWaiting(x) \/ Fail(x)
      PROVE  FALSE
  BY <1>5 DEF EndDrain, Crash, Succeed, FailForGood, AnchorClosed, StillWaiting, Fail
<1>6. \/ \E f \in Entries : Emit(f) \/ Wake(f)
      \/ \E x \in Drains : \/ ClaimNext(x) \/ Settle(x)
                           \/ \E committed \in BOOLEAN : SettleThrows(x, committed)
  BY <1>5 DEF Next, Proceed
<1> QED
  BY <1>1, <1>2, <1>3, <1>4, <1>6

LEMMA TickKeeps ==
  ASSUME OutboxInv, Tick, NEW e \in Entries
  PROVE  /\ entries'[e].state = entries[e].state /\ entries'[e].attempts = entries[e].attempts
         /\ entries'[e].failures = entries[e].failures
<1> DEFINE o == entries[e]
           n == [o EXCEPT !.lease = left(@), !.next = left(@), !.fresh = left(@),
                          !.failing = passed(@)]
<1>1. o \in Entry
  BY DEF OutboxInv, TypeOK
<1>2. entries'[e] = IF o.state \in Terminal \cup {"absent"} THEN o ELSE n
  BY DEF Tick
<1> HIDE DEF o
<1>3. n.state = o.state /\ n.attempts = o.attempts /\ n.failures = o.failures
  BY <1>1 DEF Entry
<1> HIDE DEF n
<1> QED
  BY <1>2, <1>3 DEF o

(* No step but its owner's takes or settles an entry whose lease is        *)
(* running: the claimId check of settleOutboxEntry and the lease check of  *)
(* claimPendingOutbox together fence it, for any number of drains.         *)
THEOREM LeaseFencesOwner == Spec => OwnerUndisturbed
<1> DEFINE A == \A d \in Drains :
                  owns(drains[d]) /\ entries[drains[d].entry].lease > 0 =>
                    drains'[d].verdict # drains[d].verdict \/ leaseKept(drains[d].entry)
<1>1. ASSUME OutboxInv, [Next]_vars PROVE A
  <2> SUFFICES ASSUME NEW d \in Drains, owns(drains[d]), entries[drains[d].entry].lease > 0,
                      drains'[d].verdict = drains[d].verdict
               PROVE  leaseKept(drains[d].entry)
    OBVIOUS
  <2> DEFINE e == drains[d].entry
  <2>1. e \in Entries /\ entries[e].state = "leased"
    BY <1>1 DEF owns, OutboxInv, busy
  <2>2. CASE Tick
    BY <1>1, <2>1, <2>2, TickKeeps DEF leaseKept
  <2>3. CASE entries'[e] = entries[e]
    BY <2>1, <2>3 DEF leaseKept
  <2>4. CASE ~Tick /\ entries'[e] # entries[e]
    <3>1. Next
      BY <1>1, <2>4 DEF vars
    <3>2. PICK x \in Drains : /\ owns(drains[x]) /\ drains[x].entry = e
                              /\ drains'[x].verdict # drains[x].verdict
      <4>1. ~(entries[e].state \in {"absent", "pending"}) /\ entries[e].lease # 0
        BY <2>1
      <4> QED
        BY <1>1, <2>1, <2>4, <3>1, <4>1, StepTakes
    <3>3. x # d /\ drains[x].claim = drains[d].claim
      BY <3>2 DEF owns
    <3> QED
      BY <1>1, <3>2, <3>3 DEF OutboxInv, DistinctClaims, busy, owns
  <2> QED
    BY <2>2, <2>3, <2>4
<1>2. OutboxInv /\ [Next]_vars => [A]_vars
  BY <1>1
<1> QED
  BY <1>2, Invariance, PTL DEF Spec, OwnerUndisturbed

(* A delivered or dead-lettered entry stays settled: no claim, late        *)
(* settlement, wake or store error brings it back.                         *)
THEOREM SettledStaysSettled == Spec => SettledForGood
<1> DEFINE A == \A e \in Entries : entries[e].state \in Terminal =>
                                     entries'[e].state = entries[e].state
<1>1. ASSUME OutboxInv, [Next]_vars PROVE A
  <2> SUFFICES ASSUME NEW e \in Entries, entries[e].state \in Terminal
               PROVE  entries'[e].state = entries[e].state
    OBVIOUS
  <2>1. CASE Tick
    BY <1>1, <2>1, TickKeeps
  <2>2. CASE ~Tick /\ entries'[e] # entries[e]
    <3>1. Next
      BY <1>1, <2>2 DEF vars
    <3>2. entries[e].state \notin {"absent", "pending", "leased"}
      BY DEF Terminal
    <3>3. \A x \in Drains : owns(drains[x]) /\ drains[x].entry = e => entries[e].state = "leased"
      BY DEF owns
    <3> QED
      BY <1>1, <2>2, <3>1, <3>2, <3>3, StepTakes
  <2> QED
    BY <2>1, <2>2
<1>2. OutboxInv /\ [Next]_vars => [A]_vars
  BY <1>1
<1> QED
  BY <1>2, Invariance, PTL DEF Spec, SettledForGood

-----------------------------------------------------------------------------
(* The sum of the delays *)

LEMMA LeastElement ==
  ASSUME NEW T \in SUBSET Nat, T # {}
  PROVE  \E x \in T : \A y \in T : x <= y
<1> DEFINE R == OpToRel(<, Nat)
<1>1. \A x, y \in Nat : y < x => <<y, x>> \in R
  BY Zenon DEF OpToRel
<1>2. IsWellFoundedOn(R, Nat)
  BY NatLessThanWellFounded, Zenon
<1> HIDE DEF R
<1>3. PICK x \in T : \A y \in T : ~(<<y, x>> \in R)
  BY <1>2, WFMin
<1>4. \A y \in T : y \in Nat /\ x \in Nat /\ ~(y < x)
  BY <1>1, <1>3
<1> QED
  BY <1>4

(* f is the sum of the delays d up to n.                                   *)
Sums(f, d, n) ==
  \A k \in Nat : k <= n => f[k] = IF k <= 1 THEN 0 ELSE f[k - 1] + d[k]

LEMMA SumsExist ==
  ASSUME NEW d \in [Nat -> Nat], NEW n \in Nat
  PROVE  \E f \in [Nat -> Nat] : Sums(f, d, n)
<1> DEFINE Bad == {m \in Nat : ~ \E f \in [Nat -> Nat] : Sums(f, d, m)}
<1> SUFFICES ASSUME Bad # {} PROVE FALSE
  OBVIOUS
<1>1. PICK m \in Bad : \A y \in Bad : m <= y
  BY LeastElement
<1>2. m \in Nat /\ ~ \E f \in [Nat -> Nat] : Sums(f, d, m)
  OBVIOUS
<1>3. m # 0
  <2> DEFINE z == [k \in Nat |-> 0]
  <2>1. z \in [Nat -> Nat] /\ Sums(z, d, 0)
    BY DEF Sums
  <2> QED
    BY <1>2, <2>1
<1>4. m - 1 \in Nat /\ ~(m <= m - 1)
  BY <1>2, <1>3
<1>5. PICK f \in [Nat -> Nat] : Sums(f, d, m - 1)
  BY <1>1, <1>4
<1> DEFINE v == IF m <= 1 THEN 0 ELSE f[m - 1] + d[m]
           g == [f EXCEPT ![m] = v]
<1>6. v \in Nat
  BY <1>2, <1>4
<1> HIDE DEF v
<1>7. g \in [Nat -> Nat] /\ g[m] = v /\ \A k \in Nat : k # m => g[k] = f[k]
  BY <1>2, <1>6
<1> HIDE DEF g
<1>8. ASSUME NEW k \in Nat, k <= m
      PROVE  g[k] = IF k <= 1 THEN 0 ELSE g[k - 1] + d[k]
  <2>1. CASE k = m
    <3>1. g[m - 1] = f[m - 1]
      BY <1>4, <1>7
    <3> QED
      BY <1>7, <2>1, <3>1 DEF v
  <2>2. CASE k # m
    <3>1. k <= m - 1
      BY <1>2, <1>8, <2>2
    <3>2. f[k] = IF k <= 1 THEN 0 ELSE f[k - 1] + d[k]
      BY <1>5, <3>1 DEF Sums
    <3>3. k > 1 => k - 1 \in Nat /\ k - 1 # m
      BY <1>2, <1>8
    <3> QED
      BY <1>7, <2>2, <3>2, <3>3
  <2> QED
    BY <2>1, <2>2
<1>9. Sums(g, d, m)
  BY <1>8 DEF Sums
<1> QED
  BY <1>2, <1>7, <1>9

LEMMA SumsAgree ==
  ASSUME NEW d \in [Nat -> Nat], NEW n \in Nat,
         NEW f \in [Nat -> Nat], NEW g \in [Nat -> Nat], Sums(f, d, n), Sums(g, d, n)
  PROVE  f[n] = g[n]
<1> DEFINE Bad == {m \in Nat : m <= n /\ f[m] # g[m]}
<1> SUFFICES ASSUME Bad # {} PROVE FALSE
  OBVIOUS
<1>1. PICK m \in Bad : \A y \in Bad : m <= y
  BY LeastElement
<1>2. m \in Nat /\ m <= n /\ f[m] # g[m]
  OBVIOUS
<1>3. /\ f[m] = IF m <= 1 THEN 0 ELSE f[m - 1] + d[m]
      /\ g[m] = IF m <= 1 THEN 0 ELSE g[m - 1] + d[m]
  BY <1>2 DEF Sums
<1>4. m > 1 => m - 1 \in Nat /\ m - 1 <= n /\ ~(m <= m - 1)
  BY <1>2
<1>5. m > 1 => f[m - 1] = g[m - 1]
  BY <1>1, <1>4
<1> QED
  BY <1>2, <1>3, <1>5

LEMMA SumOfDelays ==
  ASSUME NEW d \in [Nat -> Nat]
  PROVE  \E f \in [Nat -> Nat] : \A k \in Nat : f[k] = IF k <= 1 THEN 0 ELSE f[k - 1] + d[k]
<1> DEFINE g == [n \in Nat |-> CHOOSE f \in [Nat -> Nat] : Sums(f, d, n)]
<1>1. ASSUME NEW n \in Nat
      PROVE  g[n] \in [Nat -> Nat] /\ Sums(g[n], d, n)
  <2>1. g[n] = CHOOSE f \in [Nat -> Nat] : Sums(f, d, n)
    OBVIOUS
  <2>2. \E f \in [Nat -> Nat] : Sums(f, d, n)
    BY SumsExist
  <2> HIDE DEF g
  <2> QED
    BY <2>1, <2>2
<1> HIDE DEF g
<1>2. ASSUME NEW k \in Nat, k > 1
      PROVE  g[k][k - 1] = g[k - 1][k - 1]
  <2>1. k - 1 \in Nat
    BY <1>2
  <2>2. Sums(g[k], d, k - 1)
    <3>1. \A i \in Nat : i <= k - 1 => i <= k
      OBVIOUS
    <3> QED
      BY <1>1, <3>1 DEF Sums
  <2> QED
    BY <1>1, <2>1, <2>2, SumsAgree
<1>3. ASSUME NEW k \in Nat
      PROVE  g[k][k] = IF k <= 1 THEN 0 ELSE g[k - 1][k - 1] + d[k]
  <2>1. Sums(g[k], d, k) /\ k <= k
    BY <1>1
  <2>2. g[k][k] = IF k <= 1 THEN 0 ELSE g[k][k - 1] + d[k]
    BY <2>1 DEF Sums
  <2> QED
    BY <1>2, <2>2
<1>4. \A k \in Nat : g[k][k] \in Nat
  BY <1>1
<1> DEFINE s == [n \in Nat |-> g[n][n]]
<1>5. s \in [Nat -> Nat] /\ \A k \in Nat : s[k] = IF k <= 1 THEN 0 ELSE s[k - 1] + d[k]
  BY <1>3, <1>4
<1> QED
  BY <1>5

(* The recursion of spacing has a solution (SumOfDelays), so its equation  *)
(* holds.                                                                  *)
LEMMA SpacingEquation ==
  /\ spacing[1] = 0 /\ \A n \in Nat : spacing[n] \in Nat
  /\ \A n \in Nat : spacing[n + 2] = spacing[n + 1] + backoff(n + 1)
<1> DEFINE d == [n \in Nat |-> IF n <= 1 THEN 0 ELSE Least(BackoffCap, BackoffBase * 2 ^ (n - 2))]
           Rec(f) == f = [n \in Nat |-> IF n <= 1 THEN 0
                                        ELSE f[n - 1] + Least(BackoffCap, BackoffBase * 2 ^ (n - 2))]
<1>1. \A n \in Nat : d[n + 2] = backoff(n + 1)
  <2> TAKE n \in Nat
  <2>1. (n + 2) - 2 = (n + 1) - 1 /\ ~(n + 2 <= 1) /\ n + 2 \in Nat
    OBVIOUS
  <2> QED
    BY <2>1, Zenon DEF backoff
<1>2. d \in [Nat -> Nat]
  <2>1. \A n \in Nat : n <= 1 => d[n] = 0
    OBVIOUS
  <2> HIDE DEF d
  <2>2. ASSUME NEW n \in Nat, n > 1 PROVE d[n] \in Nat
    <3>1. n - 2 \in Nat /\ n = (n - 2) + 2
      BY <2>2
    <3> DEFINE m == n - 2
    <3>2. m \in Nat /\ d[n] = backoff(m + 1)
      BY <1>1, <3>1
    <3> QED
      BY <3>2, BackoffNat
  <2>3. \A n \in Nat : d[n] \in Nat
    BY <2>1, <2>2
  <2> QED
    BY <2>3 DEF d
<1>3. PICK f \in [Nat -> Nat] : \A k \in Nat : f[k] = IF k <= 1 THEN 0 ELSE f[k - 1] + d[k]
  BY <1>2, SumOfDelays
<1>4. \A k \in Nat : f[k] = IF k <= 1 THEN 0
                           ELSE f[k - 1] + Least(BackoffCap, BackoffBase * 2 ^ (k - 2))
  <2>1. \A k \in Nat : ~(k <= 1) => d[k] = Least(BackoffCap, BackoffBase * 2 ^ (k - 2))
    BY Zenon
  <2> HIDE DEF d
  <2> QED
    BY <1>3, <2>1, Zenon
<1>5. Rec(f)
  BY <1>4, Zenon
<1>6. Rec(spacing)
  BY <1>5, Zenon DEF spacing
<1>7. \A k \in Nat : spacing[k] = IF k <= 1 THEN 0
                                 ELSE spacing[k - 1] + Least(BackoffCap, BackoffBase * 2 ^ (k - 2))
  BY <1>6, Zenon
<1>8. ASSUME NEW k \in Nat
      PROVE  spacing[k] = IF k <= 1 THEN 0 ELSE spacing[k - 1] + d[k]
  <2>1. CASE k <= 1
    BY <1>7, <2>1, Zenon
  <2>2. CASE ~(k <= 1)
    <3>1. d[k] = Least(BackoffCap, BackoffBase * 2 ^ (k - 2))
      BY <2>2, Zenon
    <3> HIDE DEF d
    <3> QED
      BY <1>7, <2>2, <3>1, Zenon
  <2> QED
    BY <2>1, <2>2
<1> HIDE DEF d, Rec
<1> DEFINE Bad == {m \in Nat : spacing[m] # f[m]}
<1>9. Bad = {}
  <2> SUFFICES ASSUME Bad # {} PROVE FALSE
    OBVIOUS
  <2>1. PICK m \in Bad : \A y \in Bad : m <= y
    BY LeastElement
  <2>2. m \in Nat /\ spacing[m] # f[m]
    OBVIOUS
  <2>3. m > 1 => m - 1 \in Nat /\ ~(m <= m - 1)
    BY <2>2
  <2>4. m > 1 => spacing[m - 1] = f[m - 1]
    BY <2>1, <2>3
  <2> QED
    BY <1>3, <1>8, <2>2, <2>4
<1>10. \A k \in Nat : spacing[k] \in Nat
  BY <1>9
<1>11. ASSUME NEW n \in Nat
       PROVE  spacing[n + 2] = spacing[n + 1] + backoff(n + 1)
  <2>1. n + 2 \in Nat /\ ~(n + 2 <= 1) /\ (n + 2) - 1 = n + 1
    OBVIOUS
  <2> QED
    BY <1>1, <1>8, <2>1
<1> QED
  BY <1>8, <1>10, <1>11

-----------------------------------------------------------------------------
(* The spacing of failures *)

(* The failures of an entry that only drains and time touch.  A pending    *)
(* entry waits out the rest of its delay; the failure clock stops at the   *)
(* window, where the next failure retires the entry.                       *)
Spaced(n) ==
  /\ n.failing <= RetireAfter
  /\ n.failures = 0 <=> n.failing = Never
  /\ n.state = "absent" => n.failures = 0
  /\ n.failures > 0 =>
       /\ spacing[n.failures] <= n.failing
       /\ n.state = "pending" => \/ spacing[n.failures + 1] <= n.failing + n.next
                                 \/ RetireAfter <= n.failing + n.next
       /\ n.state = "leased" => \/ spacing[n.failures + 1] <= n.failing
                                \/ RetireAfter <= n.failing

(* The owner of a lease remembers the stored number of failures.           *)
Remembers(w) == owns(w) => w.failures = entries[w.entry].failures

SpacedInv ==
  /\ \A e \in Entries \ Monitors : Spaced(entries[e])
  /\ \A d \in Drains : Remembers(drains[d])

LEMMA EntryFields ==
  ASSUME NEW n \in Entry
  PROVE  /\ n.state \in {"absent", "pending", "leased", "done", "failed"} /\ n.attempts \in Nat
         /\ n.next \in Nat /\ n.failing \in Clock /\ n.failures \in Nat
         /\ spacing[n.failures] \in Nat /\ spacing[n.failures + 1] \in Nat
<1>1. n.failures \in Nat /\ n.failures + 1 \in Nat
  BY DEF Entry
<1> QED
  BY <1>1, SpacingEquation DEF Entry

LEMMA TickSpaced ==
  ASSUME OutboxInv, Tick, NEW e \in Entries, Spaced(entries[e])
  PROVE  Spaced(entries'[e])
<1> DEFINE o == entries[e]
           n == [o EXCEPT !.lease = left(@), !.next = left(@), !.fresh = left(@),
                          !.failing = passed(@)]
<1>1. o \in Entry /\ Spaced(o)
  BY DEF OutboxInv, TypeOK
<1>2. entries'[e] = IF o.state \in Terminal \cup {"absent"} THEN o ELSE n
  BY DEF Tick
<1> HIDE DEF o
<1>3. /\ n.state = o.state /\ n.failures = o.failures /\ n.next = left(o.next)
      /\ n.failing = passed(o.failing)
  BY <1>1 DEF Entry
<1> HIDE DEF n
<1>4. /\ o.next \in Nat /\ o.failing \in Clock /\ o.failures \in Nat
      /\ spacing[o.failures] \in Nat /\ spacing[o.failures + 1] \in Nat
  BY <1>1, EntryFields
<1>5. CASE o.failing = Never
  <2>1. o.failures = 0 /\ passed(o.failing) = Never
    BY <1>1, <1>5 DEF Spaced, passed
  <2>2. Spaced(n)
    BY <1>1, <1>3, <1>5, <2>1 DEF Spaced
  <2> QED
    BY <1>1, <1>2, <2>2
<1>6. CASE o.failing # Never
  <2>1. /\ o.failing \in Nat /\ o.failing <= RetireAfter /\ o.failures # 0 /\ RetireAfter \in Nat
    BY <1>1, <1>4, <1>6, OutboxAssumption DEF Spaced, Clock
  <2>2. /\ passed(o.failing) \in Nat /\ o.failing <= passed(o.failing)
        /\ passed(o.failing) <= RetireAfter
        /\ passed(o.failing) = o.failing + 1 \/ passed(o.failing) = RetireAfter
    BY <1>6, <2>1 DEF passed, Least
  <2>3. left(o.next) \in Nat /\ (left(o.next) = o.next - 1 \/ o.next = 0)
    BY <1>4 DEF left
  <2>4. \/ passed(o.failing) + left(o.next) >= o.failing + o.next
        \/ passed(o.failing) + left(o.next) >= RetireAfter
    BY <1>4, <2>1, <2>2, <2>3
  <2>5. passed(o.failing) # Never
    BY <2>2 DEF Never
  <2> DEFINE p == passed(o.failing)
             q == left(o.next)
             a == spacing[o.failures]
             b == spacing[o.failures + 1]
  <2> HIDE DEF p, q, a, b
  <2>6. /\ a \in Nat /\ b \in Nat /\ p \in Nat /\ q \in Nat
        /\ a <= o.failing
        /\ o.state = "pending" => b <= o.failing + o.next \/ RetireAfter <= o.failing + o.next
        /\ o.state = "leased" => b <= o.failing \/ RetireAfter <= o.failing
    BY <1>1, <1>4, <2>1, <2>2, <2>3 DEF Spaced, a, b, p, q
  <2>7. /\ a <= p
        /\ o.state = "pending" => b <= p + q \/ RetireAfter <= p + q
        /\ o.state = "leased" => b <= p \/ RetireAfter <= p
    <3>1. o.failing <= p /\ (p + q >= o.failing + o.next \/ p + q >= RetireAfter)
      BY <2>2, <2>4 DEF p, q
    <3> QED
      BY <1>4, <2>1, <2>6, <3>1
  <2>8. Spaced(n)
    BY <1>1, <1>3, <2>1, <2>2, <2>5, <2>7 DEF Spaced, a, b, p, q
  <2> QED
    BY <1>1, <1>2, <2>8
<1> QED
  BY <1>5, <1>6

LEMMA ClaimSpaced ==
  ASSUME NEW o \in Entry, NEW n \in Entry, Spaced(o),
         o.state = "leased" \/ (o.state = "pending" /\ o.next = 0),
         n.state = "leased", n.failing = o.failing, n.failures = o.failures
  PROVE  Spaced(n)
<1>1. o.failures > 0 => o.failing \in Nat
  BY EntryFields DEF Spaced, Clock
<1>2. o.failures > 0 => o.failing + 0 = o.failing
  BY <1>1
<1> QED
  BY <1>2 DEF Spaced

LEMMA VerdictSpaced ==
  ASSUME NEW o \in Entry, NEW w \in Drain, w.verdict \in Verdicts \ {"handling"},
         o.state = "leased", Spaced(o), w.failing = o.failing, w.failures = o.failures
  PROVE  Spaced(verdictApplied(o, w))
<1>1. CASE w.verdict \in {"done", "permanent"}
  <2> DEFINE m == [o EXCEPT !.state = "done", !.lease = 0, !.next = 0]
  <2>1. verdictApplied(o, w) = m
    BY <1>1 DEF verdictApplied, Failing
  <2>2. m.state = "done" /\ m.failing = o.failing /\ m.failures = o.failures
    BY DEF Entry
  <2> HIDE DEF m
  <2> QED
    BY <2>1, <2>2 DEF Spaced
<1>2. CASE w.verdict = "closed"
  <2> DEFINE m == [o EXCEPT !.state = "failed", !.lease = 0, !.next = 0]
  <2>1. verdictApplied(o, w) = m
    BY <1>2 DEF verdictApplied, Failing
  <2>2. m.state = "failed" /\ m.failing = o.failing /\ m.failures = o.failures
    BY DEF Entry
  <2> HIDE DEF m
  <2> QED
    BY <2>1, <2>2 DEF Spaced
<1>3. CASE w.verdict = "waiting"
  <2>1. verdictApplied(o, w) = released(o)
    BY <1>3 DEF verdictApplied, Failing
  <2>2. /\ released(o).state = "pending" /\ released(o).failing = Never
        /\ released(o).failures = 0
    BY DEF Entry, released
  <2>3. Never <= RetireAfter
    BY OutboxAssumption DEF Never
  <2> QED
    BY <2>1, <2>2, <2>3 DEF Spaced
<1>4. CASE w.verdict \in Failing
  <2> DEFINE s == IF o.failing = Never THEN 0 ELSE o.failing
             k == o.failures + 1
             b == backoff(k)
             f == [o EXCEPT !.state = "failed", !.lease = 0, !.next = 0, !.failing = s]
             p == [o EXCEPT !.state = "pending", !.lease = 0, !.failing = s,
                            !.failures = k, !.next = b]
  <2>1. verdictApplied(o, w) = IF s >= RetireAfter THEN f ELSE p
    BY <1>4 DEF verdictApplied, retried, Failing
  <2>2. /\ o.failing \in Clock /\ o.failures \in Nat /\ spacing[o.failures] \in Nat
        /\ spacing[k] \in Nat
    BY EntryFields
  <2>3. s \in Nat /\ k \in Nat /\ k > 0 /\ s # Never /\ RetireAfter \in Nat /\ RetireAfter > 0
    BY <2>2, OutboxAssumption DEF Clock, Never
  <2>4. b \in Nat /\ spacing[k + 1] = spacing[k] + b
    <3>1. o.failures + 2 = k + 1
      BY <2>2
    <3> QED
      BY <2>2, <3>1, BackoffNat, SpacingEquation
  <2>5. s < RetireAfter => spacing[k] <= s
    <3>1. CASE o.failures = 0
      <4>1. k = 1 /\ spacing[1] = 0
        BY <3>1, SpacingEquation
      <4> QED
        BY <2>3, <4>1
    <3>2. CASE o.failures # 0
      <4>1. /\ o.failing = s /\ o.failures > 0
        BY <2>2, <3>2 DEF Spaced
      <4>2. spacing[k] <= s \/ RetireAfter <= s
        BY <4>1 DEF Spaced
      <4> QED
        BY <2>2, <2>3, <4>2
    <3> QED
      BY <3>1, <3>2
  <2>6. s <= RetireAfter
    BY <2>2, <2>3 DEF Spaced
  <2>7. s >= RetireAfter => o.failing = s
    BY <2>3
  <2> HIDE DEF s, k, b
  <2>8. f.state = "failed" /\ f.failing = s /\ f.failures = o.failures
    BY DEF Entry
  <2>9. p.state = "pending" /\ p.failing = s /\ p.failures = k /\ p.next = b
    BY DEF Entry
  <2> HIDE DEF f, p
  <2>10. CASE s >= RetireAfter
    BY <2>1, <2>7, <2>8, <2>10 DEF Spaced
  <2>11. CASE ~(s >= RetireAfter)
    <3>1. spacing[k] <= s /\ spacing[k + 1] <= s + b /\ k # 0
      <4> DEFINE a == spacing[k]
      <4>1. a \in Nat /\ a <= s /\ spacing[k + 1] = a + b
        BY <2>2, <2>3, <2>4, <2>5, <2>11
      <4> HIDE DEF a
      <4>2. a + b <= s + b
        BY <2>3, <2>4, <4>1
      <4> QED
        BY <2>3, <4>1, <4>2 DEF a
    <3>2. Spaced(p)
      BY <2>3, <2>6, <2>9, <3>1 DEF Spaced
    <3> QED
      BY <2>1, <2>11, <3>2
  <2> QED
    BY <2>10, <2>11
<1> QED
  BY <1>1, <1>2, <1>3, <1>4 DEF Verdicts, Failing

Claimed(o, n) ==
  /\ o.state = "leased" \/ (o.state = "pending" /\ o.next = 0)
  /\ n.state = "leased" /\ n.attempts = o.attempts + 1
  /\ n.failing = o.failing /\ n.failures = o.failures

(* What a step, other than the passage of time, makes of an entry.         *)
EntryMove(e) ==
  \/ entries'[e] = entries[e]
  \/ Emit(e) \/ Wake(e)
  \/ Claimed(entries[e], entries'[e])
  \/ \E d \in Drains :
       /\ owns(drains[d]) /\ drains[d].entry = e /\ drains[d].verdict \in Verdicts \ {"handling"}
       /\ entries'[e] = verdictApplied(entries[e], drains[d])

(* What it makes of a drain that is busy after it.                         *)
DrainMove(v, w) ==
  busy(v) =>
    \/ v.failures = entries'[v.entry].failures
    \/ busy(w) /\ v.entry = w.entry /\ v.claim = w.claim /\ v.failures = w.failures

LEMMA ClaimMoves ==
  ASSUME OutboxInv, NEW d \in Drains, ClaimNext(d)
  PROVE  /\ \A e \in Entries : EntryMove(e)
         /\ \A x \in Drains : DrainMove(drains'[x], drains[x])
<1> DEFINE w == drains[d]
<1>1. PICK e \in claimable(w.excluded) :
        /\ entries' = [entries EXCEPT ![e].state = "leased", ![e].lease = OutboxLease,
                                      ![e].attempts = @ + 1]
        /\ drains' = [drains EXCEPT ![d] =
             [w EXCEPT !.verdict = "handling", !.entry = e, !.claim = entries[e].attempts + 1,
                       !.failing = entries[e].failing, !.failures = entries[e].failures,
                       !.claimed = @ + 1]]
  BY DEF ClaimNext
<1>2. /\ e \in Entries
      /\ entries[e].state = "leased" \/ (entries[e].state = "pending" /\ entries[e].next = 0)
  BY DEF claimable, expiredLeases, duePending
<1> DEFINE o == entries[e]
           k == o.attempts + 1
           n == [o EXCEPT !.state = "leased", !.lease = OutboxLease, !.attempts = k]
           v == [w EXCEPT !.verdict = "handling", !.entry = e, !.claim = k,
                          !.failing = o.failing, !.failures = o.failures,
                          !.claimed = @ + 1]
<1>3. o \in Entry /\ w \in Drain
  BY <1>2 DEF OutboxInv, TypeOK
<1>4. /\ entries'[e] = n /\ drains'[d] = v
      /\ \A f \in Entries : f # e => entries'[f] = entries[f]
      /\ \A x \in Drains : x # d => drains'[x] = drains[x]
  BY <1>1, <1>2 DEF OutboxInv, TypeOK
<1> HIDE DEF o, w, k
<1>5. /\ n.state = "leased" /\ n.attempts = k /\ n.failing = o.failing /\ n.failures = o.failures
  BY <1>3 DEF Entry
<1>6. v.entry = e /\ v.failures = o.failures
  BY <1>3 DEF Drain
<1> HIDE DEF n, v
<1>7. Claimed(o, n)
  BY <1>2, <1>5 DEF Claimed, o, k
<1> QED
  BY <1>4, <1>5, <1>6, <1>7 DEF EntryMove, DrainMove, o

LEMMA OtherMoves ==
  ASSUME OutboxInv, NEW d \in Drains,
         \/ EndDrain(d) \/ Crash(d) \/ Succeed(d) \/ FailForGood(d) \/ AnchorClosed(d)
         \/ StillWaiting(d) \/ Fail(d)
  PROVE  /\ \A e \in Entries : EntryMove(e)
         /\ \A x \in Drains : DrainMove(drains'[x], drains[x])
<1>1. entries' = entries
  BY DEF EndDrain, Crash, Succeed, FailForGood, AnchorClosed, StillWaiting, Fail
<1>2. drains \in [Drains -> Drain] /\ drains[d] \in Drain
  BY DEF OutboxInv, TypeOK
<1>3. CASE EndDrain(d) \/ Crash(d)
  <2>1. drains' = [drains EXCEPT ![d] = IdleDrain]
    BY <1>3 DEF EndDrain, Crash
  <2> QED
    BY <1>1, <1>2, <2>1, IdleDrainType DEF EntryMove, DrainMove
<1>4. CASE Succeed(d) \/ FailForGood(d) \/ AnchorClosed(d) \/ StillWaiting(d) \/ Fail(d)
  <2>1. PICK q : decide(d, q)
    BY <1>4 DEF Succeed, FailForGood, AnchorClosed, StillWaiting, Fail
  <2> DEFINE v == [drains[d] EXCEPT !.verdict = q]
  <2>2. /\ drains'[d] = v /\ busy(drains[d])
        /\ \A x \in Drains : x # d => drains'[x] = drains[x]
    BY <1>2, <2>1 DEF decide, busy
  <2>3. v.entry = drains[d].entry /\ v.claim = drains[d].claim /\ v.failures = drains[d].failures
    BY <1>2 DEF Drain
  <2> HIDE DEF v
  <2> QED
    BY <1>1, <2>2, <2>3 DEF EntryMove, DrainMove
<1> QED
  BY <1>3, <1>4

LEMMA SettlementMoves ==
  ASSUME OutboxInv, NEW d \in Drains, drains[d].verdict \in Verdicts \ {"handling"},
         entries' = settleOutbox(drains[d]) \/ entries' = entries,
         \/ drains' = [drains EXCEPT ![d] = handled(drains[d])]
         \/ drains' = [drains EXCEPT ![d] = [drains[d] EXCEPT !.verdict = "caught"]]
  PROVE  /\ \A e \in Entries : EntryMove(e)
         /\ \A x \in Drains : DrainMove(drains'[x], drains[x])
<1> DEFINE w == drains[d]
           v == [w EXCEPT !.verdict = "caught"]
<1>1. busy(w)
  BY DEF busy, Verdicts
<1>2. w \in Drain /\ w.entry \in Entries /\ drains \in [Drains -> Drain]
  BY <1>1 DEF OutboxInv, TypeOK
<1>3. ASSUME NEW e \in Entries PROVE EntryMove(e)
  BY <1>2 DEF EntryMove, settleOutbox, OutboxInv, TypeOK
<1>4. \A x \in Drains : x # d => drains'[x] = drains[x]
  BY <1>2
<1>5. drains'[d] = handled(w) \/ drains'[d] = v
  BY <1>2
<1> HIDE DEF w
<1>6. v.entry = w.entry /\ v.claim = w.claim /\ v.failures = w.failures
  BY <1>2 DEF Drain
<1>7. ~busy(handled(w))
  BY <1>2, HandledIdle
<1> HIDE DEF v
<1> QED
  BY <1>1, <1>3, <1>4, <1>5, <1>6, <1>7 DEF DrainMove, w

LEMMA StepMoves ==
  ASSUME OutboxInv, Next, ~Tick
  PROVE  /\ \A e \in Entries : EntryMove(e)
         /\ \A x \in Drains : DrainMove(drains'[x], drains[x])
<1>1. ASSUME NEW f \in Entries, Emit(f) \/ Wake(f)
      PROVE  /\ \A e \in Entries : EntryMove(e)
             /\ \A x \in Drains : DrainMove(drains'[x], drains[x])
  BY <1>1 DEF Emit, Wake, EntryMove, DrainMove, OutboxInv, TypeOK
<1>2. ASSUME NEW d \in Drains, Settle(d)
      PROVE  /\ \A e \in Entries : EntryMove(e)
             /\ \A x \in Drains : DrainMove(drains'[x], drains[x])
  BY <1>2, SettlementMoves DEF Settle
<1>3. ASSUME NEW d \in Drains, NEW committed \in BOOLEAN, SettleThrows(d, committed)
      PROVE  /\ \A e \in Entries : EntryMove(e)
             /\ \A x \in Drains : DrainMove(drains'[x], drains[x])
  BY <1>3, SettlementMoves DEF SettleThrows
<1> QED
  BY <1>1, <1>2, <1>3, ClaimMoves, OtherMoves DEF Next, Proceed

LEMMA SpacedTick == ASSUME OutboxInv, SpacedInv, Tick PROVE SpacedInv'
<1>1. \A e \in Entries \ Monitors : Spaced(entries'[e])
  BY TickSpaced DEF SpacedInv
<1>2. ASSUME NEW d \in Drains PROVE Remembers(drains[d])'
  <2> DEFINE w == drains[d]
             v == [w EXCEPT !.failing = passed(@)]
  <2>1. w \in Drain /\ drains'[d] = v
    BY DEF OutboxInv, TypeOK, Tick
  <2>2. v.verdict = w.verdict /\ v.entry = w.entry /\ v.claim = w.claim /\ v.failures = w.failures
    <3> HIDE DEF w
    <3> QED
      BY <2>1 DEF Drain
  <2> HIDE DEF v
  <2>3. SUFFICES ASSUME busy(w), entries'[w.entry].state = "leased",
                        entries'[w.entry].attempts = w.claim
                 PROVE  w.failures = entries'[w.entry].failures
    BY <2>1, <2>2 DEF Remembers, owns, busy
  <2>4. w.entry \in Entries
    BY <2>3 DEF OutboxInv
  <2>5. owns(w)
    BY <2>3, <2>4, TickKeeps DEF owns, busy
  <2> QED
    BY <2>4, <2>5, TickKeeps DEF SpacedInv, Remembers
<1> QED
  BY <1>1, <1>2 DEF SpacedInv, Spaced

LEMMA SpacedStep == ASSUME OutboxInv, OutboxInv', SpacedInv, Next, ~Tick PROVE SpacedInv'
<1>1. ASSUME NEW e \in Entries
      PROVE  /\ entries[e] \in Entry /\ entries'[e] \in Entry /\ EntryMove(e)
  BY StepMoves DEF OutboxInv, TypeOK
<1>2. ASSUME NEW d \in Drains, owns(drains[d]), drains[d].verdict \in Verdicts \ {"handling"}
      PROVE  LET w == drains[d] IN
             /\ w \in Drain /\ w.entry \in Entries /\ entries[w.entry].state = "leased"
             /\ w.failing = entries[w.entry].failing /\ w.failures = entries[w.entry].failures
             /\ verdictApplied(entries[w.entry], w).state # "leased"
  <2>1. busy(drains[d])
    BY <1>2 DEF owns, busy
  <2>2. Fits(drains[d], entries[drains[d].entry], suffered[drains[d].entry])
    BY <2>1, BusyFacts
  <2> QED
    BY <1>2, <2>1, <2>2, BusyFacts, VerdictApplied DEF owns, Fits, SpacedInv, Remembers
<1>3. ASSUME NEW e \in Entries \ Monitors PROVE Spaced(entries'[e])
  <2>1. Spaced(entries[e])
    BY DEF SpacedInv
  <2>2. CASE Emit(e)
    <3> DEFINE n == [entries[e] EXCEPT !.state = "pending"]
    <3>1. entries'[e] = n /\ entries[e].state = "absent"
      BY <2>2 DEF Emit, OutboxInv, TypeOK
    <3>2. n.failing = entries[e].failing /\ n.failures = entries[e].failures /\ n.state = "pending"
      BY <1>1 DEF Entry
    <3> HIDE DEF n
    <3> QED
      BY <2>1, <3>1, <3>2 DEF Spaced
  <2>3. CASE Claimed(entries[e], entries'[e])
    BY <1>1, <2>1, <2>3, ClaimSpaced DEF Claimed
  <2>4. ASSUME NEW d \in Drains, owns(drains[d]), drains[d].entry = e,
               drains[d].verdict \in Verdicts \ {"handling"},
               entries'[e] = verdictApplied(entries[e], drains[d])
        PROVE  Spaced(entries'[e])
    BY <1>1, <1>2, <2>1, <2>4, VerdictSpaced
  <2> QED
    BY <1>1, <2>1, <2>2, <2>3, <2>4 DEF EntryMove, Wake
<1>4. ASSUME NEW d \in Drains PROVE Remembers(drains[d])'
  <2> DEFINE w == drains[d]
             v == drains'[d]
             e == v.entry
  <2>1. SUFFICES ASSUME busy(v), entries'[e].state = "leased", entries'[e].attempts = v.claim
                 PROVE  v.failures = entries'[e].failures
    BY DEF Remembers, owns, busy
  <2>2. CASE busy(w) /\ e = w.entry /\ v.claim = w.claim /\ v.failures = w.failures
    <3>1. e \in Entries /\ w.claim <= entries[e].attempts /\ w.claim \in Nat
      BY <2>2, BusyFacts DEF Fits, Drain
    <3>2. entries[e].attempts \in Nat
      BY <1>1, <3>1, EntryFields
    <3>3. ~Claimed(entries[e], entries'[e])
      BY <2>1, <2>2, <3>1, <3>2 DEF Claimed
    <3>4. ~Emit(e) /\ ~Wake(e)
      BY <2>1, <3>1 DEF Emit, Wake, wakeOutboxEntry, OutboxInv, TypeOK, Entry
    <3>5. entries'[e] = entries[e]
      BY <1>1, <1>2, <2>1, <3>1, <3>3, <3>4 DEF EntryMove
    <3>6. owns(w)
      BY <2>1, <2>2, <3>5 DEF owns, busy
    <3> QED
      BY <2>2, <3>5, <3>6 DEF SpacedInv, Remembers
  <2> QED
    BY <2>1, <2>2, StepMoves DEF DrainMove
<1> QED
  BY <1>3, <1>4 DEF SpacedInv, Spaced

(* The recorded failures of an entry no webhook wakes are spaced by the    *)
(* doubling backoff, for any delays, window, drains, crashes, lost leases  *)
(* and store errors (settleRetryableFailure, backoff).                     *)
THEOREM FailuresAreSpaced == Spec => []FailuresSpaced
<1>1. Init => SpacedInv
  <2> SUFFICES ASSUME Init PROVE SpacedInv
    OBVIOUS
  <2>1. NewEntry.failing = Never /\ NewEntry.failures = 0 /\ Never <= RetireAfter
    BY OutboxAssumption DEF NewEntry, Never
  <2>2. Spaced(NewEntry)
    BY <2>1 DEF Spaced
  <2>3. \A d \in Drains : ~owns(drains[d])
    BY IdleDrainType DEF Init, owns, busy
  <2> QED
    BY <2>2, <2>3 DEF Init, SpacedInv, Remembers
<1>2. OutboxInv /\ OutboxInv' /\ SpacedInv /\ [Next]_vars => SpacedInv'
  <2>1. ASSUME SpacedInv, UNCHANGED vars PROVE SpacedInv'
    BY <2>1 DEF vars, SpacedInv, Spaced, Remembers, owns
  <2> QED
    BY <2>1, SpacedTick, SpacedStep
<1>3. SpacedInv => FailuresSpaced
  BY DEF SpacedInv, Spaced, FailuresSpaced
<1> QED
  BY <1>1, <1>2, <1>3, Invariance, PTL DEF Spec

=============================================================================
