--------------------------- MODULE SchedulesProofs ---------------------------
(***************************************************************************)
(* The safety properties of Schedules, for any configurations, due         *)
(* minutes, overlapping ticks and bounds.                                  *)
(*                                                                         *)
(* The watermark separates the slots that are over from the ones to come.  *)
(* The invariant ties each tick to the document it was read from: a tick   *)
(* about to reserve holds a configuration that is the stored one if the    *)
(* revision still is, and a tick at work on a slot either works for the    *)
(* reservation or its slot is over.                                        *)
(***************************************************************************)
EXTENDS Schedules, TLAPS

Tick == [slot : 0 .. MaxTime, revision : Nat, config : Configs \cup {None}]

Schedule == [there : BOOLEAN, config : Configs \cup {None}, enabled : BOOLEAN, revision : Nat,
             deleted : BOOLEAN, pending : Tick, lastSlot : Nat, closedSlot : Nat]

Working == {"parse", "mint", "forbidden", "close", "settle"}

TickCall == [pc : {"idle", "plan", "admit"} \cup Working, snapshot : Schedule, at : Nat,
             admitted : Tick]

Item == Configs \cup {None}

SchedulesType ==
  /\ schedule \in Schedule
  /\ items \in [1 .. MaxTime -> Item]
  /\ ticks \in [Ticks -> TickCall]
  /\ parses \in SUBSET Configs
  /\ now \in Nat

\* A real occurrence.
Occurrence(p) == p.slot \in 1 .. MaxTime /\ p.config \in Configs

(* An item of a slot that is not over belongs to the reservation.          *)
DocGood(s, its) ==
  /\ ~s.there => s = NoSchedule
  /\ s.pending # NoTick => Occurrence(s.pending) /\ admissionWatermark(s) < s.pending.slot
  /\ \A m \in 1 .. MaxTime :
       its[m] # None /\ admissionWatermark(s) < m =>
         s.pending # NoTick /\ m = s.pending.slot /\ its[m] = s.pending.config

\* The stored configuration, if the revision is still the stored one.
Read(s, revision, config) ==
  revision <= s.revision /\ (revision = s.revision => config = s.config)

TickGood(s, its, t) ==
  /\ t.pc = "idle" => t = Idle
  /\ t.pc # "idle" => s.there
  /\ t.pc = "plan" => Read(s, t.snapshot.revision, t.snapshot.config)
  /\ t.pc = "admit" => Occurrence(t.admitted) /\ Read(s, t.admitted.revision, t.admitted.config)
  /\ t.pc \in Working =>
       /\ Occurrence(t.admitted)
       /\ t.admitted = s.pending \/ t.admitted.slot <= admissionWatermark(s)
  /\ t.pc = "settle" => its[t.admitted.slot] # None

SchedulesInv ==
  /\ SchedulesType
  /\ DocGood(schedule, items)
  /\ \A k \in Ticks : TickGood(schedule, items, ticks[k])

-----------------------------------------------------------------------------
(* Facts about the operators *)

LEMMA ConstantFacts ==
  /\ MaxTime \in Nat /\ None \notin Configs
  /\ \A c \in Configs : DueAt[c] \subseteq 1 .. MaxTime
  /\ NoTick \in Tick /\ NoSchedule \in Schedule /\ Idle \in TickCall
BY SchedulesAssumption DEF None, NoTick, Tick, NoSchedule, Schedule, Idle, TickCall

LEMMA LaterFacts ==
  ASSUME NEW a \in Nat, NEW b \in Nat
  PROVE  later(a, b) \in Nat /\ a <= later(a, b) /\ b <= later(a, b)
BY DEF later

LEMMA Watermark ==
  ASSUME NEW s \in Schedule
  PROVE  /\ admissionWatermark(s) \in Nat
         /\ s.lastSlot <= admissionWatermark(s) /\ s.closedSlot <= admissionWatermark(s)
BY LaterFacts DEF admissionWatermark, Schedule

(* A slot that is found due is one of its configuration's minutes.         *)
LEMMA DueSlot ==
  ASSUME NEW c \in Configs, NEW at \in Nat, NEW after \in Nat, latestDueSlot(c, at, after) # 0
  PROVE  latestDueSlot(c, at, after) \in 1 .. MaxTime
<1> DEFINE due    == {m \in DueAt[c] : m <= at /\ m > after}
           latest == {m \in due : \A n \in due : n <= m}
<1>1. latest # {} /\ latest \subseteq 1 .. MaxTime
  BY ConstantFacts DEF latestDueSlot
<1>2. latestDueSlot(c, at, after) = CHOOSE m \in latest : TRUE
  BY <1>1 DEF latestDueSlot
<1> HIDE DEF latest
<1> QED
  BY <1>1, <1>2

-----------------------------------------------------------------------------
(* Steps that keep the invariant *)

(* Revisions and the watermark only grow, a configuration changes with its *)
(* revision, and a reservation that is given up is over.                   *)
Onward(s, t) ==
  /\ t.there
  /\ s.revision <= t.revision
  /\ s.revision = t.revision => t.config = s.config
  /\ admissionWatermark(s) <= admissionWatermark(t)
  /\ \/ t.pending = s.pending
     \/ s.pending = NoTick
     \/ s.pending.slot <= admissionWatermark(t)

LEMMA OnwardKeepsTicks ==
  ASSUME NEW s \in Schedule, NEW t \in Schedule, Onward(s, t),
         NEW its \in [1 .. MaxTime -> Item], NEW jts \in [1 .. MaxTime -> Item],
         \A m \in 1 .. MaxTime : its[m] # None => jts[m] # None,
         NEW u \in TickCall, TickGood(s, its, u)
  PROVE  TickGood(t, jts, u)
<1>1. /\ admissionWatermark(s) \in Nat /\ admissionWatermark(t) \in Nat
      /\ s.revision \in Nat /\ t.revision \in Nat
  BY Watermark DEF Schedule
<1>2. u.snapshot.revision \in Nat /\ u.admitted.revision \in Nat /\ u.admitted.slot \in Nat
  <2>1. u.snapshot \in Schedule /\ u.admitted \in Tick
    BY DEF TickCall
  <2>2. u.admitted.slot \in 0 .. MaxTime /\ MaxTime \in Nat
    BY <2>1, ConstantFacts DEF Tick
  <2>3. u.admitted.slot \in Nat
    BY <2>2
  <2>4. u.snapshot.revision \in Nat
    BY <2>1 DEF Schedule
  <2>5. u.admitted.revision \in Nat
    BY <2>1 DEF Tick
  <2> QED
    BY <2>3, <2>4, <2>5
<1>3. ASSUME u.pc = "plan" PROVE Read(t, u.snapshot.revision, u.snapshot.config)
  BY <1>1, <1>2, <1>3 DEF TickGood, Read, Onward
<1>4. ASSUME u.pc = "admit"
      PROVE  Occurrence(u.admitted) /\ Read(t, u.admitted.revision, u.admitted.config)
  BY <1>1, <1>2, <1>4 DEF TickGood, Read, Onward
<1>5. ASSUME u.pc \in Working
      PROVE  /\ Occurrence(u.admitted)
             /\ u.admitted = t.pending \/ u.admitted.slot <= admissionWatermark(t)
  <2>1. Occurrence(u.admitted)
        /\ (u.admitted = s.pending \/ u.admitted.slot <= admissionWatermark(s))
    BY <1>5 DEF TickGood
  <2>2. u.admitted # NoTick
    BY <2>1, ConstantFacts DEF Occurrence, NoTick
  <2> QED
    BY <2>1, <2>2, <1>1, <1>2 DEF Onward
<1>6. ASSUME u.pc = "settle" PROVE jts[u.admitted.slot] # None
  BY <1>6 DEF TickGood, Working, Occurrence
<1> QED
  BY <1>3, <1>4, <1>5, <1>6 DEF TickGood, Onward

(* A rewrite of the document under its next revision.                      *)
LEMMA Revised ==
  ASSUME NEW s \in Schedule, s.there, NEW c \in Configs \cup {None}, NEW e \in BOOLEAN,
         NEW d \in BOOLEAN, NEW t,
         t = [s EXCEPT !.config = c, !.enabled = e, !.deleted = d, !.revision = s.revision + 1]
  PROVE  /\ t \in Schedule /\ t.there /\ s.revision < t.revision
         /\ t.pending = s.pending
         /\ t.lastSlot = s.lastSlot /\ t.closedSlot = s.closedSlot
<1>1. s.revision \in Nat /\ s.revision + 1 \in Nat /\ s.revision < s.revision + 1
  BY DEF Schedule
<1>2. t \in Schedule
  BY <1>1, Zenon DEF Schedule
<1>3. /\ t.there = s.there /\ t.revision = s.revision + 1 /\ t.pending = s.pending
      /\ t.lastSlot = s.lastSlot /\ t.closedSlot = s.closedSlot
  BY Zenon DEF Schedule
<1> QED
  BY <1>1, <1>2, <1>3

(* One tick moves, and the document or the items with it.                  *)
LEMMA TickMoves ==
  ASSUME SchedulesInv, NEW k \in Ticks, NEW t \in TickCall, ticks' = [ticks EXCEPT ![k] = t],
         schedule' \in Schedule, Onward(schedule, schedule'),
         items' \in [1 .. MaxTime -> Item],
         \A m \in 1 .. MaxTime : items[m] # None => items'[m] # None,
         DocGood(schedule', items'), TickGood(schedule', items', t),
         parses' = parses, now' = now
  PROVE  SchedulesInv'
<1>1. SchedulesType'
  BY DEF SchedulesInv, SchedulesType
<1>2. \A j \in Ticks : TickGood(schedule', items', ticks[j])
  BY OnwardKeepsTicks DEF SchedulesInv, SchedulesType
<1>3. \A j \in Ticks : TickGood(schedule', items', ticks'[j])
  BY <1>2 DEF SchedulesInv, SchedulesType
<1> QED
  BY <1>1, <1>3 DEF SchedulesInv

LEMMA IdleIsGood ==
  ASSUME NEW s, NEW its
  PROVE  TickGood(s, its, Idle)
BY DEF TickGood, Idle, Working

LEMMA StandsOnward ==
  ASSUME NEW s \in Schedule, s.there
  PROVE  Onward(s, s)
BY Watermark DEF Onward, Schedule

(* One tick moves alone.                                                   *)
LEMMA TickMovesAlone ==
  ASSUME SchedulesInv, schedule.there, NEW k \in Ticks, NEW t \in TickCall,
         ticks' = [ticks EXCEPT ![k] = t], TickGood(schedule, items, t),
         UNCHANGED <<schedule, items, world>>
  PROVE  SchedulesInv'
<1>1. schedule \in Schedule /\ items \in [1 .. MaxTime -> Item] /\ DocGood(schedule, items)
  BY DEF SchedulesInv, SchedulesType
<1>2. Onward(schedule, schedule)
  BY <1>1, StandsOnward
<1> QED
  BY <1>1, <1>2, TickMoves DEF world

(* The document is rewritten under a new revision, as operators do.        *)
LEMMA DocumentChanges ==
  ASSUME SchedulesInv, schedule.there, schedule' \in Schedule, schedule'.there,
         schedule.revision < schedule'.revision, schedule'.pending = schedule.pending,
         schedule'.lastSlot = schedule.lastSlot, schedule'.closedSlot = schedule.closedSlot
  PROVE  Onward(schedule, schedule') /\ DocGood(schedule', items)
<1>1. admissionWatermark(schedule') = admissionWatermark(schedule)
      /\ admissionWatermark(schedule) \in Nat /\ schedule.revision \in Nat
      /\ schedule'.revision \in Nat
  BY Watermark DEF admissionWatermark, SchedulesInv, SchedulesType, Schedule
<1>2. Onward(schedule, schedule')
  BY <1>1 DEF Onward
<1>3. DocGood(schedule', items)
  BY <1>1 DEF SchedulesInv, DocGood
<1> QED
  BY <1>2, <1>3

LEMMA OperatorKeeps ==
  ASSUME SchedulesInv, schedule.there, schedule' \in Schedule, schedule'.there,
         schedule.revision < schedule'.revision, schedule'.pending = schedule.pending,
         schedule'.lastSlot = schedule.lastSlot, schedule'.closedSlot = schedule.closedSlot,
         UNCHANGED <<items, ticks, parses, now>>
  PROVE  SchedulesInv'
<1>1. Onward(schedule, schedule') /\ DocGood(schedule', items)
  BY DocumentChanges
<1>2. SchedulesType'
  BY DEF SchedulesInv, SchedulesType
<1>3. \A k \in Ticks : TickGood(schedule', items, ticks[k])
  BY <1>1, OnwardKeepsTicks DEF SchedulesInv, SchedulesType
<1> QED
  BY <1>1, <1>2, <1>3 DEF SchedulesInv

-----------------------------------------------------------------------------
(* Every action keeps the invariant *)

LEMMA CreateKeeps ==
  ASSUME SchedulesInv, NEW c \in Configs, NEW enabled \in BOOLEAN, Create(c, enabled)
  PROVE  SchedulesInv'
<1>1. schedule = NoSchedule /\ now \in Nat
  BY DEF Create, SchedulesInv, SchedulesType, DocGood
<1>2. \A k \in Ticks : ticks[k] = Idle
  BY DEF Create, SchedulesInv, TickGood
<1>3. \A m \in 1 .. MaxTime : items[m] = None
  <2>1. admissionWatermark(schedule) = 0 /\ schedule.pending = NoTick
    BY <1>1 DEF admissionWatermark, later, NoSchedule
  <2> QED
    BY <2>1, ConstantFacts DEF SchedulesInv, DocGood
<1>4. schedule' \in Schedule /\ schedule'.there /\ schedule'.pending = NoTick
  BY <1>1, ConstantFacts DEF Create, NoSchedule, Schedule
<1>5. SchedulesType'
  BY <1>4 DEF Create, SchedulesInv, SchedulesType
<1>6. DocGood(schedule', items')
  BY <1>3, <1>4 DEF Create, DocGood
<1>7. \A k \in Ticks : TickGood(schedule', items', ticks'[k])
  BY <1>2, IdleIsGood DEF Create
<1> QED
  BY <1>5, <1>6, <1>7 DEF SchedulesInv

LEMMA RewriteKeeps ==
  ASSUME SchedulesInv, schedule.there, NEW c \in Configs \cup {None}, NEW e \in BOOLEAN,
         NEW d \in BOOLEAN,
         schedule' = [schedule EXCEPT !.config = c, !.enabled = e, !.deleted = d,
                                      !.revision = schedule.revision + 1],
         UNCHANGED <<items, ticks, parses, now>>
  PROVE  SchedulesInv'
<1>1. schedule \in Schedule
  BY DEF SchedulesInv, SchedulesType
<1> DEFINE t == [schedule EXCEPT !.config = c, !.enabled = e, !.deleted = d,
                                 !.revision = schedule.revision + 1]
<1>2. /\ t \in Schedule /\ t.there /\ schedule.revision < t.revision
      /\ t.pending = schedule.pending
      /\ t.lastSlot = schedule.lastSlot /\ t.closedSlot = schedule.closedSlot
  <2>1. /\ schedule.revision \in Nat /\ schedule.revision + 1 \in Nat
        /\ schedule.revision < schedule.revision + 1
    BY <1>1 DEF Schedule
  <2>2. t \in Schedule
    BY <1>1, <2>1, Zenon DEF Schedule
  <2>3. /\ t.there = schedule.there /\ t.revision = schedule.revision + 1
        /\ t.pending = schedule.pending
        /\ t.lastSlot = schedule.lastSlot /\ t.closedSlot = schedule.closedSlot
    BY <1>1, Zenon DEF Schedule
  <2> HIDE DEF t
  <2> QED
    BY <2>1, <2>2, <2>3
<1>3. schedule' = t
  OBVIOUS
<1> HIDE DEF t
<1> QED
  BY <1>2, <1>3, OperatorKeeps

LEMMA OperatorsKeep ==
  ASSUME SchedulesInv,
         \/ \E c \in Configs, enabled \in BOOLEAN : Update(c, enabled)
         \/ \E enabled \in BOOLEAN : Toggle(enabled)
         \/ Delete
  PROVE  SchedulesInv'
<1>1. schedule \in Schedule
  BY DEF SchedulesInv, SchedulesType
<1>2. ASSUME NEW c \in Configs, NEW enabled \in BOOLEAN, Update(c, enabled) PROVE SchedulesInv'
  <2>1. /\ schedule.there
        /\ schedule' = [schedule EXCEPT !.config = c, !.enabled = enabled, !.deleted = schedule.deleted,
                                        !.revision = schedule.revision + 1]
    BY <1>1, <1>2 DEF Update, current, Schedule
  <2> QED
    <3>1. schedule.config \in Configs \cup {None} /\ schedule.deleted \in BOOLEAN
      BY <1>1 DEF Schedule
    <3>2. UNCHANGED <<items, ticks, parses, now>>
      BY <1>2 DEF Update
    <3> QED
      BY <2>1, <3>1, <3>2, RewriteKeeps
<1>3. ASSUME NEW enabled \in BOOLEAN, Toggle(enabled) PROVE SchedulesInv'
  <2>1. /\ schedule.there
        /\ schedule' = [schedule EXCEPT !.config = schedule.config, !.enabled = enabled,
                                        !.deleted = schedule.deleted,
                                        !.revision = schedule.revision + 1]
    BY <1>1, <1>3 DEF Toggle, current, Schedule
  <2> QED
    <3>1. schedule.config \in Configs \cup {None} /\ schedule.deleted \in BOOLEAN
      BY <1>1 DEF Schedule
    <3>2. UNCHANGED <<items, ticks, parses, now>>
      BY <1>3 DEF Toggle
    <3> QED
      BY <2>1, <3>1, <3>2, RewriteKeeps
<1>4. ASSUME Delete PROVE SchedulesInv'
  <2>1. /\ schedule.there
        /\ schedule' = [schedule EXCEPT !.config = schedule.config, !.enabled = FALSE, !.deleted = TRUE,
                                        !.revision = schedule.revision + 1]
    BY <1>1, <1>4 DEF Delete, current, Schedule
  <2> QED
    <3>1. schedule.config \in Configs \cup {None} /\ schedule.deleted \in BOOLEAN
      BY <1>1 DEF Schedule
    <3>2. UNCHANGED <<items, ticks, parses, now>>
      BY <1>4 DEF Delete
    <3> QED
      BY <2>1, <3>1, <3>2, RewriteKeeps
<1> QED
  BY <1>2, <1>3, <1>4

(* Nothing the invariant speaks of changes but the clock, the grant and    *)
(* the schema.                                                             *)
LEMMA WorldKeeps ==
  ASSUME SchedulesInv, UNCHANGED <<schedule, items, ticks>>, parses' \in SUBSET Configs, now' \in Nat
  PROVE  SchedulesInv'
BY DEF SchedulesInv, SchedulesType

LEMMA ListKeeps ==
  ASSUME SchedulesInv, NEW k \in Ticks, List(k)
  PROVE  SchedulesInv'
<1>1. schedule \in Schedule /\ now \in Nat /\ schedule.pending \in Tick
  BY DEF SchedulesInv, SchedulesType, Schedule
<1>2. schedule.there
  BY DEF List, ticked, current, SchedulesInv, DocGood, NoSchedule
<1>3. CASE schedule.pending = NoTick
  <2> DEFINE t == [Idle EXCEPT !.pc = "plan", !.snapshot = schedule, !.at = now]
  <2>1. t \in TickCall /\ ticks' = [ticks EXCEPT ![k] = t]
    BY <1>1, <1>3, ConstantFacts DEF List, Idle, TickCall
  <2>2. t.pc = "plan" /\ t.snapshot = schedule
    BY DEF Idle
  <2>3. TickGood(schedule, items, t)
    BY <1>1, <1>2, <2>2 DEF TickGood, Working, Read, Schedule
  <2> HIDE DEF t
  <2> QED
    BY <1>2, <2>1, <2>3, TickMovesAlone DEF List
<1>4. CASE schedule.pending # NoTick
  <2> DEFINE t == [Idle EXCEPT !.pc = "parse", !.admitted = schedule.pending]
  <2>1. t \in TickCall /\ ticks' = [ticks EXCEPT ![k] = t]
    BY <1>1, <1>4, ConstantFacts DEF List, Idle, TickCall, Working
  <2>2. t.pc = "parse" /\ t.admitted = schedule.pending
    BY DEF Idle
  <2>3. TickGood(schedule, items, t)
    BY <1>2, <1>4, <2>2 DEF TickGood, Working, SchedulesInv, DocGood
  <2> HIDE DEF t
  <2> QED
    BY <1>2, <2>1, <2>3, TickMovesAlone DEF List
<1> QED
  BY <1>3, <1>4

(* A tick ends, the document staying or being disabled.                    *)
LEMMA TickEnds ==
  ASSUME SchedulesInv, schedule.there, NEW k \in Ticks, end(k),
         schedule' \in {schedule, disabled(schedule)}, UNCHANGED <<items, parses, now>>
  PROVE  SchedulesInv'
<1>1. /\ schedule \in Schedule /\ items \in [1 .. MaxTime -> Item] /\ DocGood(schedule, items)
      /\ Idle \in TickCall /\ TickGood(schedule', items, Idle)
  BY ConstantFacts, IdleIsGood DEF SchedulesInv, SchedulesType
<1>2. CASE schedule' = schedule
  BY <1>1, <1>2, StandsOnward, TickMoves DEF end
<1>3. CASE schedule' = disabled(schedule)
  <2>1. /\ schedule' \in Schedule /\ schedule'.there /\ schedule.revision < schedule'.revision
        /\ schedule'.pending = schedule.pending
        /\ schedule'.lastSlot = schedule.lastSlot /\ schedule'.closedSlot = schedule.closedSlot
    <3>1. schedule' = [schedule EXCEPT !.config = schedule.config, !.enabled = FALSE,
                                       !.deleted = schedule.deleted,
                                       !.revision = schedule.revision + 1]
      BY <1>1, <1>3 DEF disabled, Schedule
    <3> QED
      BY <1>1, <3>1, Revised DEF Schedule
  <2>2. Onward(schedule, schedule') /\ DocGood(schedule', items)
    BY <2>1, DocumentChanges
  <2> QED
    BY <1>1, <2>1, <2>2, TickMoves DEF end
<1> QED
  BY <1>2, <1>3

LEMMA PlanKeeps ==
  ASSUME SchedulesInv, NEW k \in Ticks, Plan(k)
  PROVE  SchedulesInv'
<1> DEFINE s    == ticks[k].snapshot
           slot == latestDueSlot(s.config, ticks[k].at, admissionWatermark(s))
           p    == [slot |-> slot, revision |-> s.revision, config |-> s.config]
           t    == [Idle EXCEPT !.pc = "admit", !.admitted = p]
<1>1. /\ schedule.there /\ Read(schedule, s.revision, s.config)
      /\ s \in Schedule /\ ticks[k].at \in Nat
  BY DEF Plan, SchedulesInv, SchedulesType, TickGood, TickCall
<1>2. CASE end(k) /\ schedule' \in {schedule, disabled(schedule)}
  BY <1>1, <1>2, TickEnds DEF Plan, world
<1>3. CASE /\ s.config \in parses /\ slot # 0
           /\ ticks' = [ticks EXCEPT ![k] = t] /\ UNCHANGED schedule
  <2>1. s.config \in Configs /\ s.revision \in Nat
    BY <1>1, <1>3 DEF SchedulesInv, SchedulesType, Schedule
  <2>2. admissionWatermark(s) \in Nat
    BY <1>1, Watermark
  <2>3. slot \in 1 .. MaxTime
    BY <1>1, <1>3, <2>1, <2>2, DueSlot
  <2> HIDE DEF slot, s
  <2>4. p \in Tick /\ Occurrence(p)
    BY <2>1, <2>3, ConstantFacts DEF Tick, Occurrence
  <2>5. t \in TickCall /\ t.pc = "admit" /\ t.admitted = p
    BY <2>4, ConstantFacts DEF TickCall, Idle
  <2>6. Read(schedule, p.revision, p.config)
    BY <1>1
  <2> HIDE DEF p
  <2>7. TickGood(schedule, items, t)
    BY <1>1, <2>4, <2>5, <2>6 DEF TickGood, Working
  <2> HIDE DEF t
  <2> QED
    BY <1>1, <1>3, <2>5, <2>7, TickMovesAlone DEF Plan
<1> QED
  BY <1>2, <1>3 DEF Plan

\* What is known of a tick at work on a slot.
LEMMA AtWork ==
  ASSUME SchedulesInv, NEW k \in Ticks, ticks[k].pc \in Working \cup {"admit"}
  PROVE  /\ schedule.there /\ schedule \in Schedule
         /\ items \in [1 .. MaxTime -> Item]
         /\ ticks[k] \in TickCall /\ ticks[k].admitted \in Tick
         /\ Occurrence(ticks[k].admitted) /\ ticks[k].admitted # NoTick
<1>1. /\ ticks[k] \in TickCall /\ TickGood(schedule, items, ticks[k])
      /\ schedule \in Schedule /\ items \in [1 .. MaxTime -> Item]
  BY DEF SchedulesInv, SchedulesType
<1>2. schedule.there /\ Occurrence(ticks[k].admitted)
  BY <1>1 DEF TickGood, Working
<1>3. ticks[k].admitted # NoTick
  BY <1>2, ConstantFacts DEF Occurrence, NoTick
<1> QED
  BY <1>1, <1>2, <1>3 DEF TickCall

\* The tick after go(k, pc).
LEMMA Gone ==
  ASSUME SchedulesInv, NEW k \in Ticks, NEW pc \in Working, go(k, pc)
  PROVE  LET t == [ticks[k] EXCEPT !.pc = pc] IN
         /\ ticks' = [ticks EXCEPT ![k] = t]
         /\ t \in TickCall /\ t.pc = pc /\ t.admitted = ticks[k].admitted
BY DEF go, SchedulesInv, SchedulesType, TickCall

LEMMA GoKeeps ==
  ASSUME SchedulesInv, NEW k \in Ticks, NEW pc \in Working, ticks[k].pc \in Working, go(k, pc),
         pc = "settle" => items[ticks[k].admitted.slot] # None,
         UNCHANGED <<schedule, items, world>>
  PROVE  SchedulesInv'
<1> DEFINE t == [ticks[k] EXCEPT !.pc = pc]
<1>1. /\ ticks' = [ticks EXCEPT ![k] = t]
      /\ t \in TickCall /\ t.pc = pc /\ t.admitted = ticks[k].admitted
  BY Gone
<1>2. schedule.there /\ TickGood(schedule, items, ticks[k])
  BY AtWork DEF SchedulesInv
<1> HIDE DEF t
<1>3. TickGood(schedule, items, t)
  BY <1>1, <1>2 DEF TickGood, Working
<1> QED
  BY <1>1, <1>2, <1>3, TickMovesAlone

LEMMA EndKeeps ==
  ASSUME SchedulesInv, schedule.there, NEW k \in Ticks, end(k), UNCHANGED <<schedule, items, parses, now>>
  PROVE  SchedulesInv'
BY TickEnds

LEMMA AdmitKeeps ==
  ASSUME SchedulesInv, NEW k \in Ticks, Admit(k)
  PROVE  SchedulesInv'
<1> DEFINE p == ticks[k].admitted
           t == [ticks[k] EXCEPT !.pc = "parse"]
<1>1. /\ schedule.there /\ schedule \in Schedule /\ items \in [1 .. MaxTime -> Item]
      /\ p \in Tick /\ Occurrence(p) /\ p # NoTick
  BY AtWork DEF Admit
<1>2. CASE admits(schedule, p) /\ schedule' = [schedule EXCEPT !.pending = p] /\ go(k, "parse")
  <2>1. ticks' = [ticks EXCEPT ![k] = t] /\ t \in TickCall /\ t.pc = "parse" /\ t.admitted = p
    BY <1>2, Gone DEF Working
  <2>2. schedule' \in Schedule
    BY <1>1, <1>2, Zenon DEF Schedule
  <2>3. /\ schedule'.there = schedule.there /\ schedule'.pending = p
        /\ schedule'.revision = schedule.revision /\ schedule'.config = schedule.config
        /\ schedule'.lastSlot = schedule.lastSlot /\ schedule'.closedSlot = schedule.closedSlot
    BY <1>1, <1>2, Zenon DEF Schedule
  <2>4. /\ admissionWatermark(schedule') = admissionWatermark(schedule)
        /\ admissionWatermark(schedule) \in Nat /\ schedule.revision \in Nat
    BY <1>1, <2>3, Watermark DEF admissionWatermark, Schedule
  <2>5. schedule.pending = NoTick /\ admissionWatermark(schedule) < p.slot
    BY <1>2 DEF admits
  <2> HIDE DEF p, t
  <2>6. Onward(schedule, schedule')
    BY <1>1, <2>3, <2>4, <2>5 DEF Onward
  <2>7. DocGood(schedule', items)
    BY <1>1, <2>3, <2>4, <2>5 DEF DocGood, SchedulesInv
  <2>8. TickGood(schedule', items, t)
    BY <1>1, <2>1, <2>3 DEF TickGood, Working
  <2> QED
    BY <1>1, <2>1, <2>2, <2>6, <2>7, <2>8, TickMoves DEF Admit, world
<1>3. CASE end(k) /\ UNCHANGED schedule
  BY <1>1, <1>3, EndKeeps DEF Admit, world
<1> QED
  BY <1>2, <1>3 DEF Admit

LEMMA AuthorizeKeeps ==
  ASSUME SchedulesInv, NEW k \in Ticks, Authorize(k)
  PROVE  SchedulesInv'
<1>1. ticks[k].pc \in Working
  BY DEF Authorize, Working
<1>2. PICK pc \in {"close", "mint", "forbidden"} : go(k, pc)
  BY DEF Authorize
<1> QED
  BY <1>1, <1>2, GoKeeps DEF Authorize, Working

LEMMA ForbiddenKeeps ==
  ASSUME SchedulesInv, NEW k \in Ticks, Forbidden(k)
  PROVE  SchedulesInv'
<1> DEFINE p == ticks[k].admitted
<1>1. ticks[k].pc \in Working /\ schedule.there /\ Occurrence(p)
  BY AtWork DEF Forbidden, Working
<1>2. CASE go(k, "close")
  BY <1>1, <1>2, GoKeeps DEF Forbidden, Working
<1>3. CASE items[p.slot] = p.config /\ go(k, "settle")
  BY <1>1, <1>3, GoKeeps, ConstantFacts DEF Forbidden, Working, Occurrence
<1>4. CASE end(k)
  BY <1>1, <1>4, EndKeeps DEF Forbidden, world
<1> QED
  BY <1>2, <1>3, <1>4 DEF Forbidden

(* The item of a slot that is not over belongs to the reservation: the     *)
(* tick works for it.                                                      *)
LEMMA MintKeeps ==
  ASSUME SchedulesInv, NEW k \in Ticks, Mint(k)
  PROVE  SchedulesInv'
<1> DEFINE p == ticks[k].admitted
           t == [ticks[k] EXCEPT !.pc = "settle"]
<1>1. /\ ticks[k].pc \in Working /\ schedule.there /\ Occurrence(p) /\ p # NoTick
      /\ schedule \in Schedule /\ items \in [1 .. MaxTime -> Item]
  BY AtWork DEF Mint, Working
<1>2. CASE items[p.slot] = None /\ items' = [items EXCEPT ![p.slot] = p.config] /\ go(k, "settle")
  <2>1. ticks' = [ticks EXCEPT ![k] = t] /\ t \in TickCall /\ t.pc = "settle" /\ t.admitted = p
    BY <1>2, Gone DEF Working
  <2>2. /\ schedule' = schedule /\ parses' = parses /\ now' = now
        /\ p = schedule.pending \/ p.slot <= admissionWatermark(schedule)
    BY <1>1 DEF Mint, world, SchedulesInv, TickGood
  <2> HIDE DEF p, t
  <2>3. /\ items' \in [1 .. MaxTime -> Item] /\ items'[p.slot] = p.config /\ p.config # None
        /\ \A m \in 1 .. MaxTime : m # p.slot => items'[m] = items[m]
    BY <1>1, <1>2, ConstantFacts DEF Occurrence, Item
  <2>4. \A m \in 1 .. MaxTime : items[m] # None => items'[m] # None
    BY <2>3
  <2>5. admissionWatermark(schedule) \in Nat /\ p.slot \in Nat
    BY <1>1, Watermark, ConstantFacts DEF Occurrence
  <2>6. DocGood(schedule, items')
    BY <1>1, <2>2, <2>3, <2>5 DEF DocGood, SchedulesInv
  <2>7. TickGood(schedule, items', t)
    BY <1>1, <2>1, <2>2, <2>3 DEF TickGood, Working
  <2> QED
    BY <1>1, <2>1, <2>2, <2>3, <2>4, <2>6, <2>7, StandsOnward, TickMoves
<1>3. CASE items[p.slot] = p.config /\ go(k, "settle") /\ UNCHANGED items
  BY <1>1, <1>3, GoKeeps, ConstantFacts DEF Mint, Working, Occurrence
<1>4. CASE end(k) /\ UNCHANGED items
  BY <1>1, <1>4, EndKeeps DEF Mint, world
<1> QED
  BY <1>2, <1>3, <1>4 DEF Mint

(* The reservation is given up and its slot is over.                       *)
LEMMA ReservationEnds ==
  ASSUME SchedulesInv, NEW k \in Ticks, ticks[k].pc \in Working, end(k),
         samePending(k), schedule' \in Schedule, schedule'.there, schedule'.pending = NoTick,
         schedule.revision <= schedule'.revision,
         schedule'.config = schedule.config,
         admissionWatermark(schedule) <= admissionWatermark(schedule'),
         ticks[k].admitted.slot <= admissionWatermark(schedule'),
         UNCHANGED <<items, parses, now>>
  PROVE  SchedulesInv'
<1> DEFINE p == ticks[k].admitted
<1>1. /\ schedule \in Schedule /\ schedule' \in Schedule /\ items \in [1 .. MaxTime -> Item]
      /\ p = schedule.pending /\ p # NoTick
  BY AtWork DEF samePending
<1>2. admissionWatermark(schedule) \in Nat /\ admissionWatermark(schedule') \in Nat
  BY <1>1, Watermark
<1> HIDE DEF p
<1>3. Onward(schedule, schedule')
  BY <1>1 DEF Onward, p
<1>4. DocGood(schedule', items)
  <2>1. \A m \in 1 .. MaxTime : items[m] # None => m <= admissionWatermark(schedule')
    BY <1>1, <1>2, ConstantFacts DEF DocGood, SchedulesInv, p
  <2> QED
    BY <1>2, <2>1, ConstantFacts DEF DocGood
<1> QED
  BY <1>1, <1>3, <1>4, IdleIsGood, ConstantFacts, TickMoves DEF end

LEMMA LaterGrows ==
  ASSUME NEW s \in Schedule, NEW t \in Schedule, NEW slot \in Nat,
         \/ t.lastSlot = s.lastSlot /\ t.closedSlot = later(s.closedSlot, slot)
         \/ t.lastSlot = later(s.lastSlot, slot) /\ t.closedSlot = s.closedSlot
  PROVE  admissionWatermark(s) <= admissionWatermark(t) /\ slot <= admissionWatermark(t)
BY DEF admissionWatermark, later, Schedule

(* The document a reservation's closing leaves.                            *)
LEMMA Closed ==
  ASSUME NEW s \in Schedule, s.there, NEW p \in Tick
  PROVE  LET t == closePending(s, p) IN
         /\ t \in Schedule /\ t.there = s.there /\ t.pending = NoTick
         /\ s.revision <= t.revision /\ t.config = s.config
         /\ t.lastSlot = s.lastSlot /\ t.closedSlot = later(s.closedSlot, p.slot)
<1> DEFINE slot == later(s.closedSlot, p.slot)
           c    == [s EXCEPT !.pending = NoTick, !.closedSlot = slot]
           t    == closePending(s, p)
<1>1. p.slot \in Nat /\ s.closedSlot \in Nat
  <2>1. p.slot \in 0 .. MaxTime /\ MaxTime \in Nat
    BY ConstantFacts DEF Tick
  <2> QED
    BY <2>1 DEF Schedule
<1>2. slot \in Nat
  BY <1>1, LaterFacts
<1> HIDE DEF slot
<1>3. c \in Schedule
  BY <1>2, ConstantFacts, Zenon DEF Schedule
<1>4. /\ c.there = s.there /\ c.pending = NoTick /\ c.revision = s.revision
      /\ c.config = s.config /\ c.lastSlot = s.lastSlot /\ c.closedSlot = slot
  BY Zenon DEF Schedule
<1>5. t \in {c, disabled(c)}
  BY DEF closePending, slot
<1> HIDE DEF c, t
<1>6. CASE t = c
  <2>1. s.revision <= t.revision
    BY <1>4, <1>6 DEF Schedule
  <2> QED
    BY <1>3, <1>4, <1>6, <2>1 DEF slot, t
<1>7. CASE t = disabled(c)
  <2>1. c.revision + 1 \in Nat /\ s.revision <= c.revision + 1
    BY <1>3, <1>4 DEF Schedule
  <2>2. t \in Schedule
    BY <1>3, <1>7, <2>1, Zenon DEF disabled, Schedule
  <2>3. /\ t.there = c.there /\ t.pending = c.pending /\ t.revision = c.revision + 1
        /\ t.config = c.config /\ t.lastSlot = c.lastSlot /\ t.closedSlot = c.closedSlot
    BY <1>3, <1>7, Zenon DEF disabled, Schedule
  <2> QED
    BY <1>4, <2>1, <2>2, <2>3 DEF slot, t
<1> QED
  BY <1>5, <1>6, <1>7

LEMMA CloseKeeps ==
  ASSUME SchedulesInv, NEW k \in Ticks, Close(k)
  PROVE  SchedulesInv'
<1> DEFINE p == ticks[k].admitted
<1>1. /\ ticks[k].pc \in Working /\ schedule.there /\ schedule \in Schedule
      /\ p \in Tick /\ p.slot \in Nat
  <2>1. ticks[k].pc \in Working
    BY DEF Close, Working
  <2>2. schedule.there /\ schedule \in Schedule /\ p \in Tick /\ p.slot \in 1 .. MaxTime
    BY <2>1, AtWork DEF Occurrence
  <2> QED
    BY <2>1, <2>2, ConstantFacts
<1>2. CASE samePending(k)
  <2>1. schedule' = closePending(schedule, p)
    BY <1>2 DEF Close
  <2>2. /\ schedule' \in Schedule /\ schedule'.there /\ schedule'.pending = NoTick
        /\ schedule.revision <= schedule'.revision /\ schedule'.config = schedule.config
        /\ schedule'.lastSlot = schedule.lastSlot
        /\ schedule'.closedSlot = later(schedule.closedSlot, p.slot)
    BY <1>1, <2>1, Closed
  <2>3. /\ admissionWatermark(schedule) <= admissionWatermark(schedule')
        /\ p.slot <= admissionWatermark(schedule')
    BY <1>1, <2>2, LaterGrows
  <2> QED
    BY <1>1, <1>2, <2>2, <2>3, ReservationEnds DEF Close, world
<1>3. CASE ~samePending(k)
  BY <1>1, <1>3, EndKeeps DEF Close, world
<1> QED
  BY <1>2, <1>3

(* The document that a settled reservation leaves.                         *)
LEMMA Settled ==
  ASSUME NEW s \in Schedule, NEW p \in Tick
  PROVE  LET t == [s EXCEPT !.pending = NoTick, !.lastSlot = later(s.lastSlot, p.slot)] IN
         /\ t \in Schedule /\ t.there = s.there /\ t.pending = NoTick
         /\ t.revision = s.revision /\ t.config = s.config
         /\ t.lastSlot = later(s.lastSlot, p.slot) /\ t.closedSlot = s.closedSlot
<1> DEFINE slot == later(s.lastSlot, p.slot)
<1>1. p.slot \in Nat /\ s.lastSlot \in Nat
  <2>1. p.slot \in 0 .. MaxTime /\ MaxTime \in Nat
    BY ConstantFacts DEF Tick
  <2> QED
    BY <2>1 DEF Schedule
<1>2. slot \in Nat
  BY <1>1, LaterFacts
<1> HIDE DEF slot
<1> DEFINE t == [s EXCEPT !.pending = NoTick, !.lastSlot = slot]
<1>3. t \in Schedule
  BY <1>2, ConstantFacts, Zenon DEF Schedule
<1>4. /\ t.there = s.there /\ t.pending = NoTick /\ t.revision = s.revision
      /\ t.config = s.config /\ t.lastSlot = slot /\ t.closedSlot = s.closedSlot
  BY Zenon DEF Schedule
<1> QED
  BY <1>3, <1>4 DEF slot

LEMMA SettleKeeps ==
  ASSUME SchedulesInv, NEW k \in Ticks, Settle(k)
  PROVE  SchedulesInv'
<1> DEFINE p == ticks[k].admitted
<1>1. /\ ticks[k].pc \in Working /\ schedule.there /\ schedule \in Schedule
      /\ p \in Tick /\ p.slot \in Nat
  <2>1. ticks[k].pc \in Working
    BY DEF Settle, Working
  <2>2. schedule.there /\ schedule \in Schedule /\ p \in Tick /\ p.slot \in 1 .. MaxTime
    BY <2>1, AtWork DEF Occurrence
  <2> QED
    BY <2>1, <2>2, ConstantFacts
<1>2. CASE samePending(k)
  <2>1. schedule' = [schedule EXCEPT !.pending = NoTick, !.lastSlot = later(schedule.lastSlot, p.slot)]
    BY <1>2 DEF Settle
  <2>2. /\ schedule' \in Schedule /\ schedule'.there /\ schedule'.pending = NoTick
        /\ schedule'.revision = schedule.revision /\ schedule'.config = schedule.config
        /\ schedule'.lastSlot = later(schedule.lastSlot, p.slot)
        /\ schedule'.closedSlot = schedule.closedSlot
    BY <1>1, <2>1, Settled
  <2>3. /\ admissionWatermark(schedule) <= admissionWatermark(schedule')
        /\ p.slot <= admissionWatermark(schedule')
    BY <1>1, <2>2, LaterGrows
  <2>4. schedule.revision <= schedule'.revision
    BY <1>1, <2>2 DEF Schedule
  <2> QED
    BY <1>1, <1>2, <2>2, <2>3, <2>4, ReservationEnds DEF Settle, world
<1>3. CASE ~samePending(k)
  BY <1>1, <1>3, EndKeeps DEF Settle, world
<1> QED
  BY <1>2, <1>3

LEMMA CrashKeeps ==
  ASSUME SchedulesInv, NEW k \in Ticks, Crash(k)
  PROVE  SchedulesInv'
<1>1. schedule.there
  BY DEF Crash, SchedulesInv, TickGood
<1> QED
  BY <1>1, EndKeeps DEF Crash

LEMMA InitInv ==
  ASSUME Init
  PROVE  SchedulesInv
<1>1. SchedulesType
  BY ConstantFacts DEF Init, SchedulesType, Item
<1>2. DocGood(schedule, items)
  BY DEF Init, DocGood, NoSchedule
<1>3. \A k \in Ticks : TickGood(schedule, items, ticks[k])
  BY IdleIsGood DEF Init
<1> QED
  BY <1>1, <1>2, <1>3 DEF SchedulesInv

LEMMA NextInv ==
  ASSUME SchedulesInv, [Next]_vars
  PROVE  SchedulesInv'
<1>1. ASSUME NEW c \in Configs, SchemaTightens(c) PROVE SchedulesInv'
  BY <1>1, WorldKeeps DEF SchemaTightens, SchedulesInv, SchedulesType
<1>7. ASSUME NEW c \in Configs, NEW enabled \in BOOLEAN, Create(c, enabled) PROVE SchedulesInv'
  BY <1>7, CreateKeeps
<1>2. CASE \/ \E c \in Configs, enabled \in BOOLEAN : Update(c, enabled)
           \/ \E enabled \in BOOLEAN : Toggle(enabled)
           \/ Delete
  BY <1>2, OperatorsKeep
<1>3. CASE GrantChanges
  BY <1>3, WorldKeeps DEF GrantChanges, SchedulesInv, SchedulesType
<1>4. CASE Clock
  <2>1. now' \in Nat
    BY <1>4 DEF Clock, SchedulesInv, SchedulesType
  <2> QED
    BY <1>4, <2>1, WorldKeeps DEF Clock, SchedulesInv, SchedulesType
<1>5. ASSUME NEW k \in Ticks, List(k) \/ Step(k) \/ Crash(k) PROVE SchedulesInv'
  BY <1>5, ListKeeps, PlanKeeps, AdmitKeeps, AuthorizeKeeps, MintKeeps, ForbiddenKeeps,
     CloseKeeps, SettleKeeps, CrashKeeps DEF Step
<1>6. CASE UNCHANGED vars
  BY <1>6, WorldKeeps DEF vars, SchedulesInv, SchedulesType
<1> QED
  BY <1>1, <1>2, <1>3, <1>4, <1>5, <1>6, <1>7 DEF Next

-----------------------------------------------------------------------------
(* What holds of every schedule *)

(* The inductive invariant: the document, its items and every tick in      *)
(* flight agree as TickGood and DocGood say, whatever overlaps or crashes. *)
THEOREM Invariance == Spec => []SchedulesInv
<1>1. Init => SchedulesInv
  BY InitInv
<1>2. SchedulesInv /\ [Next]_vars => SchedulesInv'
  BY NextInv
<1> QED
  BY <1>1, <1>2, PTL DEF Spec

(* No slot is served twice under two configurations: an item that exists   *)
(* for a reserved slot is the reservation's.                               *)
THEOREM ReservationsMatch == Spec => []ReservationMatchesItem
<1>1. SchedulesInv => ReservationMatchesItem
  BY DEF SchedulesInv, DocGood, ReservationMatchesItem, Occurrence
<1> QED
  BY <1>1, Invariance, PTL

\* Which steps touch the reservation.
LEMMA ReservationSteps ==
  ASSUME SchedulesInv, [Next]_vars, schedule'.pending # schedule.pending
  PROVE  \E k \in Ticks :
           \/ /\ Admit(k) /\ admits(schedule, ticks[k].admitted)
              /\ schedule'.pending = ticks[k].admitted
           \/ Close(k) /\ samePending(k)
           \/ Settle(k) /\ samePending(k)
<1>1. schedule \in Schedule /\ schedule' # schedule
  BY DEF SchedulesInv, SchedulesType
<1>2. ASSUME NEW c \in Configs, NEW enabled \in BOOLEAN, Create(c, enabled) PROVE FALSE
  BY <1>2 DEF Create, SchedulesInv, DocGood, NoSchedule
<1>3. ASSUME NEW c \in Configs, NEW enabled \in BOOLEAN, Update(c, enabled) PROVE FALSE
  BY <1>1, <1>3 DEF Update, Schedule
<1>4. ASSUME NEW enabled \in BOOLEAN, Toggle(enabled) PROVE FALSE
  BY <1>1, <1>4 DEF Toggle, Schedule
<1>5. ASSUME Delete PROVE FALSE
  BY <1>1, <1>5 DEF Delete, Schedule
<1>6. ASSUME NEW k \in Ticks, Plan(k) PROVE FALSE
  BY <1>1, <1>6 DEF Plan, disabled, Schedule
<1>7. ASSUME NEW k \in Ticks, Admit(k)
      PROVE  admits(schedule, ticks[k].admitted) /\ schedule'.pending = ticks[k].admitted
  BY <1>1, <1>7 DEF Admit, Schedule
<1>8. ASSUME NEW k \in Ticks, Close(k) \/ Settle(k) PROVE samePending(k)
  BY <1>1, <1>8 DEF Close, Settle
<1>9. PICK k \in Ticks : Admit(k) \/ Close(k) \/ Settle(k)
  BY <1>1, <1>2, <1>3, <1>4, <1>5, <1>6 DEF Next, Step, vars, SchemaTightens, GrantChanges, Clock,
     List, Authorize, Mint, Forbidden, Crash
<1> QED
  BY <1>7, <1>8, <1>9

(* No tick reserves a slot with a configuration that was changed, disabled *)
(* or deleted after it listed the schedule: the revision it read is the    *)
(* stored one, and a configuration never changes under its revision.       *)
THEOREM ReservationsAreCurrent == Spec => ReservationsCurrent
<1>1. ASSUME SchedulesInv, [Next]_vars, schedule'.pending \notin {NoTick, schedule.pending}
      PROVE  /\ schedule.enabled /\ ~schedule.deleted
             /\ schedule'.pending.config = schedule.config
  <2>1. ASSUME NEW k \in Ticks, Close(k), samePending(k) PROVE schedule'.pending = NoTick
    <3>1. schedule \in Schedule /\ schedule.there /\ ticks[k].admitted \in Tick
      BY <1>1, <2>1, AtWork DEF Close, Working
    <3> QED
      BY <2>1, <3>1, Closed DEF Close
  <2>2. ASSUME NEW k \in Ticks, Settle(k), samePending(k) PROVE schedule'.pending = NoTick
    <3>1. schedule \in Schedule /\ schedule.there /\ ticks[k].admitted \in Tick
      BY <1>1, <2>2, AtWork DEF Settle, Working
    <3> QED
      BY <2>2, <3>1, Settled DEF Settle
  <2>3. PICK k \in Ticks : /\ Admit(k) /\ admits(schedule, ticks[k].admitted)
                           /\ schedule'.pending = ticks[k].admitted
    BY <1>1, <2>1, <2>2, ReservationSteps
  <2>4. Read(schedule, ticks[k].admitted.revision, ticks[k].admitted.config)
    BY <1>1, <2>3 DEF Admit, SchedulesInv, TickGood
  <2> QED
    BY <2>3, <2>4 DEF admits, current, Read
<1>2. SchedulesInv /\ [Next]_vars =>
        [schedule'.pending \notin {NoTick, schedule.pending} =>
           /\ schedule.enabled /\ ~schedule.deleted
           /\ schedule'.pending.config = schedule.config]_vars
  BY <1>1
<1> QED
  BY <1>2, Invariance, PTL DEF Spec, ReservationsCurrent

(* A reservation ends with its item minted, or closed for good: it is      *)
(* settled by a tick that saw its item, or its slot passes under           *)
(* closedSlot while lastSlot stays below it.                               *)
THEOREM OccurrencesKept == Spec => OccurrenceNotDropped
<1>1. ASSUME SchedulesInv, [Next]_vars, schedule.pending # NoTick,
             schedule'.pending # schedule.pending
      PROVE  IF schedule'.lastSlot = schedule.pending.slot
             THEN items[schedule.pending.slot] # None
             ELSE schedule'.closedSlot >= schedule.pending.slot
  <2>1. /\ schedule \in Schedule /\ schedule.pending \in Tick
        /\ admissionWatermark(schedule) < schedule.pending.slot
        /\ schedule.pending.slot \in 1 .. MaxTime
    BY <1>1 DEF SchedulesInv, SchedulesType, Schedule, DocGood, Occurrence
  <2>2. /\ schedule.pending.slot \in Nat
        /\ schedule.lastSlot \in Nat /\ schedule.closedSlot \in Nat
        /\ schedule.lastSlot < schedule.pending.slot
    <3>1. schedule.pending.slot \in Nat
      BY <2>1, ConstantFacts
    <3>2. schedule.lastSlot \in Nat /\ schedule.closedSlot \in Nat
      BY <2>1 DEF Schedule
    <3>3. admissionWatermark(schedule) \in Nat /\ schedule.lastSlot <= admissionWatermark(schedule)
      BY <2>1, Watermark
    <3> QED
      BY <2>1, <3>1, <3>2, <3>3
  <2>3. PICK k \in Ticks : (Close(k) \/ Settle(k)) /\ samePending(k)
    BY <1>1, ReservationSteps DEF admits
  <2>4. CASE Close(k)
    <3>1. schedule' = closePending(schedule, schedule.pending) /\ schedule.there
      BY <1>1, <2>3, <2>4, AtWork DEF Close, samePending, Working
    <3>2. /\ schedule'.lastSlot = schedule.lastSlot
          /\ schedule'.closedSlot = later(schedule.closedSlot, schedule.pending.slot)
      BY <2>1, <3>1, Closed
    <3> QED
      BY <2>2, <3>2 DEF later
  <2>5. CASE Settle(k)
    <3>1. items[schedule.pending.slot] # None
      BY <1>1, <2>3, <2>5 DEF Settle, samePending, SchedulesInv, TickGood
    <3>2. schedule' = [schedule EXCEPT !.pending = NoTick,
                         !.lastSlot = later(schedule.lastSlot, schedule.pending.slot)]
      BY <2>3, <2>5 DEF Settle, samePending
    <3>3. schedule'.lastSlot = later(schedule.lastSlot, schedule.pending.slot)
      BY <2>1, <3>2, Settled
    <3> QED
      BY <2>2, <3>1, <3>3 DEF later
  <2> QED
    BY <2>3, <2>4, <2>5
<1>2. SchedulesInv /\ [Next]_vars =>
        [schedule.pending # NoTick /\ schedule'.pending # schedule.pending =>
           LET slot == schedule.pending.slot IN
           IF schedule'.lastSlot = slot THEN items[slot] # None
           ELSE schedule'.closedSlot >= slot]_vars
  BY <1>1
<1> QED
  BY <1>2, Invariance, PTL DEF Spec, OccurrenceNotDropped

=============================================================================
