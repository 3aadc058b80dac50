------------------------------ MODULE Schedules ------------------------------
(***************************************************************************)
(* One native schedule: its document, the operator routes that change it,  *)
(* and the ticks that turn its due slots into work items                   *)
(* (schedule-router.ts, schedule-store.ts, cron.ts, work-mint.ts).         *)
(*                                                                         *)
(* A tick lists the document, reserves a due slot in it (pendingTick),     *)
(* mints the item of the slot and settles the reservation, each in a       *)
(* transaction of its own.  Ticks overlap and crash; the operator, the     *)
(* grants of the schedule's creator and the deployed schema change in      *)
(* between.                                                                *)
(*                                                                         *)
(* A configuration stands for a cron expression and a spec together.  Time *)
(* counts minutes; an item's id is its slot.  An operator's stale          *)
(* expectedRevision is refused without effect, so operators act here on    *)
(* the revision they find.                                                 *)
(***************************************************************************)
EXTENDS Integers

CONSTANTS
  Configs,     \* cron expressions with their specs
  DueAt,       \* the minutes each of them matches
  Ticks,       \* calls of the tick route that can be in flight together
  MaxTime,     \* bound: minutes
  MaxChanges,  \* bound: operator, grant and schema changes
  MaxFaults    \* bound: crashed ticks

ASSUME SchedulesAssumption ==
  /\ "none" \notin Configs
  /\ DueAt \in [Configs -> SUBSET (1 .. MaxTime)]
  /\ MaxTime \in Nat /\ MaxChanges \in Nat /\ MaxFaults \in Nat

VARIABLES
  schedule,  \* the document
  items,     \* the work item of each slot: the configuration it was minted with
  ticks,     \* the ticks in flight
  granted,   \* the creator's grant covers the spec
  parses,    \* the configurations the deployed schema accepts
  now,
  changes,   \* changes left
  faults     \* faults left

world == <<granted, parses, now, changes, faults>>
vars == <<schedule, items, ticks, granted, parses, now, changes, faults>>

-----------------------------------------------------------------------------
(* The document *)

None == "none"

NoTick == [slot |-> 0, revision |-> 0, config |-> None]

NoSchedule == [there |-> FALSE, config |-> None, enabled |-> FALSE, revision |-> 0,
               deleted |-> FALSE, pending |-> NoTick, lastSlot |-> 0, closedSlot |-> 0]

later(a, b) == IF a < b THEN b ELSE a

\* Slip: only minted slots count.
admissionWatermark_Minted(s) == s.lastSlot

admissionWatermark(s) == later(s.lastSlot, s.closedSlot)

current(s) == s.there /\ ~s.deleted

\* Slip: ticks look at enabled schedules only.
ticked_Enabled(s) == s.enabled /\ current(s)

ticked(s) == (s.enabled /\ current(s)) \/ s.pending # NoTick

\* Slip: the current minute is not due yet.
latestDueSlot_Exclusive(c, at, after) ==
  LET due    == {m \in DueAt[c] : m < at /\ m > after}
      latest == {m \in due : \A n \in due : n <= m}
  IN  IF latest = {} THEN 0 ELSE CHOOSE m \in latest : TRUE

(* The latest due minute after the watermark, 0 if there is none.          *)
latestDueSlot(c, at, after) ==
  LET due    == {m \in DueAt[c] : m <= at /\ m > after}
      latest == {m \in due : \A n \in due : n <= m}
  IN  IF latest = {} THEN 0 ELSE CHOOSE m \in latest : TRUE

-----------------------------------------------------------------------------
(* Operators *)

change == changes > 0 /\ changes' = changes - 1

(* Its slots begin after its creation; an id is never used again.          *)
Create(c, enabled) ==
  /\ change /\ ~schedule.there /\ granted /\ c \in parses
  /\ schedule' = [NoSchedule EXCEPT !.there = TRUE, !.config = c, !.enabled = enabled,
                                    !.revision = 1, !.lastSlot = now]
  /\ UNCHANGED <<items, ticks, granted, parses, now, faults>>

(* To be enabled a configuration must parse and its creator be granted.    *)
Update(c, enabled) ==
  /\ change /\ current(schedule) /\ c \in parses
  /\ enabled => granted
  /\ schedule' = [schedule EXCEPT !.config = c, !.enabled = enabled, !.revision = @ + 1]
  /\ UNCHANGED <<items, ticks, granted, parses, now, faults>>

Toggle(enabled) ==
  /\ change /\ current(schedule)
  /\ enabled => granted /\ schedule.config \in parses
  /\ schedule' = [schedule EXCEPT !.enabled = enabled, !.revision = @ + 1]
  /\ UNCHANGED <<items, ticks, granted, parses, now, faults>>

(* A tombstone, which keeps a reservation made before.                     *)
Delete ==
  /\ change /\ current(schedule)
  /\ schedule' = [schedule EXCEPT !.enabled = FALSE, !.deleted = TRUE, !.revision = @ + 1]
  /\ UNCHANGED <<items, ticks, granted, parses, now, faults>>

GrantChanges ==
  /\ change /\ granted' = ~granted
  /\ UNCHANGED <<schedule, items, ticks, parses, now, faults>>

(* A deployment tightens the schema under a stored configuration.          *)
SchemaTightens(c) ==
  /\ change /\ c \in parses /\ parses' = parses \ {c}
  /\ UNCHANGED <<schedule, items, ticks, granted, now, faults>>

-----------------------------------------------------------------------------
(* Ticks *)

Idle == [pc |-> "idle", snapshot |-> NoSchedule, at |-> 0, admitted |-> NoTick]

go(k, pc) == ticks' = [ticks EXCEPT ![k].pc = pc]
end(k) == ticks' = [ticks EXCEPT ![k] = Idle]

\* A reservation found in the listed document is taken up as it is.
List(k) ==
  /\ ticks[k] = Idle /\ ticked(schedule)
  /\ ticks' = [ticks EXCEPT ![k] =
       IF schedule.pending = NoTick
       THEN [Idle EXCEPT !.pc = "plan", !.snapshot = schedule, !.at = now]
       ELSE [Idle EXCEPT !.pc = "parse", !.admitted = schedule.pending]]
  /\ UNCHANGED <<schedule, items, world>>

disabled(s) == [s EXCEPT !.enabled = FALSE, !.revision = @ + 1]

(* An unparsable schedule is disabled, if it is still the one listed.      *)
Plan(k) ==
  LET s    == ticks[k].snapshot
      slot == latestDueSlot(s.config, ticks[k].at, admissionWatermark(s))
      same == schedule.enabled /\ current(schedule) /\ schedule.revision = s.revision
  IN  /\ ticks[k].pc = "plan"
      /\ \/ /\ s.config \notin parses /\ end(k)
            /\ schedule' = IF same THEN disabled(schedule) ELSE schedule
         \/ s.config \in parses /\ slot = 0 /\ end(k) /\ UNCHANGED schedule
         \/ /\ s.config \in parses /\ slot # 0
            /\ ticks' = [ticks EXCEPT ![k] = [Idle EXCEPT !.pc = "admit",
                 !.admitted = [slot |-> slot, revision |-> s.revision, config |-> s.config]]]
            /\ UNCHANGED schedule
      /\ UNCHANGED <<items, world>>

\* Slip: the listed configuration is reserved without comparing its revision.
admits_AnyRevision(s, p) ==
  /\ s.enabled /\ current(s) /\ s.pending = NoTick /\ admissionWatermark(s) < p.slot

admits(s, p) ==
  /\ s.enabled /\ current(s) /\ s.pending = NoTick
  /\ s.revision = p.revision /\ admissionWatermark(s) < p.slot

Admit(k) ==
  LET p == ticks[k].admitted IN
  /\ ticks[k].pc = "admit"
  /\ \/ admits(schedule, p) /\ schedule' = [schedule EXCEPT !.pending = p] /\ go(k, "parse")
     \/ ~admits(schedule, p) /\ end(k) /\ UNCHANGED schedule
  /\ UNCHANGED <<items, world>>

(* The frozen spec is parsed and the grant is checked, before the mint.    *)
Authorize(k) ==
  /\ ticks[k].pc = "parse"
  /\ \/ ticks[k].admitted.config \notin parses /\ go(k, "close")
     \/ ticks[k].admitted.config \in parses /\ granted /\ go(k, "mint")
     \/ ticks[k].admitted.config \in parses /\ ~granted /\ go(k, "forbidden")
  /\ UNCHANGED <<schedule, items, world>>

\* Slip: a slot is settled without its item.
Mint_Skipped(k) ==
  /\ ticks[k].pc = "mint" /\ go(k, "settle")
  /\ UNCHANGED <<schedule, items, world>>

(* One request transaction: the item of the slot is created once, and a    *)
(* stored item of another spec is a conflict, which ends the tick.         *)
Mint(k) ==
  LET p == ticks[k].admitted IN
  /\ ticks[k].pc = "mint"
  /\ \/ items[p.slot] = None /\ items' = [items EXCEPT ![p.slot] = p.config] /\ go(k, "settle")
     \/ items[p.slot] = p.config /\ go(k, "settle") /\ UNCHANGED items
     \/ items[p.slot] \notin {None, p.config} /\ end(k) /\ UNCHANGED items
  /\ UNCHANGED <<schedule, world>>

(* Denied: an item another tick minted before is kept.                     *)
Forbidden(k) ==
  LET p == ticks[k].admitted IN
  /\ ticks[k].pc = "forbidden"
  /\ \/ items[p.slot] = None /\ go(k, "close")
     \/ items[p.slot] = p.config /\ go(k, "settle")
     \/ items[p.slot] \notin {None, p.config} /\ end(k)
  /\ UNCHANGED <<schedule, items, world>>

samePending(k) == schedule.pending = ticks[k].admitted

closePending(s, p) ==
  LET closed == [s EXCEPT !.pending = NoTick, !.closedSlot = later(@, p.slot)] IN
  IF s.enabled /\ current(s) /\ s.revision = p.revision THEN disabled(closed) ELSE closed

Close(k) ==
  /\ ticks[k].pc = "close" /\ end(k)
  /\ schedule' = IF samePending(k) THEN closePending(schedule, ticks[k].admitted) ELSE schedule
  /\ UNCHANGED <<items, world>>

Settle(k) ==
  /\ ticks[k].pc = "settle" /\ end(k)
  /\ schedule' = IF samePending(k)
                 THEN [schedule EXCEPT !.pending = NoTick,
                         !.lastSlot = later(@, ticks[k].admitted.slot)]
                 ELSE schedule
  /\ UNCHANGED <<items, world>>

Crash(k) ==
  /\ ticks[k] # Idle /\ faults > 0 /\ faults' = faults - 1
  /\ end(k)
  /\ UNCHANGED <<schedule, items, granted, parses, now, changes>>

Clock ==
  /\ now < MaxTime /\ now' = now + 1
  /\ UNCHANGED <<schedule, items, ticks, granted, parses, changes, faults>>

-----------------------------------------------------------------------------
Init ==
  /\ schedule = NoSchedule
  /\ items = [m \in 1 .. MaxTime |-> None]
  /\ ticks = [k \in Ticks |-> Idle]
  /\ granted = TRUE /\ parses = Configs /\ now = 0
  /\ changes = MaxChanges /\ faults = MaxFaults

Step(k) ==
  \/ Plan(k) \/ Admit(k) \/ Authorize(k) \/ Mint(k) \/ Forbidden(k) \/ Close(k) \/ Settle(k)

Next ==
  \/ \E c \in Configs : SchemaTightens(c)
  \/ \E c \in Configs, enabled \in BOOLEAN : Create(c, enabled) \/ Update(c, enabled)
  \/ \E enabled \in BOOLEAN : Toggle(enabled)
  \/ Delete \/ GrantChanges \/ Clock
  \/ \E k \in Ticks : List(k) \/ Step(k) \/ Crash(k)

Spec == Init /\ [][Next]_vars

(* The daemon calls the tick route every five minutes, whatever it answers. *)
Fairness == \A k \in Ticks : WF_vars(Step(k)) /\ WF_vars(List(k))

FairSpec == Spec /\ Fairness

-----------------------------------------------------------------------------
(* Properties *)

(* A slot is reserved from the configuration in force: no tick reserves    *)
(* with a spec or cron that was changed, disabled or deleted after it      *)
(* listed the schedule (the tick's admission transaction).                 *)
ReservationsCurrent ==
  [][schedule'.pending \notin {NoTick, schedule.pending} =>
       /\ schedule.enabled /\ ~schedule.deleted
       /\ schedule'.pending.config = schedule.config]_vars

(* A reservation never disagrees with an item that exists for its slot: no *)
(* slot is served twice under two configurations, also when it was closed  *)
(* while another tick was minting it (lastClosedSlotAt).                   *)
ReservationMatchesItem ==
  LET p == schedule.pending IN
  p # NoTick => items[p.slot] \in {None, p.config}

(* A reservation ends with its item minted, or closed for good: no crash   *)
(* or overlapping tick drops an occurrence or counts it as minted.         *)
OccurrenceNotDropped ==
  [][schedule.pending # NoTick /\ schedule'.pending # schedule.pending =>
       LET slot == schedule.pending.slot IN
       IF schedule'.lastSlot = slot THEN items[slot] # None
       ELSE schedule'.closedSlot >= slot]_vars

(* Every reservation is settled or closed, also after its schedule is      *)
(* disabled or deleted (listTickSchedules).                                *)
ReservationsSettle == schedule.pending # NoTick ~> schedule.pending = NoTick

(* An enabled schedule does not stay behind: its due slots are served or   *)
(* superseded, or it is disabled or deleted.                               *)
DueSlotsServed ==
  \A m \in 1 .. MaxTime :
    (schedule.enabled /\ m <= now /\ m \in DueAt[schedule.config]
       /\ admissionWatermark(schedule) < m)
      ~> (~schedule.enabled \/ m \notin DueAt[schedule.config] \/ admissionWatermark(schedule) >= m)

=============================================================================
