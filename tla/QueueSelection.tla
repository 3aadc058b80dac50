--------------------------- MODULE QueueSelection ---------------------------
(***************************************************************************)
(* Which queued run an executor's poll claims (store.ts                    *)
(* selectFairQueuedRun, claimQueuedRun of the stores): a provider that is  *)
(* not cooling down and below its ceiling, by least occupancy and then by  *)
(* the age of its oldest candidate, and inside it a class by the           *)
(* provider's durable turn, 4:2:1, oldest first.  A claim may be released  *)
(* with a deferral while its issue cannot be read (runs-router.ts claim).  *)
(*                                                                         *)
(* A member of Runs stands for one run after another of its provider and   *)
(* class, so that demand never ends.  Creation times are distinct.         *)
(***************************************************************************)
EXTENDS Integers, FiniteSets

CONSTANTS
  Runs,
  Pipelines,
  PipelineOf,   \* the provider of each run
  PriorityOf,   \* its class
  Ceiling,      \* QUEUE_PIPELINE_MAX_LIVE_CLAIMS: a provider without one is not limited
  Grants,       \* the executors, each by the pipelines it is granted
  Deferrable,   \* runs whose issue may be unreadable at a claim
  Limitable,    \* runs that may end in a provider's limit
  Cancelable    \* runs that may be withdrawn while they wait

Classes == {"urgent", "normal", "background"}

ASSUME SelectionAssumption ==
  /\ PipelineOf \in [Runs -> Pipelines] /\ PriorityOf \in [Runs -> Classes]
  /\ DOMAIN Ceiling \subseteq Pipelines /\ \A p \in DOMAIN Ceiling : Ceiling[p] \in Nat
  /\ Grants \subseteq SUBSET Pipelines

VARIABLES
  state,      \* of each run: absent, queued, deferred or claimed
  older,      \* pairs of live runs, the one created first before the other
  positions,  \* each provider's place in the cycle of turns
  cooling,    \* providers that are cooling down
  passed      \* claims of its provider since a run became the head of its class

vars == <<state, older, positions, cooling, passed>>

-----------------------------------------------------------------------------
(* The cycle of turns *)

Turns == <<"urgent", "urgent", "normal", "urgent", "urgent", "normal", "background">>
Places == 0 .. 6

turn(position, step) == Turns[((position + step) % 7) + 1]

\* The steps to the first turn of one of the classes.
stepsTo(position, classes) ==
  CHOOSE step \in Places : /\ turn(position, step) \in classes
                           /\ \A k \in 0 .. step - 1 : turn(position, k) \notin classes

\* Slip: the cursor stays on the turn it served.
queuePriorityTurnAfter_Stays(position, class) == (position + stepsTo(position, {class})) % 7

queuePriorityTurnAfter(position, class) == (position + stepsTo(position, {class}) + 1) % 7

-----------------------------------------------------------------------------
(* Selection *)

first(S) == {r \in S : \A q \in S : <<q, r>> \notin older}

isQueueAdmissionCandidate(r) == state[r] = "queued"

candidates(p) == {r \in Runs : PipelineOf[r] = p /\ isQueueAdmissionCandidate(r)}

claims(p) == {r \in Runs : PipelineOf[r] = p /\ state[r] = "claimed"}

occupancy(p) == Cardinality(claims(p))

\* The first run of the class whose turn is next.
selectPriorityQueuedRun(p) ==
  LET waiting == candidates(p)
      class   == turn(positions[p], stepsTo(positions[p], {PriorityOf[r] : r \in waiting}))
  IN  first({r \in waiting : PriorityOf[r] = class})

belowCeiling(p) == p \in DOMAIN Ceiling => occupancy(p) < Ceiling[p]

\* The providers a poll may claim from.
open(pipelines) ==
  {p \in pipelines \ cooling : candidates(p) # {} /\ belowCeiling(p)}

\* Slip: ties go to the provider that comes first in the grant.
precedes_Grant(p, q) ==
  \/ occupancy(p) < occupancy(q)
  \/ occupancy(p) = occupancy(q) /\ (p = q \/ p = "codex")

precedes(p, q) ==
  \/ occupancy(p) < occupancy(q)
  \/ /\ occupancy(p) = occupancy(q)
     /\ \E r \in first(candidates(p)), s \in first(candidates(q)) : <<s, r>> \notin older

(* Creation times being distinct, the one run a poll claims.               *)
selectFairQueuedRun(pipelines) ==
  LET ps == open(pipelines)
  IN  UNION {selectPriorityQueuedRun(p) : p \in {p \in ps : \A q \in ps : precedes(p, q)}}

-----------------------------------------------------------------------------
(* Actions *)

\* The oldest candidate of its provider and class.
ClassHead(st, ol, r) ==
  /\ st[r] = "queued"
  /\ \A q \in Runs :
       st[q] = "queued" /\ PipelineOf[q] = PipelineOf[r] /\ PriorityOf[q] = PriorityOf[r]
         => <<q, r>> \notin ol

(* The runs become st, in the order ol, by claims of the given providers.  *)
becomes(st, ol, claimed) ==
  /\ state' = st /\ older' = ol
  /\ passed' = [r \in Runs |->
       IF ~ClassHead(st, ol, r) THEN 0
       ELSE IF ClassHead(state, older, r) /\ PipelineOf[r] \in claimed
            THEN passed[r] + 1 ELSE passed[r]]

\* A request is admitted.
Arrive(r) ==
  /\ state[r] = "absent"
  /\ becomes([state EXCEPT ![r] = "queued"],
             older \cup ({q \in Runs : state[q] # "absent"} \X {r}), {})
  /\ UNCHANGED <<positions, cooling>>

(* The run and the cursor commit together.                                 *)
ClaimQueuedRun(pipelines) ==
  /\ open(pipelines) # {}
  /\ \E r \in selectFairQueuedRun(pipelines) :
       /\ becomes([state EXCEPT ![r] = "claimed"], older, {PipelineOf[r]})
       /\ positions' = [positions EXCEPT ![PipelineOf[r]] =
                          queuePriorityTurnAfter(@, PriorityOf[r])]
  /\ UNCHANGED cooling

(* The claim goes back to the queue, at its age and for later.             *)
ReleaseQueuedRunClaim(r) ==
  /\ r \in Deferrable /\ state[r] = "claimed"
  /\ becomes([state EXCEPT ![r] = "deferred"], older, {})
  /\ UNCHANGED <<positions, cooling>>

\* Five minutes later, however often.
DeferralEnds(r) ==
  /\ state[r] = "deferred"
  /\ becomes([state EXCEPT ![r] = "queued"], older, {})
  /\ UNCHANGED <<positions, cooling>>

withdraws(r) ==
  becomes([state EXCEPT ![r] = "absent"], {c \in older : r \notin {c[1], c[2]}}, {})

(* The run finishes, is canceled or lost; a provider limit holds its       *)
(* provider.                                                               *)
Settle(r, limited) ==
  /\ state[r] = "claimed" /\ withdraws(r)
  /\ limited => r \in Limitable
  /\ cooling' = IF limited THEN cooling \cup {PipelineOf[r]} ELSE cooling
  /\ UNCHANGED positions

\* A run that waits is canceled or replaced.
Cancel(r) ==
  /\ r \in Cancelable /\ state[r] \in {"queued", "deferred"} /\ withdraws(r)
  /\ UNCHANGED <<positions, cooling>>

CooldownEnds(p) ==
  /\ p \in cooling /\ cooling' = cooling \ {p}
  /\ UNCHANGED <<state, older, positions, passed>>

Init ==
  /\ state = [r \in Runs |-> "absent"]
  /\ older = {}
  /\ positions = [p \in Pipelines |-> 0]
  /\ cooling = {}
  /\ passed = [r \in Runs |-> 0]

Next ==
  \/ \E r \in Runs : Arrive(r) \/ ReleaseQueuedRunClaim(r) \/ DeferralEnds(r) \/ Cancel(r)
  \/ \E r \in Runs, limited \in BOOLEAN : Settle(r, limited)
  \/ \E pipelines \in Grants : ClaimQueuedRun(pipelines)
  \/ \E p \in Pipelines : CooldownEnds(p)

Spec == Init /\ [][Next]_vars

(* Executors keep polling; a claimed run ends by its lease at the latest,  *)
(* and no cooldown or deferral lasts for ever.  Nothing is asked of        *)
(* arrivals and cancellations.                                             *)
Fairness ==
  /\ \A pipelines \in Grants : []<>(open(pipelines) = {}) \/ []<><<ClaimQueuedRun(pipelines)>>_vars
  /\ \A r \in Runs : []<>(state[r] # "claimed") /\ []<>(state[r] # "deferred")
  /\ \A p \in Pipelines : []<>(p \notin cooling)

FairSpec == Spec /\ Fairness

-----------------------------------------------------------------------------
(* Properties *)

\* The longest way from one turn of a class to its next, less one.
WaitBound == [urgent |-> 2, normal |-> 3, background |-> 6]

(* The head of a class that stays eligible is served by its turn, however  *)
(* many of the other classes arrive: a background head within seven claims *)
(* of its provider.                                                        *)
HeadServedByTurn == \A r \in Runs : passed[r] <= WaitBound[PriorityOf[r]]

(* Who can take every turn of r: its own class, and other providers.       *)
rivals(r) ==
  {q \in Runs \ {r} : PipelineOf[q] = PipelineOf[r] => PriorityOf[q] = PriorityOf[r]}

(* A run that is queued is claimed or withdrawn in the end, whatever its   *)
(* class and provider and the grants of the executors, while requests of   *)
(* every other keep coming and runs of other classes of its provider are   *)
(* deferred again and again (selectFairQueuedRun, releaseQueuedRunClaim).  *)
(* The premise is what the code does not provide: a deferred run keeps its *)
(* age and is back after five minutes, so an older rival whose issue stays *)
(* unreadable takes the turn of r each time, and r starves behind it.      *)
NoRunStarves ==
  \A r \in Runs :
    (\A q \in rivals(r) : <>[]~(state[q] = "deferred" /\ <<q, r>> \in older))
      => (state[r] = "queued" ~> state[r] \in {"claimed", "absent"})

=============================================================================
