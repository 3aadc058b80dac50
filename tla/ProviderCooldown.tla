-------------------------- MODULE ProviderCooldown --------------------------
(***************************************************************************)
(* The admission hold of one provider whose runs may be claimed together   *)
(* (claude).  A run that reports a provider limit records the hold; every  *)
(* transaction that writes a finished run derives its hold again from the  *)
(* document and overwrites the provider's record (memory-store.ts #apply,  *)
(* firestore-store.ts #writeProviderCooldown).                             *)
(*                                                                         *)
(* An expiry is the number of Ticks left.  The expiry a run's document     *)
(* yields is fixed by its settlement time and its message.                 *)
(***************************************************************************)
EXTENDS Naturals

CONSTANTS
  Runs,    \* runs of the provider, one per task
  Probe,   \* PROVIDER_LIMIT_PROBE_MS, in ticks
  Reset    \* a reset the provider's message names, in ticks

VARIABLES
  runs,      \* the Run documents
  cooldown   \* expiry of the provider's hold

vars == <<runs, cooldown>>

-----------------------------------------------------------------------------

QueuedRun == [state |-> "live", queue |-> "queued", expires |-> 0]

left(n) == IF n = 0 THEN 0 ELSE n - 1

providerIsCoolingDown == cooldown > 0

(* A run that ended without a provider limit yields no hold.               *)
providerCooldownForRun(run) == IF run.state = "limited" THEN run.expires ELSE cooldown

apply(r, run) ==
  /\ runs' = [runs EXCEPT ![r] = run]
  /\ cooldown' = providerCooldownForRun(run)

Claim(r) ==
  /\ runs[r].state = "live" /\ runs[r].queue = "queued" /\ ~providerIsCoolingDown
  /\ runs' = [runs EXCEPT ![r].queue = "claimed"]
  /\ UNCHANGED cooldown

Report(r, hold) ==
  /\ runs[r].state = "live" /\ runs[r].queue = "claimed"
  /\ apply(r, [runs[r] EXCEPT !.state = "limited", !.expires = hold])

ReportOther(r) ==
  /\ runs[r].state = "live" /\ runs[r].queue = "claimed"
  /\ apply(r, [runs[r] EXCEPT !.state = "ended"])

(* The executor reports the worker's exit after its run settled.           *)
RetireSettledClaim(r) ==
  /\ runs[r].state # "live" /\ runs[r].queue = "claimed"
  /\ apply(r, [runs[r] EXCEPT !.queue = "retired"])

Tick ==
  /\ runs' = [r \in Runs |-> [runs[r] EXCEPT !.expires = left(@)]]
  /\ cooldown' = left(cooldown)

Init ==
  /\ runs = [r \in Runs |-> QueuedRun]
  /\ cooldown = 0

Next ==
  \/ Tick
  \/ \E r \in Runs :
       \/ Claim(r) \/ ReportOther(r) \/ RetireSettledClaim(r)
       \/ \E hold \in {Probe, Reset} : Report(r, hold)

Spec == Init /\ [][Next]_vars

-----------------------------------------------------------------------------

(* Retiring the claim of a run that already settled leaves the provider's  *)
(* hold where it is.                                                       *)
RetirementKeepsCooldown ==
  [][\A r \in Runs :
       runs[r].queue = "claimed" /\ runs'[r].queue = "retired" => cooldown' = cooldown]_vars

=============================================================================
