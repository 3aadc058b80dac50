---------------------------- MODULE OutcomeLabel ----------------------------
(***************************************************************************)
(* The status:needs-human label of one GitHub issue, projected by the      *)
(* drains that deliver the outcomes of its runs (orchestrator-dispatch.ts  *)
(* handleReportOutcome).  A handler posts the outcome comment, looks for a *)
(* later run that decides the label otherwise, writes the label, and       *)
(* settles its entry: four awaits between which other drains and later     *)
(* runs proceed.                                                           *)
(*                                                                         *)
(* Runs are numbered by generation, and settle in that order, as the task  *)
(* mutex of RunLifecycle has it.  Which pending entry a drain claims is    *)
(* left open: claims are fair, not first-in first-out.  Label requests and *)
(* history reads succeed here; the code lets either fail silently.         *)
(***************************************************************************)
EXTENDS Naturals

CONSTANTS
  Drains,   \* concurrent drainOutbox invocations
  MaxRuns   \* bound: runs of the issue

VARIABLES
  outcome,  \* how each run settled, "none" before it did
  report,   \* its report-outcome entry
  drains,   \* what each drain is doing, and for which run
  label     \* the issue carries status:needs-human

vars == <<outcome, report, drains, label>>

-----------------------------------------------------------------------------

Runs == 1 .. MaxRuns

(* "park" is a finished run whose summary is park; "success" is finished   *)
(* and ok; "other" is failed, canceled or lost.                            *)
Outcomes == {"park", "success", "other"}

Idle == [at |-> "idle", run |-> 0]

runNeedsHumanLabel(r) == outcome[r] = "park"

runResolvesNeedsHumanLabel(r) == outcome[r] = "success"

hasLaterSuccessfulNonParkRun(r) == \E c \in Runs : c > r /\ runResolvesNeedsHumanLabel(c)

hasLaterNeedsHumanRun(r) == \E c \in Runs : c > r /\ runNeedsHumanLabel(c)

-----------------------------------------------------------------------------

(* A run settles, and emits its report in the same transaction.            *)
SettleRun(r, o) ==
  /\ outcome[r] = "none" /\ \A q \in Runs : q < r => outcome[q] # "none"
  /\ outcome' = [outcome EXCEPT ![r] = o]
  /\ report' = [report EXCEPT ![r] = "pending"]
  /\ UNCHANGED <<drains, label>>

Claim(d, r) ==
  /\ drains[d] = Idle /\ report[r] = "pending"
  /\ report' = [report EXCEPT ![r] = "leased"]
  /\ drains' = [drains EXCEPT ![d] = [at |-> "post", run |-> r]]
  /\ UNCHANGED <<outcome, label>>

to(d, at) == drains' = [drains EXCEPT ![d].at = at]

PostComment(d) ==
  /\ drains[d].at = "post" /\ to(d, "check")
  /\ UNCHANGED <<outcome, report, label>>

(* The comment failed, or the drain died: the entry is claimable again.    *)
GiveUp(d) ==
  /\ drains[d] # Idle
  /\ report' = [report EXCEPT ![drains[d].run] = "pending"]
  /\ drains' = [drains EXCEPT ![d] = Idle]
  /\ UNCHANGED <<outcome, label>>

CheckLaterRuns(d) ==
  LET r == drains[d].run IN
  /\ drains[d].at = "check"
  /\ to(d, IF runNeedsHumanLabel(r) /\ ~hasLaterSuccessfulNonParkRun(r) THEN "add"
           ELSE IF runResolvesNeedsHumanLabel(r) /\ ~hasLaterNeedsHumanRun(r) THEN "remove"
           ELSE "settle")
  /\ UNCHANGED <<outcome, report, label>>

WriteLabel(d) ==
  /\ drains[d].at \in {"add", "remove"}
  /\ label' = (drains[d].at = "add")
  /\ to(d, "settle")
  /\ UNCHANGED <<outcome, report>>

SettleEntry(d) ==
  /\ drains[d].at = "settle"
  /\ report' = [report EXCEPT ![drains[d].run] = "done"]
  /\ drains' = [drains EXCEPT ![d] = Idle]
  /\ UNCHANGED <<outcome, label>>

Init ==
  /\ outcome = [r \in Runs |-> "none"]
  /\ report = [r \in Runs |-> "none"]
  /\ drains = [d \in Drains |-> Idle]
  /\ label = FALSE

Next ==
  \/ \E r \in Runs, o \in Outcomes : SettleRun(r, o)
  \/ \E d \in Drains :
       \/ \E r \in Runs : Claim(d, r)
       \/ PostComment(d) \/ GiveUp(d) \/ CheckLaterRuns(d) \/ WriteLabel(d) \/ SettleEntry(d)

Spec == Init /\ [][Next]_vars

-----------------------------------------------------------------------------

decisive(r) == runNeedsHumanLabel(r) \/ runResolvesNeedsHumanLabel(r)

latestParks ==
  \E r \in Runs : runNeedsHumanLabel(r) /\ \A c \in Runs : c > r => ~decisive(c)

(* Once every report is delivered, the issue carries the label exactly     *)
(* when the latest run that says anything about it parked, in whatever     *)
(* order the reports were retried and delivered.                           *)
LabelFollowsLatestRun ==
  (\A r \in Runs : report[r] \in {"none", "done"}) => label = latestParks

=============================================================================
