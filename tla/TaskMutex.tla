------------------------------ MODULE TaskMutex ------------------------------
(***************************************************************************)
(* What libs/orchestrator promises about a task, without queues, clocks,   *)
(* credentials or dispatch: at most one live run, outcomes that never      *)
(* change, a bounded streak of automatic retries, and a work payload and a *)
(* closing that wait for the lock.                                         *)
(***************************************************************************)
EXTENDS Naturals, Sequences

CONSTANTS
  Tasks,
  MaxAutoRetries    \* MAX_AUTO_RETRIES

VARIABLES
  holder,    \* the live run of each task, 0 when the lock is free
  outcome,   \* the outcome of every run of each task, "live" for the holder
  streak,    \* losses since the last finished or canceled run
  closed,    \* native item closed
  work       \* version of the work payload

mutexVars == <<holder, outcome, streak, closed, work>>

Settled == {"finished", "canceled", "lost"}

Init ==
  /\ holder = [t \in Tasks |-> 0]
  /\ outcome = [t \in Tasks |-> << >>]
  /\ streak = [t \in Tasks |-> 0]
  /\ closed = [t \in Tasks |-> FALSE]
  /\ work = [t \in Tasks |-> 0]

settledOutcomes(t, o) == [outcome[t] EXCEPT ![holder[t]] = o]

Start(t) ==
  /\ holder[t] = 0 /\ ~closed[t]
  /\ outcome' = [outcome EXCEPT ![t] = Append(@, "live")]
  /\ holder' = [holder EXCEPT ![t] = Len(outcome[t]) + 1]
  /\ UNCHANGED <<streak, closed, work>>

(* A finished or canceled run frees the lock and clears the streak.        *)
Settle(t, o) ==
  /\ holder[t] # 0 /\ o \in {"finished", "canceled"}
  /\ outcome' = [outcome EXCEPT ![t] = settledOutcomes(t, o)]
  /\ holder' = [holder EXCEPT ![t] = 0]
  /\ streak' = [streak EXCEPT ![t] = 0]
  /\ UNCHANGED <<closed, work>>

(* A canceled run is replaced without freeing the lock in between.         *)
Replace(t) ==
  /\ holder[t] # 0
  /\ outcome' = [outcome EXCEPT ![t] = Append(settledOutcomes(t, "canceled"), "live")]
  /\ holder' = [holder EXCEPT ![t] = Len(outcome[t]) + 1]
  /\ streak' = [streak EXCEPT ![t] = 0]
  /\ UNCHANGED <<closed, work>>

Lose(t) ==
  /\ holder[t] # 0
  /\ outcome' = [outcome EXCEPT ![t] = settledOutcomes(t, "lost")]
  /\ holder' = [holder EXCEPT ![t] = 0]
  /\ streak' = [streak EXCEPT ![t] = @ + 1]
  /\ UNCHANGED <<closed, work>>

(* Within the budget the successor takes the lock in the losing step.      *)
LoseAndRetry(t) ==
  /\ holder[t] # 0 /\ streak[t] < MaxAutoRetries
  /\ outcome' = [outcome EXCEPT ![t] = Append(settledOutcomes(t, "lost"), "live")]
  /\ holder' = [holder EXCEPT ![t] = Len(outcome[t]) + 1]
  /\ streak' = [streak EXCEPT ![t] = @ + 1]
  /\ UNCHANGED <<closed, work>>

Close(t) ==
  /\ holder[t] = 0 /\ ~closed[t]
  /\ closed' = [closed EXCEPT ![t] = TRUE]
  /\ UNCHANGED <<holder, outcome, streak, work>>

EditWork(t) ==
  /\ holder[t] = 0
  /\ work' = [work EXCEPT ![t] = @ + 1]
  /\ UNCHANGED <<holder, outcome, streak, closed>>

Next ==
  \E t \in Tasks :
    \/ Start(t) \/ Replace(t) \/ Lose(t) \/ LoseAndRetry(t) \/ Close(t) \/ EditWork(t)
    \/ \E o \in {"finished", "canceled"} : Settle(t, o)

Spec == Init /\ [][Next]_mutexVars

=============================================================================
