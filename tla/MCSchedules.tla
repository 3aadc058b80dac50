----------------------------- MODULE MCSchedules -----------------------------
(* Two configurations that share a minute.                                 *)
EXTENDS Schedules

MCDueAt == [c \in Configs |-> IF c = "hourly" THEN {1, 2} ELSE {2}]

=============================================================================
