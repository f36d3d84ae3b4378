---------------------------- MODULE MCReminders ----------------------------
(***************************************************************************)
(* Small events for Reminders: one with an advance reminder and one at its *)
(* start, edited to other hours and back; and two events for the planner.  *)
(***************************************************************************)
EXTENDS Reminders, TLC

Reminder(e, start, lead) == [event |-> e, start |-> start, lead |-> lead]

(* For the planner: two reminders of one event, its move, and none.        *)
MovedSchedules ==
    {{Reminder(1, 2, 0), Reminder(1, 2, 1)},
     {Reminder(1, 3, 1)},
     {}}

(* For the workers: a reminder before the start, and one at a later start. *)
SwitchedSchedules == {{Reminder(1, 2, 1)}, {Reminder(1, 3, 0)}}

(* For progress: two events that compete for passes of one event, and an   *)
(* edit that makes a reminder stale.                                       *)
TwoSchedules == {{Reminder(1, 2, 1)}, {}}

WorkerSymmetry == Permutations(Workers)
PlannerSymmetry == Permutations(Planners)

=============================================================================
