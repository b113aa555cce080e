---------------------------- MODULE MCRecurrence ----------------------------
(***************************************************************************)
(* A scaled-down calendar for Recurrence: months of 3 to 5 days, weeks of  *)
(* three days, two ticks a day, a horizon of two months.                   *)
(***************************************************************************)
EXTENDS Recurrence

SmallMonths == <<5, 3, 5, 4, 3, 5, 5>>

\* Any time of the first four months.
SmallStarts == 0 .. 33

\* Any time up to a month after the latest horizon.
SmallUntils == 1 .. 54
=============================================================================
