----------------------------- MODULE Recurrence -----------------------------
(***************************************************************************)
(* NextOccurrences (internal/schedule/recur.go): the dates of a weekly or  *)
(* monthly series, one iteration of the loops of expandWeekly and          *)
(* expandMonthly per step.                                                 *)
(*                                                                         *)
(* A time counts ticks of local time since the first day of month 1, so    *)
(* the calendar has no daylight saving; a day has TicksPerDay of them.     *)
(* The calendar is scaled down: months and weeks may have any lengths.     *)
(***************************************************************************)
EXTENDS Integers, Sequences, Functions

CONSTANTS
  MonthLength,    (* days of month 1, 2, ...                                 *)
  WeekLength,     (* days of a week; day 0 is its last, a Sunday              *)
  TicksPerDay,
  HorizonMonths,  (* the const of the same name                              *)
  MaxOut,         (* the 400 of both loops                                   *)
  Starts,         (* times a series may start                                *)
  Untils,         (* until dates, beside none                                *)
  NoUntil

ASSUME RecurrenceAssumption ==
  /\ MonthLength \in Seq(Nat \ {0})
  /\ {WeekLength, TicksPerDay, HorizonMonths, MaxOut} \subseteq Nat \ {0}
  /\ Starts \subseteq Nat /\ Untils \subseteq Nat
  /\ NoUntil \notin Nat

VARIABLES
  kind,   (* "weekly" or "monthly"                                           *)
  want,   (* the chosen weekdays                                             *)
  start,
  until,  (* a time or NoUntil                                               *)
  at,     (* loop variable: the day of the week loop, the month of the other *)
  out,    (* the dates found                                                 *)
  pc      (* "called", "walk", "returned" or "rejected"                      *)

input == <<kind, want, start, until>>
vars == <<input, at, out, pc>>

-----------------------------------------------------------------------------
(* The calendar (package time).                                            *)

MonthStart[m \in 1 .. Len(MonthLength)] ==
  IF m = 1 THEN 0 ELSE MonthStart[m - 1] + MonthLength[m - 1]

Months == DOMAIN MonthLength
DaysOf(m) == MonthStart[m] .. (MonthStart[m] + MonthLength[m] - 1)

Day(t) == t \div TicksPerDay
Clock(t) == t % TicksPerDay
At(d, clock) == d * TicksPerDay + clock
Weekday(d) == d % WeekLength
MonthOf(d) == CHOOSE m \in Months : d \in DaysOf(m)
DayOfMonth(d) == d - MonthStart[MonthOf(d)]

\* start.AddDate(0, HorizonMonths, 0): a day the month does not have runs
\* over into the next month.
HorizonOf(t) ==
  At(MonthStart[MonthOf(Day(t)) + HorizonMonths] + DayOfMonth(Day(t)), Clock(t))

\* The calendar goes on past every horizon, and no horizon is as far away as
\* MaxOut days (the code: six months and 400).
ASSUME CalendarIsLong ==
  \A t \in Starts :
    /\ \E m \in Months : Day(t) \in DaysOf(m) /\ m + HorizonMonths \in Months
    /\ Day(HorizonOf(t)) < MonthStart[Len(MonthLength)]
    /\ Day(HorizonOf(t)) - Day(t) < MaxOut

-----------------------------------------------------------------------------
(* The decisions of the loops, some after a faulty variant.                *)

Unshifted(d) == d
\* Days are chosen from Monday = 1; package time has Sunday = 0.
toGoWeekday(d) == IF d = WeekLength THEN 0 ELSE d
Wanted == {toGoWeekday(d) : d \in want}

\* The until date itself is included.
AfterUntil(t) == until # NoUntil /\ t > until

\* expandWeekly compares the midnight of the day with the horizon.
DayAfterHorizon(d) == At(d, 0) > HorizonOf(start)

NotBeforeStart(t) == t >= start

\* The time of the post on day d.
OnDay(d) == At(d, Clock(start))

OverflowingMonthDay(m) == MonthStart[m] + DayOfMonth(Day(start))
\* clampMonthDay: the last day of a month that is too short for start's day.
ClampMonthDay(m) ==
  LET dom == DayOfMonth(Day(start))
  IN  MonthStart[m] + (IF dom < MonthLength[m] THEN dom ELSE MonthLength[m] - 1)

-----------------------------------------------------------------------------
Init ==
  /\ kind \in {"weekly", "monthly"}
  /\ want \in SUBSET (1 .. WeekLength + 1)
  /\ kind = "monthly" => want = {}
  /\ start \in Starts
  /\ until \in Untils \cup {NoUntil}
  /\ at = 0
  /\ out = <<>>
  /\ pc = "called"

\* normalizeWeekdays
GoodWeekdays == want # {} /\ want \subseteq 1 .. WeekLength

\* "until must be after start", or no weekday chosen, or none there is.
Reject ==
  /\ pc = "called"
  /\ \/ until # NoUntil /\ until <= start
     \/ kind = "weekly" /\ ~GoodWeekdays
  /\ pc' = "rejected"
  /\ UNCHANGED <<input, at, out>>

Enter ==
  /\ pc = "called"
  /\ until # NoUntil => until > start
  /\ kind = "weekly" => GoodWeekdays
  /\ at' = IF kind = "weekly" THEN Day(start) ELSE MonthOf(Day(start))
  /\ pc' = "walk"
  /\ UNCHANGED <<input, out>>

Full(dates) == Len(dates) > MaxOut

\* One iteration that is not left by a break before the append.
Iterate(t, chosen) ==
  /\ out' = IF NotBeforeStart(t) /\ chosen THEN Append(out, t) ELSE out
  /\ at' = at + 1
  /\ pc' = IF Full(out') THEN "returned" ELSE "walk"
  /\ UNCHANGED input

Return ==
  /\ pc' = "returned"
  /\ UNCHANGED <<input, at, out>>

WalkDay ==
  /\ pc = "walk"
  /\ kind = "weekly"
  /\ IF DayAfterHorizon(at) \/ AfterUntil(OnDay(at))
     THEN Return
     ELSE Iterate(OnDay(at), Weekday(at) \in Wanted)

WalkMonth ==
  /\ pc = "walk"
  /\ kind = "monthly"
  /\ LET t == OnDay(ClampMonthDay(at))
     IN  IF t > HorizonOf(start) \/ AfterUntil(t)
         THEN Return
         ELSE Iterate(t, TRUE)

Next == Reject \/ Enter \/ WalkDay \/ WalkMonth

Spec == Init /\ [][Next]_vars

-----------------------------------------------------------------------------
(* Properties.                                                             *)

\* Times with start's clock, as far as end.
TimesTo(end) == {t \in start .. end : Clock(t) = Clock(start)}
\* Monday = 1, by counting from the Sunday before day 0.
MondayFirst(d) == 1 + ((d + WeekLength - 1) % WeekLength)

WeeklyTimes(end) == {t \in TimesTo(end) : MondayFirst(Day(t)) \in want}
MonthlyTimes(end) ==
  {t \in TimesTo(end) :
    /\ DayOfMonth(Day(t)) <= DayOfMonth(Day(start))
    /\ \A d \in DaysOf(MonthOf(Day(t))) :
         d > Day(t) => DayOfMonth(d) > DayOfMonth(Day(start))}
TimesOfRule(end) == IF kind = "weekly" THEN WeeklyTimes(end) ELSE MonthlyTimes(end)

IsAscending(s) == \A i, k \in DOMAIN s : i < k => s[i] < s[k]
OutIs(S) == Range(out) = S /\ IsAscending(out)

\* The end the comments give a series: until, or the horizon if there is none.
RuleEnd == IF until = NoUntil THEN HorizonOf(start) ELSE until
EarliestEnd == IF RuleEnd < HorizonOf(start) THEN RuleEnd ELSE HorizonOf(start)

\* A weekly series has exactly the times with start's clock on a chosen weekday
\* from start to its end, both included, in order: comparing the horizon with a
\* midnight loses and adds nothing.  A monthly series has those on the day of
\* each month that is the latest not after start's day of the month: a short
\* month does not move the next ones.  The end is until, or the horizon without
\* one.  Of a series with an until beyond the horizon this says only that it
\* ends in between and has no gap: the code ends it at the horizon, which
\* recur.go:15 and 18-20 keep for series without until.
SeriesIsExact ==
  pc = "returned" => \E end \in EarliestEnd .. RuleEnd : OutIs(TimesOfRule(end))
=============================================================================
