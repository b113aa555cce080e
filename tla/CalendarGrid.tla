---------------------------- MODULE CalendarGrid ----------------------------
(***************************************************************************)
(* The month grid of the schedule page: the range schedulePage             *)
(* (internal/httpserver/server.go) loads with ListBetween and the weeks    *)
(* buildCalendar (internal/httpserver/calendar.go) shows.                  *)
(*                                                                         *)
(* A day is its distance from the first of the month, which is day 0.  A   *)
(* post is the local day of its send_at; the bounds of the range are local *)
(* midnights, so no finer time matters.                                    *)
(***************************************************************************)
EXTENDS Integers, FiniteSets

CONSTANTS
  MaxPosts  (* bound: days with posts around the month *)

ASSUME CalendarAssumption == MaxPosts \in Nat

VARIABLES
  offset,  (* startOffset: weekday of the first, Monday = 0                  *)
  length,  (* days of the month                                              *)
  posts,   (* days with a post in the table                                  *)
  loaded,  (* days of the posts that ListBetween returned                    *)
  weeks,   (* len(weeks)                                                     *)
  pc       (* "request", "load", "drop", "shown"                             *)

vars == <<offset, length, posts, loaded, weeks, pc>>

\* All days any grid or range can reach.
Horizon == -14 .. 49

Month == 0 .. length - 1

InRangeShort(d) == -7 <= d /\ d < length + 5
\* send_at in [first - 7 days, first + 1 month + 7 days).
InRange(d) == -7 <= d /\ d < length + 7

\* The days of the w-th week; the grid starts on a Monday.
Week(w) == (7 * (w - 1) - offset) .. (7 * w - 1 - offset)
Grid == UNION {Week(w) : w \in 1 .. weeks}

UsefulIfInMonth(w) == Week(w) \cap Month # {}
\* A week is kept for a day of the month or for a post in one of its cells.
Useful(w) == Week(w) \cap (Month \cup loaded) # {}

WeeksBuiltInclusive == 7
\* for w := 0; w < 6; w++
WeeksBuilt == 6

Init ==
  /\ offset \in 0 .. 6
  /\ length \in 28 .. 31
  /\ posts = {}
  /\ loaded = {}
  /\ weeks = 0
  /\ pc = "request"

\* Some post of day d is scheduled.
Scheduled(d) ==
  /\ pc = "request"
  /\ Cardinality(posts) < MaxPosts
  /\ posts' = posts \cup {d}
  /\ UNCHANGED <<offset, length, loaded, weeks, pc>>

Load ==
  /\ pc = "request"
  /\ loaded' = {d \in posts : InRange(d)}
  /\ pc' = "load"
  /\ UNCHANGED <<offset, length, posts, weeks>>

\* Six weeks are built, whatever the month.
Build ==
  /\ pc = "load"
  /\ weeks' = WeeksBuilt
  /\ pc' = "drop"
  /\ UNCHANGED <<offset, length, posts, loaded>>

Drop ==
  /\ pc = "drop"
  /\ weeks > 4
  /\ ~Useful(weeks)
  /\ weeks' = weeks - 1
  /\ UNCHANGED <<offset, length, posts, loaded, pc>>

Show ==
  /\ pc = "drop"
  /\ weeks <= 4 \/ Useful(weeks)
  /\ pc' = "shown"
  /\ UNCHANGED <<offset, length, posts, loaded, weeks>>

\* The page is opened again, for this month.
Reload ==
  /\ pc = "shown"
  /\ pc' = "request"
  /\ loaded' = {}
  /\ weeks' = 0
  /\ UNCHANGED <<offset, length, posts>>

Next ==
  \/ \E d \in Horizon : Scheduled(d)
  \/ Load
  \/ Build
  \/ Drop
  \/ Show
  \/ Reload

Spec == Init /\ [][Next]_vars

-----------------------------------------------------------------------------
\* Every variable keeps its range.
TypeOK ==
  /\ offset \in 0 .. 6
  /\ length \in 28 .. 31
  /\ posts \subseteq Horizon
  /\ loaded \subseteq posts
  /\ weeks \in 0 .. 6
  /\ pc \in {"request", "load", "drop", "shown"}

\* Every week with a day of the month is on the page and shows every post of
\* its seven days, those of the neighbouring months included.
MonthIsComplete ==
  pc = "shown" =>
    /\ Month \subseteq Grid
    /\ \A w \in 1 .. weeks :
         Week(w) \cap Month # {} => Week(w) \cap posts \subseteq loaded

\* Dropping weeks hides no post that was loaded for one of the six weeks.
DroppingHidesNothing ==
  pc = "shown" => loaded \cap (-offset .. 41 - offset) \subseteq Grid
=============================================================================
