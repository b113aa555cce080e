--------------------------- MODULE CalendarProofs ---------------------------
(***************************************************************************)
(* What the schedule page shows, for every month, every weekday it may     *)
(* begin with and any number of posts.                                     *)
(***************************************************************************)
EXTENDS CalendarGrid, TLAPS

(* The state of the grid between two steps.  That weeks already dropped were *)
(* not useful is what makes MonthIsComplete inductive.                      *)
GridInv ==
  /\ pc \in {"load", "drop", "shown"} => loaded = {d \in posts : InRange(d)}
  /\ pc \in {"drop", "shown"} =>
       /\ weeks \in 4 .. 6
       /\ \A w \in 5 .. 6 : w > weeks => ~Useful(w)

Inv == TypeOK /\ GridInv

\* Every day of six weeks is in one of them.
LEMMA DayHasWeek ==
  ASSUME NEW d \in Int, offset \in 0 .. 6, -offset <= d, d <= 41 - offset
  PROVE  \E w \in 1 .. 6 : d \in Week(w)
<1>1. \/ d \in Week(1) \/ d \in Week(2) \/ d \in Week(3)
      \/ d \in Week(4) \/ d \in Week(5) \/ d \in Week(6)
  BY DEF Week
<1> QED
  BY <1>1

LEMMA InvInit == Init => Inv
BY DEF Init, Inv, TypeOK, GridInv

LEMMA InvStep == Inv /\ [Next]_vars => Inv'
<1> SUFFICES ASSUME Inv, [Next]_vars PROVE Inv'
  OBVIOUS
<1> USE DEF Inv, TypeOK, GridInv
<1>1. ASSUME NEW d \in Horizon, Scheduled(d) PROVE Inv'
  BY <1>1 DEF Scheduled
<1>2. CASE Load
  BY <1>2 DEF Load, InRange
<1>3. CASE Build
  BY <1>3 DEF Build, WeeksBuilt, InRange
<1>4. CASE Drop
  <2>1. weeks' = weeks - 1 /\ weeks \in 5 .. 6 /\ ~Useful(weeks)
    BY <1>4 DEF Drop
  <2>2. \A w \in 5 .. 6 : Useful(w)' <=> Useful(w)
    BY <1>4 DEF Drop, Useful, Week, Month
  <2>3. ASSUME NEW w \in 5 .. 6, w > weeks - 1 PROVE ~Useful(w)
    <3>1. CASE w > weeks
      BY <3>1, <1>4 DEF Drop
    <3>2. CASE w = weeks
      BY <3>2, <2>1
    <3> QED
      BY <2>1, <2>3, <3>1, <3>2
  <2>4. \A w \in 5 .. 6 : w > weeks' => ~Useful(w)'
    BY <2>1, <2>2, <2>3
  <2> QED
    BY <1>4, <2>1, <2>4 DEF Drop, InRange
<1>5. CASE Show
  <2>1. \A w \in 5 .. 6 : Useful(w)' <=> Useful(w)
    BY <1>5 DEF Show, Useful, Week, Month
  <2> QED
    BY <1>5, <2>1 DEF Show, InRange
<1>6. CASE Reload
  BY <1>6 DEF Reload
<1>7. CASE UNCHANGED vars
  <2>1. \A w \in 5 .. 6 : Useful(w)' <=> Useful(w)
    BY <1>7 DEF vars, Useful, Week, Month
  <2> QED
    BY <1>7, <2>1 DEF vars, InRange
<1> QED
  BY <1>1, <1>2, <1>3, <1>4, <1>5, <1>6, <1>7 DEF Next

LEMMA InvHolds == Spec => []Inv
BY InvInit, InvStep, PTL DEF Spec

\* A day of the month, or a loaded one, within the six weeks is on the page.
LEMMA UsefulDaysShown ==
  ASSUME Inv, pc = "shown",
         NEW d \in Month \cup loaded, -offset <= d, d <= 41 - offset
  PROVE  d \in Grid
<1>1. d \in Int
  BY DEF Inv, TypeOK, Month, Horizon
<1>2. PICK w \in 1 .. 6 : d \in Week(w)
  BY <1>1, DayHasWeek DEF Inv, TypeOK
<1>3. Useful(w)
  BY <1>2 DEF Useful
<1>4. w <= weeks
  BY <1>2, <1>3 DEF Inv, TypeOK, GridInv
<1> QED
  BY <1>2, <1>4 DEF Grid, Inv, TypeOK

\* The page shows every day of the month, with all posts of its weeks.
THEOREM MonthShown == Spec => []MonthIsComplete
<1>1. Inv => MonthIsComplete
  <2> SUFFICES ASSUME Inv, pc = "shown"
               PROVE  /\ Month \subseteq Grid
                      /\ \A w \in 1 .. weeks : Week(w) \cap Month # {} =>
                           Week(w) \cap posts \subseteq loaded
    BY DEF MonthIsComplete
  <2>1. Month \subseteq Grid
    BY UsefulDaysShown DEF Month, Inv, TypeOK
  <2>2. ASSUME NEW w \in 1 .. weeks, NEW m \in Week(w) \cap Month,
               NEW d \in Week(w) \cap posts
        PROVE  d \in loaded
    <3>1. m - 6 <= d /\ d <= m + 6 /\ 0 <= m /\ m < length
      BY <2>2 DEF Week, Month, Inv, TypeOK
    <3>2. InRange(d)
      BY <3>1, <2>2 DEF InRange, Inv, TypeOK, Week, Month
    <3> QED
      BY <3>2, <2>2 DEF Inv, GridInv
  <2> QED
    BY <2>1, <2>2
<1> QED
  BY <1>1, InvHolds, PTL

\* No week with a loaded post is dropped.
THEOREM LoadedShown == Spec => []DroppingHidesNothing
<1>1. Inv => DroppingHidesNothing
  BY UsefulDaysShown DEF DroppingHidesNothing, Inv, TypeOK
<1> QED
  BY <1>1, InvHolds, PTL

\* Every variable keeps its range.
THEOREM TypeInvariant == Spec => []TypeOK
<1>1. Inv => TypeOK
  BY DEF Inv
<1> QED
  BY <1>1, InvHolds, PTL
=============================================================================
