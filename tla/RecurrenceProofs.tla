-------------------------- MODULE RecurrenceProofs --------------------------
(***************************************************************************)
(* Proofs about Recurrence: for any months, weeks, horizon and dates, a    *)
(* series has exactly the dates of its rule.                               *)
(*                                                                         *)
(* MonthStart is a recursive function.  What it computes is shown by       *)
(* induction in the form of the least element of a set of numbers (Least). *)
(***************************************************************************)
EXTENDS Recurrence, WellFoundedInduction, TLAPS

-----------------------------------------------------------------------------
(* Numbers.                                                                *)

\* A set of numbers that is not empty has a least one.
LEMMA Least ==
  ASSUME NEW T, T \subseteq Nat, T # {}
  PROVE  \E x \in T : \A y \in T : x <= y
<1> DEFINE R == OpToRel(<, Nat)
<1>1. IsWellFoundedOn(R, Nat)
  BY NatLessThanWellFounded
<1> HIDE DEF R
<1>2. PICK x \in T : \A y \in T : <<y, x>> \notin R
  BY <1>1, WFMin
<1>3. \A y \in T : y < x => <<y, x>> \in R
  BY DEF R, OpToRel
<1>4. \A y \in T : ~(y < x)
  BY <1>2, <1>3, Zenon
<1> QED BY <1>4

\* A full unit lies between two multiples of it.
LEMMA Multiples ==
  ASSUME NEW n \in Nat \ {0}, NEW a \in Int, NEW b \in Int, a < b
  PROVE  a * n + n <= b * n
<1>1. PICK k \in Nat : b = a + 1 + k
  <2> WITNESS b - a - 1 \in Nat
  <2> QED OBVIOUS
<1>2. b * n = a * n + n + k * n
  BY <1>1
<1>3. k * n >= 0
  OBVIOUS
<1> QED BY <1>2, <1>3

LEMMA DivMod ==
  ASSUME NEW n \in Nat \ {0}, NEW a \in Nat
  PROVE  a \div n \in Nat /\ a % n \in 0 .. n - 1 /\ a = (a \div n) * n + (a % n)
OBVIOUS

\* Quotient and remainder are unique.
LEMMA DivModUnique ==
  ASSUME NEW n \in Nat \ {0}, NEW q \in Nat, NEW r \in 0 .. n - 1
  PROVE  (q * n + r) \div n = q /\ (q * n + r) % n = r
<1> DEFINE a == q * n + r
<1>1. a \in Nat
  OBVIOUS
<1> HIDE DEF a
<1>2. a \div n \in Nat /\ a % n \in 0 .. n - 1 /\ a = (a \div n) * n + (a % n)
  BY <1>1, DivMod
<1>3. a = q * n + r
  BY DEF a
<1>4. ~(a \div n < q)
  BY <1>2, <1>3, Multiples
<1>5. ~(q < a \div n)
  BY <1>2, <1>3, Multiples
<1> QED BY <1>2, <1>3, <1>4, <1>5 DEF a

-----------------------------------------------------------------------------
(* Times.                                                                  *)

LEMMA Clocks ==
  ASSUME NEW t \in Nat
  PROVE  Day(t) \in Nat /\ Clock(t) \in 0 .. TicksPerDay - 1 /\ t = At(Day(t), Clock(t))
BY RecurrenceAssumption, DivMod DEF Day, Clock, At

LEMMA AtIsTime ==
  ASSUME NEW d \in Nat, NEW c \in 0 .. TicksPerDay - 1
  PROVE  At(d, c) \in Nat /\ Day(At(d, c)) = d /\ Clock(At(d, c)) = c
<1>1. TicksPerDay \in Nat \ {0}
  BY RecurrenceAssumption
<1> QED BY <1>1, DivModUnique DEF At, Day, Clock

\* Times are in the order of their days.
LEMMA AtAscends ==
  ASSUME NEW d \in Nat, NEW e \in Nat, NEW c \in 0 .. TicksPerDay - 1,
         NEW b \in 0 .. TicksPerDay - 1, d < e
  PROVE  At(d, c) < At(e, b)
<1>1. TicksPerDay \in Nat \ {0}
  BY RecurrenceAssumption
<1>2. d * TicksPerDay + TicksPerDay <= e * TicksPerDay
  BY <1>1, Multiples
<1>3. d * TicksPerDay \in Nat /\ e * TicksPerDay \in Nat
  BY <1>1
<1> QED BY <1>1, <1>2, <1>3 DEF At

\* Days counted from Monday and from Sunday.
LEMMA WeekdayIsMondayFirst ==
  ASSUME NEW d \in Nat
  PROVE  MondayFirst(d) = IF Weekday(d) = 0 THEN WeekLength ELSE Weekday(d)
<1> DEFINE q == d \div WeekLength
           r == d % WeekLength
<1>1. WeekLength \in Nat \ {0}
  BY RecurrenceAssumption
<1>2. q \in Nat /\ r \in 0 .. WeekLength - 1 /\ d = q * WeekLength + r
  BY <1>1, DivMod
<1> HIDE DEF q, r
<1>3. CASE r = 0
  <2>1. d + WeekLength - 1 = q * WeekLength + (WeekLength - 1)
    BY <1>1, <1>2, <1>3
  <2>2. WeekLength - 1 \in 0 .. WeekLength - 1
    BY <1>1
  <2>3. (d + WeekLength - 1) % WeekLength = WeekLength - 1
    BY <1>1, <1>2, <2>1, <2>2, DivModUnique
  <2> QED BY <1>1, <1>3, <2>3 DEF MondayFirst, Weekday, r
<1>4. CASE r # 0
  <2>1. d + WeekLength - 1 = (q + 1) * WeekLength + (r - 1)
    BY <1>1, <1>2, <1>4
  <2>2. r - 1 \in 0 .. WeekLength - 1 /\ q + 1 \in Nat
    BY <1>1, <1>2, <1>4
  <2>3. (d + WeekLength - 1) % WeekLength = r - 1
    BY <1>1, <2>1, <2>2, DivModUnique
  <2> QED BY <1>1, <1>2, <1>4, <2>3 DEF MondayFirst, Weekday, r
<1> QED BY <1>3, <1>4

\* toGoWeekday translates what was chosen.
LEMMA WantedIsWant ==
  ASSUME want \subseteq 1 .. WeekLength, NEW d \in Nat
  PROVE  Weekday(d) \in Wanted <=> MondayFirst(d) \in want
<1>1. WeekLength \in Nat \ {0}
  BY RecurrenceAssumption
<1>2. Weekday(d) \in 0 .. WeekLength - 1
  BY <1>1, DivMod DEF Weekday
<1>3. \A x \in 1 .. WeekLength :
        Weekday(d) = toGoWeekday(x) <=> x = IF Weekday(d) = 0 THEN WeekLength ELSE Weekday(d)
  BY <1>1, <1>2 DEF toGoWeekday
<1> QED BY <1>3, WeekdayIsMondayFirst DEF Wanted

-----------------------------------------------------------------------------
(* Months.                                                                 *)

LastMonth == Len(MonthLength)

LEMMA MonthsAre ==
  /\ LastMonth \in Nat /\ Months = 1 .. LastMonth
  /\ \A m \in Months : MonthLength[m] \in Nat \ {0}
BY RecurrenceAssumption DEF Months, LastMonth

\* f has the starts of the months up to m.
StartsTo(f, m) ==
  \A k \in 1 .. m : f[k] = IF k = 1 THEN 0 ELSE f[k - 1] + MonthLength[k - 1]

\* There is such a function, so MonthStart is one.
LEMMA MonthStartExists ==
  ASSUME NEW n \in Nat
  PROVE  \E f : StartsTo(f, n)
<1> DEFINE T == {k \in Nat : ~ \E f : StartsTo(f, k)}
<1>1. SUFFICES ASSUME T # {} PROVE FALSE
  OBVIOUS
<1>2. PICK x \in T : \A y \in T : x <= y
  <2>1. T \subseteq Nat
    OBVIOUS
  <2> HIDE DEF T
  <2> QED BY <1>1, <2>1, Least
<1>3. x # 0
  BY DEF StartsTo
<1>4. PICK f : StartsTo(f, x - 1)
  <2>1. x - 1 \in Nat /\ ~(x <= x - 1)
    BY <1>3
  <2> QED BY <1>2, <2>1
<1> DEFINE next == IF x = 1 THEN 0 ELSE f[x - 1] + MonthLength[x - 1]
           g == [k \in 1 .. x |-> IF k = x THEN next ELSE f[k]]
<1>5. StartsTo(g, x)
  <2> SUFFICES ASSUME NEW k \in 1 .. x
               PROVE  g[k] = IF k = 1 THEN 0 ELSE g[k - 1] + MonthLength[k - 1]
    BY DEF StartsTo
  <2>1. CASE k = x
    <3>1. g[k] = next
      BY <2>1
    <3>2. k # 1 => g[k - 1] = f[k - 1]
      BY <2>1
    <3> QED BY <2>1, <3>1, <3>2
  <2>2. CASE k # x
    <3>1. k \in 1 .. x - 1
      BY <1>3, <2>2
    <3>2. f[k] = IF k = 1 THEN 0 ELSE f[k - 1] + MonthLength[k - 1]
      BY <1>4, <3>1 DEF StartsTo
    <3>3. g[k] = f[k] /\ (k # 1 => g[k - 1] = f[k - 1])
      BY <2>2, <3>1
    <3> HIDE DEF g
    <3> QED BY <3>2, <3>3
  <2> QED BY <2>1, <2>2
<1> HIDE DEF g
<1> QED BY <1>2, <1>5

LEMMA MonthStartIs ==
  ASSUME NEW m \in Months
  PROVE  MonthStart[m] = IF m = 1 THEN 0 ELSE MonthStart[m - 1] + MonthLength[m - 1]
<1> DEFINE Is(f) == f = [k \in 1 .. Len(MonthLength) |->
                           IF k = 1 THEN 0 ELSE f[k - 1] + MonthLength[k - 1]]
<1>1. PICK f : StartsTo(f, LastMonth)
  BY MonthsAre, MonthStartExists
<1> DEFINE g == [k \in 1 .. LastMonth |-> f[k]]
<1>2. Is(g)
  <2>1. \A k \in 1 .. LastMonth : g[k] = f[k] /\ (k # 1 => g[k - 1] = f[k - 1])
    BY MonthsAre
  <2>2. \A k \in 1 .. LastMonth : g[k] = IF k = 1 THEN 0 ELSE g[k - 1] + MonthLength[k - 1]
    <3> HIDE DEF g
    <3> QED BY <1>1, <2>1 DEF StartsTo
  <2>3. g = [k \in 1 .. LastMonth |-> g[k]]
    OBVIOUS
  <2> HIDE DEF g
  <2> QED BY <2>2, <2>3 DEF LastMonth
<1>3. Is(MonthStart)
  <2> HIDE DEF g, Is
  <2>1. MonthStart = CHOOSE f_1 : Is(f_1)
    BY DEF MonthStart, Is
  <2> QED BY <1>2, <2>1
<1> QED BY <1>3, MonthsAre DEF LastMonth

LEMMA MonthStartNat ==
  ASSUME NEW m \in Months
  PROVE  MonthStart[m] \in Nat
<1> DEFINE T == {k \in Months : MonthStart[k] \notin Nat}
<1>1. SUFFICES ASSUME T # {} PROVE FALSE
  OBVIOUS
<1>2. PICK x \in T : \A y \in T : x <= y
  <2>1. T \subseteq Nat
    BY MonthsAre
  <2> HIDE DEF T
  <2> QED BY <1>1, <2>1, Least
<1>3. x # 1
  BY MonthStartIs
<1>4. x - 1 \in Months /\ x - 1 \notin T
  BY <1>2, <1>3, MonthsAre
<1>5. MonthStart[x] = MonthStart[x - 1] + MonthLength[x - 1]
  BY <1>3, MonthStartIs
<1> QED BY <1>4, <1>5, MonthsAre

\* A month ends before any later one starts.
LEMMA MonthsAscend ==
  ASSUME NEW m \in Months, NEW k \in Months, m < k
  PROVE  MonthStart[m] + MonthLength[m] <= MonthStart[k]
<1> DEFINE T == {x \in Months : m < x /\ ~(MonthStart[m] + MonthLength[m] <= MonthStart[x])}
<1>1. SUFFICES ASSUME T # {} PROVE FALSE
  OBVIOUS
<1>2. PICK x \in T : \A y \in T : x <= y
  <2>1. T \subseteq Nat
    BY MonthsAre
  <2> HIDE DEF T
  <2> QED BY <1>1, <2>1, Least
<1>3. x - 1 \in Months /\ x - 1 \notin T /\ m \in Nat /\ x \in Nat
  BY <1>2, MonthsAre
<1>4. MonthStart[x] = MonthStart[x - 1] + MonthLength[x - 1]
  BY <1>3, MonthsAre, MonthStartIs
<1>5. MonthStart[x - 1] \in Nat /\ MonthStart[m] \in Nat
  BY <1>3, MonthStartNat
<1>6. MonthLength[x - 1] \in Nat /\ MonthLength[m] \in Nat
  BY <1>3, MonthsAre
<1> QED BY <1>3, <1>4, <1>5, <1>6

LEMMA DayIsOfMonth ==
  ASSUME NEW m \in Months, NEW d \in Nat
  PROVE  d \in DaysOf(m) <=> MonthStart[m] <= d /\ d < MonthStart[m] + MonthLength[m]
BY MonthStartNat, MonthsAre DEF DaysOf

LEMMA MonthOfDay ==
  ASSUME NEW m \in Months, NEW d \in Nat, d \in DaysOf(m)
  PROVE  MonthOf(d) = m /\ DayOfMonth(d) = d - MonthStart[m]
<1>1. ASSUME NEW k \in Months, d \in DaysOf(k) PROVE k = m
  <2>1. m \in Nat /\ k \in Nat /\ MonthStart[m] \in Nat /\ MonthStart[k] \in Nat
    BY MonthsAre, MonthStartNat
  <2>2. MonthLength[m] \in Nat /\ MonthLength[k] \in Nat
    BY MonthsAre
  <2> QED BY <1>1, <2>1, <2>2, DayIsOfMonth, MonthsAscend
<1> QED BY <1>1 DEF MonthOf, DayOfMonth

\* Every day of the calendar is of a month.
LEMMA DayHasMonth ==
  ASSUME NEW d \in Nat, LastMonth \in Months, d < MonthStart[LastMonth]
  PROVE  \E m \in Months : d \in DaysOf(m) /\ m < LastMonth
<1> DEFINE T == {k \in Months : d < MonthStart[k]}
<1>1. PICK x \in T : \A y \in T : x <= y
  <2>1. T \subseteq Nat /\ T # {}
    BY MonthsAre
  <2> HIDE DEF T
  <2> QED BY <2>1, Least
<1>2. x # 1
  BY MonthStartIs
<1>3. x - 1 \in Months /\ x - 1 \notin T /\ x \in Nat /\ x <= LastMonth
  BY <1>1, <1>2, MonthsAre
<1>4. MonthStart[x] = MonthStart[x - 1] + MonthLength[x - 1]
  BY <1>2, MonthStartIs
<1>5. MonthStart[x - 1] \in Nat
  BY <1>3, MonthStartNat
<1>6. d \in DaysOf(x - 1)
  BY <1>3, <1>4, <1>5, DayIsOfMonth
<1> QED BY <1>3, <1>6, MonthsAre

-----------------------------------------------------------------------------
(* The dates of a rule, by their days.                                     *)

FirstDay == Day(start)
FirstMonth == MonthOf(FirstDay)
LastDay == MonthStart[FirstMonth + HorizonMonths] + DayOfMonth(FirstDay)

LEMMA StartIs ==
  ASSUME start \in Starts
  PROVE  /\ start \in Nat /\ FirstDay \in Nat /\ Clock(start) \in 0 .. TicksPerDay - 1
         /\ start = At(FirstDay, Clock(start))
         /\ FirstMonth \in Months /\ FirstDay \in DaysOf(FirstMonth)
         /\ LastMonth \in Months
         /\ LastDay \in Nat /\ HorizonOf(start) = At(LastDay, Clock(start))
         /\ FirstDay <= LastDay /\ LastDay < MonthStart[LastMonth]
         /\ LastDay - FirstDay < MaxOut
<1>1. start \in Nat
  BY RecurrenceAssumption
<1>2. FirstDay \in Nat /\ Clock(start) \in 0 .. TicksPerDay - 1 /\ start = At(FirstDay, Clock(start))
  BY <1>1, Clocks DEF FirstDay
<1>3. PICK m \in Months : FirstDay \in DaysOf(m) /\ m + HorizonMonths \in Months
  BY CalendarIsLong DEF FirstDay
<1>4. FirstMonth = m /\ DayOfMonth(FirstDay) = FirstDay - MonthStart[m]
  BY <1>2, <1>3, MonthOfDay DEF FirstMonth
<1>5. MonthStart[m] \in Nat /\ MonthLength[m] \in Nat /\ MonthStart[m] <= FirstDay
  BY <1>2, <1>3, MonthStartNat, MonthsAre, DayIsOfMonth
<1>6. MonthStart[m + HorizonMonths] \in Nat /\ MonthStart[m] <= MonthStart[m + HorizonMonths]
  <2>1. m \in Nat /\ HorizonMonths \in Nat \ {0}
    BY <1>3, MonthsAre, RecurrenceAssumption
  <2>2. MonthStart[m] + MonthLength[m] <= MonthStart[m + HorizonMonths]
    BY <1>3, <2>1, MonthsAscend
  <2> QED BY <1>3, <1>5, <2>2, MonthStartNat
<1>7. LastDay \in Nat /\ FirstDay <= LastDay
  BY <1>2, <1>4, <1>5, <1>6 DEF LastDay
<1>8. HorizonOf(start) = At(LastDay, Clock(start))
  BY DEF HorizonOf, LastDay, FirstMonth, FirstDay
<1>9. Day(HorizonOf(start)) = LastDay
  BY <1>2, <1>7, <1>8, AtIsTime
<1>10. LastDay < MonthStart[LastMonth] /\ LastDay - FirstDay < MaxOut
  BY <1>9, CalendarIsLong DEF LastMonth, FirstDay
<1>11. LastMonth \in Months
  BY <1>3, MonthsAre
<1> QED BY <1>1, <1>2, <1>3, <1>4, <1>7, <1>8, <1>10, <1>11

UntilIsKnown == until \in Untils \cup {NoUntil}

LEMMA AfterUntilAscends ==
  ASSUME UntilIsKnown, NEW t \in Nat, NEW u \in Nat, t <= u, AfterUntil(t)
  PROVE  AfterUntil(u)
BY RecurrenceAssumption DEF UntilIsKnown, AfterUntil

\* The times up to the earlier of until and horizon, where the loops end.
Window == TimesTo(EarliestEnd)

LEMMA EarliestEndIs ==
  ASSUME UntilIsKnown, HorizonOf(start) \in Nat
  PROVE  /\ EarliestEnd \in Nat
         /\ \A t \in Nat : t <= EarliestEnd <=>
              t <= HorizonOf(start) /\ (until # NoUntil => t <= until)
<1>1. until # NoUntil => until \in Nat
  BY RecurrenceAssumption DEF UntilIsKnown
<1> QED BY <1>1 DEF EarliestEnd, RuleEnd

\* It has one time on each day up to the horizon, until included.
LEMMA WindowIs ==
  ASSUME start \in Starts, UntilIsKnown, NEW t
  PROVE  t \in Window <=> \E d \in FirstDay .. LastDay : t = OnDay(d) /\ ~AfterUntil(t)
<1>1. /\ start \in Nat /\ FirstDay \in Nat /\ LastDay \in Nat
      /\ Clock(start) \in 0 .. TicksPerDay - 1
      /\ start = At(FirstDay, Clock(start)) /\ HorizonOf(start) = At(LastDay, Clock(start))
  BY StartIs
<1>4. HorizonOf(start) \in Nat
  BY <1>1, AtIsTime
<1>5. t \in Window <=>
        /\ t \in start .. HorizonOf(start) /\ Clock(t) = Clock(start)
        /\ until # NoUntil => t <= until
  BY <1>1, <1>4, EarliestEndIs DEF Window, TimesTo
<1>2. ASSUME t \in Window PROVE \E d \in FirstDay .. LastDay : t = OnDay(d) /\ ~AfterUntil(t)
  <2>1. t \in Nat /\ start <= t /\ t <= HorizonOf(start) /\ Clock(t) = Clock(start)
    <3>1. HorizonOf(start) \in Nat
      BY <1>1, AtIsTime
    <3> QED BY <1>1, <1>2, <1>5, <3>1
  <2>2. ~AfterUntil(t)
    BY <1>2, <1>5, <2>1, RecurrenceAssumption DEF AfterUntil, UntilIsKnown
  <2>3. Day(t) \in Nat /\ t = OnDay(Day(t))
    BY <2>1, Clocks DEF OnDay
  <2>4. ~(Day(t) < FirstDay)
    <3>1. Day(t) < FirstDay => t < start
      BY <1>1, <2>3, AtAscends DEF OnDay
    <3> QED BY <1>1, <2>1, <3>1
  <2>5. ~(LastDay < Day(t))
    <3>1. LastDay < Day(t) => HorizonOf(start) < t
      BY <1>1, <2>3, AtAscends DEF OnDay
    <3>2. HorizonOf(start) \in Nat
      BY <1>1, AtIsTime
    <3> QED BY <2>1, <3>1, <3>2
  <2> QED BY <1>1, <2>2, <2>3, <2>4, <2>5
<1>3. ASSUME NEW d \in FirstDay .. LastDay, t = OnDay(d), ~AfterUntil(t) PROVE t \in Window
  <2>1. t \in Nat /\ Clock(t) = Clock(start) /\ d \in Nat
    BY <1>1, <1>3, AtIsTime DEF OnDay
  <2>2. start <= t
    BY <1>1, <1>3, <2>1, AtAscends DEF OnDay
  <2>3. t <= HorizonOf(start) /\ HorizonOf(start) \in Nat
    BY <1>1, <1>3, <2>1, AtAscends, AtIsTime DEF OnDay
  <2>4. until # NoUntil => t <= until
    BY <1>3, <2>1, RecurrenceAssumption DEF AfterUntil, UntilIsKnown
  <2> QED BY <1>1, <1>5, <2>1, <2>2, <2>3, <2>4
<1> QED BY <1>2, <1>3

\* clampMonthDay yields the latest day of a month that is not after the day of
\* the month on which the series starts.
LEMMA ClampIsLatest ==
  ASSUME start \in Starts, NEW m \in Months
  PROVE  /\ ClampMonthDay(m) \in Nat /\ ClampMonthDay(m) \in DaysOf(m)
         /\ \A d \in DaysOf(m) :
              d = ClampMonthDay(m) <=>
                /\ DayOfMonth(d) <= DayOfMonth(FirstDay)
                /\ \A e \in DaysOf(m) : e > d => DayOfMonth(e) > DayOfMonth(FirstDay)
<1> DEFINE dom == DayOfMonth(FirstDay)
           c == ClampMonthDay(m)
<1>1. MonthStart[m] \in Nat /\ MonthLength[m] \in Nat \ {0}
  BY MonthStartNat, MonthsAre
<1>2. dom \in Nat
  <2>1. FirstMonth \in Months /\ FirstDay \in DaysOf(FirstMonth) /\ FirstDay \in Nat
    BY StartIs
  <2>2. MonthStart[FirstMonth] \in Nat /\ MonthStart[FirstMonth] <= FirstDay
    BY <2>1, MonthStartNat, DayIsOfMonth
  <2> QED BY <2>1, <2>2, MonthOfDay
<1>3. c = MonthStart[m] + (IF dom < MonthLength[m] THEN dom ELSE MonthLength[m] - 1)
  BY DEF ClampMonthDay, FirstDay
<1> HIDE DEF dom, c
<1>4. c \in Nat /\ c \in DaysOf(m)
  BY <1>1, <1>2, <1>3, DayIsOfMonth
<1>5. \A d \in DaysOf(m) :
        /\ d \in Nat /\ MonthStart[m] <= d /\ d < MonthStart[m] + MonthLength[m]
        /\ DayOfMonth(d) = d - MonthStart[m]
  <2> TAKE d \in DaysOf(m)
  <2>1. d \in Nat
    BY <1>1 DEF DaysOf
  <2> QED BY <2>1, DayIsOfMonth, MonthOfDay
<1>6. ASSUME NEW d \in DaysOf(m)
      PROVE  d = c <=> d - MonthStart[m] <= dom
                         /\ \A e \in DaysOf(m) : e > d => e - MonthStart[m] > dom
  <2>1. CASE d = c
    <3>1. d - MonthStart[m] <= dom
      BY <1>1, <1>2, <1>3, <2>1
    <3>2. ASSUME NEW e \in DaysOf(m), e > d PROVE e - MonthStart[m] > dom
      <4>1. e \in Nat /\ e < MonthStart[m] + MonthLength[m]
        BY <1>5
      <4>2. dom < MonthLength[m]
        BY <1>1, <1>2, <1>3, <2>1, <3>2, <4>1
      <4> QED BY <1>1, <1>2, <1>3, <2>1, <3>2, <4>1, <4>2
    <3> QED BY <2>1, <3>1, <3>2
  <2>2. CASE d < c
    <3>1. c - MonthStart[m] <= dom
      BY <1>1, <1>2, <1>3
    <3>2. ~(c - MonthStart[m] > dom)
      BY <1>1, <1>2, <1>4, <3>1
    <3>3. d # c /\ c > d
      BY <1>4, <1>5, <2>2
    <3> QED BY <1>4, <3>2, <3>3
  <2>3. CASE d > c
    <3>1. d \in Nat /\ c \in Nat
      BY <1>4, <1>5
    <3>2. d - MonthStart[m] > dom
      BY <1>1, <1>2, <1>3, <1>5, <2>3
    <3>3. ~(d - MonthStart[m] <= dom) /\ d # c
      BY <1>1, <1>2, <2>3, <3>1, <3>2
    <3> QED BY <3>3
  <2>4. d \in Nat /\ c \in Nat
    BY <1>4, <1>5
  <2>5. d = c \/ d < c \/ d > c
    BY <2>4
  <2> QED BY <2>1, <2>2, <2>3, <2>5
<1> QED BY <1>4, <1>5, <1>6 DEF dom, c

LEMMA ClampAscends ==
  ASSUME start \in Starts, NEW m \in Months, NEW k \in Months, m < k
  PROVE  ClampMonthDay(m) < ClampMonthDay(k) /\ ClampMonthDay(m) < MonthStart[k]
<1>1. /\ ClampMonthDay(m) \in Nat /\ ClampMonthDay(k) \in Nat
      /\ ClampMonthDay(m) < MonthStart[m] + MonthLength[m] /\ MonthStart[k] <= ClampMonthDay(k)
  BY ClampIsLatest, DayIsOfMonth
<1>2. MonthStart[m] + MonthLength[m] <= MonthStart[k]
  BY MonthsAscend
<1>3. MonthStart[m] \in Nat /\ MonthStart[k] \in Nat /\ MonthLength[m] \in Nat
  BY MonthStartNat, MonthsAre
<1> QED BY <1>1, <1>2, <1>3

\* A series starts on the day clampMonthDay gives for its first month.
LEMMA FirstIsClamped ==
  ASSUME start \in Starts
  PROVE  ClampMonthDay(FirstMonth) = FirstDay
<1>1. FirstMonth \in Months /\ FirstDay \in DaysOf(FirstMonth) /\ FirstDay \in Nat
  BY StartIs
<1>2. DayOfMonth(FirstDay) = FirstDay - MonthStart[FirstMonth]
  BY <1>1, MonthOfDay
<1>3. /\ FirstDay < MonthStart[FirstMonth] + MonthLength[FirstMonth]
      /\ MonthStart[FirstMonth] \in Nat /\ MonthLength[FirstMonth] \in Nat
  BY <1>1, DayIsOfMonth, MonthStartNat, MonthsAre
<1> QED BY <1>1, <1>2, <1>3 DEF ClampMonthDay, FirstDay

Dates == TimesOfRule(EarliestEnd)

\* The rule chooses this day.
Chosen(d) ==
  IF kind = "weekly" THEN MondayFirst(d) \in want
  ELSE \E m \in Months : d = ClampMonthDay(m)

LEMMA DatesAre ==
  ASSUME start \in Starts, UntilIsKnown, NEW t
  PROVE  t \in Dates <=>
           \E d \in FirstDay .. LastDay : t = OnDay(d) /\ ~AfterUntil(t) /\ Chosen(d)
<1>1. /\ FirstDay \in Nat /\ LastDay \in Nat /\ Clock(start) \in 0 .. TicksPerDay - 1
      /\ LastMonth \in Months /\ LastDay < MonthStart[LastMonth]
  BY StartIs
<1>2. \A d \in FirstDay .. LastDay : d \in Nat /\ Day(OnDay(d)) = d
  BY <1>1, AtIsTime DEF OnDay
<1>3. CASE kind = "weekly"
  <2>1. t \in Dates <=> t \in Window /\ MondayFirst(Day(t)) \in want
    BY <1>3 DEF Dates, TimesOfRule, WeeklyTimes, Window
  <2> QED BY <1>2, <1>3, <2>1, WindowIs DEF Chosen
<1>4. CASE kind # "weekly"
  <2> DEFINE Latest(d) ==
        /\ DayOfMonth(d) <= DayOfMonth(FirstDay)
        /\ \A e \in DaysOf(MonthOf(d)) : e > d => DayOfMonth(e) > DayOfMonth(FirstDay)
  <2>1. t \in Dates <=> t \in Window /\ Latest(Day(t))
    BY <1>4 DEF Dates, TimesOfRule, MonthlyTimes, Window, FirstDay
  <2>2. \A d \in FirstDay .. LastDay : Latest(d) <=> Chosen(d)
    <3> TAKE d \in FirstDay .. LastDay
    <3>1. d \in Nat /\ d < MonthStart[LastMonth]
      BY <1>1, MonthStartNat
    <3>2. PICK m \in Months : d \in DaysOf(m)
      BY <1>1, <3>1, DayHasMonth
    <3>3. MonthOf(d) = m
      BY <3>1, <3>2, MonthOfDay
    <3>4. Latest(d) <=> d = ClampMonthDay(m)
      BY <3>2, <3>3, ClampIsLatest
    <3>5. \A k \in Months : d = ClampMonthDay(k) => k = m
      BY <3>1, <3>2, <3>3, ClampIsLatest, MonthOfDay
    <3> HIDE DEF Latest
    <3> QED BY <1>4, <3>4, <3>5 DEF Chosen
  <2> HIDE DEF Latest
  <2> QED BY <1>2, <2>1, <2>2, WindowIs
<1> QED BY <1>3, <1>4

-----------------------------------------------------------------------------
(* The loops.                                                              *)

\* o has the dates before day f, in order, and no two on one day.
DatesBefore(o, f) ==
  /\ o \in Seq(Nat)
  /\ IsAscending(o)
  /\ \A i \in DOMAIN o :
       /\ o[i] \in Dates
       /\ Day(o[i]) < f
       /\ Day(o[i]) >= FirstDay + i - 1
  /\ \A t \in Dates : Day(t) < f => t \in Range(o)

DatesDone(o) == Range(o) = Dates /\ IsAscending(o)

\* Without a date from day f to day g the loop may go on to g.
LEMMA SkipDays ==
  ASSUME start \in Starts, UntilIsKnown, NEW o, NEW f \in Nat, NEW g \in Nat, f <= g,
         DatesBefore(o, f), \A t \in Dates : ~(f <= Day(t) /\ Day(t) < g)
  PROVE  DatesBefore(o, g)
<1>1. \A t \in Dates : Day(t) \in Nat
  BY DatesAre, StartIs, AtIsTime DEF OnDay
<1> QED BY <1>1 DEF DatesBefore

\* The limit on the number of dates is out of reach.
LEMMA NeverFull ==
  ASSUME start \in Starts, UntilIsKnown, NEW o, NEW f, DatesBefore(o, f)
  PROVE  ~Full(o)
<1>1. /\ FirstDay \in Nat /\ LastDay \in Nat /\ Clock(start) \in 0 .. TicksPerDay - 1
      /\ LastDay - FirstDay < MaxOut /\ MaxOut \in Nat
  BY StartIs, RecurrenceAssumption
<1>2. Len(o) \in Nat /\ DOMAIN o = 1 .. Len(o)
  BY DEF DatesBefore
<1>3. CASE Len(o) = 0
  BY <1>1, <1>3 DEF Full
<1>4. CASE Len(o) # 0
  <2>1. Len(o) \in DOMAIN o
    BY <1>2, <1>4
  <2>2. o[Len(o)] \in Dates /\ Day(o[Len(o)]) >= FirstDay + Len(o) - 1
    BY <2>1 DEF DatesBefore
  <2>3. PICK e \in FirstDay .. LastDay : o[Len(o)] = OnDay(e)
    BY <2>2, DatesAre
  <2>4. Day(o[Len(o)]) = e
    BY <1>1, <2>3, AtIsTime DEF OnDay
  <2> QED BY <1>1, <1>2, <2>2, <2>4 DEF Full
<1> QED BY <1>3, <1>4

\* Appending the one date from day f to day g takes the loop to g.
LEMMA AppendDate ==
  ASSUME start \in Starts, UntilIsKnown, NEW o, NEW f \in Nat, NEW g \in Nat,
         NEW d \in f .. g - 1, FirstDay <= d,
         DatesBefore(o, f), OnDay(d) \in Dates,
         \A t \in Dates : f <= Day(t) /\ Day(t) < g => t = OnDay(d)
  PROVE  DatesBefore(Append(o, OnDay(d)), g)
<1> DEFINE t == OnDay(d)
           p == Append(o, t)
<1>1. /\ start \in Nat /\ FirstDay \in Nat /\ LastDay \in Nat
      /\ Clock(start) \in 0 .. TicksPerDay - 1 /\ LastDay - FirstDay < MaxOut /\ MaxOut \in Nat
  BY StartIs, RecurrenceAssumption
<1>2. d \in Nat /\ t \in Nat /\ Day(t) = d
  BY <1>1, AtIsTime DEF OnDay
<1>3. \A u \in Dates : u \in Nat /\ Day(u) \in Nat /\ Day(u) <= LastDay
  <2> TAKE u \in Dates
  <2>1. PICK e \in FirstDay .. LastDay : u = OnDay(e)
    BY DatesAre
  <2> QED BY <1>1, <2>1, AtIsTime DEF OnDay
<1>4. o \in Seq(Nat) /\ Len(o) \in Nat
  BY DEF DatesBefore
<1>5. /\ p \in Seq(Nat) /\ Len(p) = Len(o) + 1 /\ DOMAIN p = 1 .. Len(o) + 1
      /\ p[Len(o) + 1] = t /\ \A i \in 1 .. Len(o) : p[i] = o[i]
  BY <1>2, <1>4
<1>6. \A i \in 1 .. Len(o) :
        o[i] \in Dates /\ Day(o[i]) < f /\ Day(o[i]) >= FirstDay + i - 1 /\ Day(o[i]) \in Nat
  BY <1>3, <1>4 DEF DatesBefore
<1>7. d >= FirstDay + Len(o)
  <2>1. CASE Len(o) = 0
    BY <1>1, <1>2, <2>1
  <2>2. CASE Len(o) # 0
    <3>1. Len(o) \in 1 .. Len(o)
      BY <1>4, <2>2
    <3>2. Day(o[Len(o)]) < f /\ Day(o[Len(o)]) >= FirstDay + Len(o) - 1 /\ Day(o[Len(o)]) \in Nat
      BY <1>6, <3>1
    <3> QED BY <1>1, <1>2, <1>4, <3>2
  <2> QED BY <2>1, <2>2
<1>8. \A i \in 1 .. Len(o) : o[i] < t
  <2> TAKE i \in 1 .. Len(o)
  <2>1. o[i] \in Nat /\ Day(o[i]) < d /\ Day(o[i]) \in Nat
    BY <1>2, <1>3, <1>6
  <2>2. o[i] = At(Day(o[i]), Clock(o[i])) /\ Clock(o[i]) \in 0 .. TicksPerDay - 1
    BY <2>1, Clocks
  <2> QED BY <1>1, <1>2, <2>1, <2>2, AtAscends DEF OnDay
<1> HIDE DEF p, t
<1>9. IsAscending(p)
  <2> SUFFICES ASSUME NEW i \in 1 .. Len(o) + 1, NEW k \in 1 .. Len(o) + 1, i < k
               PROVE  p[i] < p[k]
    BY <1>5 DEF IsAscending
  <2>1. i \in 1 .. Len(o)
    BY <1>4
  <2>2. CASE k = Len(o) + 1
    BY <1>5, <1>8, <2>1, <2>2
  <2>3. CASE k # Len(o) + 1
    <3>1. k \in 1 .. Len(o)
      BY <1>4, <2>3
    <3>2. o[i] < o[k]
      BY <1>4, <2>1, <3>1 DEF DatesBefore, IsAscending
    <3> QED BY <1>5, <2>1, <3>1, <3>2
  <2> QED BY <2>2, <2>3
<1>10. \A i \in DOMAIN p : p[i] \in Dates /\ Day(p[i]) < g /\ Day(p[i]) >= FirstDay + i - 1
  <2> TAKE i \in DOMAIN p
  <2>1. CASE i = Len(o) + 1
    <3>1. p[i] = t /\ t \in Dates
      BY <1>5, <2>1 DEF t
    <3>2. d < g /\ d >= FirstDay + i - 1
      BY <1>1, <1>2, <1>4, <1>7, <2>1
    <3> QED BY <1>2, <3>1, <3>2
  <2>2. CASE i # Len(o) + 1
    <3>1. i \in 1 .. Len(o)
      BY <1>4, <1>5, <2>2
    <3>2. p[i] = o[i]
      BY <1>5, <3>1
    <3>3. o[i] \in Dates /\ Day(o[i]) < f /\ Day(o[i]) >= FirstDay + i - 1 /\ Day(o[i]) \in Nat
      BY <1>6, <3>1
    <3>4. f <= g
      BY <1>2
    <3>5. Day(o[i]) < g
      BY <3>3, <3>4
    <3> QED BY <3>2, <3>3, <3>5
  <2> QED BY <2>1, <2>2
<1>11. \A u \in Dates : Day(u) < g => u \in Range(p)
  <2> SUFFICES ASSUME NEW u \in Dates, Day(u) < g PROVE \E i \in DOMAIN p : p[i] = u
    BY DEF Range
  <2>1. CASE Day(u) < f
    <3>1. PICK i \in DOMAIN o : o[i] = u
      BY <2>1 DEF DatesBefore, Range
    <3>2. i \in 1 .. Len(o) /\ i \in DOMAIN p
      BY <1>4, <1>5
    <3>3. p[i] = u
      BY <1>5, <3>1, <3>2
    <3> QED BY <3>2, <3>3
  <2>2. CASE ~(Day(u) < f)
    <3>1. u = t
      BY <1>3, <2>2 DEF t
    <3>2. Len(o) + 1 \in DOMAIN p
      BY <1>4, <1>5
    <3> QED BY <1>5, <3>1, <3>2
  <2> QED BY <2>1, <2>2
<1> QED BY <1>5, <1>9, <1>10, <1>11 DEF DatesBefore, p, t

\* When no date is left, the dates are all there.
LEMMA NoDateIsLeft ==
  ASSUME NEW o, NEW f, DatesBefore(o, f), \A t \in Dates : Day(t) < f
  PROVE  DatesDone(o)
<1>1. Range(o) \subseteq Dates
  BY DEF DatesBefore, Range
<1>2. Dates \subseteq Range(o)
  BY DEF DatesBefore
<1> QED BY <1>1, <1>2 DEF DatesDone, DatesBefore

\* The dates before the loops.
LEMMA NoDateBeforeStart ==
  ASSUME start \in Starts, UntilIsKnown, NEW f \in Nat, f <= FirstDay
  PROVE  DatesBefore(<<>>, f)
<1>1. /\ FirstDay \in Nat /\ LastDay \in Nat /\ Clock(start) \in 0 .. TicksPerDay - 1
  BY StartIs
<1>2. ASSUME NEW t \in Dates, Day(t) < f PROVE FALSE
  <2>1. PICK e \in FirstDay .. LastDay : t = OnDay(e)
    BY DatesAre
  <2>2. Day(t) = e
    BY <1>1, <2>1, AtIsTime DEF OnDay
  <2> QED BY <1>1, <1>2, <2>2
<1> QED BY <1>2 DEF DatesBefore, IsAscending

\* One iteration of expandWeekly on day d.
LEMMA DayIsWalked ==
  ASSUME start \in Starts, UntilIsKnown, kind = "weekly", want \subseteq 1 .. WeekLength,
         NEW d \in FirstDay .. LastDay + 1, NEW o, DatesBefore(o, d)
  PROVE  IF DayAfterHorizon(d) \/ AfterUntil(OnDay(d))
         THEN DatesDone(o)
         ELSE /\ d + 1 \in FirstDay .. LastDay + 1
              /\ DatesBefore(IF NotBeforeStart(OnDay(d)) /\ Weekday(d) \in Wanted
                             THEN Append(o, OnDay(d)) ELSE o, d + 1)
<1>1. /\ start \in Nat /\ FirstDay \in Nat /\ LastDay \in Nat
      /\ Clock(start) \in 0 .. TicksPerDay - 1 /\ 0 \in 0 .. TicksPerDay - 1
      /\ HorizonOf(start) = At(LastDay, Clock(start)) /\ HorizonOf(start) \in Nat
      /\ start = At(FirstDay, Clock(start))
  BY StartIs, RecurrenceAssumption, AtIsTime
<1>2. d \in Nat /\ At(d, 0) \in Nat /\ OnDay(d) \in Nat /\ Day(OnDay(d)) = d
  BY <1>1, AtIsTime DEF OnDay
<1>3. ASSUME NEW t \in Dates
      PROVE  \E e \in FirstDay .. LastDay :
               /\ t = OnDay(e) /\ ~AfterUntil(t) /\ Chosen(e)
               /\ e \in Nat /\ t \in Nat /\ Day(t) = e
  <2>1. PICK e \in FirstDay .. LastDay : t = OnDay(e) /\ ~AfterUntil(t) /\ Chosen(e)
    BY DatesAre
  <2>2. e \in Nat
    BY <1>1
  <2>3. t \in Nat /\ Day(t) = e
    BY <1>1, <2>1, <2>2, AtIsTime DEF OnDay
  <2> QED BY <2>1, <2>2, <2>3
<1>4. DayAfterHorizon(d) <=> d > LastDay
  <2>1. CASE d > LastDay
    <3>1. LastDay \in Nat /\ d \in Nat /\ LastDay < d
      BY <1>1, <1>2, <2>1
    <3>2. At(LastDay, Clock(start)) < At(d, 0)
      BY <1>1, <3>1, AtAscends
    <3> QED BY <1>1, <1>2, <2>1, <3>2 DEF DayAfterHorizon
  <2>2. CASE d = LastDay
    <3>1. d * TicksPerDay \in Nat /\ Clock(start) \in Nat
      BY <1>1, <1>2, RecurrenceAssumption
    <3>2. At(d, 0) <= At(d, Clock(start))
      BY <3>1 DEF At
    <3> QED BY <1>1, <1>2, <2>2, <3>2 DEF DayAfterHorizon
  <2>3. CASE d < LastDay
    <3>1. At(d, 0) < HorizonOf(start)
      BY <1>1, <1>2, <2>3, AtAscends
    <3> QED BY <1>1, <1>2, <2>3, <3>1 DEF DayAfterHorizon
  <2> QED BY <1>1, <1>2, <2>1, <2>2, <2>3
<1>5. ASSUME DayAfterHorizon(d) \/ AfterUntil(OnDay(d)), NEW t \in Dates PROVE Day(t) < d
  <2>1. PICK e \in FirstDay .. LastDay :
          t = OnDay(e) /\ ~AfterUntil(t) /\ e \in Nat /\ t \in Nat /\ Day(t) = e
    BY <1>3
  <2>2. CASE d > LastDay
    BY <1>1, <1>2, <2>1, <2>2
  <2>3. CASE AfterUntil(OnDay(d))
    <3>1. d < e => OnDay(d) < OnDay(e)
      BY <1>1, <1>2, <2>1, AtAscends DEF OnDay
    <3>2. d <= e => OnDay(d) <= t
      BY <1>2, <2>1, <3>1
    <3>3. ~(d <= e)
      BY <1>2, <2>1, <2>3, <3>2, AfterUntilAscends
    <3> QED BY <1>2, <2>1, <3>3
  <2> QED BY <1>4, <1>5, <2>2, <2>3
<1>6. CASE DayAfterHorizon(d) \/ AfterUntil(OnDay(d))
  BY <1>5, <1>6, NoDateIsLeft
<1>7. CASE ~(DayAfterHorizon(d) \/ AfterUntil(OnDay(d)))
  <2>1. d \in FirstDay .. LastDay /\ d + 1 \in FirstDay .. LastDay + 1 /\ d + 1 \in Nat
    BY <1>1, <1>2, <1>4, <1>7
  <2>2. NotBeforeStart(OnDay(d))
    <3>1. CASE d = FirstDay
      BY <1>1, <3>1 DEF NotBeforeStart, OnDay
    <3>2. CASE FirstDay < d
      <4>1. start < OnDay(d)
        BY <1>1, <1>2, <3>2, AtAscends DEF OnDay
      <4> QED BY <1>1, <1>2, <4>1 DEF NotBeforeStart
    <3> QED BY <1>1, <2>1, <3>1, <3>2
  <2>3. Weekday(d) \in Wanted <=> Chosen(d)
    BY <1>2, WantedIsWant DEF Chosen
  <2>4. ASSUME NEW t \in Dates, d <= Day(t), Day(t) < d + 1
        PROVE  t = OnDay(d) /\ Chosen(d)
    BY <1>2, <1>3, <2>4
  <2>5. CASE Chosen(d)
    <3>1. OnDay(d) \in Dates
      BY <1>7, <2>1, <2>5, DatesAre
    <3>2. d \in d .. (d + 1) - 1 /\ FirstDay <= d
      BY <1>2, <2>1
    <3>3. DatesBefore(Append(o, OnDay(d)), d + 1)
      BY <1>2, <2>1, <2>4, <3>1, <3>2, AppendDate
    <3> QED BY <1>7, <2>1, <2>2, <2>3, <2>5, <3>3
  <2>6. CASE ~Chosen(d)
    <3>1. DatesBefore(o, d + 1)
      BY <1>2, <2>1, <2>4, <2>6, SkipDays
    <3> QED BY <1>7, <2>1, <2>3, <2>6, <3>1
  <2> QED BY <2>5, <2>6
<1> QED BY <1>6, <1>7

\* One iteration of expandMonthly on month m.
LEMMA MonthIsWalked ==
  ASSUME start \in Starts, UntilIsKnown, kind = "monthly",
         NEW m \in FirstMonth .. LastMonth, NEW o, DatesBefore(o, MonthStart[m])
  PROVE  LET t == OnDay(ClampMonthDay(m))
         IN  IF t > HorizonOf(start) \/ AfterUntil(t)
             THEN DatesDone(o)
             ELSE /\ m + 1 \in FirstMonth .. LastMonth
                  /\ DatesBefore(IF NotBeforeStart(t) THEN Append(o, t) ELSE o, MonthStart[m + 1])
<1> DEFINE c == ClampMonthDay(m)
           t == OnDay(c)
<1>1. /\ start \in Nat /\ FirstDay \in Nat /\ LastDay \in Nat
      /\ Clock(start) \in 0 .. TicksPerDay - 1
      /\ HorizonOf(start) = At(LastDay, Clock(start)) /\ HorizonOf(start) \in Nat
      /\ start = At(FirstDay, Clock(start))
  BY StartIs, AtIsTime
<1>2. /\ m \in Months /\ m \in Nat /\ FirstMonth \in Months /\ FirstMonth \in Nat
      /\ LastMonth \in Months /\ LastMonth \in Nat
  <2>1. FirstMonth \in Months /\ LastMonth \in Months
    BY StartIs
  <2> QED BY <2>1, MonthsAre
<1>3. /\ c \in Nat /\ MonthStart[m] \in Nat /\ MonthStart[m] <= c
      /\ MonthLength[m] \in Nat /\ c < MonthStart[m] + MonthLength[m]
  BY <1>2, ClampIsLatest, DayIsOfMonth, MonthStartNat, MonthsAre
<1>4. t \in Nat /\ Day(t) = c /\ t = At(c, Clock(start))
  BY <1>1, <1>3, AtIsTime DEF OnDay
<1>5. ASSUME NEW u \in Dates
      PROVE  \E k \in Months :
               LET e == ClampMonthDay(k)
               IN  /\ u = OnDay(e) /\ ~AfterUntil(u) /\ e \in FirstDay .. LastDay
                   /\ e \in Nat /\ u \in Nat /\ Day(u) = e
  <2>1. PICK e \in FirstDay .. LastDay : u = OnDay(e) /\ ~AfterUntil(u) /\ Chosen(e)
    BY DatesAre
  <2>2. PICK k \in Months : e = ClampMonthDay(k)
    BY <2>1 DEF Chosen
  <2>3. e \in Nat
    BY <1>1
  <2>4. u \in Nat /\ Day(u) = e
    BY <1>1, <2>1, <2>3, AtIsTime DEF OnDay
  <2> QED BY <2>1, <2>2, <2>3, <2>4
<1> HIDE DEF c, t
<1>6. t > HorizonOf(start) <=> c > LastDay
  <2>1. CASE c > LastDay
    BY <1>1, <1>3, <1>4, <2>1, AtAscends
  <2>2. CASE c = LastDay
    BY <1>1, <1>3, <1>4, <2>2
  <2>3. CASE c < LastDay
    <3>1. t < HorizonOf(start)
      BY <1>1, <1>3, <1>4, <2>3, AtAscends
    <3> QED BY <1>1, <1>3, <1>4, <2>3, <3>1
  <2> QED BY <1>1, <1>3, <2>1, <2>2, <2>3
<1>7. ASSUME t > HorizonOf(start) \/ AfterUntil(t), NEW u \in Dates PROVE Day(u) < MonthStart[m]
  <2>1. PICK k \in Months :
          LET e == ClampMonthDay(k)
          IN  /\ u = OnDay(e) /\ ~AfterUntil(u) /\ e \in FirstDay .. LastDay
              /\ e \in Nat /\ u \in Nat /\ Day(u) = e
    BY <1>5
  <2>2. k \in Nat
    BY MonthsAre
  <2>3. CASE k < m
    <3>1. ClampMonthDay(k) < MonthStart[m]
      BY <1>2, <2>3, ClampAscends
    <3> QED BY <2>1, <3>1
  <2>4. CASE ~(k < m)
    <3>1. c <= Day(u)
      <4>1. CASE k = m
        BY <1>3, <2>1, <4>1 DEF c
      <4>2. CASE m < k
        <5>1. ClampMonthDay(m) < ClampMonthDay(k)
          BY <1>2, <4>2, ClampAscends
        <5> QED BY <1>3, <2>1, <5>1 DEF c
      <4> QED BY <1>2, <2>2, <2>4, <4>1, <4>2
    <3>2. ~(c > LastDay)
      BY <1>1, <1>3, <2>1, <3>1
    <3>3. c < Day(u) => t < u
      BY <1>1, <1>3, <1>4, <2>1, AtAscends DEF OnDay
    <3>4. c = Day(u) => t = u
      BY <1>4, <2>1 DEF OnDay
    <3>5. t <= u
      BY <1>3, <1>4, <2>1, <3>1, <3>3, <3>4
    <3>6. ~AfterUntil(t)
      BY <1>4, <2>1, <3>5, AfterUntilAscends
    <3> QED BY <1>6, <1>7, <3>2, <3>6
  <2> QED BY <2>3, <2>4
<1>8. CASE t > HorizonOf(start) \/ AfterUntil(t)
  <2>1. DatesDone(o)
    BY <1>7, <1>8, NoDateIsLeft
  <2> QED BY <1>8, <2>1 DEF t, c
<1>9. CASE ~(t > HorizonOf(start) \/ AfterUntil(t))
  <2>1. c <= LastDay
    BY <1>1, <1>3, <1>6, <1>9
  <2>2. m < LastMonth
    <3>1. LastDay < MonthStart[LastMonth] /\ MonthStart[LastMonth] \in Nat
      BY <1>2, StartIs, MonthStartNat
    <3>2. MonthStart[m] < MonthStart[LastMonth]
      BY <1>1, <1>3, <2>1, <3>1
    <3>3. m # LastMonth /\ m <= LastMonth
      BY <3>1, <3>2
    <3> QED BY <1>2, <3>3
  <2>3. m + 1 \in Months /\ m + 1 \in FirstMonth .. LastMonth /\ m + 1 # 1 /\ (m + 1) - 1 = m
    BY <1>2, <2>2, MonthsAre
  <2>4. MonthStart[m + 1] = MonthStart[m] + MonthLength[m]
    BY <2>3, MonthStartIs
  <2>5. FirstDay <= c
    <3>1. CASE m = FirstMonth
      BY <1>1, <3>1, FirstIsClamped DEF c
    <3>2. CASE FirstMonth < m
      <4>1. ClampMonthDay(FirstMonth) < ClampMonthDay(m)
        BY <1>2, <3>2, ClampAscends
      <4> QED BY <1>1, <1>3, <4>1, FirstIsClamped DEF c
    <3> QED BY <1>2, <3>1, <3>2
  <2>6. t \in Dates
    <3>1. c \in FirstDay .. LastDay /\ t = OnDay(c)
      BY <1>1, <1>3, <2>1, <2>5 DEF t
    <3>2. Chosen(c)
      BY <1>2 DEF Chosen, c
    <3> QED BY <1>9, <3>1, <3>2, DatesAre
  <2>7. NotBeforeStart(t)
    <3>1. CASE c = FirstDay
      BY <1>1, <1>4, <3>1 DEF NotBeforeStart
    <3>2. CASE FirstDay < c
      <4>1. start < t
        BY <1>1, <1>3, <1>4, <3>2, AtAscends
      <4> QED BY <1>1, <1>4, <4>1 DEF NotBeforeStart
    <3> QED BY <1>1, <1>3, <2>5, <3>1, <3>2
  <2>8. ASSUME NEW u \in Dates, MonthStart[m] <= Day(u), Day(u) < MonthStart[m + 1]
        PROVE  u = t
    <3>1. PICK k \in Months :
            LET e == ClampMonthDay(k)
            IN  /\ u = OnDay(e) /\ ~AfterUntil(u) /\ e \in FirstDay .. LastDay
                /\ e \in Nat /\ u \in Nat /\ Day(u) = e
      BY <1>5
    <3>2. k \in Nat
      BY MonthsAre
    <3>3. ~(k < m)
      <4>1. k < m => ClampMonthDay(k) < MonthStart[m]
        BY <1>2, ClampAscends
      <4> QED BY <1>3, <2>8, <3>1, <4>1
    <3>4. ~(m < k)
      <4>1. m < k => MonthStart[m] + MonthLength[m] <= MonthStart[k]
        BY <1>2, MonthsAscend
      <4>2. MonthStart[k] <= ClampMonthDay(k) /\ MonthStart[k] \in Nat
        BY <3>1, ClampIsLatest, DayIsOfMonth, MonthStartNat
      <4> QED BY <1>3, <2>4, <2>8, <3>1, <4>1, <4>2
    <3>5. k = m
      BY <1>2, <3>2, <3>3, <3>4
    <3> QED BY <3>1, <3>5 DEF t, c
  <2>9. DatesBefore(Append(o, t), MonthStart[m + 1])
    <3>1. /\ MonthStart[m + 1] \in Nat /\ c \in MonthStart[m] .. MonthStart[m + 1] - 1
      BY <1>3, <2>4
    <3>2. OnDay(c) \in Dates /\ \A u \in Dates :
            MonthStart[m] <= Day(u) /\ Day(u) < MonthStart[m + 1] => u = OnDay(c)
      BY <2>6, <2>8 DEF t
    <3>3. DatesBefore(Append(o, OnDay(c)), MonthStart[m + 1])
      BY <1>3, <2>5, <3>1, <3>2, AppendDate
    <3> QED BY <3>3 DEF t
  <2> QED BY <1>9, <2>3, <2>7, <2>9 DEF t, c
<1> QED BY <1>8, <1>9

-----------------------------------------------------------------------------
(* The inductive invariant.  SeriesIsExact speaks of the end of the loops  *)
(* only; while they run, out has the dates before the day, or before the   *)
(* month, they have come to, and the horizon is ahead of them.              *)

InputIsKnown ==
  kind \in {"weekly", "monthly"} /\ start \in Starts /\ UntilIsKnown

DaysWalked ==
  /\ want \subseteq 1 .. WeekLength
  /\ at \in FirstDay .. LastDay + 1
  /\ DatesBefore(out, at)

MonthsWalked ==
  /\ at \in FirstMonth .. LastMonth
  /\ DatesBefore(out, MonthStart[at])

SeriesInv ==
  /\ InputIsKnown
  /\ pc \in {"called", "walk", "returned", "rejected"}
  /\ pc = "called" => out = <<>>
  /\ pc = "walk" /\ kind = "weekly" => DaysWalked
  /\ pc = "walk" /\ kind = "monthly" => MonthsWalked
  /\ pc = "returned" => DatesDone(out)

\* What the loops do not write keeps its value, and all that depends on it.
LEMMA InputIsKept ==
  UNCHANGED input => /\ Dates' = Dates /\ FirstDay' = FirstDay /\ LastDay' = LastDay
                     /\ FirstMonth' = FirstMonth /\ InputIsKnown' = InputIsKnown
                     /\ kind' = kind /\ want' = want
<1> SUFFICES ASSUME UNCHANGED input
             PROVE  /\ Dates' = Dates /\ FirstDay' = FirstDay /\ LastDay' = LastDay
                    /\ FirstMonth' = FirstMonth /\ InputIsKnown' = InputIsKnown
                    /\ kind' = kind /\ want' = want
  OBVIOUS
<1>1. kind' = kind /\ want' = want /\ start' = start /\ until' = until
  BY DEF input
<1>2. FirstDay' = FirstDay /\ LastDay' = LastDay /\ FirstMonth' = FirstMonth
  BY <1>1 DEF FirstDay, LastDay, FirstMonth
<1>3. EarliestEnd' = EarliestEnd /\ \A end : TimesTo(end)' = TimesTo(end)
  BY <1>1 DEF EarliestEnd, RuleEnd, HorizonOf, TimesTo
<1>4. Dates' = Dates
  BY <1>1, <1>3 DEF Dates, TimesOfRule, WeeklyTimes, MonthlyTimes
<1>5. InputIsKnown' = InputIsKnown
  BY <1>1 DEF InputIsKnown, UntilIsKnown
<1> QED BY <1>1, <1>2, <1>4, <1>5

LEMMA InitEstablishesSeries == Init => SeriesInv
BY DEF Init, SeriesInv, InputIsKnown, UntilIsKnown

LEMMA NextKeepsSeries == SeriesInv /\ [Next]_vars => SeriesInv'
<1> SUFFICES ASSUME SeriesInv, [Next]_vars PROVE SeriesInv'
  OBVIOUS
<1> USE DEF SeriesInv
<1>1. UNCHANGED input
  BY DEF Next, Reject, Enter, WalkDay, WalkMonth, Return, Iterate, vars
<1>2. /\ Dates' = Dates /\ FirstDay' = FirstDay /\ LastDay' = LastDay /\ FirstMonth' = FirstMonth
      /\ InputIsKnown' /\ kind' = kind /\ want' = want
  BY <1>1, InputIsKept
<1>3. start \in Starts /\ UntilIsKnown /\ kind \in {"weekly", "monthly"}
  BY DEF InputIsKnown
<1>4. DatesDone(out) /\ out' = out => DatesDone(out)'
  BY <1>2 DEF DatesDone, IsAscending
<1>5. CASE Reject
  BY <1>2, <1>5 DEF Reject
<1>6. CASE Enter
  <2>1. out = <<>> /\ out' = <<>> /\ pc' = "walk"
    BY <1>6 DEF Enter
  <2>2. ASSUME kind = "weekly" PROVE DaysWalked'
    <3>1. want \subseteq 1 .. WeekLength /\ at' = FirstDay
      BY <1>6, <2>2 DEF Enter, GoodWeekdays, FirstDay
    <3>2. FirstDay \in Nat /\ LastDay \in Nat /\ FirstDay <= LastDay
      BY <1>3, StartIs
    <3>3. DatesBefore(<<>>, FirstDay)
      BY <1>3, <3>2, NoDateBeforeStart
    <3>4. DatesBefore(out, at)'
      BY <1>2, <2>1, <3>1, <3>3 DEF DatesBefore
    <3> QED BY <1>2, <3>1, <3>2, <3>4 DEF DaysWalked
  <2>3. ASSUME kind = "monthly" PROVE MonthsWalked'
    <3>1. at' = FirstMonth
      BY <1>6, <2>3 DEF Enter, FirstMonth, FirstDay
    <3>2. FirstMonth \in Months /\ FirstDay \in Nat /\ FirstDay \in DaysOf(FirstMonth)
      BY <1>3, StartIs
    <3>3. FirstMonth \in FirstMonth .. LastMonth
      BY <3>2, MonthsAre
    <3>4. MonthStart[FirstMonth] \in Nat /\ MonthStart[FirstMonth] <= FirstDay
      BY <3>2, MonthStartNat, DayIsOfMonth
    <3>5. DatesBefore(<<>>, MonthStart[FirstMonth])
      BY <1>3, <3>4, NoDateBeforeStart
    <3>6. DatesBefore(out, MonthStart[at])'
      BY <1>2, <2>1, <3>1, <3>5 DEF DatesBefore
    <3> QED BY <1>2, <3>1, <3>3, <3>6 DEF MonthsWalked
  <2> QED BY <1>2, <2>1, <2>2, <2>3
<1>7. CASE WalkDay
  <2>1. pc = "walk" /\ kind = "weekly" /\ DaysWalked
    BY <1>7 DEF WalkDay
  <2>2. PICK d, o : d = at /\ o = out
    OBVIOUS
  <2>3. d \in FirstDay .. LastDay + 1 /\ DatesBefore(o, d) /\ want \subseteq 1 .. WeekLength
    BY <2>1, <2>2 DEF DaysWalked
  <2>4. CASE DayAfterHorizon(d) \/ AfterUntil(OnDay(d))
    <3>1. DatesDone(o)
      BY <1>3, <2>1, <2>3, <2>4, DayIsWalked
    <3>2. out' = out /\ pc' = "returned"
      BY <1>7, <2>2, <2>4 DEF WalkDay, Return
    <3> QED BY <1>2, <1>4, <2>2, <3>1, <3>2
  <2>5. CASE ~(DayAfterHorizon(d) \/ AfterUntil(OnDay(d)))
    <3> DEFINE p == IF NotBeforeStart(OnDay(d)) /\ Weekday(d) \in Wanted
                    THEN Append(o, OnDay(d)) ELSE o
    <3>1. d + 1 \in FirstDay .. LastDay + 1 /\ DatesBefore(p, d + 1)
      BY <1>3, <2>1, <2>3, <2>5, DayIsWalked
    <3>2. out' = p /\ at' = d + 1 /\ pc' = IF Full(p) THEN "returned" ELSE "walk"
      BY <1>7, <2>2, <2>5 DEF WalkDay, Iterate
    <3> HIDE DEF p
    <3>3. ~Full(p)
      BY <1>3, <3>1, NeverFull
    <3>4. DatesBefore(out, at)'
      BY <1>2, <3>1, <3>2 DEF DatesBefore
    <3>5. DaysWalked'
      BY <1>2, <2>3, <3>1, <3>2, <3>4 DEF DaysWalked
    <3> QED BY <1>2, <2>1, <3>2, <3>3, <3>5
  <2> QED BY <2>4, <2>5
<1>8. CASE WalkMonth
  <2>1. pc = "walk" /\ kind = "monthly" /\ MonthsWalked
    BY <1>8 DEF WalkMonth
  <2>2. PICK m, o : m = at /\ o = out
    OBVIOUS
  <2>3. m \in FirstMonth .. LastMonth /\ DatesBefore(o, MonthStart[m])
    BY <2>1, <2>2 DEF MonthsWalked
  <2> DEFINE t == OnDay(ClampMonthDay(m))
  <2>4. CASE t > HorizonOf(start) \/ AfterUntil(t)
    <3>1. DatesDone(o)
      BY <1>3, <2>1, <2>3, <2>4, MonthIsWalked
    <3>2. out' = out /\ pc' = "returned"
      BY <1>8, <2>2, <2>4 DEF WalkMonth, Return
    <3> QED BY <1>2, <1>4, <2>2, <3>1, <3>2
  <2>5. CASE ~(t > HorizonOf(start) \/ AfterUntil(t))
    <3> DEFINE p == IF NotBeforeStart(t) THEN Append(o, t) ELSE o
    <3>1. m + 1 \in FirstMonth .. LastMonth /\ DatesBefore(p, MonthStart[m + 1])
      BY <1>3, <2>1, <2>3, <2>5, MonthIsWalked
    <3>2. out' = p /\ at' = m + 1 /\ pc' = IF Full(p) THEN "returned" ELSE "walk"
      BY <1>8, <2>2, <2>5 DEF WalkMonth, Iterate
    <3> HIDE DEF p
    <3>3. ~Full(p)
      BY <1>3, <3>1, NeverFull
    <3>4. DatesBefore(out, MonthStart[at])'
      BY <1>2, <3>1, <3>2 DEF DatesBefore
    <3>5. MonthsWalked'
      BY <1>2, <3>1, <3>2, <3>4 DEF MonthsWalked
    <3> QED BY <1>2, <2>1, <3>2, <3>3, <3>5
  <2> QED BY <2>4, <2>5
<1>9. CASE UNCHANGED vars
  <2>1. UNCHANGED <<at, out, pc>>
    BY <1>9 DEF vars
  <2>2. DaysWalked => DaysWalked'
    BY <1>2, <2>1 DEF DaysWalked, DatesBefore
  <2>3. MonthsWalked => MonthsWalked'
    BY <1>2, <2>1 DEF MonthsWalked, DatesBefore
  <2> QED BY <1>2, <1>4, <2>1, <2>2, <2>3
<1> QED BY <1>5, <1>6, <1>7, <1>8, <1>9 DEF Next

\* A weekly series has exactly the times on the chosen weekdays from start to
\* its end, a monthly one those on start's day of the month or the last day of a
\* month that is too short, in order, however long weeks and months are and
\* wherever start, until and the horizon fall: no break of the two loops of
\* recur.go loses a date or lets one too many in, and their limit of 400 dates
\* cuts nothing off.  The end is until, without one the horizon; of a series with
\* an until beyond the horizon it is only said to be between the two.
THEOREM SeriesAreExact == Spec => []SeriesIsExact
<1>1. SeriesInv => SeriesIsExact
  <2> SUFFICES ASSUME SeriesInv, pc = "returned" PROVE SeriesIsExact
    BY DEF SeriesIsExact
  <2>1. OutIs(TimesOfRule(EarliestEnd))
    BY DEF SeriesInv, OutIs, DatesDone, Dates
  <2>2. EarliestEnd \in EarliestEnd .. RuleEnd
    <3>1. start \in Starts /\ UntilIsKnown
      BY DEF SeriesInv, InputIsKnown
    <3>2. HorizonOf(start) \in Nat
      BY <3>1, StartIs, AtIsTime
    <3>3. RuleEnd \in Nat
      BY <3>1, <3>2, RecurrenceAssumption DEF RuleEnd, UntilIsKnown
    <3> QED BY <3>2, <3>3 DEF EarliestEnd
  <2> QED BY <2>1, <2>2 DEF SeriesIsExact
<1> QED BY <1>1, InitEstablishesSeries, NextKeepsSeries, PTL DEF Spec
=============================================================================
