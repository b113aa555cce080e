-------------------------- MODULE NewsmakerProofs ---------------------------
(***************************************************************************)
(* Proofs about the queue and about the process as main.go wires it, for   *)
(* any number of posts, series, channels, restarts and failed statements.  *)
(*                                                                         *)
(* First the queue alone (Spec of Schedule), then the process (NMSpec):    *)
(* the invariants of the queue and of the sends hold together, although a  *)
(* statement that fails counts for both, and relate the two.               *)
(***************************************************************************)
EXTENDS Newsmaker, TLAPS

-----------------------------------------------------------------------------
(* Types.                                                                  *)

\* Every action keeps every variable within its type.
LEMMA TypeStep == TypeOK /\ [Next]_vars => TypeOK'
<1> SUFFICES ASSUME TypeOK, [Next]_vars PROVE TypeOK'
  OBVIOUS
<1> USE ScheduleAssumption
      DEF TypeOK, Times, Statuses, table, creator, worker, history
<1>1. CASE Pass
  BY <1>1 DEF Pass
<1>2. ASSUME NEW p \in Posts, NEW t \in Times, Create(p, t)
      PROVE TypeOK'
  BY <1>2 DEF Create, Insert, SetStatus
<1>3. ASSUME NEW s \in Series, NEW T \in SUBSET Times, BeginSeries(s, T)
      PROVE TypeOK'
  BY <1>3 DEF BeginSeries
<1>4. ASSUME NEW s \in Series, NEW p \in Posts, InsertOccurrence(s, p)
      PROVE TypeOK'
  BY <1>4 DEF InsertOccurrence, Insert, SetStatus
<1>5. ASSUME NEW s \in Series, InsertFails(s)
      PROVE TypeOK'
  BY <1>5 DEF InsertFails, DbFails
<1>6. ASSUME NEW s \in Series, CancelSeries(s)
      PROVE TypeOK'
  BY <1>6 DEF CancelSeries, SetStatus
<1>7. ASSUME NEW p \in Posts, Cancel(p)
      PROVE TypeOK'
  BY <1>7 DEF Cancel, SetStatus
<1>8. CASE ListDue
  BY <1>8 DEF ListDue, Due, WithStatus
<1>9. ASSUME NEW p \in Posts, TakeNext(p)
      PROVE TypeOK'
  BY <1>9 DEF TakeNext
<1>10. CASE Claim
  BY <1>10 DEF Claim, SetStatus
<1>11. CASE ClaimMisses
  BY <1>11 DEF ClaimMisses, LetGo
<1>12. CASE ClaimFails
  BY <1>12 DEF ClaimFails, LetGo, DbFails
<1>13. ASSUME NEW outcome \in {"done", "failed"}, ExecuteReturns(outcome)
       PROVE TypeOK'
  BY <1>13 DEF ExecuteReturns
<1>14. CASE Mark
  BY <1>14 DEF Mark, SetStatus, MarkStatus, LetGo
<1>15. CASE MarkFails
  BY <1>15 DEF MarkFails, LetGo, DbFails
<1>16. CASE Boot
  BY <1>16 DEF Boot, SetStatus, DbFails, WithStatus
<1>17. CASE Sigterm
  BY <1>17 DEF Sigterm
<1>18. CASE Exit \/ Crash
  BY <1>18 DEF Exit, Crash, Vanish, LetGo
<1>19. CASE UNCHANGED vars
  BY <1>19 DEF vars
<1> QED
  BY <1>1, <1>2, <1>3, <1>4, <1>5, <1>6, <1>7, <1>8, <1>9, <1>10, <1>11,
     <1>12, <1>13, <1>14, <1>15, <1>16, <1>17, <1>18, <1>19
     DEF Next, HandlerStep, WorkerStep, ProcessStep

\* Schedule keeps every variable within its type.
THEOREM TypeInvariant == Spec => []TypeOK
<1>1. Init => TypeOK
  BY ScheduleAssumption DEF Init, TypeOK, Times, Statuses
<1>2. TypeOK /\ [Next]_vars => TypeOK'
  BY TypeStep
<1> QED
  BY <1>1, <1>2, PTL DEF Spec

-----------------------------------------------------------------------------
(* The row the worker holds.                                               *)

\* A process that is down has no worker.
IdleWhenDown == proc = "down" => pc = "tick" /\ batch = {}

\* A row executed since the last start has left "pending" for good.
RanIsPastPending == \A p \in ran : status[p] \in {"sending", "done", "failed"}

Ownership == IdleWhenDown /\ MarkOwnsRow /\ RanIsPastPending

\* The worker keeps its row from the claim to the mark: the handlers change
\* only "pending" rows, an INSERT only "absent" ones, and the recovery runs
\* before the worker does.
LEMMA OwnershipStep ==
  TypeOK /\ Ownership /\ [Next]_vars => Ownership'
<1> SUFFICES ASSUME TypeOK, Ownership, [Next]_vars PROVE Ownership'
  OBVIOUS
<1> USE ScheduleAssumption
      DEF TypeOK, Ownership, IdleWhenDown, MarkOwnsRow, RanIsPastPending,
          Executing, table, creator, worker, history, Statuses
<1>1. CASE Pass
  BY <1>1 DEF Pass
<1>2. ASSUME NEW p \in Posts, NEW t \in Times, Create(p, t)
      PROVE Ownership'
  BY <1>2 DEF Create, Insert, SetStatus
<1>3. ASSUME NEW s \in Series, NEW T \in SUBSET Times, BeginSeries(s, T)
      PROVE Ownership'
  BY <1>3 DEF BeginSeries
<1>4. ASSUME NEW s \in Series, NEW p \in Posts, InsertOccurrence(s, p)
      PROVE Ownership'
  BY <1>4 DEF InsertOccurrence, Insert, SetStatus
<1>5. ASSUME NEW s \in Series, InsertFails(s)
      PROVE Ownership'
  BY <1>5 DEF InsertFails
<1>6. ASSUME NEW s \in Series, CancelSeries(s)
      PROVE Ownership'
  BY <1>6 DEF CancelSeries, SetStatus, CancelSeriesWhere, WithStatus
<1>7. ASSUME NEW p \in Posts, Cancel(p)
      PROVE Ownership'
  BY <1>7 DEF Cancel, SetStatus, CancelWhere, WithStatus
<1>8. CASE ListDue
  BY <1>8 DEF ListDue
<1>9. ASSUME NEW p \in Posts, TakeNext(p)
      PROVE Ownership'
  BY <1>9 DEF TakeNext
<1>10. CASE Claim
  BY <1>10 DEF Claim, SetStatus, ClaimWhere, WithStatus, Serving
<1>11. CASE ClaimMisses
  BY <1>11 DEF ClaimMisses, LetGo, Serving
<1>12. CASE ClaimFails
  BY <1>12 DEF ClaimFails, LetGo, Serving
<1>13. ASSUME NEW outcome \in {"done", "failed"}, ExecuteReturns(outcome)
       PROVE Ownership'
  BY <1>13 DEF ExecuteReturns, Serving
<1>14. CASE Mark
  BY <1>14 DEF Mark, SetStatus, MarkWhere, MarkStatus, LetGo, Serving
<1>15. CASE MarkFails
  BY <1>15 DEF MarkFails, LetGo, Serving
<1>16. CASE Boot
  BY <1>16 DEF Boot
<1>17. CASE Sigterm
  BY <1>17 DEF Sigterm
<1>18. CASE Exit \/ Crash
  BY <1>18 DEF Exit, Crash, Vanish, LetGo
<1>19. CASE UNCHANGED vars
  BY <1>19 DEF vars
<1> QED
  BY <1>1, <1>2, <1>3, <1>4, <1>5, <1>6, <1>7, <1>8, <1>9, <1>10, <1>11,
     <1>12, <1>13, <1>14, <1>15, <1>16, <1>17, <1>18, <1>19
     DEF Next, HandlerStep, WorkerStep, ProcessStep

\* What the unguarded MarkDone and MarkFailed overwrite is always the
\* "sending" of the row the worker itself claimed.
THEOREM WorkerOwnsItsRow == Spec => []MarkOwnsRow
<1>1. Init => Ownership
  BY DEF Init, Ownership, IdleWhenDown, MarkOwnsRow, RanIsPastPending, Executing
<1>2. TypeOK /\ Ownership /\ [Next]_vars => Ownership'
  BY OwnershipStep
<1>3. Ownership => MarkOwnsRow
  BY DEF Ownership
<1> QED
  BY <1>1, <1>2, <1>3, TypeInvariant, PTL DEF Spec

\* No post is executed twice between two starts of the process.
THEOREM NotExecutedTwice == Spec => []OncePerBoot
<1>1. Init => Ownership
  BY DEF Init, Ownership, IdleWhenDown, MarkOwnsRow, RanIsPastPending, Executing
<1>2. TypeOK /\ Ownership /\ [Next]_vars => Ownership'
  BY OwnershipStep
<1>3. Ownership => OncePerBoot
  BY DEF Ownership, RanIsPastPending, OncePerBoot
<1> QED
  BY <1>1, <1>2, <1>3, TypeInvariant, PTL DEF Spec

-----------------------------------------------------------------------------
(* Rows left in "sending".                                                 *)

\* A step that fails a statement may leave a row behind; every other step
\* makes or ends a "sending" row together with the worker's hold on it.
LEMMA AccountedStep ==
  TypeOK /\ Ownership /\ SendingAccounted /\ [Next]_vars => SendingAccounted'
<1> SUFFICES ASSUME TypeOK, Ownership, SendingAccounted, [Next]_vars
             PROVE  SendingAccounted'
  OBVIOUS
<1> USE ScheduleAssumption
      DEF TypeOK, SendingAccounted, WithStatus, Executing, Serving,
          table, creator, worker, history, Statuses
<1>1. CASE Pass
  BY <1>1 DEF Pass
<1>2. ASSUME NEW p \in Posts, NEW t \in Times, Create(p, t)
      PROVE SendingAccounted'
  BY <1>2 DEF Create, Insert, SetStatus
<1>3. ASSUME NEW s \in Series, NEW T \in SUBSET Times, BeginSeries(s, T)
      PROVE SendingAccounted'
  BY <1>3 DEF BeginSeries
<1>4. ASSUME NEW s \in Series, NEW p \in Posts, InsertOccurrence(s, p)
      PROVE SendingAccounted'
  BY <1>4 DEF InsertOccurrence, Insert, SetStatus
<1>5. ASSUME NEW s \in Series, InsertFails(s)
      PROVE SendingAccounted'
  BY <1>5 DEF InsertFails, DbFails
<1>6. ASSUME NEW s \in Series, CancelSeries(s)
      PROVE SendingAccounted'
  BY <1>6 DEF CancelSeries, SetStatus, CancelSeriesWhere
<1>7. ASSUME NEW p \in Posts, Cancel(p)
      PROVE SendingAccounted'
  BY <1>7 DEF Cancel, SetStatus, CancelWhere
<1>8. CASE ListDue
  BY <1>8 DEF ListDue
<1>9. ASSUME NEW p \in Posts, TakeNext(p)
      PROVE SendingAccounted'
  BY <1>9 DEF TakeNext
<1>10. CASE Claim
  BY <1>10 DEF Claim, SetStatus, ClaimWhere
<1>11. CASE ClaimMisses
  BY <1>11 DEF ClaimMisses, LetGo
<1>12. CASE ClaimFails
  BY <1>12 DEF ClaimFails, LetGo, DbFails
<1>13. ASSUME NEW outcome \in {"done", "failed"}, ExecuteReturns(outcome)
       PROVE SendingAccounted'
  BY <1>13 DEF ExecuteReturns
<1>14. CASE Mark
  BY <1>14 DEF Mark, SetStatus, MarkWhere, MarkStatus, LetGo
<1>15. CASE MarkFails
  BY <1>15 DEF MarkFails, LetGo, DbFails
<1>16. CASE Boot
  BY <1>16 DEF Boot, SetStatus, DbFails, RecoverWhere
<1>17. CASE Sigterm
  BY <1>17 DEF Sigterm
<1>18. CASE Exit \/ Crash
  BY <1>18 DEF Exit, Crash, Vanish, LetGo
<1>19. CASE UNCHANGED vars
  BY <1>19 DEF vars
<1> QED
  BY <1>1, <1>2, <1>3, <1>4, <1>5, <1>6, <1>7, <1>8, <1>9, <1>10, <1>11,
     <1>12, <1>13, <1>14, <1>15, <1>16, <1>17, <1>18, <1>19
     DEF Next, HandlerStep, WorkerStep, ProcessStep

\* While the process runs, a row in "sending" is the worker's, or a statement
\* has failed.
THEOREM SendingIsAccountedFor == Spec => []SendingAccounted
<1>1. Init => Ownership /\ SendingAccounted
  BY DEF Init, Ownership, IdleWhenDown, MarkOwnsRow, RanIsPastPending,
         Executing, SendingAccounted, WithStatus, Serving
<1>2. TypeOK /\ Ownership /\ [Next]_vars => Ownership'
  BY OwnershipStep
<1>3. TypeOK /\ Ownership /\ SendingAccounted /\ [Next]_vars
        => SendingAccounted'
  BY AccountedStep
<1> QED
  BY <1>1, <1>2, <1>3, TypeInvariant, PTL DEF Spec

-----------------------------------------------------------------------------
(* Punctuality.                                                            *)

\* A row the worker has listed or taken was due, and time does not go back.
DueRow(p) == status[p] # "absent" /\ sendAt[p] <= now

ListedIsDue ==
  /\ \A p \in batch : DueRow(p)
  /\ pc # "tick" => DueRow(cur)

Punctual == ListedIsDue /\ NeverEarly

\* The claim is the only way into "sending", and what it claims was due when
\* it was listed; an INSERT gives a send_at only to a new row.
LEMMA PunctualStep == TypeOK /\ Punctual /\ [Next]_vars => Punctual'
<1> SUFFICES ASSUME TypeOK, Punctual, [Next]_vars PROVE Punctual'
  OBVIOUS
<1> USE ScheduleAssumption
      DEF TypeOK, Punctual, ListedIsDue, DueRow, NeverEarly, Times,
          table, creator, worker, history, Statuses
<1>1. CASE Pass
  BY <1>1 DEF Pass
<1>2. ASSUME NEW p \in Posts, NEW t \in Times, Create(p, t)
      PROVE Punctual'
  BY <1>2 DEF Create, Insert, SetStatus
<1>3. ASSUME NEW s \in Series, NEW T \in SUBSET Times, BeginSeries(s, T)
      PROVE Punctual'
  BY <1>3 DEF BeginSeries
<1>4. ASSUME NEW s \in Series, NEW p \in Posts, InsertOccurrence(s, p)
      PROVE Punctual'
  BY <1>4 DEF InsertOccurrence, Insert, SetStatus
<1>5. ASSUME NEW s \in Series, InsertFails(s)
      PROVE Punctual'
  BY <1>5 DEF InsertFails
<1>6. ASSUME NEW s \in Series, CancelSeries(s)
      PROVE Punctual'
  BY <1>6 DEF CancelSeries, SetStatus, CancelSeriesWhere, WithStatus
<1>7. ASSUME NEW p \in Posts, Cancel(p)
      PROVE Punctual'
  BY <1>7 DEF Cancel, SetStatus, CancelWhere, WithStatus
<1>8. CASE ListDue
  BY <1>8 DEF ListDue, Due, WithStatus
<1>9. ASSUME NEW p \in Posts, TakeNext(p)
      PROVE Punctual'
  BY <1>9 DEF TakeNext
<1>10. CASE Claim
  BY <1>10 DEF Claim, SetStatus, ClaimWhere, WithStatus
<1>11. CASE ClaimMisses
  BY <1>11 DEF ClaimMisses, LetGo
<1>12. CASE ClaimFails
  BY <1>12 DEF ClaimFails, LetGo
<1>13. ASSUME NEW outcome \in {"done", "failed"}, ExecuteReturns(outcome)
       PROVE Punctual'
  BY <1>13 DEF ExecuteReturns
<1>14. CASE Mark
  BY <1>14 DEF Mark, SetStatus, MarkWhere, MarkStatus, LetGo
<1>15. CASE MarkFails
  BY <1>15 DEF MarkFails, LetGo
<1>16. CASE Boot
  BY <1>16 DEF Boot, SetStatus, RecoverWhere, WithStatus
<1>17. CASE Sigterm
  BY <1>17 DEF Sigterm
<1>18. CASE Exit \/ Crash
  BY <1>18 DEF Exit, Crash, Vanish, LetGo
<1>19. CASE UNCHANGED vars
  BY <1>19 DEF vars
<1> QED
  BY <1>1, <1>2, <1>3, <1>4, <1>5, <1>6, <1>7, <1>8, <1>9, <1>10, <1>11,
     <1>12, <1>13, <1>14, <1>15, <1>16, <1>17, <1>18, <1>19
     DEF Next, HandlerStep, WorkerStep, ProcessStep

\* No post is sent before its send_at.
THEOREM SentOnlyWhenDue == Spec => []NeverEarly
<1>1. Init => Punctual
  BY DEF Init, Punctual, ListedIsDue, NeverEarly
<1>2. TypeOK /\ Punctual /\ [Next]_vars => Punctual'
  BY PunctualStep
<1>3. Punctual => NeverEarly
  BY DEF Punctual
<1> QED
  BY <1>1, <1>2, <1>3, TypeInvariant, PTL DEF Spec

-----------------------------------------------------------------------------
(* Series.                                                                 *)

\* A row with a series_id comes from a creation that began, and only the end
\* of a creation lets CancelSeries count as coming after it.
SeriesBegan ==
  \A s \in Series :
    /\ SeriesRows(s) # {} => seriesState[s] # "none"
    /\ cancelOf[s] = "after" => seriesState[s] \notin {"none", "creating"}

SeriesInv == SeriesBegan /\ SeriesIsPrefix /\ CancelledSeriesQuiet

\* Rows are inserted into a series in the order of their dates, and only
\* while it is being created.
LEMMA SeriesStep ==
  TypeOK /\ Ownership /\ SeriesInv /\ [Next]_vars => SeriesInv'
<1> SUFFICES ASSUME TypeOK, Ownership, SeriesInv, [Next]_vars
             PROVE  SeriesInv'
  OBVIOUS
<1> USE ScheduleAssumption
      DEF TypeOK, SeriesInv, SeriesBegan, SeriesIsPrefix, SeriesRows,
          CancelledSeriesQuiet, CancelledIn, WithStatus, Times,
          table, creator, worker, history, Statuses
<1>1. CASE Pass
  BY <1>1 DEF Pass
<1>2. ASSUME NEW p \in Posts, NEW t \in Times, Create(p, t)
      PROVE SeriesInv'
  BY <1>2 DEF Create, Insert, SetStatus
<1>3. ASSUME NEW s \in Series, NEW T \in SUBSET Times, BeginSeries(s, T)
      PROVE SeriesInv'
  BY <1>3 DEF BeginSeries
<1>4. ASSUME NEW s \in Series, NEW p \in Posts, InsertOccurrence(s, p)
      PROVE SeriesInv'
  BY <1>4 DEF InsertOccurrence, Insert, SetStatus, NextOccurrence
<1>5. ASSUME NEW s \in Series, InsertFails(s)
      PROVE SeriesInv'
  BY <1>5 DEF InsertFails
<1>6. ASSUME NEW s \in Series, CancelSeries(s)
      PROVE SeriesInv'
  BY <1>6 DEF CancelSeries, SetStatus, CancelSeriesWhere
<1>7. ASSUME NEW p \in Posts, Cancel(p)
      PROVE SeriesInv'
  BY <1>7 DEF Cancel, SetStatus, CancelWhere
<1>8. CASE ListDue
  BY <1>8 DEF ListDue
<1>9. ASSUME NEW p \in Posts, TakeNext(p)
      PROVE SeriesInv'
  BY <1>9 DEF TakeNext
<1>10. CASE Claim
  BY <1>10 DEF Claim, SetStatus, ClaimWhere
<1>11. CASE ClaimMisses
  BY <1>11 DEF ClaimMisses, LetGo
<1>12. CASE ClaimFails
  BY <1>12 DEF ClaimFails, LetGo
<1>13. ASSUME NEW outcome \in {"done", "failed"}, ExecuteReturns(outcome)
       PROVE SeriesInv'
  BY <1>13 DEF ExecuteReturns
<1>14. CASE Mark
  BY <1>14 DEF Mark, SetStatus, MarkWhere, MarkStatus, LetGo,
               Ownership, MarkOwnsRow, Executing
<1>15. CASE MarkFails
  BY <1>15 DEF MarkFails, LetGo
<1>16. CASE Boot
  BY <1>16 DEF Boot, SetStatus, RecoverWhere
<1>17. CASE Sigterm
  BY <1>17 DEF Sigterm
<1>18. CASE Exit \/ Crash
  BY <1>18 DEF Exit, Crash, Vanish, LetGo
<1>19. CASE UNCHANGED vars
  BY <1>19 DEF vars
<1> QED
  BY <1>1, <1>2, <1>3, <1>4, <1>5, <1>6, <1>7, <1>8, <1>9, <1>10, <1>11,
     <1>12, <1>13, <1>14, <1>15, <1>16, <1>17, <1>18, <1>19
     DEF Next, HandlerStep, WorkerStep, ProcessStep

\* The invariant of a series holds together with the worker's hold on its row.
LEMMA SeriesInvariant == Spec => []SeriesInv
<1>1. Init => Ownership /\ SeriesInv
  BY DEF Init, Ownership, IdleWhenDown, MarkOwnsRow, RanIsPastPending,
         Executing, SeriesInv, SeriesBegan, SeriesIsPrefix, SeriesRows,
         CancelledSeriesQuiet, CancelledIn, WithStatus
<1>2. TypeOK /\ Ownership /\ [Next]_vars => Ownership'
  BY OwnershipStep
<1>3. TypeOK /\ Ownership /\ SeriesInv /\ [Next]_vars => SeriesInv'
  BY SeriesStep
<1> QED
  BY <1>1, <1>2, <1>3, TypeInvariant, PTL DEF Spec

\* A series cut short by an error or a crash has its first dates and no other.
THEOREM PartialSeriesIsPrefix == Spec => []SeriesIsPrefix
<1>1. SeriesInv => SeriesIsPrefix
  BY DEF SeriesInv
<1> QED
  BY <1>1, SeriesInvariant, PTL

\* No row of a series cancelled after its creation waits to be sent, but for
\* one that a restart put back.
THEOREM CancelledSeriesStaysQuiet == Spec => []CancelledSeriesQuiet
<1>1. SeriesInv => CancelledSeriesQuiet
  BY DEF SeriesInv
<1> QED
  BY <1>1, SeriesInvariant, PTL

-----------------------------------------------------------------------------
(* Action properties.                                                      *)

\* No step rewrites a row that is done, failed or cancelled.
LEMMA FinalStep ==
  TypeOK /\ Ownership /\ [Next]_vars
    => \A p \in Posts : status[p] \in Final => status'[p] = status[p]
<1> SUFFICES ASSUME TypeOK, Ownership, [Next]_vars,
                    NEW p \in Posts, status[p] \in Final
             PROVE  status'[p] = status[p]
  OBVIOUS
<1> USE DEF TypeOK, Final, SetStatus, WithStatus, table
<1>1. CASE HandlerStep
  BY <1>1 DEF HandlerStep, Create, BeginSeries, InsertOccurrence, Insert,
              InsertFails, Cancel, CancelWhere, CancelSeries, CancelSeriesWhere
<1>2. CASE Claim
  BY <1>2 DEF Claim, ClaimWhere
<1>3. CASE Mark
  BY <1>3 DEF Mark, MarkWhere, Ownership, MarkOwnsRow, Executing
<1>4. CASE WorkerStep /\ ~Claim /\ ~Mark
  BY <1>4 DEF WorkerStep, ListDue, TakeNext, ClaimMisses, ClaimFails,
              ExecuteReturns, MarkFails
<1>5. CASE Boot
  BY <1>5 DEF Boot, RecoverWhere
<1>6. CASE ProcessStep /\ ~Boot
  BY <1>6 DEF ProcessStep, Sigterm, Exit, Crash, Vanish
<1>7. CASE Pass \/ UNCHANGED vars
  BY <1>7 DEF Pass, vars
<1> QED
  BY <1>1, <1>2, <1>3, <1>4, <1>5, <1>6, <1>7 DEF Next, WorkerStep, ProcessStep

\* The end of a post is final.
THEOREM FinalIsFinal == Spec => FinalStays
<1>1. Init => Ownership
  BY DEF Init, Ownership, IdleWhenDown, MarkOwnsRow, RanIsPastPending, Executing
<1>2. TypeOK /\ Ownership /\ [Next]_vars => Ownership'
  BY OwnershipStep
<1>3. TypeOK /\ Ownership /\ [Next]_vars
        => [\A p \in Posts : status[p] \in Final => status'[p] = status[p]]_vars
  BY FinalStep
<1> QED
  BY <1>1, <1>2, <1>3, TypeInvariant, PTL DEF Spec, FinalStays

-----------------------------------------------------------------------------
(* Order of the claims.                                                    *)

\* The single posts that wait and are not before the worker.
Waiting ==
  {q \in WithStatus("pending") \ batch :
     seriesOf[q] = NoSeries /\ (pc = "claim" => q # cur)}

\* As long as no statement has failed, what is before the worker is no later
\* than any single post that is not, and it takes the earliest first.
InOrder ==
  dbErrors = 0 =>
    /\ \A p \in batch, q \in Waiting : sendAt[p] <= sendAt[q]
    /\ pc = "claim" =>
         \A q \in batch \cup Waiting : sendAt[cur] <= sendAt[q]

\* A post inserted after a listing lies in the future, so behind the listed
\* rows; a claim that misses leaves a row that no longer waits.
LEMMA InOrderStep ==
  TypeOK /\ Ownership /\ Punctual /\ InOrder /\ [Next]_vars => InOrder'
<1> SUFFICES ASSUME TypeOK, Ownership, Punctual, InOrder, [Next]_vars
             PROVE  InOrder'
  OBVIOUS
<1> USE ScheduleAssumption
      DEF TypeOK, InOrder, Waiting, WithStatus, Times,
          table, creator, worker, history, Statuses
<1>1. CASE Pass
  BY <1>1 DEF Pass
<1>2. ASSUME NEW p \in Posts, NEW t \in Times, Create(p, t)
      PROVE InOrder'
  BY <1>2 DEF Create, Insert, SetStatus, Punctual, ListedIsDue, DueRow
<1>3. ASSUME NEW s \in Series, NEW T \in SUBSET Times, BeginSeries(s, T)
      PROVE InOrder'
  BY <1>3 DEF BeginSeries
<1>4. ASSUME NEW s \in Series, NEW p \in Posts, InsertOccurrence(s, p)
      PROVE InOrder'
  BY <1>4 DEF InsertOccurrence, Insert, SetStatus,
              Punctual, ListedIsDue, DueRow
<1>5. ASSUME NEW s \in Series, InsertFails(s)
      PROVE InOrder'
  BY <1>5 DEF InsertFails, DbFails
<1>6. ASSUME NEW s \in Series, CancelSeries(s)
      PROVE InOrder'
  BY <1>6 DEF CancelSeries, SetStatus, CancelSeriesWhere
<1>7. ASSUME NEW p \in Posts, Cancel(p)
      PROVE InOrder'
  BY <1>7 DEF Cancel, SetStatus, CancelWhere
<1>8. CASE ListDue
  BY <1>8 DEF ListDue, Due, OrderedBySendAt
<1>9. ASSUME NEW p \in Posts, TakeNext(p)
      PROVE InOrder'
  BY <1>9 DEF TakeNext
<1>10. CASE Claim
  BY <1>10 DEF Claim, SetStatus, ClaimWhere
<1>11. CASE ClaimMisses
  BY <1>11 DEF ClaimMisses, ClaimWhere, LetGo
<1>12. CASE ClaimFails
  BY <1>12 DEF ClaimFails, LetGo, DbFails
<1>13. ASSUME NEW outcome \in {"done", "failed"}, ExecuteReturns(outcome)
       PROVE InOrder'
  BY <1>13 DEF ExecuteReturns
<1>14. CASE Mark
  BY <1>14 DEF Mark, SetStatus, MarkWhere, MarkStatus, LetGo
<1>15. CASE MarkFails
  BY <1>15 DEF MarkFails, LetGo, DbFails
<1>16. CASE Boot
  BY <1>16 DEF Boot, Ownership, IdleWhenDown
<1>17. CASE Sigterm
  BY <1>17 DEF Sigterm
<1>18. CASE Exit \/ Crash
  BY <1>18 DEF Exit, Crash, Vanish, LetGo
<1>19. CASE UNCHANGED vars
  BY <1>19 DEF vars
<1> QED
  BY <1>1, <1>2, <1>3, <1>4, <1>5, <1>6, <1>7, <1>8, <1>9, <1>10, <1>11,
     <1>12, <1>13, <1>14, <1>15, <1>16, <1>17, <1>18, <1>19
     DEF Next, HandlerStep, WorkerStep, ProcessStep

ClaimInOrder ==
  \A p, q \in Posts :
    /\ status[p] = "pending" /\ status'[p] = "sending"
    /\ status[q] = "pending" /\ seriesOf[q] = NoSeries
    /\ dbErrors = 0
    => sendAt[p] <= sendAt[q]

\* Only the claim makes a pending row "sending", and it claims the row before
\* the worker.
LEMMA ClaimInOrderStep ==
  TypeOK /\ Ownership /\ InOrder /\ [Next]_vars => ClaimInOrder
<1> SUFFICES ASSUME TypeOK, Ownership, InOrder, [Next]_vars,
                    NEW p \in Posts, NEW q \in Posts,
                    status[p] = "pending", status'[p] = "sending",
                    status[q] = "pending", seriesOf[q] = NoSeries,
                    dbErrors = 0
             PROVE  sendAt[p] <= sendAt[q]
  BY DEF ClaimInOrder
<1> USE DEF TypeOK, SetStatus, WithStatus, table
<1>1. CASE Claim
  <2>1. p = cur /\ pc = "claim"
    BY <1>1 DEF Claim, ClaimWhere
  <2>2. q = cur \/ q \in batch \cup Waiting
    BY DEF Waiting
  <2> QED
    BY <2>1, <2>2 DEF InOrder, Times
<1>2. CASE HandlerStep
  BY <1>2 DEF HandlerStep, Create, BeginSeries, InsertOccurrence, Insert,
              InsertFails, Cancel, CancelSeries
<1>3. CASE Mark
  BY <1>3 DEF Mark, MarkStatus
<1>4. CASE WorkerStep /\ ~Claim /\ ~Mark
  BY <1>4 DEF WorkerStep, ListDue, TakeNext, ClaimMisses, ClaimFails,
              ExecuteReturns, MarkFails
<1>5. CASE Boot
  BY <1>5 DEF Boot, RecoverWhere
<1>6. CASE ProcessStep /\ ~Boot
  BY <1>6 DEF ProcessStep, Sigterm, Exit, Crash, Vanish
<1>7. CASE Pass \/ UNCHANGED vars
  BY <1>7 DEF Pass, vars
<1> QED
  BY <1>1, <1>2, <1>3, <1>4, <1>5, <1>6, <1>7 DEF Next, WorkerStep, ProcessStep

\* Single posts are sent in the order of their send_at.
THEOREM SentInOrder == Spec => ClaimsInOrder
<1>1. Init => Ownership /\ Punctual /\ InOrder
  BY DEF Init, Ownership, IdleWhenDown, MarkOwnsRow, RanIsPastPending,
         Executing, Punctual, ListedIsDue, NeverEarly, InOrder
<1>2. TypeOK /\ Ownership /\ [Next]_vars => Ownership'
  BY OwnershipStep
<1>3. TypeOK /\ Punctual /\ [Next]_vars => Punctual'
  BY PunctualStep
<1>4. TypeOK /\ Ownership /\ Punctual /\ InOrder /\ [Next]_vars => InOrder'
  BY InOrderStep
<1>5. TypeOK /\ Ownership /\ InOrder /\ [Next]_vars => [ClaimInOrder]_vars
  BY ClaimInOrderStep
<1> QED
  BY <1>1, <1>2, <1>3, <1>4, <1>5, TypeInvariant, PTL
     DEF Spec, ClaimsInOrder, ClaimInOrder

-----------------------------------------------------------------------------
(* Refinement of PostLifecycle.                                            *)

\* Every step of the scheduler is a step in the life of its posts or leaves
\* them where they are.
LEMMA LifecycleStep ==
  TypeOK /\ Ownership /\ [Next]_vars => [Lifecycle!Next]_(Lifecycle!vars)
<1> SUFFICES ASSUME TypeOK, Ownership, [Next]_vars
             PROVE  Lifecycle!Next \/ UNCHANGED Lifecycle!vars
  OBVIOUS
<1> USE DEF TypeOK, Statuses, StageOf, SetStatus, WithStatus, table,
            Lifecycle!Move, Lifecycle!At
<1>1. ASSUME NEW p \in Posts, NEW t \in Times, NEW s,
             Insert(p, t, s), UNCHANGED ran
      PROVE  Lifecycle!Accept(p)
  BY <1>1 DEF Insert, Lifecycle!Accept
<1>2. CASE HandlerStep
  <2>1. ASSUME NEW p \in Posts, NEW t \in Times, Create(p, t)
        PROVE  Lifecycle!Next
    BY <2>1, <1>1 DEF Create, history, Lifecycle!Next
  <2>2. ASSUME NEW s \in Series, NEW p \in Posts, InsertOccurrence(s, p)
        PROVE  Lifecycle!Next
    BY <2>2, <1>1 DEF InsertOccurrence, history, Lifecycle!Next
  <2>3. ASSUME NEW s \in Series, CancelSeries(s)
        PROVE  Lifecycle!Next
    <3>1. PICK S \in SUBSET Posts : S = CancelSeriesWhere(s)
      BY DEF CancelSeriesWhere, SeriesRows
    <3>2. Lifecycle!Withdraw(S)
      BY <2>3, <3>1 DEF CancelSeries, CancelSeriesWhere, SeriesRows,
                        Lifecycle!Withdraw
    <3> QED
      BY <3>2 DEF Lifecycle!Next
  <2>4. ASSUME NEW p \in Posts, Cancel(p)
        PROVE  Lifecycle!Next
    <3>1. PICK S \in SUBSET Posts : S = CancelWhere(p)
      BY DEF CancelWhere
    <3>2. Lifecycle!Withdraw(S)
      BY <2>4, <3>1 DEF Cancel, CancelWhere, history, Lifecycle!Withdraw
    <3> QED
      BY <3>2 DEF Lifecycle!Next
  <2>5. CASE \E s \in Series :
               InsertFails(s) \/ \E T \in SUBSET Times : BeginSeries(s, T)
    BY <2>5 DEF InsertFails, BeginSeries, history, Lifecycle!vars
  <2> QED
    BY <1>2, <2>1, <2>2, <2>3, <2>4, <2>5 DEF HandlerStep
<1>3. CASE Claim
  <2>1. PICK p \in Posts : p = cur
    BY <1>3 DEF Claim
  <2>2. Lifecycle!Begin(p)
    BY <1>3, <2>1 DEF Claim, ClaimWhere, Ownership, RanIsPastPending,
                      Lifecycle!Begin
  <2> QED
    BY <2>2 DEF Lifecycle!Next
<1>4. CASE Mark
  <2>1. PICK p \in Posts : p = cur
    BY <1>4 DEF Mark
  <2>2. Lifecycle!Settle(p)
    BY <1>4, <2>1 DEF Mark, MarkWhere, MarkStatus, Ownership, MarkOwnsRow,
                      Executing, history, Lifecycle!Settle
  <2> QED
    BY <2>2 DEF Lifecycle!Next
<1>5. CASE WorkerStep /\ ~Claim /\ ~Mark
  BY <1>5 DEF WorkerStep, ListDue, TakeNext, ClaimMisses, ClaimFails,
              ExecuteReturns, MarkFails, history, Lifecycle!vars
<1>6. CASE Boot
  <2>1. PICK S \in SUBSET Posts :
          \/ S = RecoverWhere /\ SetStatus(S, "pending")
          \/ S = {} /\ UNCHANGED status
    BY <1>6 DEF Boot, RecoverWhere
  <2>2. Lifecycle!Restart(S)
    BY <1>6, <2>1 DEF Boot, RecoverWhere, Lifecycle!Restart
  <2> QED
    BY <2>2 DEF Lifecycle!Next
<1>7. CASE ProcessStep /\ ~Boot
  BY <1>7 DEF ProcessStep, Sigterm, Exit, Crash, Vanish, history,
              Lifecycle!vars
<1>8. CASE Pass \/ UNCHANGED vars
  BY <1>8 DEF Pass, vars, history, Lifecycle!vars
<1> QED
  BY <1>2, <1>3, <1>4, <1>5, <1>6, <1>7, <1>8
     DEF Next, WorkerStep, ProcessStep

\* The scheduler keeps what PostLifecycle promises about every post.
THEOREM ScheduleImplementsLifecycle == Spec => ImplementsLifecycle
<1>1. Init => Ownership /\ Lifecycle!Init
  BY DEF Init, Ownership, IdleWhenDown, MarkOwnsRow, RanIsPastPending,
         Executing, StageOf, Lifecycle!Init
<1>2. TypeOK /\ Ownership /\ [Next]_vars => Ownership'
  BY OwnershipStep
<1>3. TypeOK /\ Ownership /\ [Next]_vars => [Lifecycle!Next]_(Lifecycle!vars)
  BY LifecycleStep
<1> QED
  BY <1>1, <1>2, <1>3, TypeInvariant, PTL
     DEF Spec, ImplementsLifecycle, Lifecycle!Spec

-----------------------------------------------------------------------------
(* The process: executeSend inside the queue.                              *)

\* The lemmas about one executeSend, for the runs of the worker.
Sent == INSTANCE SendJobProofs WITH Jobs <- Runs

LEMMA SendAssumed == Sent!SendJobAssumption
  BY ScheduleAssumption, NewsmakerAssumption DEF Sent!SendJobAssumption

-----------------------------------------------------------------------------
(* The steps of the parts.                                                 *)

\* A step of the worker inside Execute.
RunOf(r) ==
  \/ \E S \in SUBSET Channels, x \in {"live", "canceled"} : Send!Call(r, S, x)
  \/ Send!Reject(r)
  \/ Send!InLoop(r)
  \/ Send!Expire(r)
  \/ Send!CancelCtx(r)

\* It is a step of SendJob.
LEMMA RunOfIsSend == ASSUME NEW r \in Runs, RunOf(r) PROVE Sent!Next
<1> USE DEF Send!Goto, Sent!Goto, Send!tables, Sent!tables, Send!DbFails, Sent!DbFails,
            Send!atPlatforms, Sent!atPlatforms
<1>1. ASSUME NEW S \in SUBSET Channels, NEW x \in {"live", "canceled"},
             Send!Call(r, S, x)
      PROVE  Sent!Begin(r)
  <2>1. Sent!Call(r, S, x)
    BY <1>1 DEF Send!Call, Sent!Call, Send!EnabledChannels, Sent!EnabledChannels
  <2> QED
    BY <2>1 DEF Sent!Begin
<1>2. CASE Send!Reject(r)
  BY <1>2 DEF Send!Reject, Sent!Reject, Sent!Begin, Sent!Next
<1>3. CASE Send!InLoop(r)
  <2>1. Sent!InLoop(r)
    BY <1>3
       DEF Send!InLoop, Send!Find, Send!Skip, Send!Request, Send!FailToDeliver,
           Send!Answered, Send!AnswerLost, Send!Record, Send!Finish, Send!Left,
           Send!Conclude, Send!Failure, Send!Usable, Send!GoOnToRow,
           Send!LeaveChannel, Send!WithRow, Send!ForeignKeyHolds,
           Sent!InLoop, Sent!Find, Sent!Skip, Sent!Request, Sent!FailToDeliver,
           Sent!Answered, Sent!AnswerLost, Sent!Record, Sent!Finish, Sent!Left,
           Sent!Conclude, Sent!Failure, Sent!Usable, Sent!GoOnToRow,
           Sent!LeaveChannel, Sent!WithRow, Sent!ForeignKeyHolds
  <2> QED
    BY <2>1 DEF Sent!Next
<1>4. CASE Send!Expire(r) \/ Send!CancelCtx(r)
  <2>1. Sent!Expire(r) \/ Sent!CancelCtx(r)
    BY <1>4 DEF Send!Expire, Send!CancelCtx, Send!CtxEnds, Send!Active,
                Sent!Expire, Sent!CancelCtx, Sent!CtxEnds, Sent!Active
  <2> QED
    BY <2>1 DEF Sent!Next
<1> QED
  BY <1>1, <1>2, <1>3, <1>4 DEF RunOf, Sent!Next

\* It moves no other run, and its own only before and in its loop.
LEMMA RunOfMovesItself ==
  ASSUME Sent!SendInv, NEW r \in Runs, RunOf(r)
  PROVE  /\ call[r] = "idle" \/ Send!Active(r)
         /\ \A o \in Runs \ {r} : call'[o] = call[o]
<1> USE DEF Send!Goto, Send!tables
<1>1. call \in [Runs -> Sent!Phases]
  BY DEF Sent!SendInv, Sent!TypeOK
<1>2. ASSUME NEW S \in SUBSET Channels, NEW x \in {"live", "canceled"},
             Send!Call(r, S, x)
      PROVE  call[r] = "idle" /\ \A o \in Runs \ {r} : call'[o] = call[o]
  BY <1>1, <1>2 DEF Send!Call
<1>3. CASE Send!Reject(r)
  BY <1>1, <1>3 DEF Send!Reject
<1>4. CASE Send!InLoop(r)
  BY <1>1, <1>4
     DEF Send!InLoop, Send!Find, Send!Skip, Send!Request, Send!FailToDeliver,
         Send!Answered, Send!AnswerLost, Send!Record, Send!Finish,
         Send!Conclude, Send!GoOnToRow, Send!Active
<1>5. CASE Send!Expire(r) \/ Send!CancelCtx(r)
  BY <1>1, <1>5 DEF Send!Expire, Send!CancelCtx, Send!CtxEnds
<1> QED
  BY <1>2, <1>3, <1>4, <1>5 DEF RunOf

\* Between two starts the process runs, and it has started no more than
\* MaxBoots times: the run of the worker has a name.
BootsCounted ==
  /\ boots \in 0 .. MaxBoots
  /\ proc # "down" => boots > 0
  /\ proc # "up" => boots < MaxBoots

LEMMA BootsStep == TypeOK /\ BootsCounted /\ [Next]_vars => BootsCounted'
<1> SUFFICES ASSUME TypeOK, BootsCounted, [Next]_vars PROVE BootsCounted'
  OBVIOUS
<1> USE ScheduleAssumption DEF TypeOK, BootsCounted
<1>1. CASE HandlerStep
  BY <1>1 DEF HandlerStep, Create, BeginSeries, InsertOccurrence, InsertFails,
              Cancel, CancelSeries
<1>2. CASE WorkerStep
  BY <1>2 DEF WorkerStep, ListDue, TakeNext, Claim, ClaimMisses, ClaimFails,
              ExecuteReturns, Mark, MarkFails
<1>3. CASE ProcessStep
  BY <1>3 DEF ProcessStep, Boot, Sigterm, Exit, Crash, Vanish
<1>4. CASE Pass \/ UNCHANGED vars
  BY <1>4 DEF Pass, vars
<1> QED
  BY <1>1, <1>2, <1>3, <1>4 DEF Next

\* Both parts by themselves.
PartsInv == TypeOK /\ Ownership /\ BootsCounted /\ Sent!SendInv

LEMMA RunHasName == PartsInv /\ Executing => Run \in Runs /\ cur \in Posts
  BY ScheduleAssumption
     DEF PartsInv, TypeOK, Ownership, IdleWhenDown, BootsCounted, Executing, Run, Runs

\* Execute has come back: with a job id if executeSend went through its loop.
Returned ==
  \/ call[Run] = "returned" /\ pc' = "done"
  \/ call[Run] = "rejected" /\ pc' = "failed"

\* What a step of the process is for its two parts.
LEMMA StepOfEach ==
  ASSUME PartsInv, [NMNext]_allVars
  PROVE  \/ /\ [Next]_vars
            /\ UNCHANGED sendVars
            /\ pc = "exec" => pc' = pc \/ Returned
         \/ /\ pc = "exec"
            /\ \E r \in Runs : r = Run /\ RunOf(r)
            /\ UNCHANGED schedVars \/ (Sigterm /\ UNCHANGED dbErrors)
         \/ (Exit \/ Crash) /\ Send!Crash
         \/ Send!EditChannels /\ UNCHANGED schedVars
         \/ Send!PlatformsAct /\ UNCHANGED schedVars
<1>1. CASE QueueStep
  <2>1. [Next]_vars /\ UNCHANGED sendVars
    BY <1>1 DEF QueueStep, Next, WorkerStep, ProcessStep
  <2>2. pc = "exec" => pc' = pc
    BY <1>1 DEF QueueStep, Pass, HandlerStep, Create, BeginSeries,
                InsertOccurrence, InsertFails, Cancel, CancelSeries, ListDue,
                TakeNext, Claim, ClaimMisses, ClaimFails, Mark, MarkFails, Boot,
                worker, table, history
  <2> QED
    BY <2>1, <2>2
<1>2. CASE RunStep
  <2>1. PICK r \in Runs : r = Run
    BY <1>2, RunHasName DEF RunStep, Executing
  <2>2. To[cur] \in SUBSET Channels
    BY <1>2, RunHasName, NewsmakerAssumption DEF RunStep, Executing
  <2>3. RunOf(r)
    BY <1>2, <2>1, <2>2 DEF RunStep, RunOf
  <2> QED
    BY <1>2, <2>1, <2>3 DEF RunStep
<1>3. CASE Return
  <2>1. Outcome(Run) = IF call[Run] = "returned" THEN "done" ELSE "failed"
    BY DEF Outcome
  <2> QED
    BY <1>3, <2>1 DEF Return, Returned, ExecuteReturns, Next, WorkerStep
<1>4. CASE Terminate
  <2>1. CASE UNCHANGED sendVars
    BY <1>4, <2>1 DEF Terminate, Sigterm, worker, Next, ProcessStep
  <2>2. CASE pc = "exec" /\ Send!CancelCtx(Run)
    <3>1. PICK r \in Runs : r = Run
      BY <2>2, RunHasName DEF Executing
    <3> QED
      BY <1>4, <2>2, <3>1 DEF Terminate, Sigterm, RunOf
  <2> QED
    BY <1>4, <2>1, <2>2 DEF Terminate
<1>5. CASE Die
  BY <1>5 DEF Die
<1>6. CASE EditChannels
  BY <1>6 DEF EditChannels
<1>7. CASE PlatformsAct
  BY <1>7 DEF PlatformsAct
<1>8. CASE UNCHANGED allVars
  BY <1>8 DEF allVars, vars, worker
<1> QED
  BY <1>1, <1>2, <1>3, <1>4, <1>5, <1>6, <1>7, <1>8 DEF NMNext

LEMMA OthersAreSend ==
  Send!Crash \/ Send!EditChannels \/ Send!PlatformsAct => Sent!Next
<1> USE DEF Send!atPlatforms, Sent!atPlatforms
<1>1. Send!Crash => Sent!Next
  BY DEF Send!Crash, Send!Active, Send!tables, Sent!Crash, Sent!Active, Sent!tables,
         Sent!Next
<1>2. Send!EditChannels => Sent!Next
  BY DEF Send!EditChannels, Send!SaveChannel, Send!DeleteChannel, Send!Active,
         Send!calls, Sent!EditChannels, Sent!SaveChannel, Sent!DeleteChannel,
         Sent!Active, Sent!calls, Sent!Next
<1>3. Send!PlatformsAct => Sent!Next
  BY DEF Send!PlatformsAct, Send!CarryOut, Send!Refuse, Send!tables, Send!calls,
         Sent!PlatformsAct, Sent!CarryOut, Sent!Refuse, Sent!tables, Sent!calls,
         Sent!Next
<1> QED
  BY <1>1, <1>2, <1>3

\* A step of one part leaves the other as it is, but for the count of failed
\* statements, of which each needs to know only that it does not shrink.
LEMMA ErrorsGrow == TypeOK /\ [Next]_vars => dbErrors' \in Nat /\ dbErrors' >= dbErrors
<1> SUFFICES ASSUME TypeOK, [Next]_vars PROVE dbErrors' \in Nat /\ dbErrors' >= dbErrors
  OBVIOUS
<1> USE DEF TypeOK, DbFails
<1>1. CASE HandlerStep
  BY <1>1 DEF HandlerStep, Create, BeginSeries, InsertOccurrence, InsertFails,
              Cancel, CancelSeries
<1>2. CASE WorkerStep
  BY <1>2 DEF WorkerStep, ListDue, TakeNext, Claim, ClaimMisses, ClaimFails,
              ExecuteReturns, Mark, MarkFails
<1>3. CASE ProcessStep
  BY <1>3 DEF ProcessStep, Boot, Sigterm, Exit, Crash, Vanish
<1>4. CASE Pass \/ UNCHANGED vars
  BY <1>4 DEF Pass, vars
<1> QED
  BY <1>1, <1>2, <1>3, <1>4 DEF Next

LEMMA PartsStep == PartsInv /\ [NMNext]_allVars => PartsInv'
<1> SUFFICES ASSUME PartsInv, [NMNext]_allVars PROVE PartsInv'
  OBVIOUS
<1>1. CASE [Next]_vars /\ UNCHANGED sendVars
  <2>1. TypeOK' /\ Ownership' /\ BootsCounted'
    BY <1>1, TypeStep, OwnershipStep, BootsStep DEF PartsInv
  <2>2. dbErrors' \in Nat /\ (dbErrors' = 0 => dbErrors = 0)
    BY <1>1, ErrorsGrow DEF PartsInv, TypeOK
  <2>3. Sent!SendInv'
    BY <1>1, <2>2, SendAssumed, Sent!SendInvWithOtherErrors DEF PartsInv, sendVars
  <2> QED
    BY <2>1, <2>3 DEF PartsInv
<1>2. ASSUME Sent!Next, UNCHANGED schedVars
      PROVE  PartsInv'
  <2>1. Sent!SendInv'
    BY <1>2, SendAssumed, Sent!SendStep DEF PartsInv
  <2>2. dbErrors' \in Nat
    BY <2>1 DEF Sent!SendInv, Sent!TypeOK
  <2>3. TypeOK'
    BY <1>2, <2>2 DEF PartsInv, TypeOK, schedVars, table, creator, worker, history
  <2>4. Ownership' /\ BootsCounted'
    BY <1>2 DEF PartsInv, Ownership, IdleWhenDown, MarkOwnsRow, RanIsPastPending,
                Executing, BootsCounted, schedVars, table, creator, worker, history
  <2> QED
    BY <2>1, <2>3, <2>4 DEF PartsInv
<1>3. ASSUME Sent!Next, Sigterm \/ Exit \/ Crash
      PROVE  PartsInv'
  <2>1. [Next]_vars
    BY <1>3 DEF Next, ProcessStep
  <2>2. TypeOK' /\ Ownership' /\ BootsCounted'
    BY <2>1, TypeStep, OwnershipStep, BootsStep DEF PartsInv
  <2>3. Sent!SendInv'
    BY <1>3, SendAssumed, Sent!SendStep DEF PartsInv
  <2> QED
    BY <2>2, <2>3 DEF PartsInv
<1> QED
  BY <1>1, <1>2, <1>3, OthersAreSend, StepOfEach, RunOfIsSend

-----------------------------------------------------------------------------
(* The two together.                                                       *)

Unsent == {"absent", "pending", "cancelled", "failed"}

\* A run that has not begun its loop has put nothing on a platform.
Untouched(r) == call[r] \in {"idle", "rejected"}

\* The only run under way is that of the worker.
OnlyTheWorkers ==
  /\ \A r \in Runs : Send!Active(r) => r = Run /\ pc = "exec"
  /\ pc = "failed" => call[Run] = "rejected"
  /\ pc = "done" => call[Run] = "returned"

\* A post that no restart put back has no run before its claim, none but that of
\* the worker while it has it, and no second one later.
OneRunEach ==
  \A p \in Posts \ requeued :
    /\ status[p] \in Unsent => \A r \in RunsOf(p) : Untouched(r)
    /\ Executing /\ p = cur => \A r \in RunsOf(p) : r = Run \/ Untouched(r)
    /\ \A r, o \in RunsOf(p) : Untouched(r) \/ Untouched(o) \/ r = o

\* Only a run that went through its loop makes a post "done".
DoneHasRun ==
  \A p \in Posts : status[p] = "done" => \E r \in RunsOf(p) : call[r] = "returned"

Wired == OnlyTheWorkers /\ OneRunEach /\ DoneHasRun

\* How a step of the queue changes a row and what was put back.
RowSteps ==
  /\ \A p \in Posts :
       status'[p] # status[p] =>
         \/ status'[p] \in {"pending", "cancelled"} /\ status[p] \in {"absent", "pending"}
         \/ status'[p] = "pending" /\ p \in requeued'
         \/ status[p] = "pending" /\ status'[p] = "sending" /\ pc = "claim" /\ p = cur
         \/ pc \in {"done", "failed"} /\ p = cur /\ status'[p] = pc
  /\ requeued \subseteq requeued'

\* How it moves the worker.
WorkerMoves ==
  \/ pc' = "tick"
  \/ pc' = "claim"
  \/ pc' = pc /\ Executing /\ cur' = cur /\ boots' = boots
  \/ /\ pc = "claim" /\ pc' = "exec" /\ cur' = cur /\ boots' = boots
     /\ status[cur] = "pending" /\ UNCHANGED requeued
  \/ pc = "exec" /\ pc' \in {"done", "failed"} /\ cur' = cur /\ boots' = boots

LEMMA QueueMoves ==
  TypeOK /\ Ownership /\ [Next]_vars => RowSteps /\ WorkerMoves
<1> SUFFICES ASSUME TypeOK, Ownership, [Next]_vars PROVE RowSteps /\ WorkerMoves
  OBVIOUS
<1> USE DEF TypeOK, Ownership, IdleWhenDown, MarkOwnsRow, Executing, RowSteps,
            WorkerMoves, SetStatus, WithStatus, table, creator, worker, history, LetGo
<1>1. CASE HandlerStep
  BY <1>1 DEF HandlerStep, Create, BeginSeries, InsertOccurrence, Insert,
              InsertFails, Cancel, CancelWhere, CancelSeries, CancelSeriesWhere
<1>2. CASE WorkerStep
  BY <1>2 DEF WorkerStep, ListDue, TakeNext, Claim, ClaimWhere, ClaimMisses,
              ClaimFails, ExecuteReturns, Mark, MarkWhere, MarkStatus, MarkFails
<1>3. CASE ProcessStep
  BY <1>3 DEF ProcessStep, Boot, RecoverWhere, Sigterm, Exit, Crash, Vanish
<1>4. CASE Pass \/ UNCHANGED vars
  BY <1>4 DEF Pass, vars
<1> QED
  BY <1>1, <1>2, <1>3, <1>4 DEF Next

\* A step of the queue keeps what relates it to the runs.
LEMMA QueueKeepsWired ==
  ASSUME PartsInv, Wired, [Next]_vars, UNCHANGED call,
         pc = "exec" => pc' = pc \/ Returned
  PROVE  Wired'
<1>1. RowSteps /\ WorkerMoves
  BY QueueMoves DEF PartsInv
<1>2. TypeOK /\ Ownership /\ (Executing => Run \in Runs /\ cur \in Posts)
  BY RunHasName DEF PartsInv
<1>3. \A r \in Runs : Send!Active(r) => r = Run /\ pc = "exec"
  BY DEF Wired, OnlyTheWorkers
<1>4. (\A r \in Runs : Send!Active(r) => r = Run /\ pc = "exec")'
  <2> SUFFICES ASSUME NEW r \in Runs, Send!Active(r)
               PROVE  r = Run' /\ pc' = "exec"
    BY DEF Send!Active
  <2>1. r = Run /\ pc = "exec"
    BY <1>3
  <2>2. ~Returned
    BY <2>1 DEF Returned, Send!Active
  <2> QED
    BY <1>1, <2>1, <2>2 DEF WorkerMoves, Run
<1>5. (pc = "failed" => call[Run] = "rejected")' /\ (pc = "done" => call[Run] = "returned")'
  BY <1>1 DEF WorkerMoves, Wired, OnlyTheWorkers, Returned, Run, Executing
<1>6. OneRunEach'
  <2> SUFFICES ASSUME NEW p \in Posts, p \notin requeued'
               PROVE  /\ status'[p] \in Unsent => \A r \in RunsOf(p) : Untouched(r)
                      /\ Executing' /\ p = cur' =>
                           \A r \in RunsOf(p) : r = Run' \/ Untouched(r)
                      /\ \A r, o \in RunsOf(p) : Untouched(r) \/ Untouched(o) \/ r = o
    BY DEF OneRunEach, RunsOf, Untouched
  <2>1. /\ p \notin requeued
        /\ status[p] \in Unsent => \A r \in RunsOf(p) : Untouched(r)
        /\ Executing /\ p = cur => \A r \in RunsOf(p) : r = Run \/ Untouched(r)
        /\ \A r, o \in RunsOf(p) : Untouched(r) \/ Untouched(o) \/ r = o
    BY <1>1 DEF RowSteps, Wired, OneRunEach
  <2>2. ASSUME status'[p] \in Unsent PROVE \A r \in RunsOf(p) : Untouched(r)
    <3>1. CASE status[p] \in Unsent
      BY <2>1, <3>1
    <3>2. CASE status[p] \notin Unsent
      <4>1. pc = "failed" /\ p = cur
        BY <1>1, <2>2, <3>2 DEF RowSteps, Unsent
      <4>2. Untouched(Run)
        BY <4>1 DEF Wired, OnlyTheWorkers, Untouched
      <4> QED
        BY <2>1, <4>1, <4>2 DEF Executing
    <3> QED
      BY <3>1, <3>2
  <2>3. ASSUME Executing', p = cur'
        PROVE  \A r \in RunsOf(p) : r = Run' \/ Untouched(r)
    <3>1. cur' = cur /\ Run' = Run /\ (Executing \/ status[cur] = "pending")
      BY <1>1, <2>3 DEF WorkerMoves, Executing, Run
    <3> QED
      BY <2>1, <2>3, <3>1 DEF Unsent
  <2> QED
    BY <2>1, <2>2, <2>3
<1>7. DoneHasRun'
  <2> SUFFICES ASSUME NEW p \in Posts, status'[p] = "done"
               PROVE  \E r \in RunsOf(p) : call[r] = "returned"
    BY DEF DoneHasRun, RunsOf
  <2>1. CASE status[p] = "done"
    BY <2>1 DEF Wired, DoneHasRun
  <2>2. CASE status[p] # "done"
    <3>1. pc = "done" /\ p = cur
      BY <1>1, <2>2 DEF RowSteps
    <3>2. Run \in RunsOf(p) /\ call[Run] = "returned"
      BY <1>2, <3>1 DEF Executing, RunsOf, Run, Wired, OnlyTheWorkers
    <3> QED
      BY <3>2
  <2> QED
    BY <2>1, <2>2
<1> QED
  BY <1>4, <1>5, <1>6, <1>7 DEF Wired, OnlyTheWorkers

\* So does a step of the worker inside Execute: its row is "sending".
LEMMA RunKeepsWired ==
  ASSUME PartsInv, Wired, pc = "exec", NEW r \in Runs, r = Run, RunOf(r),
         UNCHANGED <<status, requeued, pc, cur, boots>>
  PROVE  Wired'
<1>1. /\ call[r] = "idle" \/ Send!Active(r)
      /\ \A o \in Runs \ {r} : call'[o] = call[o]
  BY RunOfMovesItself DEF PartsInv
<1>2. status[cur] = "sending" /\ Executing /\ cur \in Posts
  BY RunHasName DEF PartsInv, Ownership, MarkOwnsRow, Executing
<1>3. r[1] = cur /\ Run' = Run
  BY DEF Run
<1>4. OnlyTheWorkers'
  <2> SUFFICES ASSUME NEW o \in Runs, Send!Active(o)' PROVE o = r
    BY <1>3 DEF OnlyTheWorkers
  <2> QED
    BY <1>1 DEF Wired, OnlyTheWorkers, Send!Active
<1>5. OneRunEach'
  <2> SUFFICES ASSUME NEW p \in Posts, p \notin requeued
               PROVE  /\ status[p] \in Unsent => \A o \in RunsOf(p) : Untouched(o)'
                      /\ p = cur => \A o \in RunsOf(p) : o = r \/ Untouched(o)'
                      /\ \A o, q \in RunsOf(p) : Untouched(o)' \/ Untouched(q)' \/ o = q
    BY <1>3 DEF OneRunEach, RunsOf, Untouched
  <2>1. /\ status[p] \in Unsent => \A o \in RunsOf(p) : Untouched(o)
        /\ p = cur => \A o \in RunsOf(p) : o = r \/ Untouched(o)
        /\ \A o, q \in RunsOf(p) : Untouched(o) \/ Untouched(q) \/ o = q
    BY <1>2 DEF Wired, OneRunEach
  <2>2. \A o \in RunsOf(p) : o = r \/ (Untouched(o)' <=> Untouched(o))
    BY <1>1 DEF RunsOf, Untouched
  <2>3. CASE p = cur
    BY <1>2, <2>1, <2>2, <2>3 DEF Unsent
  <2>4. CASE p # cur
    <3>1. \A o \in RunsOf(p) : o # r
      BY <1>3, <2>4 DEF RunsOf
    <3> QED
      BY <2>1, <2>2, <2>4, <3>1
  <2> QED
    BY <2>3, <2>4
<1>6. DoneHasRun'
  <2> SUFFICES ASSUME NEW p \in Posts, status[p] = "done"
               PROVE  \E o \in RunsOf(p) : call'[o] = "returned"
    BY DEF DoneHasRun, RunsOf
  <2>1. PICK o \in RunsOf(p) : call[o] = "returned"
    BY DEF Wired, DoneHasRun
  <2>2. o \in Runs \ {r}
    BY <1>1, <2>1 DEF RunsOf, Send!Active
  <2> QED
    BY <1>1, <2>1, <2>2
<1> QED
  BY <1>4, <1>5, <1>6 DEF Wired

\* The process dies: its run with it, and the worker lets go.
LEMMA DieKeepsWired ==
  ASSUME PartsInv, Wired, Exit \/ Crash, Send!Crash
  PROVE  Wired'
<1>1. /\ pc' = "tick"
      /\ UNCHANGED <<status, requeued>>
  BY DEF Exit, Crash, Vanish, LetGo, table, history
<1>2. \A r \in Runs : call'[r] = IF Send!Active(r) THEN "dead" ELSE call[r]
  BY DEF Send!Crash
<1>3. \A r \in Runs : /\ ~Send!Active(r)'
                      /\ Untouched(r)' <=> Untouched(r)
                      /\ call[r] = "returned" => call'[r] = "returned"
  BY <1>2 DEF Send!Active, Untouched
<1>4. OnlyTheWorkers'
  BY <1>1, <1>3 DEF OnlyTheWorkers
<1>5. OneRunEach'
  <2> SUFFICES ASSUME NEW p \in Posts, p \notin requeued
               PROVE  /\ status[p] \in Unsent => \A r \in RunsOf(p) : Untouched(r)'
                      /\ \A r, o \in RunsOf(p) : Untouched(r)' \/ Untouched(o)' \/ r = o
    BY <1>1 DEF OneRunEach, RunsOf, Untouched, Executing
  <2> QED
    BY <1>3 DEF Wired, OneRunEach, RunsOf
<1>6. DoneHasRun'
  BY <1>1, <1>3 DEF Wired, DoneHasRun, RunsOf
<1> QED
  BY <1>4, <1>5, <1>6 DEF Wired

\* The strengthening of the four invariants.
NMInv == PartsInv /\ Wired

LEMMA NMStep == NMInv /\ [NMNext]_allVars => NMInv'
<1> SUFFICES ASSUME PartsInv, Wired, [NMNext]_allVars PROVE PartsInv' /\ Wired'
  BY DEF NMInv
<1>1. PartsInv'
  BY PartsStep
<1>2. ASSUME [Next]_vars, UNCHANGED sendVars, pc = "exec" => pc' = pc \/ Returned
      PROVE  Wired'
  BY <1>2, QueueKeepsWired DEF sendVars
<1>3. ASSUME pc = "exec", NEW r \in Runs, r = Run, RunOf(r),
             UNCHANGED schedVars \/ Sigterm
      PROVE  Wired'
  <2>1. UNCHANGED <<status, requeued, pc, cur, boots>>
    BY <1>3 DEF schedVars, Sigterm, table, worker, history
  <2> QED
    BY <1>3, <2>1, RunKeepsWired
<1>4. ASSUME Exit \/ Crash, Send!Crash
      PROVE  Wired'
  BY <1>4, DieKeepsWired
<1>5. ASSUME Send!EditChannels \/ Send!PlatformsAct, UNCHANGED schedVars
      PROVE  Wired'
  <2>1. UNCHANGED <<status, requeued, pc, cur, boots, call>>
    BY <1>5 DEF schedVars, table, worker, history, Send!EditChannels,
                Send!SaveChannel, Send!DeleteChannel, Send!PlatformsAct,
                Send!CarryOut, Send!Refuse, Send!calls
  <2> QED
    BY <2>1 DEF Wired, OnlyTheWorkers, OneRunEach, DoneHasRun, RunsOf, Untouched,
                Executing, Run, Send!Active
<1> QED
  BY <1>1, <1>2, <1>3, <1>4, <1>5, StepOfEach

LEMMA NMInvariant == NMSpec => []NMInv
<1>1. NMInit => NMInv
  <2> SUFFICES ASSUME NMInit PROVE NMInv
    OBVIOUS
  <2>1. TypeOK
    BY ScheduleAssumption DEF NMInit, Init, TypeOK, Times, Statuses
  <2>2. Ownership /\ BootsCounted
    BY ScheduleAssumption
       DEF NMInit, Init, Ownership, IdleWhenDown, MarkOwnsRow, RanIsPastPending,
           Executing, BootsCounted
  <2>3. Sent!SendInv
    BY NewsmakerAssumption
       DEF NMInit, Send!Init, Sent!SendInv, Sent!TypeOK, Sent!Held, Sent!Traced,
           Sent!Recorded, Sent!RowOf, Sent!Active, Sent!Phases, Sent!Outcomes
  <2>4. Wired
    BY DEF NMInit, Init, Send!Init, Wired, OnlyTheWorkers, OneRunEach, DoneHasRun,
           Untouched, RunsOf, Executing, Send!Active
  <2> QED
    BY <2>1, <2>2, <2>3, <2>4 DEF NMInv, PartsInv
<1> QED
  BY <1>1, NMStep, PTL DEF NMSpec

\* The worker has one send under way at most, that of the row it holds, and
\* nobody has taken the row away.
THEOREM WorkerSendsOneAtATime == NMSpec => []OneSendAtATime
<1>1. NMInv => OneSendAtATime
  BY DEF NMInv, PartsInv, Ownership, MarkOwnsRow, Executing, Wired, OnlyTheWorkers,
         OneSendAtATime
<1> QED
  BY <1>1, NMInvariant, PTL

\* A run that has not begun its loop has nothing out, nor on its way there.
LEMMA UntouchedReachedNobody ==
  ASSUME NMInv, NEW r \in Runs, Untouched(r)
  PROVE  flight[r] = {} /\ out[r] = {}
  BY DEF NMInv, PartsInv, Sent!SendInv, Sent!Traced, Untouched

\* What the schedule page calls pending, cancelled or failed has reached no
\* channel: a cancel that comes in time does stop the post, and ExecuteScheduled
\* has an error only before it sends.
THEOREM UnsentHasReachedNobody == NMSpec => []UnsentReachedNobody
<1>1. NMInv => UnsentReachedNobody
  <2> SUFFICES ASSUME NMInv, NEW p \in Posts, status[p] \in Unsent, p \notin requeued
               PROVE  Reached(p) = {}
    BY DEF UnsentReachedNobody, Unsent
  <2>1. \A r \in RunsOf(p) : r \in Runs /\ Untouched(r)
    BY DEF NMInv, Wired, OneRunEach, RunsOf
  <2> QED
    BY <2>1, UntouchedReachedNobody DEF Reached
<1> QED
  BY <1>1, NMInvariant, PTL

\* Only a restart that puts an interrupted post back can make a channel get it
\* twice.
THEOREM TwiceOnlyAfterARequeue == NMSpec => []TwiceOnlyAfterRequeue
<1>1. NMInv => TwiceOnlyAfterRequeue
  <2> SUFFICES ASSUME NMInv, NEW p \in Posts, NEW r \in RunsOf(p), NEW o \in RunsOf(p),
                      r # o, out[r] \cap out[o] # {}, p \notin requeued
               PROVE  FALSE
    BY DEF TwiceOnlyAfterRequeue
  <2>1. Untouched(r) \/ Untouched(o)
    BY DEF NMInv, Wired, OneRunEach
  <2> QED
    BY <2>1, UntouchedReachedNobody DEF RunsOf
<1> QED
  BY <1>1, NMInvariant, PTL

\* If no statement failed, a post that reads "done" has a job in the history
\* that reads "done" and lists everything that run put on a platform.
THEOREM DoneIsInHistory == NMSpec => []DoneHasHistory
<1>1. NMInv => DoneHasHistory
  <2> SUFFICES ASSUME NMInv, NEW p \in Posts, status[p] = "done", dbErrors = 0
               PROVE  \E r \in RunsOf(p) :
                        job[r] = "done" /\ \A c \in out[r] : rows[r][c] # "none"
    BY DEF DoneHasHistory
  <2>1. PICK r \in RunsOf(p) : r \in Runs /\ call[r] = "returned"
    BY DEF NMInv, Wired, DoneHasRun, RunsOf
  <2>2. job[r] = "done"
    BY <2>1 DEF NMInv, PartsInv, Sent!SendInv, Sent!Recorded
  <2>3. ASSUME NEW c \in out[r] PROVE rows[r][c] # "none"
    <3>1. c \in Channels
      BY <2>1 DEF NMInv, PartsInv, Sent!SendInv, Sent!TypeOK
    <3>2. results[r][c] \in {"ok", "failed", "canceled"}
      BY <2>1 DEF NMInv, PartsInv, Sent!SendInv, Sent!Traced
    <3>3. rows[r][c] = Sent!RowOf(results[r][c])
      BY <2>1, <3>1 DEF NMInv, PartsInv, Sent!SendInv, Sent!Recorded
    <3> QED
      BY <3>2, <3>3 DEF Sent!RowOf
  <2> QED
    BY <2>2, <2>3
<1> QED
  BY <1>1, NMInvariant, PTL

-----------------------------------------------------------------------------
(* The promises of the parts, kept by the process.                         *)

\* For the queue every step of the process is a step of its own, or at most a
\* failed statement of a send.
LEMMA QueueStepOrNothing ==
  ASSUME PartsInv, [NMNext]_allVars
  PROVE  [Next]_vars \/ UNCHANGED schedVars
BY StepOfEach DEF Next, ProcessStep

\* With sends that take their steps and a database that fails them too, the
\* queue still keeps what PostLifecycle promises about every post.
THEOREM ProcessImplementsLifecycle == NMSpec => ImplementsLifecycle
<1>1. NMInit => Lifecycle!Init
  BY DEF NMInit, Init, StageOf, Lifecycle!Init
<1>2. NMInv /\ [NMNext]_allVars => [Lifecycle!Next]_(Lifecycle!vars)
  <2> SUFFICES ASSUME NMInv, [NMNext]_allVars PROVE [Lifecycle!Next]_(Lifecycle!vars)
    OBVIOUS
  <2>1. CASE [Next]_vars
    BY <2>1, LifecycleStep DEF NMInv, PartsInv
  <2>2. CASE UNCHANGED schedVars
    BY <2>2 DEF schedVars, table, history, Lifecycle!vars
  <2> QED
    BY <2>1, <2>2, QueueStepOrNothing DEF NMInv
<1> QED
  BY <1>1, <1>2, NMInvariant, PTL DEF NMSpec, ImplementsLifecycle, Lifecycle!Spec

\* The end of a post is final, whatever its runs do.
THEOREM FinalIsFinalInTheProcess == NMSpec => FinalStays
<1>1. NMInv /\ [NMNext]_allVars
        => [\A p \in Posts : status[p] \in Final => status'[p] = status[p]]_vars
  <2> SUFFICES ASSUME NMInv, [NMNext]_allVars
               PROVE  \A p \in Posts : status[p] \in Final => status'[p] = status[p]
    OBVIOUS
  <2>1. CASE [Next]_vars
    BY <2>1, FinalStep DEF NMInv, PartsInv
  <2>2. CASE UNCHANGED schedVars
    BY <2>2 DEF schedVars, table
  <2> QED
    BY <2>1, <2>2, QueueStepOrNothing DEF NMInv
<1> QED
  BY <1>1, NMInvariant, PTL DEF NMSpec, FinalStays

\* The runs of the worker pass on what Dispatcher.Send promises, also when the
\* process is told to stop or dies while they are under way: no request leaves
\* after that, what had left may still come out, and "ok" is told of what is out.
THEOREM RunsImplementChannelSend == NMSpec => Sent!ImplementsChannelSend
<1>1. NMInit => Sent!Channel!Init
  BY DEF NMInit, Send!Init, Sent!Told, Sent!Channel!Init
<1>2. NMInv /\ [NMNext]_allVars => [Sent!Channel!Next]_(Sent!Channel!vars)
  <2> SUFFICES ASSUME NMInv, [NMNext]_allVars
               PROVE  [Sent!Channel!Next]_(Sent!Channel!vars)
    OBVIOUS
  <2>1. CASE UNCHANGED sendVars
    BY <2>1 DEF sendVars, Sent!Told, Sent!Channel!vars
  <2>2. CASE Sent!Next
    BY <2>2, SendAssumed, Sent!ChannelSendStep DEF NMInv, PartsInv, Sent!SendInv
  <2>3. UNCHANGED sendVars \/ Sent!Next
    BY OthersAreSend, RunOfIsSend, StepOfEach DEF NMInv
  <2> QED
    BY <2>1, <2>2, <2>3
<1> QED
  BY <1>1, <1>2, NMInvariant, PTL
     DEF NMSpec, Sent!ImplementsChannelSend, Sent!Channel!Spec

\* What the queue promises about single moments, with what makes it inductive.
QueueInv == SendingAccounted /\ Punctual /\ SeriesInv /\ InOrder

LEMMA ProcessErrorsGrow ==
  ASSUME PartsInv, [NMNext]_allVars
  PROVE  dbErrors \in Nat /\ dbErrors' \in Nat /\ dbErrors' >= dbErrors
<1>1. dbErrors \in Nat
  BY DEF PartsInv, TypeOK
<1>2. dbErrors' \in Nat
  <2>1. PartsInv'
    BY PartsStep
  <2> QED BY <2>1 DEF PartsInv, TypeOK
<1>3. CASE [Next]_vars
  BY <1>1, <1>2, <1>3, ErrorsGrow DEF PartsInv
<1>4. CASE Sent!Next
  BY <1>1, <1>2, <1>4, SendAssumed, Sent!SendErrorsGrow DEF PartsInv, Sent!SendInv
<1> QED
  BY <1>1, <1>2, <1>3, <1>4, OthersAreSend, RunOfIsSend, StepOfEach

LEMMA QueueInvStep == PartsInv /\ QueueInv /\ [NMNext]_allVars => QueueInv'
<1> SUFFICES ASSUME PartsInv, QueueInv, [NMNext]_allVars PROVE QueueInv'
  OBVIOUS
<1>1. CASE [Next]_vars
  BY <1>1, AccountedStep, PunctualStep, SeriesStep, InOrderStep DEF PartsInv, QueueInv
<1>2. CASE UNCHANGED schedVars
  <2>1. dbErrors \in Nat /\ dbErrors' \in Nat /\ dbErrors' >= dbErrors
    BY ProcessErrorsGrow
  <2>2. SendingAccounted'
    BY <1>2, <2>1
       DEF QueueInv, SendingAccounted, WithStatus, Executing, Serving,
           schedVars, table, worker
  <2>3. Punctual'
    BY <1>2
       DEF QueueInv, Punctual, ListedIsDue, DueRow, NeverEarly, schedVars, table,
           worker, history
  <2>4. SeriesInv'
    BY <1>2
       DEF QueueInv, SeriesInv, SeriesBegan, SeriesIsPrefix, SeriesRows,
           CancelledSeriesQuiet, CancelledIn, WithStatus, schedVars, table, creator,
           worker, history
  <2>5. InOrder'
    BY <1>2, <2>1 DEF QueueInv, InOrder, Waiting, WithStatus, schedVars, table, worker
  <2> QED
    BY <2>2, <2>3, <2>4, <2>5 DEF QueueInv
<1> QED
  BY <1>1, <1>2, QueueStepOrNothing

LEMMA QueueInvariant == NMSpec => [](NMInv /\ QueueInv)
<1>1. NMInit => QueueInv
  BY DEF NMInit, Init, QueueInv, SendingAccounted, Punctual, ListedIsDue, NeverEarly,
         SeriesInv, SeriesBegan, SeriesIsPrefix, SeriesRows, CancelledSeriesQuiet,
         CancelledIn, WithStatus, Serving, InOrder
<1>2. NMInv /\ QueueInv /\ [NMNext]_allVars => QueueInv'
  BY QueueInvStep DEF NMInv
<1> QED
  BY <1>1, <1>2, NMInvariant, PTL DEF NMSpec

\* What holds of the queue alone holds of it in the process, where Execute takes
\* many steps, in any order with those of the handlers, and the statements of a
\* send fail as well.
THEOREM ProcessKeepsTheQueue ==
  NMSpec => [](/\ MarkOwnsRow /\ OncePerBoot
               /\ SendingAccounted /\ NeverEarly
               /\ SeriesIsPrefix /\ CancelledSeriesQuiet)
<1>1. NMInv => MarkOwnsRow /\ OncePerBoot
  BY DEF NMInv, PartsInv, Ownership, RanIsPastPending, OncePerBoot
<1>2. QueueInv => SendingAccounted /\ NeverEarly /\ SeriesIsPrefix /\ CancelledSeriesQuiet
  BY DEF QueueInv, Punctual, SeriesInv
<1> QED
  BY <1>1, <1>2, QueueInvariant, PTL

\* The worker sends single posts in the order of their send_at, however long
\* each send takes.
THEOREM ProcessSendsInOrder == NMSpec => ClaimsInOrder
<1>1. NMInv /\ QueueInv /\ [NMNext]_allVars => [ClaimInOrder]_vars
  <2> SUFFICES ASSUME NMInv, QueueInv, [NMNext]_allVars PROVE ClaimInOrder
    OBVIOUS
  <2>1. CASE [Next]_vars
    BY <2>1, ClaimInOrderStep DEF NMInv, PartsInv, QueueInv
  <2>2. CASE UNCHANGED schedVars
    BY <2>2 DEF schedVars, table, ClaimInOrder
  <2> QED
    BY <2>1, <2>2, QueueStepOrNothing DEF NMInv
<1> QED
  BY <1>1, QueueInvariant, PTL DEF NMSpec, ClaimsInOrder, ClaimInOrder

\* What holds of a send alone holds of the runs of the worker: also when the
\* statements of the queue fail and the process stops under way, the history
\* tells what happened, but for one message at most, and no message goes to a
\* channel that was never on.
THEOREM ProcessKeepsTheSends ==
  NMSpec => [](/\ Sent!HistoryComplete /\ Sent!AtMostOneUnrecorded
               /\ Sent!OnlyChannelsThatWereOn)
<1>1. NMInit => Sent!SeenOn
  BY DEF NMInit, Send!Init, Sent!SeenOn, Sent!Active
<1>2. NMInv /\ Sent!SeenOn /\ [NMNext]_allVars => Sent!SeenOn'
  <2> SUFFICES ASSUME NMInv, Sent!SeenOn, [NMNext]_allVars PROVE Sent!SeenOn'
    OBVIOUS
  <2>1. CASE UNCHANGED sendVars
    BY <2>1 DEF sendVars, Sent!SeenOn, Sent!Active, Sent!EnabledChannels
  <2>2. CASE Sent!Next
    BY <2>2, SendAssumed, Sent!SeenOnStep DEF NMInv, PartsInv, Sent!SendInv
  <2>3. UNCHANGED sendVars \/ Sent!Next
    BY OthersAreSend, RunOfIsSend, StepOfEach DEF NMInv
  <2> QED
    BY <2>1, <2>2, <2>3
<1>3. NMInv => Sent!HistoryComplete /\ Sent!AtMostOneUnrecorded
  BY SendAssumed, Sent!HistoryTold, Sent!OneUnrecorded DEF NMInv, PartsInv
<1>4. Sent!SeenOn => Sent!OnlyChannelsThatWereOn
  BY SendAssumed, Sent!SeenIsEnough
<1> QED
  BY <1>1, <1>2, <1>3, <1>4, NMInvariant, PTL DEF NMSpec
=============================================================================
