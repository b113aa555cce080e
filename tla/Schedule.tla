------------------------------ MODULE Schedule ------------------------------
(***************************************************************************)
(* The delayed-post queue: the scheduled_posts table                       *)
(* (internal/schedule/store.go), the one background worker that drains it  *)
(* (internal/schedule/worker.go), the HTTP handlers that fill it and       *)
(* cancel its rows (internal/httpserver/server.go), and the start, SIGTERM *)
(* and death of the process around them (cmd/newsmaker/main.go).           *)
(*                                                                         *)
(* Every SQL statement is one atomic action.  The worker's tick is not:    *)
(* it lists due rows once, then claims, executes and marks them one by one *)
(* while handlers keep changing the table.  CreateSeries is not: it        *)
(* inserts its rows one statement at a time.  What Execute does between    *)
(* claim and mark is module SendJob; here it only returns, with an error   *)
(* or without.                                                             *)
(***************************************************************************)
EXTENDS Naturals, FiniteSets

CONSTANTS
  Posts,        (* row identifiers (newID / uuid.NewString: never reused)    *)
  Series,       (* series identifiers                                        *)
  NoSeries,     (* the empty series_id of a single post                      *)
  NoPost,       (* the worker holds no row                                   *)
  MaxTime,      (* bound: the clock stops here                               *)
  Lead,         (* how far ahead send_at must lie (30 seconds in apiSchedule)*)
  BatchLimit,   (* LIMIT of ListDue (10 in tick)                             *)
  MaxBoots,     (* bound: how many times the process may be started          *)
  MaxDbErrors   (* bound: how many SQL statements may fail                   *)

ASSUME ScheduleAssumption ==
  /\ NoSeries \notin Series
  /\ NoPost \notin Posts
  /\ MaxTime \in Nat
  /\ Lead \in Nat
  /\ BatchLimit \in Nat \ {0}
  /\ MaxBoots \in Nat \ {0}
  /\ MaxDbErrors \in Nat

VARIABLES
  now,              (* wall clock, in units apiSchedule and tick compare     *)
  status,           (* table: status of each row, "absent" before its INSERT *)
  sendAt,           (* table: send_at                                        *)
  seriesOf,         (* table: series_id                                      *)
  seriesState,      (* progress of the CreateSeries call of each series      *)
  toInsert,         (* the dates that call has not inserted                  *)
  proc,             (* "up", "stopping" (ctx cancelled) or "down"            *)
  pc,               (* worker: "tick", "claim", "exec", "done" or "failed"   *)
  batch,            (* worker: rows of the last ListDue not yet looked at    *)
  cur,              (* worker: the row it is at                              *)
  boots,            (* number of process starts                              *)
  dbErrors,         (* number of failed statements                           *)
  ran,              (* history: rows executed since the last start           *)
  requeued,         (* history: rows a recovery at start found "sending"     *)
  cancelOf          (* history: whether CancelSeries ran, for each series    *)

table   == <<status, sendAt, seriesOf>>
creator == <<seriesState, toInsert>>
worker  == <<pc, batch, cur>>
history == <<ran, requeued, cancelOf>>
vars == <<now, table, creator, proc, worker, boots, dbErrors, history>>

Times     == 0 .. MaxTime
Statuses  == {"absent", "pending", "sending", "done", "failed", "cancelled"}
Final     == {"done", "failed", "cancelled"}

WithStatus(st) == {p \in Posts : status[p] = st}

\* One UPDATE ... SET status = st over the rows of S.
SetStatus(S, st) ==
  status' = [p \in Posts |-> IF p \in S THEN st ELSE status[p]]

Serving == proc # "down"

\* A statement that fails: SQLITE_BUSY after busy_timeout, disk full, ...
DbFails ==
  /\ dbErrors < MaxDbErrors
  /\ dbErrors' = dbErrors + 1

-----------------------------------------------------------------------------
(* The WHERE clauses of the statements, and faulty variants of them that   *)
(* PROJECT.json uses to show that the properties notice.                   *)

CancelAny(id) == {id} \ WithStatus("absent")
CancelWhere(id) == {id} \cap WithStatus("pending")

SeriesRows(s) == {p \in Posts : status[p] # "absent" /\ seriesOf[p] = s}
CancelNextOfSeries(s) ==
  {p \in SeriesRows(s) \cap WithStatus("pending") : sendAt[p] <= now + 1}
CancelSeriesWhere(s) == SeriesRows(s) \cap WithStatus("pending")

ClaimAny(id) == {id}
ClaimWhere(id) == {id} \cap WithStatus("pending")

\* MarkDone and MarkFailed have no condition on the status they overwrite.
MarkWhere(id) == {id}

RetryFailed(outcome) == IF outcome = "failed" THEN "pending" ELSE outcome
\* A failed Execute is final: there is no retry.
MarkStatus(outcome) == outcome

RecoverNothing == {}
RecoverAlsoFinished ==
  WithStatus("sending") \cup WithStatus("done") \cup WithStatus("failed")
RecoverWhere == WithStatus("sending")

DueEarly == {p \in WithStatus("pending") : sendAt[p] <= now + 1}
Due == {p \in WithStatus("pending") : sendAt[p] <= now}

Unordered(B) == TRUE
\* ORDER BY send_at: the rows of B precede the due rows left out.
OrderedBySendAt(B) == \A p \in B, q \in Due \ B : sendAt[p] <= sendAt[q]

\* LIMIT
WithinLimit(B) ==
  \/ B = Due /\ Cardinality(Due) <= BatchLimit
  \/ Cardinality(B) = BatchLimit

-----------------------------------------------------------------------------
Init ==
  /\ now = 0
  /\ status = [p \in Posts |-> "absent"]
  /\ sendAt = [p \in Posts |-> 0]
  /\ seriesOf = [p \in Posts |-> NoSeries]
  /\ seriesState = [s \in Series |-> "none"]
  /\ toInsert = [s \in Series |-> {}]
  /\ proc = "down"
  /\ pc = "tick" /\ batch = {} /\ cur = NoPost
  /\ boots = 0 /\ dbErrors = 0
  /\ ran = {} /\ requeued = {}
  /\ cancelOf = [s \in Series |-> "none"]

Pass ==
  /\ now < MaxTime
  /\ now' = now + 1
  /\ UNCHANGED <<table, creator, proc, worker, boots, dbErrors, history>>

-----------------------------------------------------------------------------
(* Handlers.  A request accepted before SIGTERM still runs while the       *)
(* process is stopping.                                                    *)

\* The row of a new post becomes visible with its INSERT.
Insert(p, t, s) ==
  /\ status[p] = "absent"
  /\ SetStatus({p}, "pending")
  /\ sendAt' = [sendAt EXCEPT ![p] = t]
  /\ seriesOf' = [seriesOf EXCEPT ![p] = s]

\* apiSchedule without repeat.  The test of send_at and the INSERT are one
\* step: what separates them is shorter than the lead of 30 seconds.
Create(p, t) ==
  /\ Serving
  /\ t > now + Lead
  /\ Insert(p, t, NoSeries)
  /\ UNCHANGED <<now, creator, proc, worker, boots, dbErrors, history>>

\* apiSchedule with repeat, up to the loop of CreateSeries; T stands for the
\* occurrences NextOccurrences returns, none before the requested send_at.
BeginSeries(s, T) ==
  /\ Serving
  /\ seriesState[s] = "none"
  /\ T # {} /\ \A t \in T : t > now + Lead
  /\ seriesState' = [seriesState EXCEPT ![s] = "creating"]
  /\ toInsert' = [toInsert EXCEPT ![s] = T]
  /\ UNCHANGED <<now, table, proc, worker, boots, dbErrors, history>>

AnyOccurrence(s, t) == t \in toInsert[s]
\* NextOccurrences returns the dates in order.
NextOccurrence(s, t) ==
  t \in toInsert[s] /\ \A u \in toInsert[s] : t <= u

\* One round of the loop; the last one ends the call.
InsertOccurrence(s, p) ==
  /\ Serving
  /\ seriesState[s] = "creating"
  /\ \E t \in Times :
       /\ NextOccurrence(s, t)
       /\ Insert(p, t, s)
       /\ toInsert' = [toInsert EXCEPT ![s] = @ \ {t}]
       /\ seriesState' = [seriesState EXCEPT
                            ![s] = IF toInsert[s] = {t} THEN "created" ELSE @]
  /\ UNCHANGED <<now, proc, worker, boots, dbErrors, history>>

\* CreateSeries returns at the first failed INSERT and leaves the rows it
\* has inserted; toInsert keeps the dates that never get a row.
InsertFails(s) ==
  /\ Serving
  /\ seriesState[s] = "creating"
  /\ DbFails
  /\ seriesState' = [seriesState EXCEPT ![s] = "partial"]
  /\ UNCHANGED <<now, table, toInsert, proc, worker, boots, history>>

\* With no row to change the handler reports an error and changes nothing.
Cancel(p) ==
  /\ Serving
  /\ CancelWhere(p) # {}
  /\ SetStatus(CancelWhere(p), "cancelled")
  /\ UNCHANGED <<now, sendAt, seriesOf, creator, proc, worker, boots,
                 dbErrors, history>>

\* A user learns the series_id from a row of the series.
CancelSeries(s) ==
  /\ Serving
  /\ SeriesRows(s) # {}
  /\ SetStatus(CancelSeriesWhere(s), "cancelled")
  /\ cancelOf' = [cancelOf EXCEPT ![s] =
                    IF seriesState[s] = "creating" THEN "during" ELSE "after"]
  /\ UNCHANGED <<now, sendAt, seriesOf, creator, proc, worker, boots,
                 dbErrors, ran, requeued>>

-----------------------------------------------------------------------------
(* The worker: one goroutine, so its steps are sequential.                 *)

LetGoOfRowOnly == pc' = pc /\ cur' = NoPost
\* "continue" in the loop of tick, and the end of its body.
LetGo == pc' = "tick" /\ cur' = NoPost

\* The head of tick; with nothing due, or an error, batch stays empty.
ListDue ==
  /\ proc = "up"
  /\ pc = "tick" /\ batch = {}
  /\ \E B \in SUBSET Due :
       /\ WithinLimit(B)
       /\ OrderedBySendAt(B)
       /\ batch' = B
  /\ UNCHANGED <<now, table, creator, proc, pc, cur, boots, dbErrors, history>>

\* The loop of tick takes the rows in the order listed, and stops when ctx
\* is cancelled.  SIGTERM may still arrive before the claim.
TakeNext(p) ==
  /\ proc = "up"
  /\ pc = "tick"
  /\ p \in batch
  /\ \A q \in batch : sendAt[p] <= sendAt[q]
  /\ batch' = batch \ {p}
  /\ pc' = "claim" /\ cur' = p
  /\ UNCHANGED <<now, table, creator, proc, boots, dbErrors, history>>

Claim ==
  /\ Serving
  /\ pc = "claim"
  /\ ClaimWhere(cur) # {}
  /\ SetStatus(ClaimWhere(cur), "sending")
  /\ pc' = "exec"
  /\ ran' = ran \cup {cur}
  /\ UNCHANGED <<now, sendAt, seriesOf, creator, proc, batch, cur, boots,
                 dbErrors, requeued, cancelOf>>

\* The row changed since ListDue: RowsAffected = 0.
ClaimMisses ==
  /\ Serving
  /\ pc = "claim"
  /\ ClaimWhere(cur) = {}
  /\ LetGo
  /\ UNCHANGED <<now, table, creator, proc, batch, boots, dbErrors, history>>

ClaimFails ==
  /\ Serving
  /\ pc = "claim"
  /\ DbFails
  /\ LetGo
  /\ UNCHANGED <<now, table, creator, proc, batch, boots, history>>

\* Execute comes back with a job id ("done") or with an error ("failed").
ExecuteReturns(outcome) ==
  /\ Serving
  /\ pc = "exec"
  /\ pc' = outcome
  /\ UNCHANGED <<now, table, creator, proc, batch, cur, boots, dbErrors, history>>

\* MarkDone or MarkFailed.
Mark ==
  /\ Serving
  /\ pc \in {"done", "failed"}
  /\ SetStatus(MarkWhere(cur), MarkStatus(pc))
  /\ LetGo
  /\ UNCHANGED <<now, sendAt, seriesOf, creator, proc, batch, boots, dbErrors,
                 history>>

\* The error of MarkDone is only logged, that of MarkFailed is dropped.
MarkFails ==
  /\ Serving
  /\ pc \in {"done", "failed"}
  /\ DbFails
  /\ LetGo
  /\ UNCHANGED <<now, table, creator, proc, batch, boots, history>>

-----------------------------------------------------------------------------
(* The process.                                                            *)

\* runner.Start puts the rows of an interrupted run back before the worker
\* and the HTTP server begin; when that statement fails it is only logged.
Boot ==
  /\ proc = "down"
  /\ proc' = "up"
  /\ boots' = boots + 1
  /\ ran' = {}
  /\ \/ /\ SetStatus(RecoverWhere, "pending")
        /\ requeued' = requeued \cup WithStatus("sending")
        /\ UNCHANGED dbErrors
     \/ /\ DbFails
        /\ UNCHANGED <<status, requeued>>
  /\ UNCHANGED <<now, sendAt, seriesOf, creator, worker, cancelOf>>

Sigterm ==
  /\ proc = "up"
  /\ boots < MaxBoots
  /\ proc' = "stopping"
  /\ UNCHANGED <<now, table, creator, worker, boots, dbErrors, history>>

\* The table survives; handlers and worker do not.
Vanish ==
  /\ proc' = "down"
  /\ LetGo /\ batch' = {}
  /\ seriesState' = [s \in Series |->
       IF seriesState[s] = "creating" THEN "partial" ELSE seriesState[s]]
  /\ UNCHANGED <<now, table, toInsert, boots, dbErrors, history>>

\* main returns as soon as ListenAndServe does, which is when Shutdown
\* begins: neither the worker nor the handlers are waited for.
Exit ==
  /\ proc = "stopping"
  /\ Vanish

Crash ==
  /\ proc = "up"
  /\ boots < MaxBoots
  /\ Vanish

-----------------------------------------------------------------------------
WorkerStep ==
  \/ ListDue
  \/ \E p \in Posts : TakeNext(p)
  \/ Claim \/ ClaimMisses \/ ClaimFails
  \/ \E outcome \in {"done", "failed"} : ExecuteReturns(outcome)
  \/ Mark
  \/ MarkFails

HandlerStep ==
  \/ \E p \in Posts, t \in Times : Create(p, t)
  \/ \E s \in Series, T \in SUBSET Times : BeginSeries(s, T)
  \/ \E s \in Series, p \in Posts : InsertOccurrence(s, p)
  \/ \E s \in Series : InsertFails(s) \/ CancelSeries(s)
  \/ \E p \in Posts : Cancel(p)

ProcessStep == Boot \/ Sigterm \/ Exit \/ Crash

Next == Pass \/ HandlerStep \/ WorkerStep \/ ProcessStep

Spec == Init /\ [][Next]_vars

(* Time passes; the ticker keeps firing; Execute is bounded by its 5 minute *)
(* context and the HTTP clients' timeouts; a stopping process exits; the    *)
(* container is restarted ("restart: unless-stopped").  Users owe nothing.  *)
Fairness ==
  /\ WF_vars(Pass)
  /\ WF_vars(WorkerStep)
  /\ WF_vars(Boot)
  /\ WF_vars(Exit)

FairSpec == Spec /\ Fairness

-----------------------------------------------------------------------------
(* Invariants.                                                             *)

\* Every variable keeps the values its column, counter or goroutine can have.
TypeOK ==
  /\ now \in Times
  /\ status \in [Posts -> Statuses]
  /\ sendAt \in [Posts -> Times]
  /\ seriesOf \in [Posts -> Series \cup {NoSeries}]
  /\ seriesState \in [Series -> {"none", "creating", "created", "partial"}]
  /\ toInsert \in [Series -> SUBSET Times]
  /\ proc \in {"up", "stopping", "down"}
  /\ pc \in {"tick", "claim", "exec", "done", "failed"}
  /\ batch \subseteq Posts
  /\ cur \in Posts \cup {NoPost}
  /\ pc # "tick" => cur \in Posts
  /\ boots \in Nat
  /\ dbErrors \in Nat
  /\ ran \subseteq Posts /\ requeued \subseteq Posts
  /\ cancelOf \in [Series -> {"none", "during", "after"}]

\* The worker is between Claim and MarkDone / MarkFailed.
Executing == pc \in {"exec", "done", "failed"}

\* From its claim to its mark the row of the worker stays "sending": no
\* handler and no recovery takes it away.  This is why MarkDone and
\* MarkFailed may leave out the condition on status that Claim has.
MarkOwnsRow ==
  Executing => status[cur] = "sending" /\ cur \in ran

\* A row executed since the last start is never pending again before the
\* next start, so no tick of this run of the process can claim it twice,
\* however the stale batch of tick and the handlers interleave.
OncePerBoot ==
  \A p \in ran : status[p] # "pending"

\* While the process runs, a row in "sending" is the one its worker is
\* executing.  Only a failed statement (MarkDone, MarkFailed, or the
\* recovery at start) leaves one behind.
SendingAccounted ==
  Serving =>
    \A p \in WithStatus("sending") : (Executing /\ p = cur) \/ dbErrors > 0

CancelledIn(when, p) ==
  seriesOf[p] \in Series /\ cancelOf[seriesOf[p]] \in when

\* Once CancelSeries has returned for a series whose creation was over, no
\* row of it waits to be sent.  The exception is the row the worker held at
\* that moment: interrupted by a restart it is put back.
CancelledSeriesQuiet ==
  \A p \in WithStatus("pending") : CancelledIn({"after"}, p) => p \in requeued

\* The same for every CancelSeries that returned, as the confirmation of the
\* schedule page has it ("the whole series (all future dates)").  Not so:
\* CreateSeries goes on inserting dates after the UPDATE of CancelSeries.
CancelSeriesCoversAllDates ==
  \A p \in WithStatus("pending") :
    CancelledIn({"during", "after"}, p) => p \in requeued

\* The worker takes no row before its send_at.
NeverEarly ==
  \A p \in Posts :
    status[p] \in {"sending", "done", "failed"} => sendAt[p] <= now

\* A series whose creation stopped half way, by an error or with the
\* process, has a row for each of its first dates and none for the rest.
SeriesIsPrefix ==
  \A s \in Series, t \in Times :
    t \in toInsert[s] => \A p \in SeriesRows(s) : sendAt[p] < t

-----------------------------------------------------------------------------
(* Action properties.                                                      *)

\* A row that is done, failed or cancelled stays so: neither a late mark,
\* a second cancel nor the recovery at start rewrites it.
FinalStays ==
  [][\A p \in Posts : status[p] \in Final => status'[p] = status[p]]_vars

\* Without failed statements a single post is never overtaken: when the
\* worker claims a row, no single post with an earlier send_at waits, whatever
\* was inserted or listed in between and however many rows LIMIT cut off.
\* Rows of a series are left out: theirs may be inserted already overdue.
ClaimsInOrder ==
  [][\A p, q \in Posts :
       /\ status[p] = "pending" /\ status'[p] = "sending"
       /\ status[q] = "pending" /\ seriesOf[q] = NoSeries
       /\ dbErrors = 0
       => sendAt[p] <= sendAt[q]]_vars

-----------------------------------------------------------------------------
(* The promise to the user, PostLifecycle, is kept.                        *)

StageOf(st) ==
  CASE st = "absent"    -> "unknown"
    [] st = "pending"   -> "queued"
    [] st = "sending"   -> "going"
    [] st = "cancelled" -> "withdrawn"
    [] OTHER            -> "settled"

Lifecycle == INSTANCE PostLifecycle
  WITH stage <- [p \in Posts |-> StageOf(status[p])],
       begun <- ran

\* The table, the worker and the restarts implement the life of a post.
ImplementsLifecycle == Lifecycle!Spec

-----------------------------------------------------------------------------
(* Liveness.                                                               *)

\* Every pending post is in the end sent, failed or cancelled, across
\* crashes and restarts and however many other rows are due before it.  The
\* exception is a row whose mark or whose recovery failed in the database:
\* it stays "sending" until the next start.
EveryPostSettles ==
  \A p \in Posts :
    status[p] = "pending" ~>
      \/ status[p] \in Final
      \/ status[p] = "sending" /\ dbErrors > 0

=============================================================================
