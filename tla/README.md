# Newsmaker in TLA+

A verification project for newsmaker, a web application that sends one news
post to several channels (Telegram, Discord, Lolka, MAX, VK), at once or at a
scheduled time. The modules here model the program's own logic as it is in
`src/`; TLC checks them on small instances, and TLAPS proves what the runs check
for all instances, but for liveness.

## The system

| part | source | state it keeps | what it does |
|---|---|---|---|
| schedule queue | `internal/schedule/store.go` | table `scheduled_posts` | create, cancel, claim, mark, recover rows, one SQL statement each; `CreateSeries` many |
| worker | `internal/schedule/worker.go` | one goroutine: the listed rows, the current row | every 15 s: list due rows, claim, execute, mark |
| recurrence | `internal/schedule/recur.go` | none | expands a weekly or monthly rule to dates |
| send pipeline | `internal/httpserver/server.go` `executeSend`, `internal/publish/publish.go` | one call's results and context; `send_jobs`, `send_results` | sends a post to each channel in turn and records the outcome |
| history | `internal/history/store.go` | reads those two tables | the history page |
| channels | `internal/channels/store.go`, `cryptoutil` | table `channels` | edited by the channels page, read by every send |
| publishers | `internal/publish/*` | none | the HTTP calls to each platform, the link to what came out |
| media | `internal/media/media.go` | files in `uploads` and `tmp` | converts a file for a platform |
| upload | `apiUpload` | files in `uploads` | stores a file and decides its kind, which the client sends along from then on |
| formatting | `internal/format/*` | none | platform markup, truncation, previews |
| calendar page | `internal/httpserver/calendar.go` | none | month grid of scheduled posts |
| sessions | `internal/auth/auth.go` | password hash, session map | login, session expiry, password change |
| templates, settings, config | small stores | one table each | single-statement reads and writes |
| schema | `internal/db/db.go`, two `EnsureSchema` | the tables and columns there are | migrates an older database at every start |
| process | `cmd/newsmaker/main.go` | the root context | start, recovery, SIGTERM, exit |
| web client | `web/` | browser state | editor and forms |

How they interact. HTTP handlers run concurrently with each other and with the
one worker; they share nothing but the SQLite database (one connection pool,
`busy_timeout` 5 s, foreign keys on), the files and the sign-in (the session map
under a mutex, the password hash without one). The worker calls
`executeSend` through `ExecuteScheduled`, `POST /api/send` calls it directly.
SIGTERM cancels the context the worker runs under and closes the listener;
`main` then returns without waiting for anybody, and the container starts the
process again.

What is hard: the worker's list of due rows is stale while it sends for
minutes; claims, marks, cancels and recovery are separate statements that race;
the errors of several statements are dropped; the process may die between any
two statements, also between a delivery and its record; a context that dies in
the middle of a send, which calls no request back that a platform has; a series
is inserted row by row. `PROJECT.json` lists the hazards with their lines and the
properties that watch each, or the reason why none does.

What makes each part correct:

* queue and worker: a post is begun at most once per run of the process, never
  early, never after it was cancelled, in order; the row being executed belongs
  to the worker; nothing final is rewritten; every pending post settles.
* series: what was created is a prefix of the dates; a cancelled series is quiet.
* send pipeline: the history and the caller are never told of a message that is
  not there (of a message that came out after an error they may not be told); every channel asked for gets an outcome; at most one message per
  send can be missing in the history.
* both: what the status of a post says about the messages on the platforms.
* recurrence: the dates of a series are exactly those of its rule, to its end.
* publishers: ok means the whole post is out, in order, once; a failure leaves
  all of it or none, except where a platform gets several messages; a link leads
  to a message of the post.
* media kinds: the upload, the conversion and the publishers take a file for the
  same thing.
* temporary files: no send gets a torn file unless another one shares its media.
* channels: a row is always valid; an edit changes what its form names.
* truncation: the result fits and is balanced.
* calendar page: no post of the month is missing.
* sessions: nobody is behind the sign-in who was not admitted when the request
  came in; a password change that was confirmed is in force.
* schema: a start gets through on the database of any release, wherever earlier
  starts died.

## The modules

`PostLifecycle` is the abstract promise: a post is accepted, then withdrawn or
begun, then settled; begun once per run of the process; only a restart puts a
begun post back.

`Schedule` models the queue, the worker, the handlers and the process.

| module | code |
|---|---|
| `status`, `sendAt`, `seriesOf` | columns of `scheduled_posts` (`"absent"` before the INSERT) |
| `...Where` operators | the WHERE clauses of the UPDATEs |
| `Due`, `OrderedBySendAt`, `WithinLimit` | the query of `ListDue` |
| `Create`, `BeginSeries`, `InsertOccurrence`, `InsertFails` | `apiSchedule`, `CreateSeries` |
| `Cancel`, `CancelSeries` | the two cancel handlers |
| `ListDue`, `TakeNext`, `Claim`, `ClaimMisses`, `ClaimFails`, `ExecuteReturns`, `Mark`, `MarkFails` | `tick`, statement by statement |
| `Boot`, `Sigterm`, `Exit`, `Crash` | `Start`, `main` |
| `ran`, `requeued`, `cancelOf` | history variables, read by properties only |

Time is a counter in the unit the code compares (seconds, to which both sides
of `send_at <= ?` are truncated); it does not go back. The dates of a series
are any non-empty set of times after the lead, taken in increasing order, which
is what `NextOccurrences` returns. A statement fails at most `MaxDbErrors`
times; the failure of a statement whose error only ends a request (INSERT of a
single post, `Cancel`, `ListDue`) changes nothing and so is a stuttering step.

`SendJob` models calls of `executeSend`. `call[j]` is where call `j` is:
`look` (head of the loop over channels), `publish` (in `Dispatcher.Send`),
`answer` (a request for a message has left, its answer is not in), `record`
(before the INSERT of the result), then `returned`, `rejected` (error before the
loop) or `dead` (with the process). Ids in a request are distinct and in any
order, as the check boxes of the client send them.

The platforms have a life of their own: `flight[j]` are the channels with a
request of the call before their platform, `out[j]` those where something of the
post came out. `Request` is the code's part (`client().Do`; `net/http` begins
none on a dead context). `CarryOut` and `Refuse` are the platform's and come
when they like: while the call waits, after the client's timeout or SIGTERM made
it an error (`AnswerLost`), after the call returned and after the process died.

`Newsmaker` composes the two: the worker's `Execute` is a call of `SendJob`
named `<<post, boot>>`, SIGTERM cancels its context, the exit of the process
kills it, and both modules share one database (`dbErrors`). The platforms go on
with what they have while the process is down (`PlatformsAct`). Calls of
`POST /api/send` touch neither the queue nor another call's rows and are
covered by `SendJob` alone.

`ChannelSend` is the abstract promise between the two levels of a send: no
request leaves on a dead context or after the result, there is one result, and
ok is told only when something is out and nothing is on its way. What has left
it does not control: `ComesOut` needs neither a living context nor an open send.
`SendJob` implements it (a send is a call and a channel, and all sends of a call
share a context) and so does `Publishers` (one send).

`Publishers` opens up one `publish` to `answer` stretch of `SendJob`: one
`Dispatcher.Send`, with the preparation of the files, the upload chains of MAX
and VK, the messages of each platform, the retry of MAX and the link that
`BuildPostURL` makes. A request for a message leaves (`Request`), the platform
carries it out or refuses it whenever it likes (`CarryOut`, `Refuse`), and its
answer is read (`Answered`, `RefusalArrives`) or lost (`AnswerLost`), whatever
becomes of it. `Messages` is what a post becomes on its platform, `Refs` what an
answer names ("zero" is VK's without a `post_id`), `Targets` where the target id
leads: to the channel, or elsewhere (a wrong sample link of Discord or Lolka, a
basic group or a private chat of Telegram). `url` is the message and channel of
the link. `UploadMissed` is the one place where a refusal goes unnoticed: the
bytes of a VK video. That a refusal of VK says `error` is an assumption about
VK: its publisher looks at no HTTP status, and takes any other JSON for success.

`MediaKind` has the lists of extensions by which `apiUpload`, `media.go` and the
publishers tell videos, audio and photos apart, as operators; `Prepare` of
`Publishers` takes a file through all of them.

`MediaTmp` models the files `ID_platform.ext` in `tmp` which sends of the same
upload share. A send is in `choose`, `write`, `publish`, `read` for a channel at
a time and in `clean` at its end. A preparation that fails before `os.Create`
makes no file (`NotCreated`); one that fails after it may leave part of one
(`NotWritten`). `AfterWriteOf` is what a finished writer leaves when somebody
truncated or removed its file meanwhile.

`ChannelEdit` models one channel row under concurrent requests. `Get` and
`Update` are the two statements of `channelUpdate`; between them `edit[r]` holds
the form and the row that was read.

`AuthSessions` models `auth.go` and the handlers over it.

| module | code |
|---|---|
| `hash`, `sessions` | fields of `auth.Service`; the hash is named by its password |
| `LoginCheck`, `CreateSession` | `loginSubmit` |
| `Enter`, `TurnAway` | `Middleware`, `loginPage` with `Valid` |
| `Logout` | `logout`, `ClearSession` |
| `Compare`, `Write`, `Tell` | `settingsSave` with `ChangePassword`: `bcrypt` compares, then hashes, then the field is assigned, then the page says "saved" |
| `AuthRestart` | `auth.New` in a new process |
| `until`, `told`, `admitted`, `overlap` | history variables, read by properties only |

Assigning the hash is a data race with reading it. Hashes have one length, so a
reader gets one of the two; both are reachable without a step between.

`Schema` runs the twelve statements of `migrate` and the two `EnsureSchema` over
the databases of older releases; a start may die after any of them.

`AdminPages` composes the last three: a visit that `Middleware` let in runs a
handler of the channels or the settings page, which answers at its end, and a
restart cuts every handler, signs everybody out and migrates again before
anything is served.

`Recurrence` runs the loops of `expandWeekly` and `expandMonthly` one iteration
per step over a calendar given by month lengths; the properties compare what
they yield with the set of dates of the rule. No daylight saving.

`Truncate` runs the loop of `truncateCanonicalKeepTags` one character or tag per
step; `VisibleLen` is `VisibleUTF16Len` with the entities and surrogate pairs
that make lengths differ. With `plain` it is `TruncateUTF16`, by which Discord
and Lolka get their Markdown cut.

`CalendarGrid` models the schedule page: `Load` is the range query, `Build` and
`Drop` the two loops of `buildCalendar`.

`MC*` modules give constants their small values and define symmetry.
Operators placed right before a definition, such as `CancelAny` before
`CancelWhere`, are faulty variants of it; `PROJECT.json` pairs each property
with one under which TLC finds the property violated.

## What the runs check

| run | instance | shows |
|---|---|---|
| `schedule_safety` | 3 rows, 1 series, clock 0..3, batch 2, 2 starts, 1 failed statement | the invariants and action properties of `Schedule`, and that it implements `PostLifecycle` |
| `schedule_liveness` | 2 rows, batch 1, 2 starts | every pending post settles |
| `series_race` (violation) | 3 rows, no crash, no failure | cancelling a series during its creation leaves later dates pending |
| `send` | 1 call, 3 channels, 1 failed statement | the invariants of `SendJob`, and that it implements `ChannelSend`; a call closes its job |
| `newsmaker_safety` | 2 rows, 1 channel, 2 starts, 1 failed statement | status against messages and history |
| `shutdown_marks_done` (violation) | 2 rows, 2 channels | SIGTERM during a send marks the post done |
| `publishers` | 3 files of any type browsers name, 5 attempts | what is out when `Send` returns and after, as what, and where the link leads; implements `ChannelSend` |
| `media_tmp` | 3 sends, 2 uploads (a photo and another), 1 platform | who may spoil whose files, and that `cleanupTmp` leaves none |
| `admin_pages` | 2 visits, 2 tokens, 3 usable passwords and 1 too long, sessions of 1 tick, clock 0..2, 2 settings (1 refused), 2 credentials, 13 older schemas, any number of restarts | a row stays valid, a deletion final, an edit alone keeps the credential; who gets behind the sign-in; which password is in force; a start migrates |
| `recurrence` | 7 months of 3 to 5 days, weeks of 3, 2 ticks a day, horizon of 2 months | weekly and monthly series are exact up to their end |
| `truncate` | texts of 5 words, limits 1 to 3 | the result fits and is balanced, marked up or plain |
| `calendar_grid` | 2 days with posts | the page misses nothing of the weeks of the month |

Why the bounds are enough. Two starts give one recovery, and the second run
starts with whatever the first left; nothing but the table survives a start,
so a third adds nothing new. Three rows with a batch of two give a stale batch,
a row that LIMIT cut off and a row inserted meanwhile. Clock 0..3 lets a row
be listed, a later one be created and become due. Rows do not interact
otherwise. Calls of `executeSend` share no row, so one call suffices for its
invariants; three channels give a recorded, a lost and a pending one. One
failed statement is enough to reach every dropped error. A call has at most one
request per channel, so all three may be in flight at once, none answered. Symmetry is over
identifiers only (in `admin_pages` visits and tokens, of which every property,
action properties included, speaks alike) and not used with liveness.

Two visits are one handler between two steps of another; visits are used again
and again, so anything may have gone before. Sessions of one tick and a clock
of three leave time for one that lives, one that ends at the very tick and one
that is over; a second token is the session of somebody else, or a new one after
the first. Three passwords are the configured one and those of two changes at
once. A property of `admin_pages` speaks of one visit, or of all alike. Two uploads tell a send's own files from others; three sends put a
removal between two steps of one send while a third restarts the file. A post
has one media item in `MediaTmp`: items of one post only repeat the steps on
other files. Three files on a publisher have a first, a middle and a last.
Five attempts are the code's. The calendar of `Recurrence` has a short month
inside every horizon, starts on every tick of four months and until dates before, at and
after the horizon; limits of one to three with words of one or two units reach
every boundary of `Truncate`. `CalendarGrid` has all weekdays and lengths of a
month; its properties are broken by one post or by two, never only by three.

Deadlock is checked except where the model is one call that returns
(`Recurrence`, `Truncate`, `Publishers`). An idle worker can always list again,
a page opened again and a process started again.

## Fairness

`Schedule`: the clock (`Pass`), the worker (`WorkerStep`: the ticker keeps
firing and `Execute` returns, since its context ends after five minutes and the
clients time out after two or three), `Exit` (closing the listener is bounded)
and `Boot` (`restart: unless-stopped` in `docker-compose.yml`). Users are not
fair, crashes are not obliged to happen. One thing the code does not give:
ffmpeg runs without a context (`media.go:126`, `181`), so a hanging ffmpeg
would hang the worker; the model assumes it ends. `SendJob`: each call steps on,
since it waits for no answer longer than the client's timeout (`AnswerLost` is
always possible); of the platforms no fairness is assumed.

## What is proved

Each component has its theorems in a module of its own; those about `Schedule`
are the first part of `NewsmakerProofs`. They hold for all values of the
constants that satisfy the assumption next to the CONSTANTS, which TLC evaluates
on every run. Every theorem `Spec => []Inv` goes through an inductive invariant,
given here with the reason it is needed.

`NewsmakerProofs`, the queue alone, for every set of rows and series, every
lead, limit and bound:

* `TypeInvariant`, by one step per action (`TypeStep`).
* `Ownership`, the inductive invariant the rest stands on: a process that is
  down has no worker; between claim and mark the worker's row is "sending" and
  in `ran`; rows in `ran` are past "pending". `MarkOwnsRow` alone is not
  inductive: that `Boot` requeues no row in the worker's hands needs the first
  conjunct. `WorkerOwnsItsRow` and `NotExecutedTwice` follow.
* `SendingIsAccountedFor`, with `Ownership`.
* `SentOnlyWhenDue`, from `Punctual`: whatever the worker has listed or taken
  was due, and an INSERT gives a `send_at` to new rows only.
* `PartialSeriesIsPrefix` and `CancelledSeriesStaysQuiet`, from `SeriesInv`: a
  row of a series exists only once its creation began, and only after its end
  does a cancellation count.
* `FinalIsFinal` and `SentInOrder`, action properties; the second from
  `InOrder`: no failed statement, then nothing listed or taken is later than a
  single post that waits.
* `ScheduleImplementsLifecycle`, the refinement: creation is `Accept`, both
  cancels are `Withdraw`, `Claim` is `Begin`, `Mark` is `Settle`, `Boot` is
  `Restart`, all else stutters.

`SendJobProofs`, for any number of calls, channels and failed statements, from
`SendInv == TypeOK /\ Held /\ Traced /\ Recorded`:

* `TypeOK` is not inductive: `Record` writes an outcome, and that it is neither
  "none" nor "skipped" is known from `Held`, which says what a call at a channel
  has for it. `SendTypeInvariant`.
* `Traced` relates the platforms to the caller: a channel with a request in flight or a
  message out either waits for its answer or has an outcome, so a late message
  comes out only where an error was told; and "ok" is told of what is out only.
* `Recorded` relates the caller to the tables, as long as no statement failed:
  one outcome at most has no row yet, that of the channel at hand.
  `HistoryIsComplete` and `AtMostOneIsUnrecorded` follow.
* `OnlyToChannelsThatWereOn`, from `SeenOn`: a running call has seen every
  channel that is enabled.
* `SendImplementsChannelSend`: `Request` is `Request`, `CarryOut` is `ComesOut`,
  `Refuse` is `Refused`; `Answered`, `AnswerLost` and `FailToDeliver` are `Tell`;
  a context that is cancelled or expires ends for all channels of its call, as
  does one that dies with the process (`ContextEnds`); all else stutters.

`NewsmakerProofs`, the whole process. `NMInv` joins the invariants of both
parts with `Wired`. A failed statement of a send changes the counter the queue
also reads, so a step of the process is a step of one part and, for the other, a
stutter or a failed statement (`StepOfEach`, `QueueStepOrNothing`); the
assumption of `SendJobProofs` about the worker's runs is proved from those of
`Schedule` and `Newsmaker` (`SendAssumed`), so its lemmas hold for them.

* `WorkerSendsOneAtATime`, from `OnlyTheWorkers`: only the run of the worker is
  under way, and between its return and the mark it has returned.
* `UnsentHasReachedNobody` and `TwiceOnlyAfterARequeue`, from `OneRunEach`: a
  post no restart put back has no run before its claim and no second one ever.
* `DoneIsInHistory`, from `DoneHasRun` and `Recorded`.
* `ProcessImplementsLifecycle`, `FinalIsFinalInTheProcess` and
  `RunsImplementChannelSend`: what the parts promise the process still keeps,
  with SIGTERM cancelling and the exit killing the sends, and the platforms
  carrying out what had left.
* `ProcessKeepsTheQueue` and `ProcessSendsInOrder`: the other promises of the
  queue, from `QueueInv`. For it a step of a send is a stutter, but for the
  statements of the send that fail: the promises that hold as long as no
  statement failed need that the count never shrinks (`ProcessErrorsGrow`).
* `ProcessKeepsTheSends`: the same for the promises of a send.

`AdminPagesProofs`, for any number of visits, tokens, passwords and channel
edits, from `PagesInv == AuthInv /\ EditInv /\ SchemaInv`:

* `InsideOnlyIfAdmitted` needs `EntriesAreGood`: an entry of the map is good for
  as long as its session is; so `Valid` checks what the property asks.
* `TheToldPasswordIsInForce` needs `ChangesKnown`: two changes under way know of
  each other, and one that is alone has its password in force once written.
* `PagesTypeInvariant`, `DeletionIsFinal` and `EmptyFieldKeepsCredential` need
  `EditInv`: until another request saves, the row is the one an edit has read,
  or is deleted. A restart cuts the requests and keeps all of this.
* `EveryStartMigrates`, from `SchemaInv`: the statements before the current one
  have left what they make. The statements are in an order in which each finds
  what it needs (`NeedsComeFirst`), whatever older release the schema is from.

`MediaTmpProofs`, for any number of sends, uploads and platforms, from `TmpInv`:
`AloneSendsWholeFiles` and `SeriesSendsWholeFiles` need that sends of the same
media that meet know of it (`Meet`), and that the files of an undisturbed send
are as it left them (`Unspoiled`); `NothingIsLeft` needs that what is left of
its media is still on the list its cleanup goes through (`Cleaning`).

`PublishersProofs`, for posts of any number of files and any number of attempts,
from `PubInv`: what came out is always a beginning of the messages of the post,
up to the one being sent or the one before it, and after ok nothing is on its
way (`Out`); and on the way to a post the bytes of every file were taken or
nobody looked (`Uploaded`). `OkSendsAreComplete`,
`NothingComesOutTwice`, `SendsAreAllOrNothing`, `LinksLeadToPosts` and
`FilesStayWhatTheyAre` follow, and `PublishersImplementChannelSend`.

`RecurrenceProofs`, for months and weeks of any lengths, any starts, until dates
and horizon: `SeriesAreExact`, from `SeriesInv`: while a loop runs, `out` has
exactly the dates before the day or month it has come to, in order, and the
horizon is ahead. A loop that returned has the dates up to the earlier of
until date and horizon, which is the end the property asks for. `DatesAre` turns the rule into days; `ClampIsLatest` shows that
`clampMonthDay` yields the day the rule names and `WantedIsWant` that
`toGoWeekday` names the same days as the form; `NeverFull` that the limit on the
number of dates is out of reach. The assumption `CalendarIsLong` says that the
calendar does not end before a horizon, and that a horizon is fewer days away
than the limit of dates: six months and 400 in the code.

`CalendarProofs` proves, for any number of posts, `TypeInvariant`, `MonthShown`
and `LoadedShown`. The inductive invariant adds to the type that the loaded
posts are those of the range and that every dropped week was not useful
(`GridInv`); `DayHasWeek` says that the six weeks leave no day out, so a useful
day lies in a week that was not dropped.

`TruncateProofs`, for texts of any length and any limits: `CutTextsFit` and
`CutTextsAreBalanced`, from `TruncInv`. As long as the loop runs over a text
without bare brackets (`ReadSoFar`), what it has built is the part it has read,
and that part is at most `n` wide, each unit counted as the loop counts it
(`AtMost`): the length that counts, `VisibleLen`, is no greater, since an entity
only makes a text shorter (`AtMostFits`), and `n` leaves room for the ellipsis.
Two more facts are needed. The loop cannot run out of text (`NeverRunsOut`): all
of the text would be within the limit, and it was entered because it is not. And
the stack of the code is the nesting of what was read: a tag that closed nothing
would stay on the stack of `Nesting` to the end (`MarkStays`). `ClosersClose`
shows that the closing tags, innermost first, then empty the stack, and
`TagsInvisible` that they add nothing to the length.

The library's induction theorems take an operator, which the provers cannot
instantiate. Where a proof is by induction (what `MonthStart`, `FlattenSeq`,
`Visible`, `VisibleLen` and `Nesting` compute for every length) it takes the
least counterexample of a set instead, by `Least`, which follows from the
well-foundedness of the naturals.

`FinalIsFinal`, the theorems that say that the process keeps what a part
promises (`FinalIsFinalInTheProcess`, `ProcessKeepsTheQueue`,
`ProcessSendsInOrder`, `ProcessKeepsTheSends`, `RunsImplementChannelSend`) and the
`TypeInvariant` of `CalendarGrid` are proved and not part of a run.

Only model-checked: `EveryPostSettles` and `EveryJobCloses`, liveness under
fairness, which is out of the prover's reach.

## Findings

* SIGTERM during a scheduled send (`shutdown_marks_done`): `worker.go:26` says
  interrupted sends are recovered after a restart. But the signal cancels the
  context inside `executeSend`; the channels left fail with "context canceled",
  `executeSend` returns no error, and if the worker is quicker than the exit of
  `main` it marks the row done. The remaining channels never get the post.
* Cancelling a series while it is being created (`series_race`): the page says
  "all future dates" (`schedule.html:57`); dates not inserted yet stay pending.

Some properties state an exception because the code needs it:

* `AloneKeepsCredential`: the form says an empty credential field changes
  nothing (`channels.html:52`). `channelUpdate` writes back the credential it
  read, so an edit that overlaps a change of the credential undoes it.
* `SeriesIsExact`: `recur.go:15` and `18-20` have the horizon for series without
  an until date; the code cuts both kinds by it. Of a series whose until date is
  beyond the horizon the property says that it has no gap and ends somewhere
  between the two; that it ends at the horizon is not asserted to be right.
* `FitsWithoutBrackets`: `limits.go:78` promises a text within the limit; what is
  between a bare `<` and the next `>` is copied without being counted.
* `MonthIsComplete` speaks of weeks with a day of the month: `server.go:524`
  includes posts in the cells of adjacent months, but a sixth week kept for one
  post has days more than seven past the month, whose posts were not loaded.
* `AllOrNothing`: several files on Telegram, not photos only, are a message each.
* `OkMeansComplete`: VK may be told to post a video it never got.
* `KindsAgree`: holds for the content types browsers give to these extensions,
  or for none. A file whose content type contradicts its name may be kept as a
  video and sent as a photo.
* `LinkLeadsToPost`: files sent one by one on Telegram are linked by the last of
  them, while the text is with the first. Two kinds of links lead astray. VK's
  answer without a `post_id` gives `wall<owner>_0` (`vk.go:107`). A link put
  together from a target id that is not the channel's leads into another chat:
  Telegram's for a basic group or a private chat (`links.go:59-65`), Discord's
  and Lolka's for a sample link of another channel when the answer names none.
* `CancelledSeriesQuiet`: a row of a cancelled series that a restart puts back is
  sent again.
* `HistoryComplete`: a channel that was missing or disabled is left out of the
  history, and after a failed statement anything may be.
* `OnlyAdmittedInside`: a request that was let in runs on after its session ends,
  and a change of the password ends no session.
* `ToldIsInForce`: two changes of the password at once may both be answered
  "saved" while one is lost; a restart restores the configured one.

## Not modelled, and the plan

Of the model, daylight saving in `Recurrence` is left: a local time that does
not exist or occurs twice.

Hazards no property watches. Of some the code lets happen what they say, and the
property next to them states the exception (above; each has a note in
`PROJECT.json`). The others are a hanging ffmpeg (see Fairness); the signature that
`settingsSave` stores although it then refuses the password (`server.go:311`,
the row is read by nothing else here); `replacePair` (`format.go:75`), which
looks for tags in a lower-cased copy and cuts the original at the same indexes.

Left out for good: page rendering, the previews and the conversions between
markups (strings without state), configuration and encryption (library code),
templates and settings (single rows nothing modelled depends on), the bytes of
uploads (a file under a fresh name), the browser client.
