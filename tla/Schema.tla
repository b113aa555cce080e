------------------------------ MODULE Schema -------------------------------
(***************************************************************************)
(* The schema of the database from one start of the process to the next:   *)
(* migrate (internal/db/db.go) and the two EnsureSchema                    *)
(* (internal/history/store.go, internal/schedule/store.go) in the order    *)
(* main calls them.  Each statement commits on its own, the process may    *)
(* die between any two, and a statement that fails ends it (log.Fatal).    *)
(***************************************************************************)
EXTENDS Naturals, Sequences

VARIABLES
  schema,  (* the tables, columns and indexes there are                      *)
  boot     (* next statement; Failed, or past the last one: serving          *)

schemaVars == <<schema, boot>>

\* A statement makes "makes" and, if it creates a table, what comes with it;
\* it fails without what it needs, and is skipped if "makes" is there.
Statement(makes, with, needs) == [makes |-> makes, with |-> with, needs |-> needs]

\* channels, templates and settings have not changed and stand as one table.
Migrate == <<
  Statement("channels", {}, {}),
  Statement("send_jobs", {"preview_text"}, {}),
  Statement("send_results", {"post_url"}, {}) >>
HistoryEnsureSchema == <<
  Statement("preview_text", {}, {"send_jobs"}),
  Statement("post_url", {}, {"send_results"}) >>
ScheduledPosts == <<
  Statement("scheduled_posts", {}, {}),
  Statement("idx_due", {}, {"scheduled_posts"}) >>
SeriesColumns == <<
  Statement("series_id", {}, {"scheduled_posts"}),
  Statement("repeat_kind", {}, {"scheduled_posts"}),
  Statement("repeat_weekdays", {}, {"scheduled_posts"}),
  Statement("repeat_until", {}, {"scheduled_posts"}) >>
SeriesIndex == << Statement("idx_series", {}, {"scheduled_posts", "series_id"}) >>

\* The index next to the table, as idx_due is.
AllIndexesWithTable == ScheduledPosts \o SeriesIndex \o SeriesColumns
ScheduleEnsureSchema == ScheduledPosts \o SeriesColumns \o SeriesIndex

Statements == Migrate \o HistoryEnsureSchema \o ScheduleEnsureSchema

Makes(ss) == UNION {{ss[i].makes} \cup ss[i].with : i \in DOMAIN ss}
Objects == Makes(Statements)

\* New, or left by a release without the columns added since, without the
\* schedule, or with a schedule without series.
OlderSchemas ==
  {{}} \cup
  {{"channels", "send_jobs", "send_results"} \cup columns \cup schedule :
     columns \in SUBSET {"preview_text", "post_url"},
     schedule \in {{}, Makes(ScheduledPosts), Makes(ScheduleEnsureSchema)}}

SchemaInit ==
  /\ schema \in OlderSchemas
  /\ boot = 1

Failed == 0
Serving == boot = Len(Statements) + 1

\* IF NOT EXISTS, and the look at PRAGMA table_info before ALTER TABLE.
Skips(s) == s.makes \in schema
Fails(s) == ~Skips(s) /\ ~(s.needs \subseteq schema)

RunStatement ==
  /\ boot \in DOMAIN Statements
  /\ LET s == Statements[boot]
     IN  IF Fails(s)
         THEN boot' = Failed /\ UNCHANGED schema
         ELSE /\ schema' = IF Skips(s) THEN schema
                                       ELSE schema \cup {s.makes} \cup s.with
              /\ boot' = boot + 1

\* The container starts the process again.
SchemaRestart == boot' = 1 /\ UNCHANGED schema

SchemaTypeOK ==
  /\ schema \subseteq Objects
  /\ boot \in 0 .. Len(Statements) + 1

\* Whatever release left the database and wherever earlier starts died, a start
\* gets through, and the pages find every column their statements name.
StartupMigrates ==
  /\ boot # Failed
  /\ Serving => schema = Objects
=============================================================================
