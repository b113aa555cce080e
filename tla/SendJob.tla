------------------------------ MODULE SendJob ------------------------------
(***************************************************************************)
(* One send of one post to several channels: executeSend                   *)
(* (internal/httpserver/server.go), Dispatcher.Send                        *)
(* (internal/publish/publish.go), the reads of the channels table          *)
(* (internal/channels/store.go) and the tables send_jobs and send_results  *)
(* that the history page shows.                                            *)
(*                                                                         *)
(* Several calls run at once: the worker's and those of POST /api/send.    *)
(* Each SQL statement is one step.  A request to a platform is three: it   *)
(* leaves, the platform carries it out or refuses it when it likes (also   *)
(* after the call has given up or the process has died), and its answer    *)
(* arrives or does not.  Meanwhile channels are edited and deleted, a      *)
(* context is cancelled or runs out, the process dies.  Formatting, media  *)
(* preparation and the platforms' protocols (Publishers) are inside "the   *)
(* platform answered ok or an error"; the request is the one for the first *)
(* message, and before it there may be others that post nothing.           *)
(***************************************************************************)
EXTENDS Naturals, FiniteSets

CONSTANTS
  Jobs,         (* calls of executeSend; each draws a fresh uuid for its row *)
  Channels,     (* channel ids (AUTOINCREMENT: never reused)                 *)
  NoChannel,    (* the call is at no channel                                 *)
  MaxDbErrors   (* bound: how many SQL statements may fail                   *)

ASSUME SendJobAssumption ==
  /\ NoChannel \notin Channels
  /\ MaxDbErrors \in Nat

VARIABLES
  chan,      (* table channels: "new" (no row yet), "on", "off", "deleted"   *)
  job,       (* table send_jobs: "none" (no row), "running", "done"          *)
  rows,      (* table send_results: "none" or the outcome, per job, channel  *)
  call,      (* where each call is, see Phases                               *)
  asked,     (* the channel ids of its request                               *)
  results,   (* its slice of results: "none" or the outcome, per channel     *)
  at,        (* the channel it is at                                         *)
  ctx,       (* runCtx: "live", "expired" (5 minutes), "canceled" or, once   *)
             (* the call is over, "gone"                                     *)
  flight,    (* the platforms: channels with a request of the job before it  *)
  out,       (* the platforms: channels where a message of the job came out  *)
  dbErrors,  (* number of failed statements                                  *)
  wasOn      (* history: those asked for that were enabled at some moment of *)
             (* the call                                                     *)

tables == <<chan, job, rows>>
calls  == <<call, asked, results, at, ctx>>
atPlatforms == <<flight, out>>
vars == <<tables, calls, atPlatforms, dbErrors, wasOn>>

Phases == {"idle", "look", "publish", "answer", "record",
           "returned", "rejected", "dead"}
Outcomes == {"ok", "failed", "canceled", "skipped"}

Active(j) == call[j] \in {"look", "publish", "answer", "record"}
EnabledChannels == {c \in Channels : chan[c] = "on"}

DbFails ==
  /\ dbErrors < MaxDbErrors
  /\ dbErrors' = dbErrors + 1

-----------------------------------------------------------------------------
(* Decisions of the code, each after a faulty variant that PROJECT.json     *)
(* uses to show that the properties notice.                                *)

UsableWhenRowExists(c) == chan[c] \in {"on", "off"}
\* Get finds the row and Enabled is set.
Usable(c) == chan[c] = "on"

LeftWithRetry(j) == {c \in asked[j] : results[j][c] \in {"none", "failed"}}
LeftUntilDead(j) ==
  IF ctx[j] = "live" THEN {c \in asked[j] : results[j][c] = "none"} ELSE {}
\* The rounds the loop over ChannelIDs has still to make.
Left(j) == {c \in asked[j] : results[j][c] = "none"}

FailureOrOk(j) == {"failed", "ok"}
FailureOrSkipped(j) == {"failed", "skipped"}
\* What an error may read: that of the platform, of the media preparation
\* or of the deadline, or "context canceled".
Failure(j) ==
  {"failed"} \cup (IF ctx[j] = "canceled" THEN {"canceled"} ELSE {})

\* FOREIGN KEY(job_id) REFERENCES send_jobs(id), with foreign_keys(1).
ForeignKeyHolds(j) == job[j] # "none"

SkipFailedRow(j) ==
  [rows EXCEPT ![j][at[j]] = IF results[j][at[j]] = "ok" THEN "ok" ELSE @]
\* The INSERT into send_results.
WithRow(j) == [rows EXCEPT ![j][at[j]] = results[j][at[j]]]

Goto(j, phase) == call' = [call EXCEPT ![j] = phase]
LeaveChannel(j) == at' = [at EXCEPT ![j] = NoChannel]

GoOnWithoutRow(j) == Goto(j, "look") /\ LeaveChannel(j)
\* Whatever the result of Send, the INSERT of its row comes next.
GoOnToRow(j) == Goto(j, "record") /\ UNCHANGED at

-----------------------------------------------------------------------------
Init ==
  /\ chan \in [Channels -> {"new", "on", "off"}]
  /\ job = [j \in Jobs |-> "none"]
  /\ rows = [j \in Jobs |-> [c \in Channels |-> "none"]]
  /\ call = [j \in Jobs |-> "idle"]
  /\ asked = [j \in Jobs |-> {}]
  /\ results = [j \in Jobs |-> [c \in Channels |-> "none"]]
  /\ at = [j \in Jobs |-> NoChannel]
  /\ ctx = [j \in Jobs |-> "live"]
  /\ flight = [j \in Jobs |-> {}]
  /\ out = [j \in Jobs |-> {}]
  /\ dbErrors = 0
  /\ wasOn = [j \in Jobs |-> {}]

-----------------------------------------------------------------------------
(* The call.                                                               *)

\* executeSend up to its loop.  The error of the INSERT into send_jobs is
\* dropped.  The caller's context may already be cancelled.
Call(j, S, x) ==
  /\ call[j] = "idle"
  /\ S # {}
  /\ Goto(j, "look")
  /\ asked' = [asked EXCEPT ![j] = S]
  /\ ctx' = [ctx EXCEPT ![j] = x]
  /\ wasOn' = [wasOn EXCEPT ![j] = S \cap EnabledChannels]
  /\ \/ job' = [job EXCEPT ![j] = "running"] /\ UNCHANGED dbErrors
     \/ DbFails /\ UNCHANGED job
  /\ UNCHANGED <<chan, rows, results, at, atPlatforms>>

\* No channel, or a media file that is not in uploads or no longer there.
Reject(j) ==
  /\ call[j] = "idle"
  /\ Goto(j, "rejected")
  /\ UNCHANGED <<tables, asked, results, at, ctx, atPlatforms, dbErrors, wasOn>>

\* channels.Get; the copy of the row is used until this round is over.
Find(j, c) ==
  /\ call[j] = "look"
  /\ c \in Left(j)
  /\ Usable(c)
  /\ Goto(j, "publish")
  /\ at' = [at EXCEPT ![j] = c]
  /\ UNCHANGED <<tables, asked, results, ctx, atPlatforms, dbErrors, wasOn>>

\* "channel not found" (any error of Get counts as that) or "channel
\* disabled": told to the caller, written nowhere.
Skip(j, c) ==
  /\ call[j] = "look"
  /\ c \in Left(j)
  /\ \/ ~Usable(c) /\ UNCHANGED dbErrors
     \/ DbFails
  /\ results' = [results EXCEPT ![j][c] = "skipped"]
  /\ UNCHANGED <<tables, call, asked, at, ctx, atPlatforms, wasOn>>

\* The request leaves: net/http does not begin one on a dead context.
Request(j) ==
  /\ call[j] = "publish"
  /\ ctx[j] = "live"
  /\ flight' = [flight EXCEPT ![j] = @ \cup {at[j]}]
  /\ Goto(j, "answer")
  /\ UNCHANGED <<tables, asked, results, at, ctx, out, dbErrors, wasOn>>

Conclude(j, outcome) ==
  /\ results' = [results EXCEPT ![j][at[j]] = outcome]
  /\ GoOnToRow(j)
  /\ UNCHANGED <<tables, asked, ctx, atPlatforms, dbErrors, wasOn>>

\* Dispatcher.Send ends with an error and no request was made.
FailToDeliver(j) ==
  /\ call[j] = "publish"
  /\ \E outcome \in Failure(j) : Conclude(j, outcome)

\* The platform's ok arrives.
Answered(j) ==
  /\ call[j] = "answer"
  /\ at[j] \in out[j] \ flight[j]
  /\ Conclude(j, "ok")

\* The caller sees an error: a refusal, of the first message or of a later one,
\* or the client's timeout, a dead context, a broken connection, whatever
\* becomes of the request.
AnswerLost(j) ==
  /\ call[j] = "answer"
  /\ \E outcome \in Failure(j) : Conclude(j, outcome)

\* The error of this INSERT is dropped as well.
Record(j) ==
  /\ call[j] = "record"
  /\ \/ ForeignKeyHolds(j) /\ rows' = WithRow(j) /\ UNCHANGED dbErrors
     \/ ~ForeignKeyHolds(j) /\ UNCHANGED <<rows, dbErrors>>
     \/ DbFails /\ UNCHANGED rows
  /\ Goto(j, "look")
  /\ LeaveChannel(j)
  /\ UNCHANGED <<chan, job, asked, results, ctx, atPlatforms, wasOn>>

\* UPDATE send_jobs SET status = 'done'; its error is dropped.  The return
\* cancels runCtx.
Finish(j) ==
  /\ call[j] = "look"
  /\ Left(j) = {}
  /\ Goto(j, "returned")
  /\ \/ /\ job' = [job EXCEPT ![j] = IF @ = "none" THEN @ ELSE "done"]
        /\ UNCHANGED dbErrors
     \/ DbFails /\ UNCHANGED job
  /\ ctx' = [ctx EXCEPT ![j] = "gone"]
  /\ UNCHANGED <<chan, rows, asked, results, at, atPlatforms, wasOn>>

-----------------------------------------------------------------------------
(* The platforms.  Neither a cancelled context, nor the client's timeout,  *)
(* nor the end of the process takes a request back that they have.         *)

CarryOut(j, c) ==
  /\ c \in flight[j]
  /\ flight' = [flight EXCEPT ![j] = @ \ {c}]
  /\ out' = [out EXCEPT ![j] = @ \cup {c}]
  /\ UNCHANGED <<tables, calls, dbErrors, wasOn>>

\* Also: the request never gets there.
Refuse(j, c) ==
  /\ c \in flight[j]
  /\ flight' = [flight EXCEPT ![j] = @ \ {c}]
  /\ UNCHANGED <<tables, calls, out, dbErrors, wasOn>>

PlatformsAct == \E j \in Jobs, c \in Channels : CarryOut(j, c) \/ Refuse(j, c)

-----------------------------------------------------------------------------
(* Around the call.                                                        *)

CtxEnds(j, x) ==
  /\ Active(j)
  /\ ctx[j] = "live"
  /\ ctx' = [ctx EXCEPT ![j] = x]
  /\ UNCHANGED <<tables, call, asked, results, at, atPlatforms, dbErrors, wasOn>>

\* The five minutes of runCtx are over.
Expire(j) == CtxEnds(j, "expired")

\* SIGTERM (the worker's context) or a client that went away (r.Context()).
CancelCtx(j) == CtxEnds(j, "canceled")

\* The process dies and is started again; the tables and the messages stay.
Crash ==
  /\ call' = [j \in Jobs |-> IF Active(j) THEN "dead" ELSE call[j]]
  /\ at' = [j \in Jobs |-> NoChannel]
  /\ ctx' = [j \in Jobs |-> IF Active(j) THEN "gone" ELSE ctx[j]]
  /\ UNCHANGED <<tables, asked, results, atPlatforms, dbErrors, wasOn>>

\* channelCreate and channelUpdate.
SaveChannel(c, state) ==
  /\ chan[c] # "deleted"
  /\ state \in {"on", "off"}
  /\ chan' = [chan EXCEPT ![c] = state]
  /\ wasOn' = [j \in Jobs |->
       IF Active(j) /\ c \in asked[j] /\ state = "on"
       THEN wasOn[j] \cup {c} ELSE wasOn[j]]
  /\ UNCHANGED <<job, rows, calls, atPlatforms, dbErrors>>

\* channelDelete; deleting what is gone succeeds and changes nothing.
DeleteChannel(c) ==
  /\ chan[c] # "new"
  /\ chan' = [chan EXCEPT ![c] = "deleted"]
  /\ UNCHANGED <<job, rows, calls, atPlatforms, dbErrors, wasOn>>

-----------------------------------------------------------------------------
InLoop(j) ==
  \/ \E c \in Channels : Find(j, c) \/ Skip(j, c)
  \/ Request(j)
  \/ FailToDeliver(j)
  \/ Answered(j)
  \/ AnswerLost(j)
  \/ Record(j)
  \/ Finish(j)

Begin(j) ==
  \/ \E S \in SUBSET Channels, x \in {"live", "canceled"} : Call(j, S, x)
  \/ Reject(j)

EditChannels ==
  \E c \in Channels :
    \/ \E state \in {"on", "off"} : SaveChannel(c, state)
    \/ DeleteChannel(c)

Next ==
  \/ \E j \in Jobs : Begin(j) \/ InLoop(j) \/ Expire(j) \/ CancelCtx(j)
  \/ PlatformsAct
  \/ Crash
  \/ EditChannels

Spec == Init /\ [][Next]_vars

(* A goroutine that can run does; the platforms' clients have timeouts of  *)
(* two to three minutes, so a call waits for no answer longer than that.   *)
FairSpec == Spec /\ \A j \in Jobs : WF_vars(InLoop(j))

-----------------------------------------------------------------------------
(* Invariants.                                                             *)

\* Every variable keeps the values its column, slice or context can have.
TypeOK ==
  /\ chan \in [Channels -> {"new", "on", "off", "deleted"}]
  /\ job \in [Jobs -> {"none", "running", "done"}]
  /\ rows \in [Jobs -> [Channels -> {"none"} \cup (Outcomes \ {"skipped"})]]
  /\ call \in [Jobs -> Phases]
  /\ asked \in [Jobs -> SUBSET Channels]
  /\ results \in [Jobs -> [Channels -> {"none"} \cup Outcomes]]
  /\ at \in [Jobs -> Channels \cup {NoChannel}]
  /\ \A j \in Jobs : at[j] # NoChannel <=>
                       call[j] \in {"publish", "answer", "record"}
  /\ ctx \in [Jobs -> {"live", "expired", "canceled", "gone"}]
  /\ flight \in [Jobs -> SUBSET Channels]
  /\ out \in [Jobs -> SUBSET Channels]
  /\ dbErrors \in Nat
  /\ wasOn \in [Jobs -> SUBSET Channels]

\* If no statement failed, a job that reads "done" in the history lists
\* exactly the outcomes the caller got, but for the channels that were
\* missing or disabled, which the history does not mention.  List reads the
\* jobs before the results, so the page shows no less.
HistoryComplete ==
  \A j \in Jobs, c \in Channels :
    job[j] = "done" /\ dbErrors = 0 =>
      rows[j][c] = IF results[j][c] = "skipped" THEN "none" ELSE results[j][c]

\* If no statement failed, a send that the death of the process cut off has
\* put at most one message on the platforms that no row of the history tells.
AtMostOneUnrecorded ==
  \A j \in Jobs :
    dbErrors = 0 => Cardinality({c \in out[j] : rows[j][c] = "none"}) <= 1

\* A message goes only to channels that were enabled at some moment of the
\* call, however channels are edited and deleted while it runs.
OnlyChannelsThatWereOn ==
  \A j \in Jobs : out[j] \subseteq asked[j] \cap wasOn[j]

-----------------------------------------------------------------------------
(* The calls of Dispatcher.Send.                                           *)

Told(j, c) ==
  CASE results[j][c] = "ok" -> "ok"
    [] results[j][c] \in {"failed", "canceled"} -> "error"
    [] OTHER -> "none"

Channel == INSTANCE ChannelSend
  WITH Sends <- Jobs \X Channels,
       live <- {s \in Jobs \X Channels : ctx[s[1]] = "live"},
       flying <- {s \in Jobs \X Channels : s[2] \in flight[s[1]]},
       out <- {s \in Jobs \X Channels : s[2] \in out[s[1]]},
       told <- [s \in Jobs \X Channels |-> Told(s[1], s[2])]

\* What executeSend makes of each channel is one call of Dispatcher.Send as
\* ChannelSend has it: no request on a dead context or after the result, one
\* result at most, ok only for what is out; after an error, and after the death
\* of the process, a message may still come out.
ImplementsChannelSend == Channel!Spec

-----------------------------------------------------------------------------
(* Liveness.                                                               *)

\* A call that began its loop ends, and then its job reads "done", unless
\* the process dies under it or a statement fails.
EveryJobCloses ==
  \A j \in Jobs :
    call[j] = "look" ~> \/ call[j] = "dead"
                        \/ call[j] = "returned" /\ (job[j] = "done" \/ dbErrors > 0)

=============================================================================
