----------------------------- MODULE Newsmaker -----------------------------
(***************************************************************************)
(* The process as main.go wires it: the worker of Schedule executes a post *)
(* through ExecuteScheduled and executeSend (SendJob), under the context   *)
(* that SIGTERM cancels.  Both share one database, so one count of failed  *)
(* statements, and both end with the process.                              *)
(*                                                                         *)
(* A run of the worker for a post is named <<post, boot>>: Schedule shows  *)
(* (OncePerBoot) that no post is executed twice between two starts.        *)
(***************************************************************************)
EXTENDS Schedule

CONSTANTS
  Channels,     (* as in SendJob                                             *)
  NoChannel,
  To            (* the channel_ids_json of each row                          *)

ASSUME NewsmakerAssumption ==
  /\ NoChannel \notin Channels
  /\ To \in [Posts -> (SUBSET Channels) \ {{}}]

VARIABLES chan, job, rows, call, asked, results, at, ctx, flight, out, wasOn

Runs == Posts \X (1 .. MaxBoots)

Send == INSTANCE SendJob WITH Jobs <- Runs

sendVars == <<chan, job, rows, call, asked, results, at, ctx, flight, out, wasOn>>
schedVars == <<now, table, creator, proc, worker, boots, history>>
allVars == <<vars, sendVars>>

Run == <<cur, boots>>

-----------------------------------------------------------------------------
NMInit == Init /\ Send!Init

\* Steps that leave the sends alone.
QueueStep ==
  /\ \/ Pass
     \/ HandlerStep
     \/ ListDue
     \/ \E p \in Posts : TakeNext(p)
     \/ Claim \/ ClaimMisses \/ ClaimFails
     \/ Mark \/ MarkFails
     \/ Boot
  /\ UNCHANGED sendVars

\* The worker inside Execute.  Its context is cancelled once SIGTERM came.
RunStep ==
  /\ Serving
  /\ pc = "exec"
  /\ \/ Send!Call(Run, To[cur], IF proc = "up" THEN "live" ELSE "canceled")
     \/ Send!Reject(Run)
     \/ Send!InLoop(Run)
     \/ Send!Expire(Run)
  /\ UNCHANGED schedVars

OnlyRejectedFails(r) ==
  IF call[r] = "returned" /\ (\A c \in asked[r] : results[r][c] = "ok")
  THEN "done" ELSE "failed"
\* executeSend has an error only for a request it rejects: channels that
\* fail, were skipped or never tried do not make one.
Outcome(r) == IF call[r] = "returned" THEN "done" ELSE "failed"

Return ==
  /\ pc = "exec"
  /\ call[Run] \in {"returned", "rejected"}
  /\ ExecuteReturns(Outcome(Run))
  /\ UNCHANGED sendVars

\* NotifyContext cancels the context the worker passed to Execute.
Terminate ==
  /\ Sigterm
  /\ IF pc = "exec" /\ Send!Active(Run) /\ ctx[Run] = "live"
       THEN Send!CancelCtx(Run)
       ELSE UNCHANGED sendVars

Die ==
  /\ Exit \/ Crash
  /\ Send!Crash

EditChannels ==
  /\ Send!EditChannels
  /\ UNCHANGED schedVars

\* Requests of any run, of this process or of one that died.
PlatformsAct ==
  /\ Send!PlatformsAct
  /\ UNCHANGED schedVars

NMNext ==
  \/ QueueStep \/ RunStep \/ Return \/ Terminate \/ Die
  \/ EditChannels \/ PlatformsAct

NMSpec == NMInit /\ [][NMNext]_allVars

-----------------------------------------------------------------------------
(* Invariants.                                                             *)

RunsOf(p) == {r \in Runs : r[1] = p}

\* The channels where some run of the post put a message.
Reached(p) == UNION {out[r] : r \in RunsOf(p)}

\* The worker has one send under way at most: that of the row it holds, and
\* no handler has taken the row away meanwhile.
OneSendAtATime ==
  \A r \in Runs :
    Send!Active(r) => r = Run /\ pc = "exec" /\ status[cur] = "sending"

\* What the schedule page calls pending, cancelled or failed has reached no
\* channel, unless a restart had put it back after a run that did.
UnsentReachedNobody ==
  \A p \in Posts :
    /\ status[p] \in {"absent", "pending", "cancelled", "failed"}
    /\ p \notin requeued
    => Reached(p) = {}

\* A channel gets a post twice only if a restart put it back.
TwiceOnlyAfterRequeue ==
  \A p \in Posts : \A r1, r2 \in RunsOf(p) :
    r1 # r2 /\ out[r1] \cap out[r2] # {} => p \in requeued

\* If no statement failed, a post that reads "done" has a job in the history
\* that reads "done", and its messages of that run are all in it.
DoneHasHistory ==
  \A p \in Posts :
    status[p] = "done" /\ dbErrors = 0 =>
      \E r \in RunsOf(p) :
        /\ job[r] = "done"
        /\ \A c \in out[r] : rows[r][c] # "none"

\* A send the shutdown interrupts does not end as "done": the worker puts
\* interrupted sends back after a restart.  Not so for SIGTERM: executeSend
\* turns the cancelled context into a failed channel, returns no error, and
\* if that is quicker than the exit of main the row is marked done.
InterruptedIsNotDone ==
  \A r \in Runs :
    (\E c \in Channels : results[r][c] = "canceled") => status[r[1]] # "done"
=============================================================================
