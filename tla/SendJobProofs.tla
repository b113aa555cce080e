--------------------------- MODULE SendJobProofs ----------------------------
(***************************************************************************)
(* Proofs that SendJob keeps its invariants and implements ChannelSend for *)
(* any number of calls and channels and any number of failed statements.   *)
(***************************************************************************)
EXTENDS SendJob, FiniteSetTheorems, TLAPS

-----------------------------------------------------------------------------
(* Types.                                                                  *)

\* A call at a channel was asked for it, and has an outcome for it once Send
\* has returned: never "skipped", which is for channels it does not go to.
Held ==
  \A j \in Jobs :
    /\ call[j] \in {"publish", "answer", "record"} => at[j] \in asked[j]
    /\ call[j] \in {"publish", "answer"} => results[j][at[j]] = "none"
    /\ call[j] = "record" => results[j][at[j]] \in {"ok", "failed", "canceled"}

\* What a platform does with a request moves the channel from flight to out, or
\* drops it, and is all that it does.
LEMMA PlatformMoves ==
  ASSUME TypeOK, NEW j \in Jobs, NEW c \in Channels, CarryOut(j, c) \/ Refuse(j, c)
  PROVE  /\ UNCHANGED <<chan, job, rows, call, asked, results, at, ctx, dbErrors, wasOn>>
         /\ flight' \in [Jobs -> SUBSET Channels] /\ out' \in [Jobs -> SUBSET Channels]
         /\ \A k \in Jobs :
              /\ flight'[k] \cup out'[k] \subseteq flight[k] \cup out[k]
              /\ out[k] \subseteq out'[k]
<1>1. UNCHANGED <<chan, job, rows, call, asked, results, at, ctx, dbErrors, wasOn>>
  BY DEF CarryOut, Refuse, tables, calls
<1>2. flight \in [Jobs -> SUBSET Channels] /\ out \in [Jobs -> SUBSET Channels]
  BY DEF TypeOK
<1>3. /\ c \in flight[j]
      /\ flight' = [flight EXCEPT ![j] = @ \ {c}]
      /\ out' = out \/ out' = [out EXCEPT ![j] = @ \cup {c}]
  BY DEF CarryOut, Refuse
<1> QED
  BY <1>1, <1>2, <1>3

\* The actions that hold a call to a channel or let it go.
LEMMA HeldStep == TypeOK /\ Held /\ [Next]_vars => Held'
<1> SUFFICES ASSUME TypeOK, Held, [Next]_vars PROVE Held'
  OBVIOUS
<1> USE SendJobAssumption DEF TypeOK, Held, Phases, tables, calls, atPlatforms, Goto
<1>1. ASSUME NEW j \in Jobs, NEW S \in SUBSET Channels,
             NEW x \in {"live", "canceled"}, Call(j, S, x)
      PROVE  Held'
  BY <1>1 DEF Call
<1>2. ASSUME NEW j \in Jobs, Reject(j)
      PROVE  Held'
  BY <1>2 DEF Reject
<1>3. ASSUME NEW j \in Jobs, NEW c \in Channels, Find(j, c)
      PROVE  Held'
  BY <1>3 DEF Find, Left
<1>4. ASSUME NEW j \in Jobs, NEW c \in Channels, Skip(j, c)
      PROVE  Held'
  BY <1>4 DEF Skip
<1>5. ASSUME NEW j \in Jobs, Request(j)
      PROVE  Held'
  BY <1>5 DEF Request
<1>6. ASSUME NEW j \in Jobs, FailToDeliver(j) \/ Answered(j) \/ AnswerLost(j)
      PROVE  Held'
  <2>1. call[j] \in {"publish", "answer"} /\ at[j] \in Channels
    BY <1>6 DEF FailToDeliver, Answered, AnswerLost
  <2>2. PICK outcome \in {"ok", "failed", "canceled"} : Conclude(j, outcome)
    BY <1>6 DEF FailToDeliver, Answered, AnswerLost, Failure
  <2> QED
    BY <2>1, <2>2 DEF Conclude, GoOnToRow
<1>7. ASSUME NEW j \in Jobs, Record(j)
      PROVE  Held'
  BY <1>7 DEF Record, LeaveChannel
<1>8. ASSUME NEW j \in Jobs, Finish(j)
      PROVE  Held'
  BY <1>8 DEF Finish
<1>9. ASSUME NEW j \in Jobs, Expire(j) \/ CancelCtx(j)
      PROVE  Held'
  BY <1>9 DEF Expire, CancelCtx, CtxEnds, Active
<1>0. ASSUME NEW j \in Jobs, NEW c \in Channels, CarryOut(j, c) \/ Refuse(j, c)
      PROVE  Held'
  BY <1>0, PlatformMoves
<1>10. CASE Crash
  BY <1>10 DEF Crash, Active
<1>11. CASE EditChannels
  BY <1>11 DEF EditChannels, SaveChannel, DeleteChannel
<1>12. CASE UNCHANGED vars
  BY <1>12 DEF vars
<1> QED
  BY <1>0, <1>1, <1>2, <1>3, <1>4, <1>5, <1>6, <1>7, <1>8, <1>9, <1>10, <1>11, <1>12
     DEF Next, Begin, InLoop, PlatformsAct

\* Every action keeps every variable within its type.
LEMMA TypeStep == TypeOK /\ Held /\ [Next]_vars => TypeOK'
<1> SUFFICES ASSUME TypeOK, Held, [Next]_vars PROVE TypeOK'
  OBVIOUS
<1> USE SendJobAssumption DEF TypeOK, Phases, Outcomes, tables, calls, atPlatforms, Goto
<1>1. ASSUME NEW j \in Jobs, NEW S \in SUBSET Channels,
             NEW x \in {"live", "canceled"}, Call(j, S, x)
      PROVE  TypeOK'
  <2>1. job' \in {job, [job EXCEPT ![j] = "running"]} /\ dbErrors' \in Nat
    BY <1>1 DEF Call, DbFails
  <2>2. EnabledChannels \in SUBSET Channels
    BY DEF EnabledChannels
  <2> QED
    BY <1>1, <2>1, <2>2 DEF Call
<1>2. ASSUME NEW j \in Jobs, Reject(j)
      PROVE  TypeOK'
  BY <1>2 DEF Reject
<1>3. ASSUME NEW j \in Jobs, NEW c \in Channels, Find(j, c)
      PROVE  TypeOK'
  BY <1>3 DEF Find
<1>4. ASSUME NEW j \in Jobs, NEW c \in Channels, Skip(j, c)
      PROVE  TypeOK'
  BY <1>4 DEF Skip, DbFails
<1>5. ASSUME NEW j \in Jobs, Request(j)
      PROVE  TypeOK'
  BY <1>5 DEF Request
<1>6. ASSUME NEW j \in Jobs, FailToDeliver(j) \/ Answered(j) \/ AnswerLost(j)
      PROVE  TypeOK'
  <2>1. call[j] \in {"publish", "answer"} /\ at[j] \in Channels
    BY <1>6 DEF FailToDeliver, Answered, AnswerLost
  <2>2. PICK outcome \in {"ok", "failed", "canceled"} : Conclude(j, outcome)
    BY <1>6 DEF FailToDeliver, Answered, AnswerLost, Failure
  <2>3. results' \in [Jobs -> [Channels -> {"none"} \cup Outcomes]]
    BY <2>1, <2>2 DEF Conclude
  <2> QED
    BY <2>1, <2>2, <2>3 DEF Conclude, GoOnToRow
<1>7. ASSUME NEW j \in Jobs, Record(j)
      PROVE  TypeOK'
  <2>1. at[j] \in Channels /\ results[j][at[j]] \in Outcomes \ {"skipped"}
    BY <1>7 DEF Record, Held
  <2>2. dbErrors' \in Nat
    BY <1>7 DEF Record, DbFails
  <2>3. CASE rows' = WithRow(j)
    <3>1. rows' \in [Jobs -> [Channels -> {"none"} \cup (Outcomes \ {"skipped"})]]
      BY <2>1, <2>3 DEF WithRow
    <3> QED
      BY <1>7, <2>2, <3>1 DEF Record, LeaveChannel
  <2>4. CASE UNCHANGED rows
    BY <1>7, <2>2, <2>4 DEF Record, LeaveChannel
  <2> QED
    BY <1>7, <2>3, <2>4 DEF Record
<1>8. ASSUME NEW j \in Jobs, Finish(j)
      PROVE  TypeOK'
  <2>1. job' \in [Jobs -> {"none", "running", "done"}] /\ dbErrors' \in Nat
    <3>1. PICK status \in {"none", "running", "done"} :
            job' = [job EXCEPT ![j] = status] \/ job' = job
      BY <1>8 DEF Finish
    <3>2. dbErrors' \in Nat
      BY <1>8 DEF Finish, DbFails
    <3> HIDE SendJobAssumption
    <3>3. job \in [Jobs -> {"none", "running", "done"}]
      OBVIOUS
    <3> QED
      BY <3>1, <3>2, <3>3
  <2>2. /\ UNCHANGED <<chan, rows, asked, results, at, flight, out, wasOn>>
        /\ call[j] = "look" /\ call' = [call EXCEPT ![j] = "returned"]
        /\ ctx' = [ctx EXCEPT ![j] = "gone"]
    BY <1>8 DEF Finish
  <2> QED
    BY <2>1, <2>2
<1>9. ASSUME NEW j \in Jobs, Expire(j) \/ CancelCtx(j)
      PROVE  TypeOK'
  BY <1>9 DEF Expire, CancelCtx, CtxEnds, Active
<1>0. ASSUME NEW j \in Jobs, NEW c \in Channels, CarryOut(j, c) \/ Refuse(j, c)
      PROVE  TypeOK'
  BY <1>0, PlatformMoves
<1>10. CASE Crash
  BY <1>10 DEF Crash, Active
<1>11. ASSUME NEW c \in Channels, NEW state \in {"on", "off"}, SaveChannel(c, state)
       PROVE  TypeOK'
  BY <1>11 DEF SaveChannel
<1>12. ASSUME NEW c \in Channels, DeleteChannel(c)
       PROVE  TypeOK'
  BY <1>12 DEF DeleteChannel
<1>13. CASE UNCHANGED vars
  BY <1>13 DEF vars
<1> QED
  BY <1>0, <1>1, <1>2, <1>3, <1>4, <1>5, <1>6, <1>7, <1>8, <1>9, <1>10, <1>11, <1>12,
     <1>13
     DEF Next, Begin, InLoop, PlatformsAct, EditChannels

\* Both hold from the start.
LEMMA TypeAndHeld == Spec => [](TypeOK /\ Held)
<1>1. Init => TypeOK /\ Held
  BY SendJobAssumption DEF Init, TypeOK, Held, Phases, Outcomes
<1>2. TypeOK /\ Held /\ [Next]_vars => TypeOK' /\ Held'
  BY TypeStep, HeldStep
<1> QED
  BY <1>1, <1>2, PTL DEF Spec

\* SendJob keeps every variable within its type: no row of the history ever
\* says "skipped", and a call is at a channel exactly while it works on one.
THEOREM SendTypeInvariant == Spec => []TypeOK
  BY TypeAndHeld, PTL

-----------------------------------------------------------------------------
(* What is out, and what the caller is told of it.                         *)

\* Before its loop a call has left no trace.  In it, a channel with a request or
\* a message of the call is the one it waits for or has the outcome that Send
\* returned, and "ok" is the outcome of what is out only.
Traced ==
  \A j \in Jobs :
    /\ call[j] \in {"idle", "rejected"} =>
         /\ ctx[j] = "live" /\ flight[j] = {} /\ out[j] = {}
         /\ \A c \in Channels : results[j][c] = "none"
    /\ call[j] # "dead" => \A c \in flight[j] \cup out[j] :
         \/ call[j] = "answer" /\ c = at[j]
         \/ results[j][c] \in {"ok", "failed", "canceled"}
    /\ \A c \in Channels : results[j][c] = "ok" => c \in out[j]

\* A channel that was left out has no request and no message, since the loop
\* leaves out only channels without an outcome.
LEMMA TracedStep == TypeOK /\ Held /\ Traced /\ [Next]_vars => Traced'
<1> SUFFICES ASSUME TypeOK, Held, Traced, [Next]_vars PROVE Traced'
  OBVIOUS
<1> USE SendJobAssumption DEF TypeOK, Held, Traced, Phases, tables, calls, atPlatforms, Goto
<1>1. ASSUME NEW j \in Jobs, NEW S \in SUBSET Channels,
             NEW x \in {"live", "canceled"}, Call(j, S, x)
      PROVE  Traced'
  BY <1>1 DEF Call
<1>2. ASSUME NEW j \in Jobs, Reject(j)
      PROVE  Traced'
  BY <1>2 DEF Reject
<1>3. ASSUME NEW j \in Jobs, NEW c \in Channels, Find(j, c)
      PROVE  Traced'
  BY <1>3 DEF Find
<1>4. ASSUME NEW j \in Jobs, NEW c \in Channels, Skip(j, c)
      PROVE  Traced'
  BY <1>4 DEF Skip, Left
<1>5. ASSUME NEW j \in Jobs, Request(j)
      PROVE  Traced'
  BY <1>5 DEF Request
<1>6. ASSUME NEW j \in Jobs, FailToDeliver(j) \/ Answered(j) \/ AnswerLost(j)
      PROVE  Traced'
  <2>1. call[j] \in {"publish", "answer"} /\ at[j] \in Channels
    BY <1>6 DEF FailToDeliver, Answered, AnswerLost
  <2>2. PICK outcome \in {"ok", "failed", "canceled"} :
          Conclude(j, outcome) /\ (outcome = "ok" => at[j] \in out[j])
    BY <1>6 DEF FailToDeliver, Answered, AnswerLost, Failure
  <2> QED
    BY <2>1, <2>2 DEF Conclude, GoOnToRow
<1>7. ASSUME NEW j \in Jobs, Record(j)
      PROVE  Traced'
  BY <1>7 DEF Record, LeaveChannel
<1>8. ASSUME NEW j \in Jobs, Finish(j)
      PROVE  Traced'
  BY <1>8 DEF Finish
<1>9. ASSUME NEW j \in Jobs, Expire(j) \/ CancelCtx(j)
      PROVE  Traced'
  BY <1>9 DEF Expire, CancelCtx, CtxEnds, Active
<1>0. ASSUME NEW j \in Jobs, NEW c \in Channels, CarryOut(j, c) \/ Refuse(j, c)
      PROVE  Traced'
  <2>1. /\ UNCHANGED <<call, results, at, ctx>>
        /\ \A k \in Jobs : /\ flight'[k] \cup out'[k] \subseteq flight[k] \cup out[k]
                           /\ out[k] \subseteq out'[k]
    BY <1>0, PlatformMoves
  <2> HIDE SendJobAssumption DEF TypeOK, Held, Traced
  <2>2. ASSUME NEW k \in Jobs, flight[k] = {}, out[k] = {}
        PROVE  flight'[k] = {} /\ out'[k] = {}
    <3>1. flight'[k] \cup out'[k] \subseteq {}
      BY <2>1, <2>2
    <3> QED BY <3>1
  <2>3. ASSUME NEW k \in Jobs, NEW d \in flight'[k] \cup out'[k]
        PROVE  d \in flight[k] \cup out[k]
    BY <2>1, <2>3
  <2>4. ASSUME NEW k \in Jobs, NEW d \in out[k]
        PROVE  d \in out'[k]
    BY <2>1, <2>4
  <2>5. UNCHANGED <<call, results, at, ctx>>
    BY <2>1
  <2> QED
    BY <2>2, <2>3, <2>4, <2>5 DEF Traced
<1>10. CASE Crash
  BY <1>10 DEF Crash, Active
<1>11. CASE EditChannels
  BY <1>11 DEF EditChannels, SaveChannel, DeleteChannel
<1>12. CASE UNCHANGED vars
  BY <1>12 DEF vars
<1> HIDE DEF TypeOK, Held, Traced
<1> QED
  BY <1>0, <1>1, <1>2, <1>3, <1>4, <1>5, <1>6, <1>7, <1>8, <1>9, <1>10, <1>11, <1>12
     DEF Next, Begin, InLoop, PlatformsAct

-----------------------------------------------------------------------------
(* The history.                                                            *)

\* What the INSERT of an outcome puts into the history.
RowOf(outcome) == IF outcome = "skipped" THEN "none" ELSE outcome

\* Out, or about to be, and not in the history.
Unrecorded(j) == {c \in flight[j] \cup out[j] : rows[j][c] = "none"}

\* As long as no statement failed, a running call has its job, which the rows
\* refer to, and every outcome but the one to be recorded next has its row.  A
\* call that died keeps what it had.
Recorded ==
  \A j \in Jobs :
    /\ call[j] \in {"idle", "rejected"} =>
         job[j] = "none" /\ \A c \in Channels : rows[j][c] = "none"
    /\ job[j] = "done" => call[j] = "returned"
    /\ dbErrors = 0 =>
         /\ Active(j) => job[j] # "none"
         /\ call[j] = "returned" => job[j] = "done"
         /\ call[j] # "dead" => \A c \in Channels :
              rows[j][c] = IF call[j] = "record" /\ c = at[j] THEN "none"
                                                            ELSE RowOf(results[j][c])
         /\ call[j] = "dead" => \A c, d \in Unrecorded(j) : c = d

LEMMA RecordedStep ==
  TypeOK /\ Held /\ Traced /\ Recorded /\ [Next]_vars => Recorded'
<1> SUFFICES ASSUME TypeOK, Held, Traced, Recorded, [Next]_vars PROVE Recorded'
  OBVIOUS
<1> USE SendJobAssumption
    DEF TypeOK, Held, Traced, Recorded, RowOf, Unrecorded, Active, Phases,
        tables, calls, atPlatforms, Goto
<1>1. ASSUME NEW j \in Jobs, NEW S \in SUBSET Channels,
             NEW x \in {"live", "canceled"}, Call(j, S, x)
      PROVE  Recorded'
  BY <1>1 DEF Call, DbFails
<1>2. ASSUME NEW j \in Jobs, Reject(j)
      PROVE  Recorded'
  BY <1>2 DEF Reject
<1>3. ASSUME NEW j \in Jobs, NEW c \in Channels, Find(j, c)
      PROVE  Recorded'
  BY <1>3 DEF Find
<1>4. ASSUME NEW j \in Jobs, NEW c \in Channels, Skip(j, c)
      PROVE  Recorded'
  BY <1>4 DEF Skip, Left, DbFails
<1>5. ASSUME NEW j \in Jobs, Request(j)
      PROVE  Recorded'
  BY <1>5 DEF Request
<1>6. ASSUME NEW j \in Jobs, FailToDeliver(j) \/ Answered(j) \/ AnswerLost(j)
      PROVE  Recorded'
  <2>1. call[j] \in {"publish", "answer"} /\ at[j] \in Channels
    BY <1>6 DEF FailToDeliver, Answered, AnswerLost
  <2>2. PICK outcome \in {"ok", "failed", "canceled"} : Conclude(j, outcome)
    BY <1>6 DEF FailToDeliver, Answered, AnswerLost, Failure
  <2> QED
    BY <1>6, <2>1, <2>2 DEF Conclude, GoOnToRow
<1>7. ASSUME NEW j \in Jobs, Record(j)
      PROVE  Recorded'
  <2>1. at[j] \in Channels /\ results[j][at[j]] \in {"ok", "failed", "canceled"}
    BY <1>7 DEF Record
  <2>2. CASE UNCHANGED dbErrors /\ ForeignKeyHolds(j) /\ rows' = WithRow(j)
    BY <1>7, <2>1, <2>2 DEF Record, LeaveChannel, WithRow
  <2>3. CASE UNCHANGED rows /\ dbErrors' # 0
    BY <1>7, <2>3 DEF Record, LeaveChannel
  <2>4. CASE UNCHANGED <<rows, dbErrors>> /\ ~ForeignKeyHolds(j)
    BY <1>7, <2>4 DEF Record, LeaveChannel, ForeignKeyHolds
  <2> QED
    BY <1>7, <2>2, <2>3, <2>4 DEF Record, DbFails
<1>8. ASSUME NEW j \in Jobs, Finish(j)
      PROVE  Recorded'
  BY <1>8 DEF Finish, DbFails
<1>9. ASSUME NEW j \in Jobs, Expire(j) \/ CancelCtx(j)
      PROVE  Recorded'
  BY <1>9 DEF Expire, CancelCtx, CtxEnds
<1>0. ASSUME NEW j \in Jobs, NEW c \in Channels, CarryOut(j, c) \/ Refuse(j, c)
      PROVE  Recorded'
  BY <1>0, PlatformMoves
<1>10. CASE Crash
  <2>1. ASSUME dbErrors = 0, NEW j \in Jobs, Active(j), NEW c \in Unrecorded(j)
        PROVE  c = at[j]
    <3>1. /\ c \in Channels /\ c \in flight[j] \cup out[j]
          /\ rows[j][c] = "none" /\ call[j] # "dead"
      BY <2>1
    <3>2. \/ call[j] = "answer" /\ c = at[j]
          \/ results[j][c] \in {"ok", "failed", "canceled"}
      BY <3>1
    <3>3. rows[j][c] = IF call[j] = "record" /\ c = at[j] THEN "none"
                                                      ELSE RowOf(results[j][c])
      BY <2>1, <3>1
    <3> QED
      BY <3>1, <3>2, <3>3
  <2>2. UNCHANGED <<job, rows, flight, out, results, dbErrors>>
    BY <1>10 DEF Crash
  <2>3. \A j \in Jobs : call'[j] = IF Active(j) THEN "dead" ELSE call[j]
    BY <1>10 DEF Crash
  <2>4. ASSUME dbErrors = 0, NEW j \in Jobs, call'[j] = "dead",
               NEW c \in Unrecorded(j), NEW d \in Unrecorded(j)
        PROVE  c = d
    BY <2>1, <2>3, <2>4
  <2>5. ASSUME dbErrors = 0, NEW j \in Jobs, call'[j] # "dead", NEW c \in Channels
        PROVE  call'[j] = call[j] /\ rows[j][c] = RowOf(results[j][c])
    BY <2>3, <2>5
  <2> QED
    BY <2>2, <2>3, <2>4, <2>5
<1>11. CASE EditChannels
  BY <1>11 DEF EditChannels, SaveChannel, DeleteChannel
<1>12. CASE UNCHANGED vars
  BY <1>12 DEF vars
<1> HIDE DEF TypeOK, Held, Traced, Recorded
<1> QED
  BY <1>0, <1>1, <1>2, <1>3, <1>4, <1>5, <1>6, <1>7, <1>8, <1>9, <1>10, <1>11, <1>12
     DEF Next, Begin, InLoop, PlatformsAct

\* All of it holds from the start.
SendInv == TypeOK /\ Held /\ Traced /\ Recorded

LEMMA SendStep == SendInv /\ [Next]_vars => SendInv'
  BY TypeStep, HeldStep, TracedStep, RecordedStep DEF SendInv

LEMMA SendInvariant == Spec => []SendInv
<1>1. Init => SendInv
  BY SendJobAssumption
     DEF Init, SendInv, TypeOK, Held, Traced, Recorded, RowOf, Active, Phases, Outcomes
<1>2. SendInv /\ [Next]_vars => SendInv'
  BY SendStep
<1> QED
  BY <1>1, <1>2, PTL DEF Spec

\* A statement of somebody else that fails takes nothing from it.
LEMMA SendInvWithOtherErrors ==
  ASSUME SendInv, UNCHANGED <<chan, job, rows, call, asked, results, at, ctx, flight, out, wasOn>>,
         dbErrors' \in Nat, dbErrors' = 0 => dbErrors = 0
  PROVE  SendInv'
<1>1. TypeOK'
  BY DEF SendInv, TypeOK
<1>2. Held' /\ Traced'
  BY DEF SendInv, Held, Traced
<1>3. Recorded'
  BY DEF SendInv, Recorded, Active, Unrecorded
<1> QED
  BY <1>1, <1>2, <1>3 DEF SendInv

\* No step of a send makes the count of failed statements smaller.
LEMMA SendErrorsGrow == TypeOK /\ Next => dbErrors' >= dbErrors
<1> SUFFICES ASSUME TypeOK, Next PROVE dbErrors' >= dbErrors
  OBVIOUS
<1> USE DEF TypeOK, DbFails
<1>1. ASSUME NEW j \in Jobs, Begin(j) PROVE dbErrors' >= dbErrors
  BY <1>1 DEF Begin, Call, Reject
<1>2. ASSUME NEW j \in Jobs, InLoop(j) PROVE dbErrors' >= dbErrors
  BY <1>2 DEF InLoop, Find, Skip, Request, FailToDeliver, Answered, AnswerLost,
              Conclude, Record, Finish
<1>3. ASSUME NEW j \in Jobs, Expire(j) \/ CancelCtx(j) PROVE dbErrors' >= dbErrors
  BY <1>3 DEF Expire, CancelCtx, CtxEnds
<1>4. CASE PlatformsAct \/ Crash \/ EditChannels
  BY <1>4 DEF PlatformsAct, CarryOut, Refuse, Crash, EditChannels, SaveChannel,
              DeleteChannel
<1> QED
  BY <1>1, <1>2, <1>3, <1>4 DEF Next

LEMMA HistoryTold == SendInv => HistoryComplete
<1> SUFFICES ASSUME SendInv, NEW j \in Jobs, NEW c \in Channels,
                    job[j] = "done", dbErrors = 0
             PROVE  rows[j][c] = RowOf(results[j][c])
  BY DEF HistoryComplete, RowOf
<1> QED
  BY DEF SendInv, Recorded

\* A "done" job of the history page lists what the caller was told, unless a
\* statement whose error executeSend drops has failed.
THEOREM HistoryIsComplete == Spec => []HistoryComplete
  BY HistoryTold, SendInvariant, PTL

\* Of a send that runs, nothing but the channel it is at can be out, or about to
\* be, and not in the history.
LEMMA RunningUnrecorded ==
  ASSUME SendInv, dbErrors = 0, NEW j \in Jobs, call[j] # "dead",
         NEW c \in Unrecorded(j)
  PROVE  c = at[j]
<1>1. c \in Channels /\ c \in flight[j] \cup out[j] /\ rows[j][c] = "none"
  BY DEF SendInv, TypeOK, Unrecorded
<1>2. \/ call[j] = "answer" /\ c = at[j]
      \/ results[j][c] \in {"ok", "failed", "canceled"}
  BY <1>1 DEF SendInv, Traced
<1>3. rows[j][c] = IF call[j] = "record" /\ c = at[j] THEN "none"
                                                    ELSE RowOf(results[j][c])
  BY <1>1 DEF SendInv, Recorded
<1> QED
  BY <1>1, <1>2, <1>3 DEF RowOf

LEMMA OneUnrecorded == SendInv => AtMostOneUnrecorded
<1> DEFINE Missing(j) == {c \in out[j] : rows[j][c] = "none"}
<1> SUFFICES ASSUME SendInv, NEW j \in Jobs, dbErrors = 0
             PROVE  Cardinality(Missing(j)) <= 1
  BY DEF AtMostOneUnrecorded
<1>1. \A c, d \in Unrecorded(j) : c = d
  <2>1. CASE call[j] = "dead"
    BY <2>1 DEF SendInv, Recorded
  <2>2. CASE call[j] # "dead"
    BY <2>2, RunningUnrecorded
  <2> QED
    BY <2>1, <2>2
<1>2. \A c, d \in Missing(j) : c = d
  BY <1>1 DEF Unrecorded
<1>3. CASE Missing(j) = {}
  BY <1>3, FS_EmptySet
<1>4. ASSUME NEW c \in Missing(j)
      PROVE  Cardinality(Missing(j)) <= 1
  <2>1. Missing(j) = {c}
    BY <1>2, <1>4
  <2>2. Cardinality({c}) = 1
    BY FS_Singleton
  <2> HIDE DEF Missing
  <2> QED
    BY <2>1, <2>2
<1> QED
  BY <1>3, <1>4

\* Wherever the process dies, at most one message of a send is missing in the
\* history: an executeSend that records each channel before the next loses no
\* more.
THEOREM AtMostOneIsUnrecorded == Spec => []AtMostOneUnrecorded
  BY OneUnrecorded, SendInvariant, PTL

-----------------------------------------------------------------------------
(* Channels that are edited during a send.                                 *)

\* A running call has seen every enabled channel it was asked for, and works on
\* one that it has seen.
SeenOn ==
  \A j \in Jobs :
    /\ Active(j) => asked[j] \cap EnabledChannels \subseteq wasOn[j]
    /\ call[j] \in {"publish", "answer", "record"} => at[j] \in wasOn[j]
    /\ flight[j] \cup out[j] \subseteq asked[j] \cap wasOn[j]

LEMMA SeenOnInit == Init => SeenOn
BY DEF Init, SeenOn, Active

LEMMA SeenIsEnough == SeenOn => OnlyChannelsThatWereOn
BY DEF SeenOn, OnlyChannelsThatWereOn

LEMMA SeenOnStep ==
  TypeOK /\ Held /\ Traced /\ SeenOn /\ [Next]_vars => SeenOn'
<1> SUFFICES ASSUME TypeOK, Held, Traced, SeenOn, [Next]_vars PROVE SeenOn'
  OBVIOUS
<1> USE SendJobAssumption
    DEF TypeOK, Held, SeenOn, Active, EnabledChannels, Phases, tables, calls, atPlatforms, Goto
<1>1. ASSUME NEW j \in Jobs, NEW S \in SUBSET Channels,
             NEW x \in {"live", "canceled"}, Call(j, S, x)
      PROVE  SeenOn'
  BY <1>1 DEF Call, Traced
<1>2. ASSUME NEW j \in Jobs, Reject(j)
      PROVE  SeenOn'
  BY <1>2 DEF Reject
<1>3. ASSUME NEW j \in Jobs, NEW c \in Channels, Find(j, c)
      PROVE  SeenOn'
  <2>1. c \in asked[j] \cap wasOn[j]
    BY <1>3 DEF Find, Usable, Left
  <2>2. at' = [at EXCEPT ![j] = c] /\ call' = [call EXCEPT ![j] = "publish"]
    BY <1>3 DEF Find
  <2> QED
    BY <1>3, <2>1, <2>2 DEF Find
<1>4. ASSUME NEW j \in Jobs, NEW c \in Channels, Skip(j, c)
      PROVE  SeenOn'
  BY <1>4 DEF Skip, Left
<1>5. ASSUME NEW j \in Jobs, Request(j)
      PROVE  SeenOn'
  BY <1>5 DEF Request
<1>6. ASSUME NEW j \in Jobs, FailToDeliver(j) \/ Answered(j) \/ AnswerLost(j)
      PROVE  SeenOn'
  <2>1. call[j] \in {"publish", "answer"} /\ at[j] \in Channels
    BY <1>6 DEF FailToDeliver, Answered, AnswerLost
  <2>2. PICK outcome \in {"ok", "failed", "canceled"} :
          Conclude(j, outcome) /\ (outcome = "ok" => at[j] \in out[j])
    BY <1>6 DEF FailToDeliver, Answered, AnswerLost, Failure
  <2> QED
    BY <2>1, <2>2 DEF Conclude, GoOnToRow
<1>7. ASSUME NEW j \in Jobs, Record(j)
      PROVE  SeenOn'
  BY <1>7 DEF Record, LeaveChannel
<1>8. ASSUME NEW j \in Jobs, Finish(j)
      PROVE  SeenOn'
  BY <1>8 DEF Finish
<1>9. ASSUME NEW j \in Jobs, Expire(j) \/ CancelCtx(j)
      PROVE  SeenOn'
  BY <1>9 DEF Expire, CancelCtx, CtxEnds
<1>0. ASSUME NEW j \in Jobs, NEW c \in Channels, CarryOut(j, c) \/ Refuse(j, c)
      PROVE  SeenOn'
  BY <1>0, PlatformMoves
<1>10. CASE Crash
  BY <1>10 DEF Crash
<1>11. CASE EditChannels
  BY <1>11 DEF EditChannels, SaveChannel, DeleteChannel
<1>12. CASE UNCHANGED vars
  BY <1>12 DEF vars
<1> HIDE DEF TypeOK, Held, SeenOn
<1> QED
  BY <1>0, <1>1, <1>2, <1>3, <1>4, <1>5, <1>6, <1>7, <1>8, <1>9, <1>10, <1>11, <1>12
     DEF Next, Begin, InLoop, PlatformsAct

\* However channels are edited while a send runs, its messages go to channels
\* that were asked for and enabled at some moment of the call.
THEOREM OnlyToChannelsThatWereOn == Spec => []OnlyChannelsThatWereOn
<1>1. Init => SeenOn
  BY SeenOnInit
<1>2. SendInv /\ SeenOn /\ [Next]_vars => SeenOn'
  BY SeenOnStep DEF SendInv
<1>3. SeenOn => OnlyChannelsThatWereOn
  BY SeenIsEnough
<1> QED
  BY <1>1, <1>2, <1>3, SendInvariant, PTL DEF Spec

-----------------------------------------------------------------------------
(* Refinement of ChannelSend.                                              *)

Tells(outcome) ==
  CASE outcome = "ok" -> "ok"
    [] outcome \in {"failed", "canceled"} -> "error"
    [] OTHER -> "none"

ToldOfSends == [s \in Jobs \X Channels |-> Told(s[1], s[2])]

\* A new outcome for one channel is what ChannelSend tells of that send, and
\* of no other.
LEMMA ToldOfOutcome ==
  ASSUME TypeOK, NEW j \in Jobs, NEW c \in Channels, NEW outcome \in Outcomes,
         results' = [results EXCEPT ![j][c] = outcome]
  PROVE  ToldOfSends' = [ToldOfSends EXCEPT ![<<j, c>>] = Tells(outcome)]
<1>1. results'[j][c] = outcome
  BY DEF TypeOK
<1>2. ASSUME NEW k \in Jobs, NEW d \in Channels, <<k, d>> # <<j, c>>
      PROVE  results'[k][d] = results[k][d]
  BY <1>2 DEF TypeOK
<1>3. ASSUME NEW s \in Jobs \X Channels
      PROVE  Tells(results'[s[1]][s[2]])
               = IF s = <<j, c>> THEN Tells(outcome) ELSE Tells(results[s[1]][s[2]])
  <2>1. PICK k \in Jobs, d \in Channels : s = <<k, d>>
    OBVIOUS
  <2>2. CASE s = <<j, c>>
    BY <1>1, <2>2
  <2>3. CASE s # <<j, c>>
    BY <1>2, <2>1, <2>3
  <2> QED
    BY <2>2, <2>3
<1> QED
  BY <1>3 DEF ToldOfSends, Told, Tells

\* A request that leaves is Request, the return of Send is Tell, what happens to
\* contexts is ContextEnds; what the platforms do is the same in both, and
\* everything else leaves the sends as they are.
LEMMA ChannelSendStep ==
  TypeOK /\ Held /\ Traced /\ [Next]_vars => [Channel!Next]_(Channel!vars)
<1> SUFFICES ASSUME TypeOK, Held, Traced, [Next]_vars
             PROVE  Channel!Next \/ UNCHANGED Channel!vars
  OBVIOUS
<1> USE DEF tables, calls, atPlatforms
<1>1. ASSUME UNCHANGED <<results, flight, out>>,
             \A j \in Jobs : ctx'[j] = "live" => ctx[j] = "live"
      PROVE  Channel!ContextEnds
  BY <1>1 DEF TypeOK, Channel!ContextEnds, Told
<1>2. ASSUME NEW j \in Jobs, NEW S \in SUBSET Channels,
             NEW x \in {"live", "canceled"}, Call(j, S, x)
      PROVE  Channel!Next
  BY <1>1, <1>2 DEF Call, Traced, TypeOK, Channel!Next
<1>3. ASSUME NEW j \in Jobs, Expire(j) \/ CancelCtx(j) \/ Finish(j)
      PROVE  Channel!Next
  BY <1>1, <1>3 DEF Expire, CancelCtx, CtxEnds, Finish, TypeOK, Channel!Next
<1>4. ASSUME NEW j \in Jobs, NEW c \in Channels, Skip(j, c)
      PROVE  UNCHANGED Channel!vars
  <2>1. results' = [results EXCEPT ![j][c] = "skipped"] /\ results[j][c] = "none"
    BY <1>4 DEF Skip, Left
  <2>2. \A k \in Jobs, d \in Channels : Told(k, d)' = Told(k, d)
    BY <2>1 DEF TypeOK, Told
  <2> QED
    BY <1>4, <2>2 DEF Skip, Channel!vars
<1>5. ASSUME NEW j \in Jobs, Request(j)
      PROVE  Channel!Next
  <2>1. PICK c \in Channels : c = at[j] /\ Told(j, c) = "none"
    BY <1>5 DEF Request, TypeOK, Held, Told
  <2>2. Channel!Request(<<j, c>>)
    BY <1>5, <2>1 DEF Request, Channel!Request, TypeOK, Told
  <2> QED
    BY <2>2 DEF Channel!Next
<1>6. ASSUME NEW j \in Jobs, FailToDeliver(j) \/ Answered(j) \/ AnswerLost(j)
      PROVE  Channel!Next
  <2>1. PICK c \in Channels : c = at[j] /\ Told(j, c) = "none"
    BY <1>6 DEF FailToDeliver, Answered, AnswerLost, TypeOK, Held, Told
  <2>2. PICK outcome \in {"ok", "failed", "canceled"} :
          Conclude(j, outcome) /\ (outcome = "ok" => c \in out[j] \ flight[j])
    BY <1>6, <2>1 DEF FailToDeliver, Answered, AnswerLost, Failure
  <2>3. PICK result \in {"ok", "error"} : result = Tells(outcome)
    BY DEF Tells
  <2>4. results' = [results EXCEPT ![j][c] = outcome] /\ UNCHANGED <<ctx, flight, out>>
    BY <2>1, <2>2 DEF Conclude
  <2>5. outcome \in Outcomes
    BY DEF Outcomes
  <2>6. result = "ok" => outcome = "ok"
    BY <2>3 DEF Tells
  <2>7. Channel!Tell(<<j, c>>, result)
    <3>1. ToldOfSends' = [ToldOfSends EXCEPT ![<<j, c>>] = result]
      BY <2>3, <2>4, <2>5, ToldOfOutcome
    <3>2. result = "ok" => c \in out[j] \ flight[j]
      BY <2>2, <2>6
    <3>3. \A s \in Jobs \X Channels : /\ (s[2] \in out[s[1]])' <=> s[2] \in out[s[1]]
                                      /\ (s[2] \in flight[s[1]])' <=> s[2] \in flight[s[1]]
      BY <2>4
    <3>4. UNCHANGED {s \in Jobs \X Channels : ctx[s[1]] = "live"}
      BY <2>4
    <3> QED
      BY <2>1, <3>1, <3>2, <3>3, <3>4 DEF Channel!Tell, ToldOfSends
  <2> QED
    BY <2>7 DEF Channel!Next
<1>7. ASSUME NEW j \in Jobs, NEW c \in Channels, CarryOut(j, c)
      PROVE  Channel!Next
  <2>1. Channel!ComesOut(<<j, c>>)
    BY <1>7 DEF CarryOut, Channel!ComesOut, TypeOK, Told
  <2> QED
    BY <2>1 DEF Channel!Next
<1>8. ASSUME NEW j \in Jobs, NEW c \in Channels, Refuse(j, c)
      PROVE  Channel!Next
  <2>1. Channel!Refused(<<j, c>>)
    BY <1>8 DEF Refuse, Channel!Refused, TypeOK, Told
  <2> QED
    BY <2>1 DEF Channel!Next
<1>9. ASSUME UNCHANGED <<ctx, results, flight, out>>
      PROVE  UNCHANGED Channel!vars
  BY <1>9 DEF Channel!vars, Told
<1>10. ASSUME NEW j \in Jobs,
              Reject(j) \/ (\E c \in Channels : Find(j, c)) \/ Record(j)
       PROVE  UNCHANGED Channel!vars
  BY <1>9, <1>10 DEF Reject, Find, Record
<1>11. CASE EditChannels \/ UNCHANGED vars
  BY <1>9, <1>11 DEF EditChannels, SaveChannel, DeleteChannel, vars
<1>12. CASE Crash
  BY <1>1, <1>12 DEF Crash, TypeOK, Channel!Next
<1> QED
  BY <1>2, <1>3, <1>4, <1>5, <1>6, <1>7, <1>8, <1>10, <1>11, <1>12
     DEF Next, Begin, InLoop, PlatformsAct

\* For every channel it goes to, executeSend passes on what Dispatcher.Send
\* promises: no request on a dead context or after the result, one result at
\* most, ok only for what is out with no request left that could repeat it.
\* What a platform makes of a request that outlives the context, the call or the
\* process is left open.
THEOREM SendImplementsChannelSend == Spec => ImplementsChannelSend
<1>1. Init => Channel!Init
  BY DEF Init, Channel!Init, Told
<1>2. SendInv /\ [Next]_vars => [Channel!Next]_(Channel!vars)
  BY ChannelSendStep DEF SendInv
<1> QED
  BY <1>1, <1>2, SendInvariant, PTL DEF Spec, ImplementsChannelSend, Channel!Spec
=============================================================================
