---------------------------- MODULE AdminPages -----------------------------
(***************************************************************************)
(* The pages behind the sign-in that change something: a visit of          *)
(* AuthSessions is let in, works on the channel of ChannelEdit or on the   *)
(* settings, and is answered, while other visits do the same, sign out or  *)
(* change the password, and the process dies and starts again on the       *)
(* database of Schema (cmd/newsmaker/main.go: the routes are served after  *)
(* both EnsureSchema and auth.New).                                        *)
(***************************************************************************)
EXTENDS ChannelEdit, AuthSessions, Schema

ASSUME OneHandlerPerVisit == Visits = Requests

pagesVars == <<vars, authVars, schemaVars>>

PagesInit == Init /\ AuthInit /\ SchemaInit

\* channelUpdate is between its two statements.
Editing(v) == edit[v] # {}

\* The handlers of the channels page: the first keeps the visit inside, those
\* that change nothing are a Leave.
ChannelRead(v) ==
  At(v, "inside") /\ (\E f \in Form : Get(v, f)) /\ UNCHANGED authVars
ChannelHandler(v) ==
  /\ Leave(v)
  /\ \/ Update(v)
     \/ ~Editing(v) /\ (Delete \/ \E f \in Form : Create(v, f))

OtherHandler(v) ==
  /\ ~Editing(v)
  /\ SettingsSave(v) \/ Leave(v)
  /\ UNCHANGED vars

Visit(v) ==
  \/ SignIn(v) /\ UNCHANGED vars
  \/ ChannelRead(v)
  \/ ChannelHandler(v)
  \/ OtherHandler(v)

\* Handlers under way are cut; the row is as their last statement left it.
Restart ==
  /\ AuthRestart
  /\ SchemaRestart
  /\ edit' = [r \in Requests |-> {}]
  /\ UNCHANGED <<row, gone>>

PagesNext ==
  \/ /\ Serving
     /\ \/ \E v \in Visits : Visit(v)
        \/ (Tick \/ SessionEnds) /\ UNCHANGED vars
     /\ UNCHANGED schemaVars
  \/ RunStatement /\ UNCHANGED <<vars, authVars>>
  \/ Restart

PagesSpec == PagesInit /\ [][PagesNext]_pagesVars

-----------------------------------------------------------------------------
\* The types of the three parts; of ChannelEdit's it says that no order of
\* edits and restarts leaves a channel without a credential or a name.
PagesTypeOK == TypeOK /\ AuthTypeOK /\ SchemaTypeOK
=============================================================================
