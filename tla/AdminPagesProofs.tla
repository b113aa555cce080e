-------------------------- MODULE AdminPagesProofs --------------------------
(***************************************************************************)
(* Proofs about the pages behind the sign-in: who gets in, which password  *)
(* is in force, what edits do to a channel and whether a start migrates,   *)
(* for any number of concurrent visits, tokens, passwords and restarts.    *)
(***************************************************************************)
EXTENDS AdminPages, TLAPS

-----------------------------------------------------------------------------
(* Sessions and the password, by AuthSessions alone.                       *)

\* Every action of auth.go and its handlers keeps the types.
LEMMA AuthTypeStep == AuthTypeOK /\ [AuthNext]_authVars => AuthTypeOK'
<1> SUFFICES ASSUME AuthTypeOK, [AuthNext]_authVars PROVE AuthTypeOK'
  OBVIOUS
<1> USE AuthAssumption DEF AuthTypeOK, Steps, At, StepTo, Answer, Idle
<1>1. CASE Tick
  BY <1>1 DEF Tick
<1>2. ASSUME NEW t \in Tokens, TurnAway(t) \/ Logout(t)
      PROVE  AuthTypeOK'
  BY <1>2 DEF TurnAway, Logout
<1>3. CASE AuthRestart
  BY <1>3 DEF AuthRestart
<1>4. ASSUME NEW v \in Visits, NEW p \in Passwords, LoginCheck(v, p)
      PROVE  AuthTypeOK'
  BY <1>4 DEF LoginCheck
<1>5. ASSUME NEW v \in Visits, NEW t \in Tokens, CreateSession(v, t)
      PROVE  AuthTypeOK'
  BY <1>5 DEF CreateSession
<1>6. ASSUME NEW v \in Visits, NEW t \in Tokens, Enter(v, t)
      PROVE  AuthTypeOK'
  BY <1>6 DEF Enter
<1>7. ASSUME NEW v \in Visits, NEW current \in Passwords, NEW next \in Passwords,
             Compare(v, current, next)
      PROVE  AuthTypeOK'
  BY <1>7 DEF Compare
<1>8. ASSUME NEW v \in Visits, Write(v)
      PROVE  AuthTypeOK'
  BY <1>8 DEF Write, HashAfter
<1>9. ASSUME NEW v \in Visits, Tell(v)
      PROVE  AuthTypeOK'
  BY <1>9 DEF Tell
<1>10. ASSUME NEW v \in Visits, Leave(v)
       PROVE  AuthTypeOK'
  BY <1>10 DEF Leave
<1>11. CASE UNCHANGED authVars
  BY <1>11 DEF authVars
<1> HIDE DEF AuthTypeOK
<1> QED
  BY <1>1, <1>2, <1>3, <1>4, <1>5, <1>6, <1>7, <1>8, <1>9, <1>10, <1>11
     DEF AuthNext, SessionEnds, SignIn, SettingsSave

\* The map and the truth about a token agree wherever the map has an entry.
EntriesAreGood == \A t \in Tokens : HasEntry(t) => sessions[t] = until[t]

\* A token leaves the map when it is signed out and is never issued again, so
\* the check of Valid is the check of the truth.
LEMMA AdmittedStep ==
  AuthTypeOK /\ EntriesAreGood /\ OnlyAdmittedInside /\ [AuthNext]_authVars
    => EntriesAreGood' /\ OnlyAdmittedInside'
<1> SUFFICES ASSUME AuthTypeOK, EntriesAreGood, OnlyAdmittedInside,
                    [AuthNext]_authVars
             PROVE  EntriesAreGood' /\ OnlyAdmittedInside'
  OBVIOUS
<1> USE AuthAssumption
    DEF AuthTypeOK, EntriesAreGood, OnlyAdmittedInside, HasEntry, PastMiddleware,
        Steps, At, StepTo, Answer, Idle
<1>1. CASE Tick
  BY <1>1 DEF Tick
<1>2. ASSUME NEW t \in Tokens, TurnAway(t) \/ Logout(t)
      PROVE  EntriesAreGood' /\ OnlyAdmittedInside'
  BY <1>2 DEF TurnAway, Logout
<1>3. CASE AuthRestart
  BY <1>3 DEF AuthRestart
<1>4. ASSUME NEW v \in Visits, NEW p \in Passwords, LoginCheck(v, p)
      PROVE  EntriesAreGood' /\ OnlyAdmittedInside'
  BY <1>4 DEF LoginCheck
<1>5. ASSUME NEW v \in Visits, NEW t \in Tokens, CreateSession(v, t)
      PROVE  EntriesAreGood' /\ OnlyAdmittedInside'
  BY <1>5 DEF CreateSession
<1>6. ASSUME NEW v \in Visits, NEW t \in Tokens, Enter(v, t)
      PROVE  EntriesAreGood' /\ OnlyAdmittedInside'
  <2>1. until[t] # 0 /\ now <= until[t]
    BY <1>6 DEF Enter, ValidSession
  <2> QED
    BY <1>6, <2>1 DEF Enter
<1>7. ASSUME NEW v \in Visits, NEW current \in Passwords, NEW next \in Passwords,
             Compare(v, current, next)
      PROVE  EntriesAreGood' /\ OnlyAdmittedInside'
  BY <1>7 DEF Compare
<1>8. ASSUME NEW v \in Visits, Write(v)
      PROVE  EntriesAreGood' /\ OnlyAdmittedInside'
  BY <1>8 DEF Write
<1>9. ASSUME NEW v \in Visits, Tell(v)
      PROVE  EntriesAreGood' /\ OnlyAdmittedInside'
  BY <1>9 DEF Tell
<1>10. ASSUME NEW v \in Visits, Leave(v)
       PROVE  EntriesAreGood' /\ OnlyAdmittedInside'
  BY <1>10 DEF Leave
<1>11. CASE UNCHANGED authVars
  BY <1>11 DEF authVars
<1> HIDE DEF AuthTypeOK, EntriesAreGood, OnlyAdmittedInside
<1> QED
  BY <1>1, <1>2, <1>3, <1>4, <1>5, <1>6, <1>7, <1>8, <1>9, <1>10, <1>11
     DEF AuthNext, SessionEnds, SignIn, SettingsSave

\* Two changes of the password under way know of each other; one that is alone
\* has its password in force once it is written; and the password in force is
\* one that users were told of or are about to be.
ChangesKnown ==
  /\ \A v, o \in Visits :
       v # o /\ Changing(v) /\ Changing(o) => visit[v].overlap
  /\ \A v \in Visits :
       At(v, "written") /\ ~visit[v].overlap => hash = visit[v].chosen
  /\ \/ hash \in told
     \/ \E w \in Visits : At(w, "written") /\ visit[w].chosen = hash

VisitRecord ==
  [step : Steps, chosen : Passwords \ TooLong, admitted : BOOLEAN, overlap : BOOLEAN]

\* Marking a visit as overlapped leaves the rest of its record alone.
LEMMA Overlapped ==
  ASSUME NEW r \in VisitRecord, NEW b \in BOOLEAN
  PROVE  LET marked == [r EXCEPT !.overlap = @ \/ b]
         IN  /\ marked.step = r.step
             /\ marked.chosen = r.chosen
             /\ marked.overlap <=> r.overlap \/ b
  BY DEF VisitRecord

\* A change that begins marks the others and is marked by them; one that is
\* answered was written last, or is overlapped and keeps what was told before.
LEMMA ChangesKnownStep ==
  AuthTypeOK /\ ChangesKnown /\ [AuthNext]_authVars => ChangesKnown'
<1> SUFFICES ASSUME AuthTypeOK, ChangesKnown, [AuthNext]_authVars
             PROVE  ChangesKnown'
  OBVIOUS
<1> USE AuthAssumption
    DEF AuthTypeOK, ChangesKnown, Changing, Steps, At, StepTo, Answer, Idle
<1>1. CASE Tick \/ SessionEnds \/ UNCHANGED authVars
  BY <1>1 DEF Tick, SessionEnds, TurnAway, Logout, authVars
<1>2. CASE AuthRestart
  BY <1>2 DEF AuthRestart
<1>3. ASSUME NEW v \in Visits, SignIn(v) \/ Leave(v)
      PROVE  ChangesKnown'
  <2>1. UNCHANGED <<hash, told>>
    BY <1>3 DEF SignIn, LoginCheck, CreateSession, Enter, Leave
  <2>2. ASSUME NEW o \in Visits
        PROVE  \/ visit'[o] = visit[o]
               \/ /\ visit[o].step \in {"idle", "known", "inside"}
                  /\ visit'[o].step \in {"idle", "known", "inside"}
    <3>1. ASSUME NEW p \in Passwords, LoginCheck(v, p) PROVE <2>2!2
      BY <3>1 DEF LoginCheck
    <3>2. ASSUME NEW t \in Tokens, CreateSession(v, t) PROVE <2>2!2
      BY <3>2 DEF CreateSession
    <3>3. ASSUME NEW t \in Tokens, Enter(v, t) PROVE <2>2!2
      BY <3>3 DEF Enter
    <3>4. CASE Leave(v)
      BY <3>4 DEF Leave
    <3> QED
      BY <1>3, <3>1, <3>2, <3>3, <3>4 DEF SignIn
  <2>3. ASSUME NEW o \in Visits
        PROVE  /\ Changing(o)' <=> Changing(o)
               /\ Changing(o) => visit'[o] = visit[o]
    BY <2>2
  <2>4. (\A u, o \in Visits : u # o /\ Changing(u) /\ Changing(o) => visit[u].overlap)'
    BY <2>3
  <2>5. (\A u \in Visits : At(u, "written") /\ ~visit[u].overlap => hash = visit[u].chosen)'
    BY <2>1, <2>2
  <2>6. (hash \in told \/ \E w \in Visits : At(w, "written") /\ visit[w].chosen = hash)'
    BY <2>1, <2>2
  <2> QED
    BY <2>4, <2>5, <2>6
<1>4. ASSUME NEW v \in Visits, NEW current \in Passwords, NEW next \in Passwords,
             Compare(v, current, next)
      PROVE  ChangesKnown'
  <2> DEFINE others == {o \in Visits \ {v} : Changing(o)}
  <2>1. UNCHANGED <<hash, told>> /\ visit[v].step = "inside"
    BY <1>4 DEF Compare
  <2>2. visit'[v] = [visit[v] EXCEPT !.step = "hashing", !.chosen = next,
                                     !.overlap = others # {}]
    BY <1>4 DEF Compare
  <2>3. ASSUME NEW o \in Visits \ {v}
        PROVE  visit'[o] = [visit[o] EXCEPT !.overlap = @ \/ o \in others]
    BY <1>4 DEF Compare
  <2>4. visit'[v].step = "hashing" /\ (visit'[v].overlap <=> others # {})
    <3>1. PICK r \in VisitRecord : r = visit[v]
      BY DEF VisitRecord
    <3>2. PICK b \in BOOLEAN : b = (others # {})
      OBVIOUS
    <3>3. visit'[v] = [r EXCEPT !.step = "hashing", !.chosen = next, !.overlap = b]
      BY <2>2, <3>1, <3>2
    <3> HIDE DEF others
    <3> QED BY <3>2, <3>3 DEF VisitRecord
  <2>5. ASSUME NEW o \in Visits \ {v}
        PROVE  /\ visit'[o].step = visit[o].step
               /\ visit'[o].chosen = visit[o].chosen
               /\ visit'[o].overlap <=> visit[o].overlap \/ o \in others
    <3>1. PICK r \in VisitRecord : r = visit[o]
      BY DEF VisitRecord
    <3>2. PICK b \in BOOLEAN : b <=> o \in others
      OBVIOUS
    <3>3. visit'[o] = [r EXCEPT !.overlap = @ \/ b]
      BY <2>3, <3>1, <3>2
    <3> QED
      BY <3>1, <3>2, <3>3, Overlapped
  <2>6. (\A u, o \in Visits : u # o /\ Changing(u) /\ Changing(o) => visit[u].overlap)'
    <3> SUFFICES ASSUME NEW u \in Visits, NEW o \in Visits, u # o,
                        Changing(u)', Changing(o)'
                 PROVE  visit'[u].overlap
      OBVIOUS
    <3>1. CASE u = v
      BY <2>4, <2>5, <3>1
    <3>2. CASE u # v /\ o = v
      BY <2>5, <3>2
    <3>3. CASE u # v /\ o # v
      BY <2>5, <3>3
    <3> QED
      BY <3>1, <3>2, <3>3
  <2>7. (\A u \in Visits : At(u, "written") /\ ~visit[u].overlap => hash = visit[u].chosen)'
    BY <2>1, <2>4, <2>5
  <2>8. (hash \in told \/ \E w \in Visits : At(w, "written") /\ visit[w].chosen = hash)'
    BY <2>1, <2>4, <2>5
  <2> QED
    BY <2>6, <2>7, <2>8
<1>5. ASSUME NEW v \in Visits, Write(v)
      PROVE  ChangesKnown'
  BY <1>5 DEF Write, HashAfter
<1>6. ASSUME NEW v \in Visits, Tell(v)
      PROVE  ChangesKnown'
  BY <1>6 DEF Tell
<1> HIDE DEF AuthTypeOK, ChangesKnown
<1> QED
  BY <1>1, <1>2, <1>3, <1>4, <1>5, <1>6 DEF AuthNext, SettingsSave

AuthInv == AuthTypeOK /\ EntriesAreGood /\ OnlyAdmittedInside /\ ChangesKnown

LEMMA AuthStep == AuthInv /\ [AuthNext]_authVars => AuthInv'
  BY AuthTypeStep, AdmittedStep, ChangesKnownStep DEF AuthInv

LEMMA AuthStarts == AuthInit => AuthInv
  BY AuthAssumption
     DEF AuthInit, AuthInv, AuthTypeOK, EntriesAreGood, OnlyAdmittedInside,
         ChangesKnown, HasEntry, PastMiddleware, Changing, At, Idle, Steps

-----------------------------------------------------------------------------
(* The channel, by ChannelEdit and the restarts that cut its requests.     *)

CutRequests == edit' = [r \in Requests |-> {}] /\ UNCHANGED <<row, gone>>

\* A request reads the row once; until another one saves, the row is the one it
\* read, or is deleted.
EditInv ==
  /\ TypeOK
  /\ gone => row = {}
  /\ \A r \in Requests : \A e, f \in edit[r] : e = f
  /\ \A r \in Requests : \A e \in edit[r] : ~e.raced => row \subseteq {e.existing}

\* What channelUpdate writes is a row of the table if validate lets it pass.
LEMMA MergedIsRow ==
  ASSUME NEW c \in Row, NEW f \in Form, Valid(Merged(c, f))
  PROVE  Merged(c, f) \in Row
  BY ChannelAssumption DEF Row, Form, Merged, Valid

LEMMA RacedEdit ==
  ASSUME NEW e \in Edit
  PROVE  [e EXCEPT !.raced = TRUE] \in Edit /\ [e EXCEPT !.raced = TRUE].raced
  BY DEF Edit

\* A save puts a valid row there and marks everybody else's copy.
LEMMA SaveKeepsEditInv ==
  ASSUME EditInv, NEW r \in Requests, NEW rows \in {{c} : c \in Row} \cup {{}},
         gone => rows = {}, Save(r, rows)
  PROVE  EditInv'
<1>1. TypeOK'
  <2>1. \A o \in Requests : {[e EXCEPT !.raced = TRUE] : e \in edit[o]} \subseteq Edit
    BY RacedEdit DEF EditInv, TypeOK
  <2> QED
    BY <2>1 DEF EditInv, TypeOK, Save
<1>2. (gone => row = {})'
  BY DEF Save, EditInv
<1>3. ASSUME NEW o \in Requests
      PROVE  /\ \A e, f \in edit'[o] : e = f
             /\ \A e \in edit'[o] : e.raced
  <2>1. edit'[o] = IF o = r THEN {} ELSE {[e EXCEPT !.raced = TRUE] : e \in edit[o]}
    BY DEF Save
  <2>2. edit[o] \subseteq Edit /\ \A e, f \in edit[o] : e = f
    BY DEF EditInv, TypeOK
  <2>3. \A e, f \in edit'[o] : e = f
    BY <2>1, <2>2
  <2>4. \A e \in edit'[o] : e.raced
    <3> SUFFICES ASSUME NEW d \in edit[o], NEW e, e = [d EXCEPT !.raced = TRUE]
                 PROVE  e.raced
      BY <2>1
    <3> QED
      BY <2>2, RacedEdit
  <2> QED
    BY <2>3, <2>4
<1> QED
  BY <1>1, <1>2, <1>3 DEF EditInv

LEMMA EditStep == EditInv /\ ([Next]_vars \/ CutRequests) => EditInv'
<1> SUFFICES ASSUME EditInv, [Next]_vars \/ CutRequests PROVE EditInv'
  OBVIOUS
<1>1. ASSUME NEW r \in Requests, NEW f \in Form, Create(r, f)
      PROVE  EditInv'
  <2>1. f \in Row
    BY <1>1 DEF Create, Valid, Form, Row
  <2>2. ~gone /\ Save(r, {f})
    BY <1>1 DEF Create
  <2> QED
    BY <2>1, <2>2, SaveKeepsEditInv
<1>2. ASSUME NEW r \in Requests, NEW f \in Form, Get(r, f)
      PROVE  EditInv'
  <2>1. PICK c \in Row : row = {c} /\
          edit' = [edit EXCEPT ![r] = {[form |-> f, existing |-> c, raced |-> FALSE]}]
    BY <1>2 DEF Get, EditInv, TypeOK
  <2>2. PICK n \in Edit : n = [form |-> f, existing |-> c, raced |-> FALSE]
    BY DEF Edit
  <2>3. n.existing = c
    BY <2>2
  <2>4. edit' = [edit EXCEPT ![r] = {n}]
    BY <2>1, <2>2
  <2>5. TypeOK'
    BY <1>2, <2>4 DEF Get, EditInv, TypeOK
  <2>6. ASSUME NEW o \in Requests
        PROVE  edit'[o] = IF o = r THEN {n} ELSE edit[o]
    BY <2>4 DEF EditInv, TypeOK
  <2> QED
    BY <1>2, <2>1, <2>3, <2>5, <2>6 DEF Get, EditInv
<1>3. ASSUME NEW r \in Requests, Update(r)
      PROVE  EditInv'
  <2>1. PICK e \in edit[r] :
          LET c == Merged(e.existing, e.form)
          IN  IF Valid(c) THEN Save(r, WithUpdate(c))
                          ELSE EndEdit(r) /\ UNCHANGED <<row, gone>>
    BY <1>3 DEF Update
  <2> DEFINE c == Merged(e.existing, e.form)
  <2>2. e.existing \in Row /\ e.form \in Form
    BY DEF EditInv, TypeOK, Edit
  <2>3. CASE Valid(c)
    <3>1. PICK d \in Row : d = c
      BY <2>2, <2>3, MergedIsRow
    <3>2. PICK rows \in {{x} : x \in Row} \cup {{}} : rows = WithUpdate(d)
      BY DEF WithUpdate
    <3>3. gone => rows = {}
      BY <3>2 DEF WithUpdate, EditInv
    <3>4. Save(r, rows)
      BY <2>1, <2>3, <3>1, <3>2
    <3> QED
      BY <3>3, <3>4, SaveKeepsEditInv
  <2>4. CASE EndEdit(r) /\ UNCHANGED <<row, gone>>
    BY <2>4 DEF EndEdit, EditInv, TypeOK
  <2> QED
    BY <2>1, <2>3, <2>4
<1>4. CASE Delete
  BY <1>4 DEF Delete, EditInv, TypeOK
<1>5. CASE CutRequests
  BY <1>5 DEF CutRequests, EditInv, TypeOK
<1>6. CASE UNCHANGED vars
  BY <1>6 DEF vars, EditInv, TypeOK
<1> QED
  BY <1>1, <1>2, <1>3, <1>4, <1>5, <1>6 DEF Next

\* No statement brings a deleted row back: the UPDATE of a late edit misses.
LEMMA DeletedStep ==
  EditInv /\ ([Next]_vars \/ CutRequests) => (gone => row' = {})
<1> SUFFICES ASSUME EditInv, gone, [Next]_vars \/ CutRequests PROVE row' = {}
  OBVIOUS
<1>1. row = {}
  BY DEF EditInv
<1>2. ASSUME NEW r \in Requests, NEW f \in Form, Create(r, f) \/ Get(r, f) PROVE row' = {}
  BY <1>1, <1>2 DEF Create, Get
<1>3. ASSUME NEW r \in Requests, Update(r) PROVE row' = {}
  BY <1>1, <1>3 DEF Update, WithUpdate, Save
<1>4. CASE Delete \/ CutRequests \/ UNCHANGED vars
  BY <1>1, <1>4 DEF Delete, CutRequests, vars
<1> QED
  BY <1>2, <1>3, <1>4 DEF Next

\* A save of somebody else would have left the edit marked, not ended.
LEMMA AloneStep ==
  ASSUME EditInv, [Next]_vars \/ CutRequests,
         NEW r \in Requests, NEW e \in edit[r],
         edit'[r] = {}, e.form.cred = Empty, ~e.raced,
         NEW c \in row, NEW d \in row'
  PROVE  d.cred = c.cred
<1>1. row = {e.existing} /\ c = e.existing
  BY DEF EditInv
<1>2. ASSUME NEW o \in Requests, NEW rows, Save(o, rows) PROVE o = r
  <2>1. edit'[r] = IF r = o THEN {} ELSE {[x EXCEPT !.raced = TRUE] : x \in edit[r]}
    BY <1>2 DEF Save
  <2> QED
    BY <2>1
<1>3. ASSUME NEW o \in Requests, NEW f \in Form, Create(o, f) PROVE d.cred = c.cred
  BY <1>2, <1>3 DEF Create
<1>4. ASSUME NEW o \in Requests, Update(o) PROVE d.cred = c.cred
  <2>1. PICK x \in edit[o] :
          LET m == Merged(x.existing, x.form)
          IN  IF Valid(m) THEN Save(o, WithUpdate(m))
                          ELSE EndEdit(o) /\ UNCHANGED <<row, gone>>
    BY <1>4 DEF Update
  <2>2. CASE Save(o, WithUpdate(Merged(x.existing, x.form)))
    <3>1. o = r
      BY <1>2, <2>2
    <3>2. x = e
      BY <3>1 DEF EditInv
    <3>3. d = Merged(e.existing, e.form)
      BY <2>2, <3>2 DEF Save, WithUpdate
    <3> QED
      BY <1>1, <3>3 DEF Merged
  <2>3. CASE UNCHANGED row
    BY <1>1, <2>3
  <2> QED
    BY <2>1, <2>2, <2>3
<1>5. ASSUME NEW o \in Requests, NEW f \in Form, Get(o, f) PROVE d.cred = c.cred
  BY <1>1, <1>5 DEF Get
<1>6. CASE Delete \/ CutRequests \/ UNCHANGED vars
  BY <1>1, <1>6 DEF Delete, CutRequests, vars
<1> QED
  BY <1>3, <1>4, <1>5, <1>6 DEF Next

-----------------------------------------------------------------------------
(* The schema.                                                             *)

\* The statements of a start, one by one.
LEMMA StatementsInOrder ==
  /\ Len(Statements) = 12
  /\ Statements[1] = Statement("channels", {}, {})
  /\ Statements[2] = Statement("send_jobs", {"preview_text"}, {})
  /\ Statements[3] = Statement("send_results", {"post_url"}, {})
  /\ Statements[4] = Statement("preview_text", {}, {"send_jobs"})
  /\ Statements[5] = Statement("post_url", {}, {"send_results"})
  /\ Statements[6] = Statement("scheduled_posts", {}, {})
  /\ Statements[7] = Statement("idx_due", {}, {"scheduled_posts"})
  /\ Statements[8] = Statement("series_id", {}, {"scheduled_posts"})
  /\ Statements[9] = Statement("repeat_kind", {}, {"scheduled_posts"})
  /\ Statements[10] = Statement("repeat_weekdays", {}, {"scheduled_posts"})
  /\ Statements[11] = Statement("repeat_until", {}, {"scheduled_posts"})
  /\ Statements[12] = Statement("idx_series", {}, {"scheduled_posts", "series_id"})
  BY DEF Statements, Migrate, HistoryEnsureSchema, ScheduleEnsureSchema,
         ScheduledPosts, SeriesColumns, SeriesIndex

\* What statements make, by name; the types of the statements.
Names ==
  {"channels", "send_jobs", "send_results", "preview_text", "post_url",
   "scheduled_posts", "idx_due", "series_id", "repeat_kind", "repeat_weekdays",
   "repeat_until", "idx_series"}

AnyStatement == [makes : Names, with : SUBSET Names, needs : SUBSET Names]

\* What the prover needs to see that a tuple has a length.
LEMMA TuplesAreSequences ==
  ASSUME NEW S, NEW a \in S, NEW b \in S, NEW c \in S, NEW d \in S
  PROVE  /\ <<a>> \in Seq(S)
         /\ <<a, b>> \in Seq(S)
         /\ <<a, b, c>> \in Seq(S)
         /\ <<a, b, c, d>> \in Seq(S)
  OBVIOUS

LEMMA StatementsAreSequences ==
  /\ Migrate \in Seq(AnyStatement)
  /\ HistoryEnsureSchema \in Seq(AnyStatement)
  /\ ScheduleEnsureSchema \in Seq(AnyStatement)
<1>1. ASSUME NEW m \in Names, NEW w \in SUBSET Names, NEW n \in SUBSET Names
      PROVE  Statement(m, w, n) \in AnyStatement
  BY DEF Statement, AnyStatement
<1>2. Migrate \in Seq(AnyStatement)
  BY <1>1, TuplesAreSequences DEF Migrate, Names
<1>3. HistoryEnsureSchema \in Seq(AnyStatement)
  BY <1>1, TuplesAreSequences DEF HistoryEnsureSchema, Names
<1>4. ScheduledPosts \in Seq(AnyStatement)
  BY <1>1, TuplesAreSequences DEF ScheduledPosts, Names
<1>5. SeriesColumns \in Seq(AnyStatement)
  BY <1>1, TuplesAreSequences DEF SeriesColumns, Names
<1>6. SeriesIndex \in Seq(AnyStatement)
  BY <1>1, TuplesAreSequences DEF SeriesIndex, Names
<1>7. ScheduleEnsureSchema \in Seq(AnyStatement)
  BY <1>4, <1>5, <1>6 DEF ScheduleEnsureSchema
<1> QED
  BY <1>2, <1>3, <1>7

\* There are twelve of them.
LEMMA TwelveStatements == DOMAIN Statements = 1 .. 12
<1>1. Statements \in Seq(AnyStatement)
  BY StatementsAreSequences DEF Statements
<1>2. DOMAIN Statements = 1 .. Len(Statements)
  BY <1>1
<1>3. Len(Statements) = 12
  BY StatementsInOrder
<1> QED
  BY <1>2, <1>3

\* Whatever a statement needs, an earlier one makes: what a CREATE INDEX that
\* stands before the ALTER TABLE of its column would break.
LEMMA NeedsComeFirst ==
  ASSUME NEW i \in 1 .. 12, NEW n \in Statements[i].needs
  PROVE \E k \in 1 .. i - 1 : Statements[k].makes = n
  BY StatementsInOrder DEF Statement

\* A table that is created brings along only what a later statement would add.
LEMMA ObjectsAre == Objects = {Statements[i].makes : i \in 1 .. 12}
<1>1. ASSUME NEW i \in 1 .. 12, NEW n \in Statements[i].with
      PROVE \E k \in 1 .. 12 : Statements[k].makes = n
  BY StatementsInOrder DEF Statement
<1> QED
  BY <1>1, TwelveStatements DEF Objects, Makes

\* The schedule of an older release holds nothing the statements do not make.
LEMMA ScheduleIsPart ==
  /\ Makes(ScheduledPosts) \subseteq Objects
  /\ Makes(ScheduleEnsureSchema) \subseteq Objects
<1>1. DOMAIN ScheduledPosts = 1 .. 2
  BY DEF ScheduledPosts
<1>2. ASSUME NEW i \in 1 .. 2 PROVE ScheduledPosts[i] = Statements[5 + i]
  BY StatementsInOrder DEF ScheduledPosts
<1>3. Len(ScheduleEnsureSchema) = 7
  BY DEF ScheduleEnsureSchema,
         ScheduledPosts, SeriesColumns, SeriesIndex
<1>4. ASSUME NEW i \in 1 .. 7 PROVE ScheduleEnsureSchema[i] = Statements[5 + i]
  BY StatementsInOrder DEF ScheduleEnsureSchema,
         ScheduledPosts, SeriesColumns, SeriesIndex
<1>5. DOMAIN ScheduleEnsureSchema = 1 .. 7
  <2>1. DOMAIN ScheduleEnsureSchema = 1 .. Len(ScheduleEnsureSchema)
    BY StatementsAreSequences
  <2> QED
    BY <1>3, <2>1
<1>6. ASSUME NEW k \in 1 .. 7 PROVE 5 + k \in DOMAIN Statements
  BY TwelveStatements
<1>7. ASSUME NEW i \in DOMAIN Statements
      PROVE  {Statements[i].makes} \cup Statements[i].with \subseteq Objects
  BY DEF Objects, Makes
<1>8. Makes(ScheduledPosts) \subseteq Objects
  BY <1>1, <1>2, <1>6, <1>7 DEF Makes
<1>9. Makes(ScheduleEnsureSchema) \subseteq Objects
  BY <1>5, <1>4, <1>6, <1>7 DEF Makes
<1> QED
  BY <1>8, <1>9

\* No earlier release left anything this one does not have.
LEMMA OlderIsPart == ASSUME NEW s \in OlderSchemas PROVE s \subseteq Objects
<1>1. {"channels", "send_jobs", "send_results", "preview_text", "post_url"} \subseteq Objects
  <2>1. \A i \in 1 .. 5 : Statements[i].makes \in Objects
    BY ObjectsAre
  <2> QED BY <2>1, StatementsInOrder DEF Statement
<1>2. ASSUME NEW columns \in SUBSET {"preview_text", "post_url"},
             NEW schedule \in {{}, Makes(ScheduledPosts), Makes(ScheduleEnsureSchema)}
      PROVE  {"channels", "send_jobs", "send_results"} \cup columns \cup schedule
               \subseteq Objects
  <2>1. schedule \subseteq Objects
    BY ScheduleIsPart
  <2>2. columns \subseteq Objects
    BY <1>1
  <2>3. {"channels", "send_jobs", "send_results"} \subseteq Objects
    BY <1>1
  <2> QED
    BY <2>1, <2>2, <2>3
<1>3. s = {} \/ \E columns \in SUBSET {"preview_text", "post_url"},
           schedule \in {{}, Makes(ScheduledPosts), Makes(ScheduleEnsureSchema)} :
           s = {"channels", "send_jobs", "send_results"} \cup columns \cup schedule
  BY DEF OlderSchemas
<1> QED
  BY <1>2, <1>3

\* The statements of this start so far have left what they make.
SchemaInv ==
  /\ SchemaTypeOK
  /\ boot # Failed
  /\ \A i \in 1 .. 12 : i < boot => Statements[i].makes \in schema

LEMMA SchemaStarts == SchemaInit => SchemaInv
  BY OlderIsPart, StatementsInOrder DEF SchemaInit, SchemaInv, SchemaTypeOK, Failed

\* A statement that is skipped has what it makes, one that runs makes it, and a
\* new start begins where nothing is claimed.
LEMMA SchemaStep ==
  SchemaInv /\ [RunStatement \/ SchemaRestart]_schemaVars => SchemaInv'
<1> SUFFICES ASSUME SchemaInv, [RunStatement \/ SchemaRestart]_schemaVars
             PROVE  SchemaInv'
  OBVIOUS
<1>0. Len(Statements) = 12
  BY StatementsInOrder
<1>1. CASE RunStatement
  <2> DEFINE s == Statements[boot]
  <2>1. boot \in 1 .. 12
    BY <1>1, TwelveStatements DEF RunStatement
  <2>2. s.needs \subseteq schema
    BY <2>1, NeedsComeFirst DEF SchemaInv
  <2>3. /\ schema' = IF Skips(s) THEN schema ELSE schema \cup {s.makes} \cup s.with
        /\ boot' = boot + 1
    BY <1>1, <2>2 DEF RunStatement, Fails
  <2>4. {s.makes} \cup s.with \subseteq Objects
    BY <2>1, TwelveStatements DEF Objects, Makes
  <2>5. schema \subseteq schema' /\ s.makes \in schema' /\ schema' \subseteq Objects
    BY <2>3, <2>4 DEF Skips, SchemaInv, SchemaTypeOK
  <2>6. ASSUME NEW i \in 1 .. 12, i < boot' PROVE Statements[i].makes \in schema'
    BY <2>1, <2>3, <2>5, <2>6 DEF SchemaInv
  <2> QED
    BY <1>0, <2>1, <2>3, <2>5, <2>6 DEF SchemaInv, SchemaTypeOK, Failed
<1>2. CASE SchemaRestart
  BY <1>0, <1>2 DEF SchemaRestart, SchemaInv, SchemaTypeOK, Failed
<1>3. CASE UNCHANGED schemaVars
  BY <1>3 DEF schemaVars, SchemaInv, SchemaTypeOK
<1> QED
  BY <1>1, <1>2, <1>3

LEMMA Migrated == SchemaInv => StartupMigrates
  BY ObjectsAre, StatementsInOrder DEF SchemaInv, SchemaTypeOK, StartupMigrates, Serving
-----------------------------------------------------------------------------
(* The pages.                                                              *)

\* A step of the pages is one of the sessions, one of the channel and one of
\* the schema, or leaves that part as it is; a restart is the restart of each.
LEMMA PagesStepOfEach ==
  [PagesNext]_pagesVars =>
    /\ [AuthNext]_authVars
    /\ [Next]_vars \/ CutRequests
    /\ [RunStatement \/ SchemaRestart]_schemaVars
<1> SUFFICES ASSUME [PagesNext]_pagesVars
             PROVE  /\ AuthNext \/ UNCHANGED authVars
                    /\ Next \/ UNCHANGED vars \/ CutRequests
                    /\ RunStatement \/ SchemaRestart \/ UNCHANGED schemaVars
  OBVIOUS
<1>1. ASSUME NEW v \in Visits, Visit(v)
      PROVE  /\ AuthNext \/ UNCHANGED authVars
             /\ Next \/ UNCHANGED vars
  <2>1. CASE SignIn(v) /\ UNCHANGED vars
    BY <2>1 DEF AuthNext
  <2>2. CASE ChannelRead(v)
    BY <2>2, OneHandlerPerVisit DEF ChannelRead, Next
  <2>3. CASE ChannelHandler(v)
    BY <2>3, OneHandlerPerVisit DEF ChannelHandler, AuthNext, Next
  <2>4. CASE OtherHandler(v)
    BY <2>4 DEF OtherHandler, AuthNext
  <2> QED
    BY <1>1, <2>1, <2>2, <2>3, <2>4 DEF Visit
<1>2. CASE (Tick \/ SessionEnds) /\ UNCHANGED vars /\ UNCHANGED schemaVars
  BY <1>2 DEF AuthNext
<1>3. CASE RunStatement /\ UNCHANGED <<vars, authVars>>
  BY <1>3
<1>4. CASE Restart
  BY <1>4 DEF Restart, AuthNext, CutRequests
<1>5. CASE UNCHANGED pagesVars
  BY <1>5 DEF pagesVars
<1> QED
  BY <1>1, <1>2, <1>3, <1>4, <1>5 DEF PagesNext

\* The strengthening of all the invariants below: that of each part.
PagesInv == AuthInv /\ EditInv /\ SchemaInv

LEMMA PagesInvariant == PagesSpec => []PagesInv
<1>1. PagesInit => PagesInv
  <2>1. Init => EditInv
    BY DEF Init, EditInv, TypeOK
  <2> QED
    BY <2>1, AuthStarts, SchemaStarts DEF PagesInit, PagesInv
<1>2. PagesInv /\ [PagesNext]_pagesVars => PagesInv'
  BY PagesStepOfEach, AuthStep, EditStep, SchemaStep DEF PagesInv
<1> QED
  BY <1>1, <1>2, PTL DEF PagesSpec

\* No order of edits, deletions, sign-ins, password changes and restarts gives
\* any variable a value outside its type; for the channel that says that a row
\* is always one that validate let pass.
THEOREM PagesTypeInvariant == PagesSpec => []PagesTypeOK
<1>1. PagesInv => PagesTypeOK
  BY DEF PagesInv, AuthInv, EditInv, SchemaInv, PagesTypeOK
<1> QED
  BY <1>1, PagesInvariant, PTL

\* Every handler behind Middleware runs for somebody whose sign-in was good when
\* the request came in, whatever entries the map still holds.
THEOREM InsideOnlyIfAdmitted == PagesSpec => []OnlyAdmittedInside
<1>1. PagesInv => OnlyAdmittedInside
  BY DEF PagesInv, AuthInv
<1> QED
  BY <1>1, PagesInvariant, PTL

\* The password in force is one that a user was told of last, or one of those
\* of changes that overlapped, or its answer is on the way.
THEOREM TheToldPasswordIsInForce == PagesSpec => []ToldIsInForce
<1>1. PagesInv => ToldIsInForce
  BY DEF PagesInv, AuthInv, ChangesKnown, ToldIsInForce
<1> QED
  BY <1>1, PagesInvariant, PTL

\* A start gets through on whatever an older release or a start that died left,
\* and when it serves every table, column and index is there.
THEOREM EveryStartMigrates == PagesSpec => []StartupMigrates
<1>1. PagesInv => StartupMigrates
  BY Migrated DEF PagesInv
<1> QED
  BY <1>1, PagesInvariant, PTL

\* A channel that was deleted does not come back with an edit that had read it.
THEOREM DeletionIsFinal == PagesSpec => DeletedStaysDeleted
<1>1. PagesInv /\ [PagesNext]_pagesVars => [gone => row' = {}]_vars
  BY PagesStepOfEach, DeletedStep DEF PagesInv
<1> QED
  BY <1>1, PagesInvariant, PTL DEF PagesSpec, DeletedStaysDeleted

\* An edit that leaves the credential empty and that nobody else's save raced
\* with keeps the one that is stored, also if the process dies meanwhile.
THEOREM EmptyFieldKeepsCredential == PagesSpec => AloneKeepsCredential
<1>1. PagesInv /\ [PagesNext]_pagesVars
        => [\A r \in Requests : \A e \in edit[r] :
              edit'[r] = {} /\ e.form.cred = Empty /\ ~e.raced
                => \A c \in row, d \in row' : d.cred = c.cred]_vars
  BY PagesStepOfEach, AloneStep DEF PagesInv
<1> QED
  BY <1>1, PagesInvariant, PTL DEF PagesSpec, AloneKeepsCredential
=============================================================================
