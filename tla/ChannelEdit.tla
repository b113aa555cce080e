---------------------------- MODULE ChannelEdit ----------------------------
(***************************************************************************)
(* The edits of one channel: channelCreate, channelUpdate, channelDelete   *)
(* (internal/httpserver/server.go) over Create, Get, Update, Delete and    *)
(* validate (internal/channels/store.go).                                  *)
(*                                                                         *)
(* channelUpdate reads the row, replaces what the form gives and writes    *)
(* all of it back: two statements, between which other requests run.  The  *)
(* name, the target id and the enabled flag are one value: every form      *)
(* gives all three.                                                        *)
(***************************************************************************)
EXTENDS Naturals

CONSTANTS
  Requests,     (* requests of the channels page; each is reused             *)
  Settings,     (* name, target id and flag                                  *)
  BadSettings,  (* those validate refuses                                    *)
  Credentials,
  Empty         (* the credential field left empty                           *)

ASSUME ChannelAssumption ==
  /\ BadSettings \subseteq Settings
  /\ Empty \notin Credentials

Form == [settings : Settings, cred : Credentials \cup {Empty}]
Row == [settings : Settings \ BadSettings, cred : Credentials]

Edit == [form : Form, existing : Row, raced : BOOLEAN]

VARIABLES
  row,   (* {} or {the row} of the table                                     *)
  gone,  (* the row was deleted; its id is not given again                   *)
  edit   (* per request: {} or {the Edit} of a channelUpdate between its two *)
         (* statements: its form, existing, and (history) whether another    *)
         (* request has saved since                                          *)

vars == <<row, gone, edit>>

Init ==
  /\ row = {}
  /\ gone = FALSE
  /\ edit = [r \in Requests |-> {}]

AnySettings(c) == c.cred # Empty
\* validate
Valid(c) == c.settings \notin BadSettings /\ c.cred # Empty

PlaceholderSaved(existing, f) ==
  [settings |-> f.settings,
   cred |-> IF f.cred = Empty THEN CHOOSE k \in Credentials : TRUE ELSE f.cred]
\* What channelUpdate makes of the row it read.
Merged(existing, f) ==
  [settings |-> f.settings,
   cred |-> IF f.cred = Empty THEN existing.cred ELSE f.cred]

EndEdit(r) == edit' = [edit EXCEPT ![r] = {}]

\* A write of the row by r: requests that hold a copy of it are late now.
Save(r, rows) ==
  /\ row' = rows
  /\ edit' = [o \in Requests |->
       IF o = r THEN {} ELSE {[e EXCEPT !.raced = TRUE] : e \in edit[o]}]
  /\ UNCHANGED gone

\* channelCreate, of the one channel the model is about.  A form that is not
\* valid changes nothing.
Create(r, f) ==
  /\ edit[r] = {}
  /\ row = {} /\ ~gone
  /\ Valid(f)
  /\ Save(r, {f})

\* channelUpdate: Get.  Without the row it changes nothing.
Get(r, f) ==
  /\ edit[r] = {}
  /\ \E c \in row :
       edit' = [edit EXCEPT ![r] = {[form |-> f, existing |-> c, raced |-> FALSE]}]
  /\ UNCHANGED <<row, gone>>

InsertOrReplace(c) == {c}
\* UPDATE ... WHERE id=?: without the row it changes nothing and is no error.
WithUpdate(c) == IF row = {} THEN {} ELSE {c}

\* channelUpdate: Update.
Update(r) ==
  \E e \in edit[r] :
    LET c == Merged(e.existing, e.form)
    IN  IF Valid(c) THEN Save(r, WithUpdate(c))
                    ELSE EndEdit(r) /\ UNCHANGED <<row, gone>>

\* Deleting what is gone succeeds as well.
Delete ==
  /\ row' = {}
  /\ gone' = (gone \/ row # {})
  /\ UNCHANGED edit

Next ==
  Delete \/ \E r \in Requests : Update(r) \/ \E f \in Form : Create(r, f) \/ Get(r, f)

Spec == Init /\ [][Next]_vars

-----------------------------------------------------------------------------
\* The row, if there is one, is valid: no form and no order of edits leaves a
\* channel that is enabled but has no credential, or one without a name.
TypeOK ==
  /\ row = {} \/ \E c \in Row : row = {c}
  /\ gone \in BOOLEAN
  /\ edit \in [Requests -> SUBSET Edit]

\* A deleted channel stays deleted, also if an edit that read it before saves
\* after the deletion.
DeletedStaysDeleted == [][gone => row' = {}]_vars

\* An edit with an empty credential field that no other edit raced with keeps
\* the credential.
AloneKeepsCredential ==
  [][\A r \in Requests : \A e \in edit[r] :
       edit'[r] = {} /\ e.form.cred = Empty /\ ~e.raced
         => \A c \in row, d \in row' : d.cred = c.cred]_vars
=============================================================================
