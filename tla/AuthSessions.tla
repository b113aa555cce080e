--------------------------- MODULE AuthSessions ----------------------------
(***************************************************************************)
(* Sessions and the password: internal/auth/auth.go with loginSubmit,      *)
(* logout, settingsSave and the route group behind Middleware              *)
(* (internal/httpserver/server.go).                                        *)
(*                                                                         *)
(* The sessions are a map in memory under a mutex.  The hash has no mutex: *)
(* ChangePassword compares, hashes for a while and assigns, and other      *)
(* requests run in between.  Reading the hash while it is assigned gives   *)
(* the old or the new one (all bcrypt hashes have one length, so halves of *)
(* two slice headers still make one of the two).  A restart forgets the    *)
(* sessions and takes the password of the configuration again.             *)
(*                                                                         *)
(* There is one user name.  The signature, which settingsSave writes       *)
(* before it looks at the password, is a row that nothing here reads.      *)
(***************************************************************************)
EXTENDS Naturals

CONSTANTS
  Visits,      (* requests that may be served at once; each is reused        *)
  Tokens,      (* random tokens: none is drawn twice                         *)
  Passwords,
  Configured,  (* the password of the configuration                          *)
  TooLong,     (* passwords bcrypt refuses to hash (over 72 bytes)           *)
  TTL,         (* how long a session lives                                   *)
  MaxTime      (* bound: of the clock                                        *)

ASSUME AuthAssumption ==
  /\ Configured \in Passwords \ TooLong
  /\ TooLong \subseteq Passwords
  /\ TTL \in Nat \ {0}
  /\ MaxTime \in Nat

VARIABLES
  now,
  hash,      (* the password s.hash was made of                              *)
  sessions,  (* per token: when it expires, 0 without an entry               *)
  issued,    (* tokens drawn so far                                          *)
  visit,     (* what a request is at, see Idle; it is gone with its answer   *)
  until,     (* history: how long a token is good, 0 if it is not            *)
  told       (* history: passwords users have reason to think are in force   *)

authVars == <<now, hash, sessions, issued, visit, until, told>>

\* "known": Authenticate said yes; "inside": past Middleware; "hashing":
\* the current password was right; "written": the hash is assigned.
Steps == {"idle", "known", "inside", "hashing", "written"}

\* chosen is the new password; admitted and overlap are history: the session
\* was good when the visit came in, another change overlapped with its own.
Idle == [step |-> "idle", chosen |-> Configured, admitted |-> FALSE, overlap |-> FALSE]

At(v, s) == visit[v].step = s
PastMiddleware(v) == visit[v].step \in {"inside", "hashing", "written"}
Changing(v) == visit[v].step \in {"hashing", "written"}

AuthInit ==
  /\ now = 0
  /\ hash = Configured
  /\ sessions = [t \in Tokens |-> 0]
  /\ issued = {}
  /\ visit = [v \in Visits |-> Idle]
  /\ until = [t \in Tokens |-> 0]
  /\ told = {Configured}

-----------------------------------------------------------------------------
\* Valid without the look at the expiry: the browser's MaxAge would have to do.
HasEntry(t) == sessions[t] # 0
\* Valid: time.Now().After(exp) is strict.
ValidSession(t) == sessions[t] # 0 /\ ~(now > sessions[t])

\* A value receiver would assign to a copy.
OldHash(v) == hash
HashAfter(v) == visit[v].chosen

StepTo(v, s) == visit' = [visit EXCEPT ![v].step = s]
Answer(v) == visit' = [visit EXCEPT ![v] = Idle]

Tick ==
  /\ now < MaxTime
  /\ now' = now + 1
  /\ UNCHANGED <<hash, sessions, issued, visit, until, told>>

\* loginSubmit: Authenticate.  A wrong password changes nothing.
LoginCheck(v, p) ==
  /\ At(v, "idle")
  /\ p = hash
  /\ StepTo(v, "known")
  /\ UNCHANGED <<now, hash, sessions, issued, until, told>>

\* loginSubmit: CreateSession.
CreateSession(v, t) ==
  /\ At(v, "known")
  /\ t \notin issued
  /\ issued' = issued \cup {t}
  /\ sessions' = [sessions EXCEPT ![t] = now + TTL]
  /\ until' = [until EXCEPT ![t] = now + TTL]
  /\ Answer(v)
  /\ UNCHANGED <<now, hash, told>>

\* Middleware lets the handler run; it does not look again.
Enter(v, t) ==
  /\ At(v, "idle")
  /\ ValidSession(t)
  /\ visit' = [visit EXCEPT ![v] =
       [Idle EXCEPT !.step = "inside", !.admitted = until[t] # 0 /\ now <= until[t]]]
  /\ UNCHANGED <<now, hash, sessions, issued, until, told>>

\* Middleware or loginPage find an expired entry and delete it.
TurnAway(t) ==
  /\ HasEntry(t)
  /\ ~ValidSession(t)
  /\ sessions' = [sessions EXCEPT ![t] = 0]
  /\ UNCHANGED <<now, hash, issued, visit, until, told>>

\* ClearSession.  The route is not behind Middleware.
Logout(t) ==
  /\ sessions' = [sessions EXCEPT ![t] = 0]
  /\ until' = [until EXCEPT ![t] = 0]
  /\ UNCHANGED <<now, hash, issued, visit, told>>

\* The answer of a page that leaves all this as it is; also settingsSave
\* without passwords, with a wrong one, or with a new one in TooLong.
Leave(v) ==
  /\ At(v, "inside")
  /\ Answer(v)
  /\ UNCHANGED <<now, hash, sessions, issued, until, told>>

\* ChangePassword up to the hashing of the new password, which may be empty.
Compare(v, current, next) ==
  /\ At(v, "inside")
  /\ current = hash
  /\ next \notin TooLong
  /\ LET others == {o \in Visits \ {v} : Changing(o)}
     IN  visit' = [o \in Visits |->
           IF o = v
           THEN [visit[v] EXCEPT !.step = "hashing", !.chosen = next,
                                 !.overlap = others # {}]
           ELSE [visit[o] EXCEPT !.overlap = @ \/ o \in others]]
  /\ UNCHANGED <<now, hash, sessions, issued, until, told>>

\* ChangePassword: the assignment.
Write(v) ==
  /\ At(v, "hashing")
  /\ hash' = HashAfter(v)
  /\ StepTo(v, "written")
  /\ UNCHANGED <<now, sessions, issued, until, told>>

\* settingsSave answers "saved".
Tell(v) ==
  /\ At(v, "written")
  /\ Answer(v)
  /\ told' = {visit[v].chosen} \cup (IF visit[v].overlap THEN told ELSE {})
  /\ UNCHANGED <<now, hash, sessions, issued, until>>

\* The process ends, its requests with it, and auth.New runs again.
AuthRestart ==
  /\ hash' = Configured
  /\ sessions' = [t \in Tokens |-> 0]
  /\ until' = [t \in Tokens |-> 0]
  /\ visit' = [v \in Visits |-> Idle]
  /\ told' = {Configured}
  /\ UNCHANGED <<now, issued>>

\* What v does on its own; Leave and Compare begin or end its handler.
SignIn(v) ==
  \/ \E p \in Passwords : LoginCheck(v, p)
  \/ \E t \in Tokens : CreateSession(v, t) \/ Enter(v, t)
SettingsSave(v) ==
  \/ \E current, next \in Passwords : Compare(v, current, next)
  \/ Write(v)
  \/ Tell(v)
SessionEnds == \E t \in Tokens : TurnAway(t) \/ Logout(t)

AuthNext ==
  \/ Tick \/ SessionEnds \/ AuthRestart
  \/ \E v \in Visits : SignIn(v) \/ SettingsSave(v) \/ Leave(v)

AuthSpec == AuthInit /\ [][AuthNext]_authVars

-----------------------------------------------------------------------------
AuthTypeOK ==
  /\ now \in 0 .. MaxTime
  /\ hash \in Passwords \ TooLong
  /\ sessions \in [Tokens -> 0 .. MaxTime + TTL]
  /\ issued \subseteq Tokens
  /\ visit \in [Visits -> [step : Steps, chosen : Passwords \ TooLong,
                          admitted : BOOLEAN, overlap : BOOLEAN]]
  /\ until \in [Tokens -> 0 .. MaxTime + TTL]
  /\ told \subseteq Passwords \ TooLong

\* Every handler behind Middleware runs for somebody who signed in since the
\* process started, at most TTL ago, and had not signed out, when the request
\* came in: the entries that are left in the map give nobody more than that.
OnlyAdmittedInside == \A v \in Visits : PastMiddleware(v) => visit[v].admitted

\* A password change that was answered "saved" is in force, and the one before
\* it is not: unless changes overlapped, then one of theirs is.
ToldIsInForce == (\E v \in Visits : At(v, "written")) \/ hash \in told
=============================================================================
