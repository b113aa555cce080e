------------------------------ MODULE MediaTmp ------------------------------
(***************************************************************************)
(* The files in DataDir/tmp that sends of the same upload share: the       *)
(* Prepare functions (internal/media/media.go) write ID_platform.ext, a    *)
(* publisher reads it into its request, and executeSend                    *)
(* (internal/httpserver/server.go) ends with the removal of every file     *)
(* whose name contains the id of its media.                                *)
(*                                                                         *)
(* A post has one media item here and one channel per platform.  A file is *)
(* written in place: whoever truncated it last has written all of it when  *)
(* done, since two sends write the same bytes.  Removing an open file only *)
(* takes its name away.  A file that needs no conversion is read from      *)
(* uploads and is not modelled.                                            *)
(***************************************************************************)
EXTENDS Naturals, FiniteSets

CONSTANTS
  Jobs,       (* calls of executeSend                                        *)
  Media,      (* uploads                                                     *)
  Platforms,
  Photos,     (* media converted by image/jpeg, the others by ffmpeg         *)
  None

ASSUME MediaAssumption == Photos \subseteq Media /\ None \notin Jobs \cup Platforms

VARIABLES
  file,    (* per media and platform: "absent", "partial" or "whole"         *)
  writer,  (* who truncated that file last                                   *)
  phase,   (* see Phases                                                     *)
  asset,   (* the media of the post, None before the call                    *)
  api,     (* cleanupTmp: a call of POST /api/send, not the worker's         *)
  left,    (* platforms to send to; in "clean" those whose files Walk listed *)
  at,      (* the platform it is at                                          *)
  seen,    (* what its publisher sent, per platform, see Outcomes            *)
  shared   (* history: another send of its media ran with it or later        *)

files == <<file, writer>>
request == <<asset, api, shared>>
vars == <<files, request, phase, left, at, seen>>

\* A send whose file lost its name while it reads it is "unlinked".
Phases == {"idle", "choose", "write", "publish", "read", "unlinked",
           "clean", "ended", "dead"}
Outcomes == {"none", "whole", "torn", "missing", "failed"}

Running(j) == phase[j] \notin {"idle", "ended", "dead"}

Goto(j, p) == phase' = [phase EXCEPT ![j] = p]

-----------------------------------------------------------------------------
Init ==
  /\ file = [m \in Media |-> [p \in Platforms |-> "absent"]]
  /\ writer = [m \in Media |-> [p \in Platforms |-> None]]
  /\ phase = [j \in Jobs |-> "idle"]
  /\ asset = [j \in Jobs |-> None]
  /\ api = [j \in Jobs |-> FALSE]
  /\ left = [j \in Jobs |-> {}]
  /\ at = [j \in Jobs |-> None]
  /\ seen = [j \in Jobs |-> [p \in Platforms |-> "none"]]
  /\ shared = [j \in Jobs |-> FALSE]

AnyNumberOfWorkers == TRUE
\* Scheduled posts are sent by one goroutine, one after the other.
WorkerFree == \A j \in Jobs : Running(j) => api[j]

Begin(j, m, P, cleanupTmp) ==
  /\ phase[j] = "idle"
  /\ P # {}
  /\ cleanupTmp \/ WorkerFree
  /\ Goto(j, "choose")
  /\ asset' = [asset EXCEPT ![j] = m]
  /\ api' = [api EXCEPT ![j] = cleanupTmp]
  /\ left' = [left EXCEPT ![j] = P]
  /\ shared' = [k \in Jobs |->
       IF k = j THEN \E o \in Jobs : Running(o) /\ asset[o] = m
                ELSE shared[k] \/ asset[k] = m]
  /\ UNCHANGED <<files, at, seen>>

-----------------------------------------------------------------------------
(* One channel.                                                            *)

Readers(m, p) == {k \in Jobs : phase[k] = "read" /\ asset[k] = m /\ at[k] = p}

\* os.Create, or ffmpeg -y: the file is empty, also for those who read it.
Create(j, p) ==
  /\ phase[j] = "choose"
  /\ p \in left[j]
  /\ Goto(j, "write")
  /\ at' = [at EXCEPT ![j] = p]
  /\ left' = [left EXCEPT ![j] = @ \ {p}]
  /\ file' = [file EXCEPT ![asset[j]][p] = "partial"]
  /\ writer' = [writer EXCEPT ![asset[j]][p] = j]
  /\ seen' = [k \in Jobs |->
       IF k \in Readers(asset[j], p) THEN [seen[k] EXCEPT ![p] = "torn"] ELSE seen[k]]
  /\ UNCHANGED request

\* No file is made: the upload cannot be opened or decoded, or tmp not written.
NotCreated(j, p) ==
  /\ phase[j] = "choose"
  /\ p \in left[j]
  /\ left' = [left EXCEPT ![j] = @ \ {p}]
  /\ seen' = [seen EXCEPT ![j][p] = "failed"]
  /\ UNCHANGED <<files, request, phase, at>>

Conclude(j, outcome) ==
  /\ seen' = [seen EXCEPT ![j][at[j]] = outcome]
  /\ at' = [at EXCEPT ![j] = None]
  /\ Goto(j, "choose")

FileOf(j) == file[asset[j]][at[j]]

\* A file truncated or removed meanwhile is not completed by its first writer.
AfterWriteOf(j) ==
  IF writer[asset[j]][at[j]] = j THEN "whole" ELSE FileOf(j)

\* jpeg.Encode or ffmpeg ends.  Behind ffmpeg the name is looked up again.
Written(j) ==
  /\ phase[j] = "write"
  /\ file' = [file EXCEPT ![asset[j]][at[j]] = AfterWriteOf(j)]
  /\ IF FileOf(j) = "absent" /\ asset[j] \notin Photos
     THEN Conclude(j, "missing")
     ELSE Goto(j, "publish") /\ UNCHANGED <<at, seen>>
  /\ UNCHANGED <<writer, request, left>>

\* jpeg.Encode or ffmpeg fails, or the file is too large; what was written stays.
NotWritten(j) ==
  /\ phase[j] = "write"
  /\ Conclude(j, "failed")
  /\ UNCHANGED <<files, request, left>>

\* The publisher opens the file, some of them after a call to the platform.
Open(j) ==
  /\ phase[j] = "publish"
  /\ FileOf(j) # "absent"
  /\ seen' = [seen EXCEPT ![j][at[j]] =
                IF FileOf(j) = "whole" THEN "whole" ELSE "torn"]
  /\ Goto(j, "read")
  /\ UNCHANGED <<files, request, left, at>>

CannotOpen(j) ==
  /\ phase[j] = "publish"
  /\ \/ FileOf(j) = "absent" /\ Conclude(j, "missing")
     \/ Conclude(j, "failed")
  /\ UNCHANGED <<files, request, left>>

\* The file is in the request, to be sent.
Close(j) ==
  /\ phase[j] \in {"read", "unlinked"}
  /\ Goto(j, "choose")
  /\ at' = [at EXCEPT ![j] = None]
  /\ UNCHANGED <<files, request, left, seen>>

-----------------------------------------------------------------------------
(* The end of the send.                                                    *)

CleansAfterWorker(j) == ~api[j]
\* The worker calls executeSend with cleanupTmp false.
Cleans(j) == api[j]

Listed(j) == {p \in Platforms : file[asset[j]][p] # "absent"}

\* filepath.Walk reads the directory once.
StartCleanup(j) ==
  /\ phase[j] = "choose"
  /\ left[j] = {}
  /\ IF Cleans(j)
     THEN Goto(j, "clean") /\ left' = [left EXCEPT ![j] = Listed(j)]
     ELSE Goto(j, "ended") /\ UNCHANGED left
  /\ UNCHANGED <<files, request, at, seen>>

AnyFile(j, m) == TRUE
\* The name contains the id.
OwnFile(j, m) == m = asset[j]

\* A file that is gone already is no error.
Remove(j, p) ==
  /\ phase[j] = "clean"
  /\ p \in left[j]
  /\ left' = [left EXCEPT ![j] = @ \ {p}]
  /\ file' = [m \in Media |->
       IF OwnFile(j, m) THEN [file[m] EXCEPT ![p] = "absent"] ELSE file[m]]
  /\ writer' = [m \in Media |->
       IF OwnFile(j, m) THEN [writer[m] EXCEPT ![p] = None] ELSE writer[m]]
  /\ phase' = [k \in Jobs |->
       IF \E m \in Media : OwnFile(j, m) /\ k \in Readers(m, p)
       THEN "unlinked" ELSE phase[k]]
  /\ UNCHANGED <<request, at, seen>>

EndCleanup(j) ==
  /\ phase[j] = "clean"
  /\ left[j] = {}
  /\ Goto(j, "ended")
  /\ UNCHANGED <<files, request, left, at, seen>>

\* The process dies and is started again; the files stay as they are.
Crash ==
  /\ phase' = [j \in Jobs |-> IF Running(j) THEN "dead" ELSE phase[j]]
  /\ at' = [j \in Jobs |-> None]
  /\ UNCHANGED <<files, request, left, seen>>

OnChannel(j) ==
  \/ \E p \in Platforms : Create(j, p) \/ NotCreated(j, p)
  \/ Written(j)
  \/ NotWritten(j)
  \/ Open(j)
  \/ CannotOpen(j)
  \/ Close(j)

AtTheEnd(j) == StartCleanup(j) \/ (\E p \in Platforms : Remove(j, p)) \/ EndCleanup(j)

Next ==
  \/ \E j \in Jobs, m \in Media, P \in SUBSET Platforms, c \in BOOLEAN : Begin(j, m, P, c)
  \/ \E j \in Jobs : OnChannel(j) \/ AtTheEnd(j)
  \/ Crash

Spec == Init /\ [][Next]_vars

-----------------------------------------------------------------------------
Spoiled(j) == \E p \in Platforms : seen[j][p] \in {"torn", "missing"}

\* A send that is the only one of its media sends whole files, whatever sends
\* of other media and crashes of earlier processes left and remove in tmp.
AloneIsWhole == \A j \in Jobs : Spoiled(j) => shared[j]

\* Posts of a series share their media.  As long as nobody sends that media
\* through POST /api/send as well, they never spoil each other's files.
SeriesIsWhole ==
  \A m \in Media :
    (\A j \in Jobs : asset[j] = m => ~api[j])
      => \A j \in Jobs : asset[j] = m => ~Spoiled(j)

\* "cleanupTmp removes prepared variants after send": when a call of POST
\* /api/send that shares its media with nobody has ended, no file of it is
\* left in tmp, those of crashed sends included.
CleanAfterSend ==
  \A j \in Jobs :
    phase[j] = "ended" /\ api[j] /\ ~shared[j] => Listed(j) = {}
=============================================================================
