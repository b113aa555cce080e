--------------------------- MODULE MediaTmpProofs ---------------------------
(***************************************************************************)
(* Proofs about the files sends of one upload share, for any number of     *)
(* sends, uploads and platforms.                                           *)
(***************************************************************************)
EXTENDS MediaTmp, TLAPS

-----------------------------------------------------------------------------
(* Types.                                                                  *)

Types ==
  /\ file \in [Media -> [Platforms -> {"absent", "partial", "whole"}]]
  /\ writer \in [Media -> [Platforms -> Jobs \cup {None}]]
  /\ phase \in [Jobs -> Phases]
  /\ asset \in [Jobs -> Media \cup {None}]
  /\ api \in [Jobs -> BOOLEAN]
  /\ left \in [Jobs -> SUBSET Platforms]
  /\ at \in [Jobs -> Platforms \cup {None}]
  /\ seen \in [Jobs -> [Platforms -> Outcomes]]
  /\ shared \in [Jobs -> BOOLEAN]

\* A send that has begun has its media; one that has a file at hand is at its
\* platform.
Placed ==
  \A j \in Jobs :
    /\ phase[j] = "idle" => ~api[j] /\ \A p \in Platforms : seen[j][p] = "none"
    /\ phase[j] # "idle" => asset[j] \in Media
    /\ phase[j] \in {"write", "publish", "read", "unlinked"} => at[j] \in Platforms

\* Every action keeps both.
LEMMA TypesStep == Types /\ Placed /\ [Next]_vars => Types' /\ Placed'
<1> SUFFICES ASSUME Types, Placed, [Next]_vars PROVE Types' /\ Placed'
  OBVIOUS
<1> USE DEF Types, Placed, Phases, Outcomes, Goto, files, request
<1>1. ASSUME NEW j \in Jobs, NEW m \in Media, NEW P \in SUBSET Platforms,
             NEW c \in BOOLEAN, Begin(j, m, P, c)
      PROVE  Types' /\ Placed'
  BY <1>1 DEF Begin
<1>2. ASSUME NEW j \in Jobs, NEW p \in Platforms, Create(j, p)
      PROVE  Types' /\ Placed'
  <2>1. \A k \in Jobs, q \in Platforms : seen'[k][q] \in Outcomes
    BY <1>2 DEF Create
  <2>2. \A k \in Jobs : phase[k] = "idle" => seen'[k] = seen[k]
    BY <1>2 DEF Create, Readers
  <2>3. seen' \in [Jobs -> [Platforms -> Outcomes]]
    BY <1>2 DEF Create
  <2>4. asset[j] \in Media
    BY <1>2 DEF Create
  <2> QED
    BY <1>2, <2>2, <2>3, <2>4 DEF Create
<1>3. ASSUME NEW j \in Jobs, NEW outcome \in Outcomes, Conclude(j, outcome),
             phase[j] \in {"write", "publish"}
      PROVE  /\ seen' \in [Jobs -> [Platforms -> Outcomes]]
             /\ at' \in [Jobs -> Platforms \cup {None}]
             /\ phase' \in [Jobs -> Phases]
             /\ \A k \in Jobs \ {j} :
                  seen'[k] = seen[k] /\ at'[k] = at[k] /\ phase'[k] = phase[k]
             /\ phase'[j] = "choose"
  BY <1>3 DEF Conclude
<1>4. ASSUME NEW j \in Jobs, Written(j)
      PROVE  Types' /\ Placed'
  <2>1. asset[j] \in Media /\ at[j] \in Platforms
    BY <1>4 DEF Written
  <2>2. AfterWriteOf(j) \in {"absent", "partial", "whole"}
    BY <2>1 DEF AfterWriteOf, FileOf
  <2>3. file' \in [Media -> [Platforms -> {"absent", "partial", "whole"}]]
    BY <1>4, <2>1, <2>2 DEF Written
  <2>4. CASE Conclude(j, "missing")
    BY <1>3, <1>4, <2>3, <2>4 DEF Written
  <2>5. CASE Goto(j, "publish") /\ UNCHANGED <<at, seen>>
    BY <1>4, <2>1, <2>3, <2>5 DEF Written
  <2> QED
    BY <1>4, <2>4, <2>5 DEF Written
<1>5. ASSUME NEW j \in Jobs, NotWritten(j) \/ CannotOpen(j)
      PROVE  Types' /\ Placed'
  <2>1. PICK outcome \in Outcomes : Conclude(j, outcome)
    BY <1>5 DEF NotWritten, CannotOpen
  <2>2. /\ phase[j] \in {"write", "publish"}
        /\ UNCHANGED <<files, request, left>>
    BY <1>5 DEF NotWritten, CannotOpen
  <2>3. Types'
    BY <1>3, <2>1, <2>2
  <2>4. Placed'
    BY <1>3, <2>1, <2>2
  <2> QED
    BY <2>3, <2>4
<1>0. ASSUME NEW j \in Jobs, NEW p \in Platforms, NotCreated(j, p)
      PROVE  Types' /\ Placed'
  <2>1. seen' \in [Jobs -> [Platforms -> Outcomes]]
    BY <1>0 DEF NotCreated
  <2> QED
    BY <1>0, <2>1 DEF NotCreated
<1>6. ASSUME NEW j \in Jobs, Open(j)
      PROVE  Types' /\ Placed'
  BY <1>6 DEF Open
<1>7. ASSUME NEW j \in Jobs, Close(j)
      PROVE  Types' /\ Placed'
  BY <1>7 DEF Close
<1>8. ASSUME NEW j \in Jobs, StartCleanup(j)
      PROVE  Types' /\ Placed'
  <2>1. Listed(j) \in SUBSET Platforms
    BY DEF Listed
  <2>2. left' \in [Jobs -> SUBSET Platforms]
    BY <1>8, <2>1 DEF StartCleanup
  <2>3. Goto(j, "clean") \/ Goto(j, "ended")
    BY <1>8 DEF StartCleanup
  <2> QED
    BY <1>8, <2>2, <2>3 DEF StartCleanup
<1>9. ASSUME NEW j \in Jobs, NEW p \in Platforms, Remove(j, p)
      PROVE  Types' /\ Placed'
  <2>1. /\ file' \in [Media -> [Platforms -> {"absent", "partial", "whole"}]]
        /\ writer' \in [Media -> [Platforms -> Jobs \cup {None}]]
    BY <1>9 DEF Remove
  <2>2. ASSUME NEW k \in Jobs
        PROVE  \/ phase'[k] = phase[k]
               \/ phase[k] = "read" /\ phase'[k] = "unlinked"
    BY <1>9 DEF Remove, Readers
  <2>3. phase' \in [Jobs -> Phases]
    BY <1>9 DEF Remove
  <2> QED
    BY <1>9, <2>1, <2>2, <2>3 DEF Remove
<1>10. ASSUME NEW j \in Jobs, EndCleanup(j)
       PROVE  Types' /\ Placed'
  BY <1>10 DEF EndCleanup
<1>11. CASE Crash
  BY <1>11 DEF Crash, Running
<1>12. CASE UNCHANGED vars
  BY <1>12 DEF vars
<1> HIDE DEF Types, Placed
<1> QED
  BY <1>0, <1>1, <1>2, <1>4, <1>5, <1>6, <1>7, <1>8, <1>9, <1>10, <1>11, <1>12
     DEF Next, OnChannel, AtTheEnd

-----------------------------------------------------------------------------
(* Who runs with whom.                                                     *)

Working(j) == OnChannel(j) \/ AtTheEnd(j)

\* After its beginning a send keeps its request, and nothing wakes it up.
LEMMA RequestStays ==
  ASSUME Types, (\E i \in Jobs : Working(i)) \/ Crash \/ UNCHANGED vars
  PROVE  /\ UNCHANGED request
         /\ \A j \in Jobs : phase'[j] = "idle" <=> phase[j] = "idle"
         /\ \A j \in Jobs : Running(j)' => Running(j)
<1> USE DEF Types, Running, Goto
<1>1. ASSUME NEW i \in Jobs, OnChannel(i)
      PROVE  UNCHANGED request /\ Running(i) /\ \E x \in Phases \ {"idle"} : Goto(i, x)
  BY <1>1 DEF OnChannel, Create, NotCreated, Written, NotWritten, Open, CannotOpen, Close,
              Conclude, Phases
<1>2. ASSUME NEW i \in Jobs, StartCleanup(i) \/ EndCleanup(i)
      PROVE  UNCHANGED request /\ Running(i) /\ \E x \in Phases \ {"idle"} : Goto(i, x)
  BY <1>2 DEF StartCleanup, EndCleanup, Phases
<1>3. ASSUME NEW i \in Jobs, UNCHANGED request, Running(i),
             NEW x \in Phases \ {"idle"}, Goto(i, x)
      PROVE  /\ \A j \in Jobs : phase'[j] = "idle" <=> phase[j] = "idle"
             /\ \A j \in Jobs : Running(j)' => Running(j)
  BY <1>3
<1>4. ASSUME NEW i \in Jobs, NEW p \in Platforms, Remove(i, p)
      PROVE  /\ UNCHANGED request
             /\ \A j \in Jobs : phase'[j] = "idle" <=> phase[j] = "idle"
             /\ \A j \in Jobs : Running(j)' => Running(j)
  BY <1>4 DEF Remove, Readers
<1>5. CASE Crash
  BY <1>5 DEF Crash
<1>6. CASE UNCHANGED vars
  BY <1>6 DEF vars
<1> QED
  BY <1>1, <1>2, <1>3, <1>4, <1>5, <1>6 DEF Working, AtTheEnd

\* Sends of one media that run at once know of it, also one that has ended when
\* the other begins; the worker sends one post at a time.
Meet ==
  /\ \A j, o \in Jobs :
       j # o /\ phase[j] # "idle" /\ Running(o) /\ asset[j] = asset[o] => shared[j]
  /\ \A j, o \in Jobs :
       Running(j) /\ Running(o) /\ ~api[j] /\ ~api[o] => j = o

LEMMA MeetStep == Types /\ Meet /\ [Next]_vars => Meet'
<1> SUFFICES ASSUME Types, Meet, [Next]_vars PROVE Meet'
  OBVIOUS
<1>1. ASSUME NEW i \in Jobs, NEW m \in Media, NEW P \in SUBSET Platforms,
             NEW c \in BOOLEAN, Begin(i, m, P, c)
      PROVE  Meet'
  <2>1. /\ phase' = [phase EXCEPT ![i] = "choose"]
        /\ asset' = [asset EXCEPT ![i] = m]
        /\ api' = [api EXCEPT ![i] = c]
        /\ c \/ \A j \in Jobs : Running(j) => api[j]
    BY <1>1 DEF Begin, Goto, WorkerFree
  <2>2. ASSUME NEW j \in Jobs \ {i} PROVE shared'[j] = (shared[j] \/ asset[j] = m)
    BY <1>1 DEF Begin
  <2>3. shared'[i] = \E o \in Jobs : Running(o) /\ asset[o] = m
    BY <1>1 DEF Begin
  <2>4. \A j \in Jobs \ {i} : Running(j)' <=> Running(j)
    BY <2>1 DEF Types, Running
  <2>5. ASSUME NEW j \in Jobs, NEW o \in Jobs, j # o, phase'[j] # "idle", Running(o)',
               asset'[j] = asset'[o]
        PROVE  shared'[j]
    <3>1. CASE j = i
      BY <2>1, <2>3, <2>4, <2>5, <3>1 DEF Types
    <3>2. CASE o = i
      BY <2>1, <2>2, <2>5, <3>2 DEF Types
    <3>3. CASE j # i /\ o # i
      BY <2>1, <2>2, <2>4, <2>5, <3>3 DEF Types, Meet
    <3> QED
      BY <3>1, <3>2, <3>3
  <2>6. ASSUME NEW j \in Jobs, NEW o \in Jobs, Running(j)', Running(o)',
               ~api'[j], ~api'[o]
        PROVE  j = o
    BY <2>1, <2>4, <2>6 DEF Types, Meet
  <2> QED
    BY <2>5, <2>6 DEF Meet
<1>2. CASE (\E i \in Jobs : Working(i)) \/ Crash \/ UNCHANGED vars
  BY <1>2, RequestStays DEF Meet, request
<1> QED
  BY <1>1, <1>2 DEF Next, Working

-----------------------------------------------------------------------------
(* What a publisher finds.                                                 *)

\* Nobody who could spoil its files runs with it: it is alone, or only posts of
\* the worker have its media.
Undisturbed(j) ==
  ~shared[j] \/ \A o \in Jobs : asset[o] = asset[j] => ~api[o]

LEMMA UndisturbedIsAlone ==
  ASSUME Meet, NEW j \in Jobs, NEW o \in Jobs, Running(j), Running(o),
         asset[o] = asset[j], Undisturbed(j)
  PROVE  o = j
  BY DEF Meet, Undisturbed, Running

\* What disturbs a send cannot be undone.
LEMMA UndisturbedBefore ==
  ASSUME Types, Placed, [Next]_vars, NEW j \in Jobs, phase[j] # "idle",
         Undisturbed(j)'
  PROVE  Undisturbed(j)
<1>1. ASSUME NEW i \in Jobs, NEW m \in Media, NEW P \in SUBSET Platforms,
             NEW c \in BOOLEAN, Begin(i, m, P, c)
      PROVE  Undisturbed(j)
  <2>1. i # j /\ phase[i] = "idle" /\ ~api[i]
    BY <1>1 DEF Begin, Placed
  <2>2. shared'[j] = (shared[j] \/ asset[j] = m)
    BY <1>1, <2>1 DEF Begin
  <2>3. \A o \in Jobs \ {i} : asset'[o] = asset[o] /\ api'[o] = api[o]
    BY <1>1 DEF Begin, Types
  <2> QED
    BY <2>1, <2>2, <2>3 DEF Undisturbed
<1>2. CASE (\E i \in Jobs : Working(i)) \/ Crash \/ UNCHANGED vars
  BY <1>2, RequestStays DEF Undisturbed, request
<1> QED
  BY <1>1, <1>2 DEF Next, Working

\* What it has sent is whole, and so is what it is about to read.
Whole(j) ==
  /\ ~Spoiled(j)
  /\ phase[j] = "write" => FileOf(j) = "partial" /\ writer[asset[j]][at[j]] = j
  /\ phase[j] = "publish" => FileOf(j) = "whole"

Unspoiled == \A j \in Jobs : Undisturbed(j) \/ phase[j] = "idle" => Whole(j)

\* A step of another send reaches the files of an undisturbed one only if it is
\* no longer running, and then it reads none.
LEMMA UnspoiledByOthers ==
  ASSUME Types, Placed, Meet, Unspoiled,
         NEW i \in Jobs, Working(i), NEW j \in Jobs \ {i},
         phase[j] # "idle", Undisturbed(j)
  PROVE  Whole(j)'
<1> USE DEF Types, Goto, Conclude, files, request
<1>1. Whole(j) /\ asset[j] \in Media
  BY DEF Unspoiled, Placed
<1>2. Running(i)
  BY DEF Working, OnChannel, AtTheEnd, Create, NotCreated, Written, NotWritten, Open, CannotOpen,
         Close, StartCleanup, Remove, EndCleanup, Running
<1>3. ~Running(j) \/ asset[i] # asset[j]
  BY <1>2, UndisturbedIsAlone
<1>4. asset[i] \in Media /\ (phase[i] \in {"write", "publish"} => at[i] \in Platforms)
  BY <1>2 DEF Placed, Running
<1>5. ASSUME UNCHANGED asset, at'[j] = at[j], seen'[j] = seen[j], phase'[j] = phase[j],
             asset[i] # asset[j] =>
               file'[asset[j]] = file[asset[j]] /\ writer'[asset[j]] = writer[asset[j]]
      PROVE  Whole(j)'
  BY <1>1, <1>3, <1>5 DEF Whole, Spoiled, FileOf, Running
<1>6. ASSUME NEW p \in Platforms, Create(i, p)
      PROVE  Whole(j)'
  <2>1. j \notin Readers(asset[i], p)
    BY <1>3 DEF Readers, Running
  <2> QED
    BY <1>4, <1>5, <1>6, <2>1 DEF Create
<1>12. ASSUME NEW p \in Platforms, NotCreated(i, p)
       PROVE  Whole(j)'
  BY <1>5, <1>12 DEF NotCreated
<1>7. CASE Written(i)
  BY <1>4, <1>5, <1>7 DEF Written
<1>8. CASE NotWritten(i) \/ CannotOpen(i)
  <2>1. PICK outcome \in {"missing", "failed"} : Conclude(i, outcome)
    BY <1>8 DEF NotWritten, CannotOpen
  <2> QED
    BY <1>5, <1>8, <2>1 DEF NotWritten, CannotOpen
<1>9. CASE Open(i) \/ Close(i)
  BY <1>5, <1>9 DEF Open, Close
<1>10. CASE StartCleanup(i) \/ EndCleanup(i)
  BY <1>5, <1>10 DEF StartCleanup, EndCleanup
<1>11. ASSUME NEW p \in Platforms, Remove(i, p)
       PROVE  Whole(j)'
  <2>1. phase'[j] = phase[j]
    BY <1>3, <1>11 DEF Remove, OwnFile, Readers, Running
  <2>2. asset[i] # asset[j] =>
          file'[asset[j]] = file[asset[j]] /\ writer'[asset[j]] = writer[asset[j]]
    BY <1>1, <1>11 DEF Remove, OwnFile
  <2> QED
    BY <1>5, <1>11, <2>1, <2>2 DEF Remove
<1> QED
  BY <1>6, <1>7, <1>8, <1>9, <1>10, <1>11, <1>12 DEF Working, OnChannel, AtTheEnd

\* An undisturbed send reads what it has written.
LEMMA UnspoiledByItself ==
  ASSUME Types, Placed, Meet, Unspoiled, NEW j \in Jobs, Working(j), Undisturbed(j)
  PROVE  Whole(j)'
<1> USE DEF Types, Goto, Conclude, files, request
<1>1. Whole(j) /\ (phase[j] # "idle" => asset[j] \in Media)
  BY DEF Unspoiled, Placed
<1>2. ASSUME NEW p \in Platforms, Create(j, p)
      PROVE  Whole(j)'
  <2>1. j \notin Readers(asset[j], p)
    BY <1>2 DEF Create, Readers
  <2>2. seen'[j] = seen[j] /\ phase'[j] = "write" /\ at'[j] = p /\ UNCHANGED asset
    BY <1>2, <2>1 DEF Create
  <2>3. file'[asset[j]][p] = "partial" /\ writer'[asset[j]][p] = j
    BY <1>1, <1>2 DEF Create
  <2> QED
    BY <1>1, <2>2, <2>3 DEF Whole, Spoiled, FileOf
<1>0. ASSUME NEW p \in Platforms, NotCreated(j, p)
      PROVE  Whole(j)'
  <2>1. \A q \in Platforms : seen'[j][q] \in {"failed", seen[j][q]}
    BY <1>0 DEF NotCreated
  <2>2. phase[j] = "choose" /\ UNCHANGED <<files, asset, phase, at>>
    BY <1>0 DEF NotCreated
  <2> QED
    BY <1>1, <2>1, <2>2 DEF Whole, Spoiled
<1>3. CASE Written(j)
  <2>1. at[j] \in Platforms /\ asset[j] \in Media
    BY <1>1, <1>3 DEF Written, Placed
  <2>2. AfterWriteOf(j) = "whole" /\ FileOf(j) # "absent"
    BY <1>1, <1>3 DEF Written, Whole, AfterWriteOf
  <2>3. phase'[j] = "publish" /\ UNCHANGED <<at, asset, seen>>
    BY <1>3, <2>2 DEF Written
  <2>4. file'[asset[j]][at[j]] = "whole"
    BY <1>3, <2>1, <2>2 DEF Written
  <2> QED
    BY <1>1, <2>3, <2>4 DEF Whole, Spoiled, FileOf
<1>4. CASE NotWritten(j) \/ CannotOpen(j)
  <2>1. at[j] \in Platforms /\ phase'[j] = "choose"
    BY <1>4 DEF NotWritten, CannotOpen, Placed
  <2>2. seen' = [seen EXCEPT ![j][at[j]] = "failed"]
    BY <1>1, <1>4 DEF NotWritten, CannotOpen, Whole
  <2>3. \A p \in Platforms : seen'[j][p] \in {"failed", seen[j][p]}
    BY <2>2
  <2> QED
    BY <1>1, <2>1, <2>3 DEF Whole, Spoiled
<1>5. CASE Open(j)
  <2>1. FileOf(j) = "whole" /\ at[j] \in Platforms /\ phase'[j] = "read"
    BY <1>1, <1>5 DEF Open, Whole, Placed
  <2>2. \A p \in Platforms : seen'[j][p] \in {"whole", seen[j][p]}
    BY <1>5, <2>1 DEF Open
  <2> QED
    BY <1>1, <2>1, <2>2 DEF Whole, Spoiled
<1>6. CASE Close(j)
  BY <1>1, <1>6 DEF Close, Whole, Spoiled
<1>7. CASE StartCleanup(j) \/ EndCleanup(j)
  BY <1>1, <1>7 DEF StartCleanup, EndCleanup, Whole, Spoiled
<1>8. ASSUME NEW p \in Platforms, Remove(j, p)
      PROVE  Whole(j)'
  <2>1. phase'[j] = "clean" /\ UNCHANGED seen
    BY <1>8 DEF Remove, Readers
  <2> QED
    BY <1>1, <2>1 DEF Whole, Spoiled
<1> QED
  BY <1>0, <1>2, <1>3, <1>4, <1>5, <1>6, <1>7, <1>8 DEF Working, OnChannel, AtTheEnd

LEMMA UnspoiledStep ==
  Types /\ Placed /\ Meet /\ Unspoiled /\ [Next]_vars => Unspoiled'
<1> SUFFICES ASSUME Types, Placed, Meet, Unspoiled, [Next]_vars, NEW j \in Jobs,
                    Undisturbed(j)' \/ phase'[j] = "idle"
             PROVE  Whole(j)'
  BY DEF Unspoiled
<1>1. Types' /\ Placed'
  BY TypesStep
<1>2. CASE phase'[j] = "idle"
  BY <1>1, <1>2 DEF Placed, Whole, Spoiled
<1>3. CASE phase[j] = "idle" /\ phase'[j] # "idle"
  <2>1. ~\E i \in Jobs : Working(i)
    BY <1>3, RequestStays
  <2>2. PICK i \in Jobs, m \in Media, P \in SUBSET Platforms, c \in BOOLEAN :
          Begin(i, m, P, c)
    BY <1>3, <2>1, RequestStays DEF Next, Working
  <2>3. i = j /\ phase'[j] = "choose" /\ UNCHANGED seen
    BY <1>3, <2>2 DEF Begin, Goto, Types
  <2> QED
    BY <1>3, <2>3 DEF Unspoiled, Whole, Spoiled
<1>4. CASE phase[j] # "idle" /\ phase'[j] # "idle"
  <2>1. Undisturbed(j) /\ Whole(j)
    BY <1>4, UndisturbedBefore DEF Unspoiled
  <2>2. ASSUME NEW i \in Jobs, Working(i)
        PROVE  Whole(j)'
    BY <1>4, <2>1, <2>2, UnspoiledByOthers, UnspoiledByItself
  <2>3. ASSUME NEW i \in Jobs, NEW m \in Media, NEW P \in SUBSET Platforms,
               NEW c \in BOOLEAN, Begin(i, m, P, c)
        PROVE  Whole(j)'
    BY <1>4, <2>1, <2>3 DEF Begin, Goto, Types, Whole, Spoiled, FileOf, files
  <2>4. CASE Crash
    BY <2>1, <2>4 DEF Crash, Running, Types, Whole, Spoiled, FileOf, files, request
  <2>5. CASE UNCHANGED vars
    BY <2>1, <2>5 DEF vars, Whole, Spoiled, FileOf, files, request
  <2> QED
    BY <2>2, <2>3, <2>4, <2>5 DEF Next, Working
<1> QED
  BY <1>2, <1>3, <1>4

-----------------------------------------------------------------------------
(* What is left in tmp.                                                    *)

\* The cleanup of a send that shares with nobody has the files of its media that
\* are still there before it.
Cleaned(j) ==
  api[j] /\ ~shared[j] =>
    /\ phase[j] = "clean" => Listed(j) \subseteq left[j]
    /\ phase[j] = "ended" => Listed(j) = {}

Cleaning == \A j \in Jobs : Cleaned(j)

\* While another send works on its media, it is shared.
LEMMA CleanedByOthers ==
  ASSUME Types, Placed, Meet, Cleaning,
         NEW i \in Jobs, Working(i), NEW j \in Jobs \ {i},
         phase[j] # "idle", ~shared[j]
  PROVE  Cleaned(j)'
<1> USE DEF Types, Goto, Conclude, files, request
<1>1. Running(i)
  BY DEF Working, OnChannel, AtTheEnd, Create, NotCreated, Written, NotWritten, Open, CannotOpen,
         Close, StartCleanup, Remove, EndCleanup, Running
<1>2. asset[i] # asset[j] /\ asset[i] \in Media /\ asset[j] \in Media
  BY <1>1 DEF Meet, Placed, Running
<1>3. ASSUME UNCHANGED request, file'[asset[j]] = file[asset[j]],
             phase'[j] = phase[j] \/ phase'[j] = "unlinked", left'[j] = left[j]
      PROVE  Cleaned(j)'
  BY <1>3 DEF Cleaning, Cleaned, Listed
<1>4. ASSUME NEW p \in Platforms, Create(i, p)
      PROVE  Cleaned(j)'
  BY <1>2, <1>3, <1>4 DEF Create
<1>5. CASE Written(i)
  BY <1>2, <1>3, <1>5 DEF Written
<1>9. ASSUME NEW p \in Platforms, NotCreated(i, p)
      PROVE  Cleaned(j)'
  BY <1>3, <1>9 DEF NotCreated
<1>6. CASE NotWritten(i) \/ CannotOpen(i) \/ Open(i) \/ Close(i)
  BY <1>3, <1>6 DEF NotWritten, CannotOpen, Open, Close
<1>7. CASE StartCleanup(i) \/ EndCleanup(i)
  BY <1>3, <1>7 DEF StartCleanup, EndCleanup
<1>8. ASSUME NEW p \in Platforms, Remove(i, p)
      PROVE  Cleaned(j)'
  <2>1. file'[asset[j]] = file[asset[j]] /\ left'[j] = left[j]
    BY <1>2, <1>8 DEF Remove, OwnFile
  <2>2. phase'[j] = phase[j] \/ phase'[j] = "unlinked"
    BY <1>8 DEF Remove
  <2> QED
    BY <1>3, <1>8, <2>1, <2>2 DEF Remove
<1> QED
  BY <1>4, <1>5, <1>6, <1>7, <1>8, <1>9 DEF Working, OnChannel, AtTheEnd

\* Its own cleanup removes what it listed, and nothing comes after it.
LEMMA CleanedByItself ==
  ASSUME Types, Placed, Cleaning, NEW j \in Jobs, Working(j), api[j], ~shared[j]
  PROVE  Cleaned(j)'
<1> USE DEF Types, Goto, Conclude, files, request
<1>1. CASE OnChannel(j)
  <2>1. phase'[j] \in {"write", "publish", "read", "choose"}
    BY <1>1 DEF OnChannel, Create, NotCreated, Written, NotWritten, Open, CannotOpen, Close
  <2> QED
    BY <2>1 DEF Cleaned
<1>2. CASE StartCleanup(j)
  BY <1>2 DEF StartCleanup, Cleans, Cleaned, Listed
<1>3. ASSUME NEW p \in Platforms, Remove(j, p)
      PROVE  Cleaned(j)'
  <2>1. /\ phase[j] = "clean" /\ phase'[j] = "clean"
        /\ left'[j] = left[j] \ {p}
        /\ asset[j] \in Media /\ UNCHANGED asset
    BY <1>3 DEF Remove, Readers, Placed
  <2>2. file'[asset[j]] = [file[asset[j]] EXCEPT ![p] = "absent"]
    BY <1>3, <2>1 DEF Remove, OwnFile
  <2>3. Listed(j)' = Listed(j) \ {p}
    BY <2>1, <2>2 DEF Listed
  <2>4. Listed(j) \subseteq left[j]
    BY <2>1 DEF Cleaning, Cleaned
  <2> QED
    BY <2>1, <2>3, <2>4 DEF Cleaned
<1>4. CASE EndCleanup(j)
  <2>1. Listed(j) = {} /\ Listed(j)' = Listed(j) /\ phase'[j] = "ended"
    BY <1>4 DEF EndCleanup, Cleaning, Cleaned, Listed
  <2> QED
    BY <2>1 DEF Cleaned
<1> QED
  BY <1>1, <1>2, <1>3, <1>4 DEF Working, AtTheEnd

LEMMA CleaningStep ==
  Types /\ Placed /\ Meet /\ Cleaning /\ [Next]_vars => Cleaning'
<1> SUFFICES ASSUME Types, Placed, Meet, Cleaning, [Next]_vars, NEW j \in Jobs
             PROVE  Cleaned(j)'
  BY DEF Cleaning
<1>1. ASSUME NEW i \in Jobs, Working(i)
      PROVE  Cleaned(j)'
  <2>1. UNCHANGED request /\ (phase'[j] = "idle" <=> phase[j] = "idle")
    BY <1>1, RequestStays
  <2>2. CASE phase[j] = "idle" \/ ~api[j] \/ shared[j]
    BY <2>1, <2>2 DEF Cleaned, request
  <2> QED
    BY <1>1, <2>2, CleanedByOthers, CleanedByItself
<1>2. ASSUME NEW i \in Jobs, NEW m \in Media, NEW P \in SUBSET Platforms,
             NEW c \in BOOLEAN, Begin(i, m, P, c)
      PROVE  Cleaned(j)'
  <2>1. CASE i = j
    BY <1>2, <2>1 DEF Begin, Goto, Types, Cleaned
  <2>2. CASE i # j
    BY <1>2, <2>2 DEF Begin, Goto, Types, Cleaned, Cleaning, Listed, files
  <2> QED
    BY <2>1, <2>2
<1>3. CASE Crash
  BY <1>3 DEF Crash, Running, Types, Cleaned, Cleaning, Listed, files, request
<1>4. CASE UNCHANGED vars
  BY <1>4 DEF vars, Cleaned, Cleaning, Listed, files, request
<1> QED
  BY <1>1, <1>2, <1>3, <1>4 DEF Next, Working

-----------------------------------------------------------------------------
\* The strengthening of the three invariants.
TmpInv == Types /\ Placed /\ Meet /\ Unspoiled /\ Cleaning

LEMMA TmpInvariant == Spec => []TmpInv
<1>1. Init => TmpInv
  BY DEF Init, TmpInv, Types, Placed, Meet, Unspoiled, Cleaning, Cleaned, Whole, Spoiled,
         Running, Phases, Outcomes
<1>2. TmpInv /\ [Next]_vars => TmpInv'
  BY TypesStep, MeetStep, UnspoiledStep, CleaningStep DEF TmpInv
<1> QED
  BY <1>1, <1>2, PTL DEF Spec

\* A send whose media nobody else sends meanwhile sends whole files.
THEOREM AloneSendsWholeFiles == Spec => []AloneIsWhole
<1>1. TmpInv => AloneIsWhole
  BY DEF TmpInv, Unspoiled, Undisturbed, Whole, AloneIsWhole
<1> QED
  BY <1>1, TmpInvariant, PTL

\* The posts of a series, which one worker sends, never spoil each other's
\* files, as long as the page does not send their media too.
THEOREM SeriesSendsWholeFiles == Spec => []SeriesIsWhole
<1>1. TmpInv => SeriesIsWhole
  BY DEF TmpInv, Unspoiled, Undisturbed, Whole, SeriesIsWhole
<1> QED
  BY <1>1, TmpInvariant, PTL

\* A send of the page that shares its media with nobody leaves no file of it.
THEOREM NothingIsLeft == Spec => []CleanAfterSend
<1>1. TmpInv => CleanAfterSend
  BY DEF TmpInv, Cleaning, Cleaned, CleanAfterSend
<1> QED
  BY <1>1, TmpInvariant, PTL
=============================================================================
