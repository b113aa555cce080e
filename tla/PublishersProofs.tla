-------------------------- MODULE PublishersProofs --------------------------
(***************************************************************************)
(* Proofs about Publishers, for posts of any number of files and any       *)
(* number of attempts.                                                     *)
(*                                                                         *)
(* PostedFiles flattens a sequence by a recursive function.  What that     *)
(* function computes is shown by induction, in the form of the least       *)
(* element of a set of numbers (Least): this form takes no operator as a   *)
(* parameter.                                                              *)
(***************************************************************************)
EXTENDS Publishers, WellFoundedInduction, TLAPS

-----------------------------------------------------------------------------
(* Flattening.                                                             *)

\* A set of numbers that is not empty has a least one.
LEMMA Least ==
  ASSUME NEW T, T \subseteq Nat, T # {}
  PROVE  \E x \in T : \A y \in T : x <= y
<1> DEFINE R == OpToRel(<, Nat)
<1>1. IsWellFoundedOn(R, Nat)
  BY NatLessThanWellFounded
<1> HIDE DEF R
<1>2. PICK x \in T : \A y \in T : <<y, x>> \notin R
  BY <1>1, WFMin
<1>3. \A y \in T : y < x => <<y, x>> \in R
  BY DEF R, OpToRel
<1>4. \A y \in T : ~(y < x)
  BY <1>2, <1>3, Zenon
<1> QED BY <1>4

\* FlattenSeq yields the last value of any function that joins the parts one
\* after the other, as its own recursive function does.
LEMMA FlattenJoins ==
  ASSUME NEW s, NEW n \in Nat \ {0}, Len(s) = n, NEW g,
         g[1] = s[1], \A i \in 1 .. n : i # 1 => g[i] = g[i - 1] \o s[i]
  PROVE  FlattenSeq(s) = g[n]
<1> DEFINE Joins(f) == f = [i \in 1 .. n |-> IF i = 1 THEN s[i] ELSE f[i - 1] \o s[i]]
           flatten == CHOOSE f : Joins(f)
<1>1. Joins(flatten)
  <2> DEFINE f == [i \in 1 .. n |-> g[i]]
  <2>1. \A i \in 1 .. n : f[i] = IF i = 1 THEN s[i] ELSE f[i - 1] \o s[i]
    <3>1. \A i \in 1 .. n : f[i] = g[i]
      OBVIOUS
    <3>2. \A i \in 1 .. n : i # 1 => i - 1 \in 1 .. n
      OBVIOUS
    <3> HIDE DEF f
    <3> QED BY <3>1, <3>2
  <2>2. f = [i \in 1 .. n |-> f[i]]
    OBVIOUS
  <2>3. Joins(f)
    <3> HIDE DEF f
    <3> QED BY <2>1, <2>2
  <2> HIDE DEF f, Joins
  <2> QED BY <2>3
<1>2. FlattenSeq(s) = flatten[n]
  BY DEF FlattenSeq
<1> HIDE DEF flatten
<1>3. flatten[n] = g[n]
  <2> DEFINE T == {i \in 1 .. n : flatten[i] # g[i]}
  <2>1. SUFFICES ASSUME T # {} PROVE FALSE
    OBVIOUS
  <2>2. PICK x \in T : \A y \in T : x <= y
    <3>1. T \subseteq Nat
      OBVIOUS
    <3> HIDE DEF T
    <3> QED BY <2>1, <3>1, Least
  <2>3. x # 1 /\ x \in 1 .. n
    BY <1>1
  <2>4. x - 1 \notin T /\ x - 1 \in 1 .. n
    BY <2>2, <2>3
  <2>5. flatten[x] = flatten[x - 1] \o s[x] /\ g[x] = g[x - 1] \o s[x]
    BY <1>1, <2>3
  <2> QED BY <2>2, <2>4, <2>5
<1> QED BY <1>2, <1>3

\* The numbers up to n, as a sequence.
UpTo(n) == [k \in 1 .. n |-> k]

LEMMA UpToGrows ==
  ASSUME NEW n \in Nat
  PROVE  /\ UpTo(n) \in Seq(Nat) /\ Len(UpTo(n)) = n
         /\ UpTo(n) \o <<n + 1>> = UpTo(n + 1)
BY DEF UpTo

\* One part is left as it is.
LEMMA FlattenOne ==
  ASSUME NEW t
  PROVE  FlattenSeq(<<t>>) = t
<1> DEFINE s == <<t>>
           g == [i \in 1 .. 1 |-> t]
<1>1. Len(s) = 1 /\ s[1] = t
  OBVIOUS
<1> HIDE DEF s
<1>2. g[1] = s[1] /\ \A i \in 1 .. 1 : i # 1 => g[i] = g[i - 1] \o s[i]
  BY <1>1
<1>3. FlattenSeq(s) = g[1]
  <2> HIDE DEF g
  <2> QED BY <1>1, <1>2, 1 \in Nat \ {0}, FlattenJoins, ZenonT(40)
<1> QED BY <1>3 DEF s

\* The parts <<1>>, ..., <<n>> give the numbers up to n.
LEMMA FlattenSingles ==
  ASSUME NEW n \in Nat \ {0}
  PROVE  FlattenSeq([k \in 1 .. n |-> <<k>>]) = UpTo(n)
<1> DEFINE s == [k \in 1 .. n |-> <<k>>]
           g == [i \in 1 .. n |-> UpTo(i)]
<1>1. Len(s) = n
  OBVIOUS
<1>2. \A i \in 1 .. n : i # 1 => i - 1 \in 1 .. n /\ UpTo(i) = UpTo(i - 1) \o s[i]
  <2> TAKE i \in 1 .. n
  <2>1. HAVE i # 1
  <2>2. UpTo(i - 1) \o <<(i - 1) + 1>> = UpTo((i - 1) + 1)
    BY <2>1, UpToGrows
  <2> QED BY <2>1, <2>2
<1>3. UpTo(1) = s[1]
  <2>1. s[1] = <<1>>
    OBVIOUS
  <2>2. UpTo(1) \in Seq(Nat) /\ Len(UpTo(1)) = 1 /\ UpTo(1)[1] = 1
    BY UpToGrows DEF UpTo
  <2> QED BY <2>1, <2>2
<1>4. g[1] = s[1] /\ \A i \in 1 .. n : i # 1 => g[i] = g[i - 1] \o s[i]
  BY <1>2, <1>3
<1>5. FlattenSeq(s) = g[n]
  <2> HIDE DEF s, g
  <2> QED BY <1>1, <1>4, FlattenJoins, ZenonT(40)
<1> QED BY <1>5

LEMMA FlattenNone ==
  FlattenSeq(<<>>) = <<>>
<1>1. Len(<<>>) = 0
  OBVIOUS
<1> QED BY <1>1, Zenon DEF FlattenSeq

-----------------------------------------------------------------------------
(* What a file is taken for.                                               *)

\* All that the proof needs of the table of uploads: which extensions go with
\* the content types that spare a file its conversion.
LEMMA SparedUploads ==
  ASSUME NEW u \in Uploads
  PROVE  /\ u.sub = "mp4" =>
              \/ u.ext = "mp4"
              \/ u.ext = "m4v" /\ u.type = "video"
              \/ u.ext = "m4a" /\ u.type = "audio"
         /\ u.type = "audio" /\ u.sub \in {"mpeg", "mp4", "x-m4a", "aac"} =>
              u.ext \in {"mp3", "m4a", "aac", "mp4"}
<1>1. PICK l \in Labelled :
        \/ u = [ext |-> l[1], type |-> l[2], sub |-> l[3]]
        \/ u = [ext |-> l[1], type |-> "", sub |-> ""]
  BY DEF Uploads
<1>2. l[3] = "mp4" =>
        \/ l[1] = "mp4"
        \/ l[1] = "m4v" /\ l[2] = "video"
        \/ l[1] = "m4a" /\ l[2] = "audio"
  BY DEF Labelled
<1>3. l[2] = "audio" /\ l[3] \in {"mpeg", "mp4", "x-m4a", "aac"} =>
        l[1] \in {"mp3", "m4a", "aac", "mp4"}
  BY DEF Labelled
<1>4. CASE u = [ext |-> l[1], type |-> l[2], sub |-> l[3]]
  <2>1. u.ext = l[1] /\ u.type = l[2] /\ u.sub = l[3]
    BY <1>4
  <2> QED BY <2>1, <1>2, <1>3
<1>5. CASE u = [ext |-> l[1], type |-> "", sub |-> ""]
  <2>1. u.type = "" /\ u.sub = ""
    BY <1>5
  <2> QED BY <2>1
<1> QED BY <1>1, <1>4, <1>5

\* Whatever is converted or spared, the extension a file ends up with is one
\* every publisher takes for the kind the upload was given.
LEMMA TakenAsUploaded ==
  ASSUME NEW u \in Uploads, NEW small \in BOOLEAN
  PROVE  TakenFor(u, small) = UploadKind(u)
<1> DEFINE ext == PreparedExt(u, small)
<1>1. UploadKind(u) = "photo" => ext = "jpg"
  BY DEF PreparedExt, PreparePhoto
<1>2. UploadKind(u) = "video" => ext \in {"mp4", "mov"}
  <2>1. looksCompatibleVideo(u) /\ UploadKind(u) = "video" => safeUploadExt(u) \in {"mp4", "mov"}
    BY SparedUploads DEF looksCompatibleVideo, UploadKind, safeUploadExt, KnownExts,
      isVideoExt, IsAudioExt
  <2> QED BY <2>1 DEF PreparedExt, PrepareVideo
<1>3. UploadKind(u) = "audio" => ext \in {"mp3", "m4a", "aac"}
  <2>1. looksCompatibleAudio(u) /\ UploadKind(u) = "audio" =>
          safeUploadExt(u) \in {"mp3", "m4a", "aac"}
    BY SparedUploads DEF looksCompatibleAudio, UploadKind, safeUploadExt, KnownExts,
      isVideoExt, IsAudioExt
  <2> QED BY <2>1 DEF PreparedExt, PrepareAudio
<1>4. UploadKind(u) \in {"photo", "video", "audio"}
  BY DEF UploadKind
<1>5. guessKind(platform, ext) = UploadKind(u)
  <2> HIDE DEF ext
  <2> QED BY <1>1, <1>2, <1>3, <1>4 DEF guessKind, VideoExts, AudioExts, IsAudioExt
<1> QED BY <1>5 DEF TakenFor

-----------------------------------------------------------------------------
(* The inductive invariant.                                                *)

Kinds == {"photo", "video", "audio"}

Types ==
  /\ platform \in Platforms
  /\ target \in {"here", "elsewhere"}
  /\ files \in Seq(Kinds)
  /\ pc \in {"prepare", "upload", "post", "answer", "wait", "ended"}
  /\ at \in Nat
  /\ step \in Nat
  /\ message \in Nat
  /\ ctx \in {"live", "dead"}
  /\ flying \in BOOLEAN
  /\ ret \in {"none", "ok", "error"}

\* The first n messages of the post.
First(n) == [k \in 1 .. n |-> Messages[k]]

\* What came out is a beginning of the messages, up to the one being sent or
\* the one before it; before that one's request it is the latter, and nothing
\* is on its way.  After ok everything is out and nothing on its way.
Out ==
  /\ message \in 1 .. Len(Messages)
  /\ pc \in {"prepare", "upload"} => message = 1
  /\ posted \in {First(message - 1), First(message)}
  /\ pc \notin {"answer", "ended"} \/ flying => posted = First(message - 1)
  /\ pc \notin {"answer", "ended"} \/ ret = "ok" => ~flying
  /\ ret = "ok" => posted = First(Len(Messages))

Result ==
  /\ ret = "none" <=> pc # "ended"
  /\ url # NoUrl =>
       /\ ret = "ok"
       /\ url.message = Len(Messages) \/ (platform = "vk" /\ url.message = 0)
       /\ url.channel \in {"here", target}

\* Its bytes were taken, or nobody looked.
Taken(k) == k \in stored \/ (platform = "vk" /\ files[k] = "video")

\* Every chain goes through the step that sends the bytes.
Uploaded ==
  /\ pc = "prepare" => at = 1 /\ step = 1
  /\ pc = "upload" =>
       /\ at \in 1 .. Len(files)
       /\ step \in 1 .. ChainLength(files[at])
       /\ \A k \in 1 .. at - 1 : Taken(k)
       /\ step > BytesStep => Taken(at)
  /\ UploadsFirst /\ (pc \in {"post", "answer", "wait"} \/ ret = "ok") =>
       \A k \in DOMAIN files : Taken(k)

PubInv == Types /\ KindsAgree /\ Out /\ Result /\ Uploaded

-----------------------------------------------------------------------------
(* The messages of a post.                                                 *)

OneEach == platform = "telegram" /\ Len(files) > 1 /\ ~Album

LEMMA OneMessage ==
  ASSUME files \in Seq(Kinds), ~OneEach
  PROVE  /\ Messages = Together /\ Len(Messages) = 1
         /\ Messages[1] = [files |-> Indices, text |-> TRUE]
BY DEF OneEach, Messages, Together

LEMMA ManyMessages ==
  ASSUME files \in Seq(Kinds), OneEach
  PROVE  /\ Messages = OneByOne /\ Len(Messages) = Len(files)
         /\ \A k \in 1 .. Len(files) : Messages[k] = [files |-> <<k>>, text |-> k = 1]
<1>1. Messages = [k \in 1 .. Len(files) |-> [files |-> <<k>>, text |-> k = 1]]
  BY DEF OneEach, Messages, OneByOne
<1>2. Messages = OneByOne
  BY DEF OneEach, Messages
<1>3. Len(files) \in Nat
  OBVIOUS
<1> QED BY <1>1, <1>2, <1>3

\* There is a message, and the first has the text.
LEMMA SomeMessage ==
  files \in Seq(Kinds) =>
    /\ Len(Messages) \in Nat /\ Len(Messages) >= 1
    /\ Len(Messages) > 1 => platform = "telegram"
    /\ Messages[1].text
    /\ \A k \in 1 .. Len(Messages) : Messages[k].text => k = 1
<1> SUFFICES ASSUME files \in Seq(Kinds)
             PROVE  /\ Len(Messages) \in Nat /\ Len(Messages) >= 1
                    /\ Len(Messages) > 1 => platform = "telegram"
                    /\ Messages[1].text
                    /\ \A k \in 1 .. Len(Messages) : Messages[k].text => k = 1
  OBVIOUS
<1>1. CASE OneEach
  <2>1. Len(files) \in Nat /\ Len(files) > 1 /\ platform = "telegram"
    BY <1>1 DEF OneEach
  <2>2. Len(Messages) = Len(files)
    BY <1>1, ManyMessages
  <2>3. \A k \in 1 .. Len(Messages) : Messages[k].text <=> k = 1
    <3> TAKE k \in 1 .. Len(Messages)
    <3>1. Messages[k] = [files |-> <<k>>, text |-> k = 1]
      BY <1>1, <2>2, ManyMessages
    <3>2. CASE k = 1
      <4>1. (k = 1) = TRUE
        BY <3>2
      <4>2. Messages[k] = [files |-> <<k>>, text |-> TRUE]
        BY <3>1, <4>1, Zenon
      <4> QED BY <3>2, <4>2
    <3>3. CASE k # 1
      <4>1. (k = 1) = FALSE
        BY <3>3
      <4>2. Messages[k] = [files |-> <<k>>, text |-> FALSE]
        BY <3>1, <4>1, Zenon
      <4> QED BY <3>3, <4>2
    <3> QED BY <3>2, <3>3
  <2> QED BY <2>1, <2>2, <2>3
<1>2. CASE ~OneEach
  <2>1. Len(Messages) = 1 /\ Messages[1] = [files |-> Indices, text |-> TRUE]
    BY <1>2, OneMessage
  <2>2. Messages[1].text
    BY <2>1
  <2> QED BY <2>1, <2>2
<1> QED BY <1>1, <1>2

LEMMA FirstNone ==
  First(0) = <<>>
BY DEF First

LEMMA FirstGrows ==
  ASSUME NEW n \in Nat
  PROVE  /\ Len(First(n)) = n
         /\ Append(First(n), Messages[n + 1]) = First(n + 1)
         /\ First(n + 1) # <<>>
<1> DEFINE S == {Messages[k] : k \in 1 .. n + 1}
<1>1. First(n) \in Seq(S) /\ Len(First(n)) = n
  BY DEF First
<1>2. First(n + 1) \in Seq(S) /\ Len(First(n + 1)) = n + 1
  BY DEF First
<1>3. \A k \in 1 .. n + 1 : Append(First(n), Messages[n + 1])[k] = First(n + 1)[k]
  BY DEF First
<1>4. Append(First(n), Messages[n + 1]) \in Seq(S) /\ Len(Append(First(n), Messages[n + 1])) = n + 1
  <2> HIDE DEF S
  <2>1. Messages[n + 1] \in S
    BY DEF S
  <2> QED BY <1>1, <2>1
<1> HIDE DEF S
<1> QED BY <1>1, <1>2, <1>3, <1>4

-----------------------------------------------------------------------------
(* Every action keeps the invariant.                                       *)

LEMMA InitHasPubInv ==
  Init => PubInv
<1> SUFFICES ASSUME Init PROVE PubInv
  OBVIOUS
<1>0. target \in {"here", "elsewhere"}
  BY DEF Init, Targets
<1>1. Types
  <2>1. files \in Seq(Kinds)
    BY DEF Init
  <2>2. flying = FALSE
    BY DEF Init
  <2>3. flying \in BOOLEAN
    BY <2>2
  <2> QED BY <1>0, <2>1, <2>3 DEF Init, Types
<1>2. Out
  <2>1. files \in Seq(Kinds) /\ message = 1 /\ posted = <<>>
    BY <1>1 DEF Init, Types
  <2> QED BY <2>1, SomeMessage, FirstNone DEF Init, Out
<1> QED BY <1>1, <1>2 DEF Init, PubInv, KindsAgree, Result, Uploaded

\* What most actions leave as it is, with all that is made from it.
LEMMA PostIsKept ==
  ASSUME UNCHANGED post
  PROVE  /\ Messages' = Messages
         /\ \A n : First(n)' = First(n)
         /\ UploadsFirst' = UploadsFirst
BY DEF post, Messages, Together, OneByOne, Indices, Album, First, UploadsFirst

\* An error may come at any time.
LEMMA FailKeepsPubInv ==
  ASSUME PubInv, Fail, pc # "ended", UNCHANGED <<post, upload, message, ctx, atPlatform>>
  PROVE  PubInv'
<1> USE DEF PubInv, Fail, End
<1>1. Types' /\ KindsAgree'
  BY DEF Types, KindsAgree, post, upload, atPlatform
<1>2. UNCHANGED post
  OBVIOUS
<1>3. Out'
  BY <1>2, PostIsKept DEF Out, Result, atPlatform
<1>4. Result'
  BY DEF Result
<1>5. Uploaded'
  BY DEF Uploaded
<1> QED BY <1>1, <1>3, <1>4, <1>5

LEMMA PrepareKeepsPubInv ==
  ASSUME PubInv, NEW u \in Uploads, NEW small \in BOOLEAN, Prepare(u, small)
  PROVE  PubInv'
<1> USE DEF PubInv, Prepare
<1>1. UploadKind(u) \in Kinds
  BY DEF UploadKind, Kinds
<1>2. files' = Append(files, UploadKind(u)) /\ kinds' = Append(kinds, UploadKind(u))
  BY TakenAsUploaded
<1>3. Types' /\ KindsAgree'
  BY <1>1, <1>2 DEF Types, KindsAgree, upload, atPlatform, result
<1>4. Out'
  <2>1. message' = 1 /\ posted' = <<>> /\ ~flying'
    BY FirstNone DEF Out, atPlatform
  <2>2. First(0)' = <<>>
    BY DEF First
  <2>3. Len(Messages)' \in Nat /\ Len(Messages)' >= 1
    <3>1. (files \in Seq(Kinds))'
      BY <1>3 DEF Types
    <3>2. CASE OneEach'
      <4>1. Messages' = [k \in 1 .. Len(files)' |-> [files |-> <<k>>, text |-> k = 1]]
        BY <3>2, <3>1 DEF OneEach, Messages, OneByOne
      <4>2. Len(files)' \in Nat /\ Len(files)' > 1
        BY <3>1, <3>2 DEF OneEach
      <4> QED BY <4>1, <4>2
    <3>3. CASE ~OneEach'
      BY <3>1, <3>3 DEF OneEach, Messages, Together
    <3> QED BY <3>2, <3>3
  <2>4. ret' = "none" /\ pc' = "prepare"
    BY DEF Result, result
  <2> QED BY <2>1, <2>2, <2>3, <2>4 DEF Out
<1>5. Result'
  BY DEF Result, result
<1>6. Uploaded'
  BY DEF Uploaded, Result, upload, result
<1> QED BY <1>3, <1>4, <1>5, <1>6

LEMMA PublishKeepsPubInv ==
  ASSUME PubInv, Publish
  PROVE  PubInv'
<1> USE DEF PubInv, Publish
<1>1. Types' /\ KindsAgree'
  BY DEF Types, KindsAgree, post, upload, atPlatform, result
<1>2. Out'
  BY PostIsKept DEF Out, Result, atPlatform, result
<1>3. Result'
  BY PostIsKept DEF Result, post, result
<1>4. Uploaded'
  <2>1. CASE UploadsFirst /\ files # <<>>
    <3>1. at' = 1 /\ step' = 1 /\ files' = files /\ platform' = platform /\ pc' = "upload"
      BY <2>1 DEF Uploaded, upload, post
    <3>2. Len(files) \in Nat /\ Len(files) >= 1
      BY <2>1 DEF Types
    <3>3. 1 \in 1 .. ChainLength(files[1])
      BY DEF ChainLength
    <3>4. ret' # "ok"
      BY DEF Result, result
    <3> QED BY <3>1, <3>2, <3>3, <3>4 DEF Uploaded, ChainLength, BytesStep
  <2>2. CASE ~(UploadsFirst /\ files # <<>>)
    <3>1. UploadsFirst => files = <<>>
      BY <2>2
    <3>2. pc' = "post" /\ UNCHANGED post
      BY <2>2
    <3> QED BY <3>1, <3>2, PostIsKept DEF Uploaded, post
  <2> QED BY <2>1, <2>2
<1> QED BY <1>1, <1>2, <1>3, <1>4

\* A request of an upload that goes well, or whose failure is not seen.
LEMMA UploadKeepsPubInv ==
  ASSUME PubInv, UploadStep \/ UploadMissed
  PROVE  PubInv'
<1>0. PICK a : a = at
  OBVIOUS
<1>1. /\ pc = "upload" /\ NextUpload
      /\ stored \subseteq stored'
      /\ step = BytesStep => Taken(a)'
  <2>1. CASE UploadStep
    BY <1>0, <2>1 DEF UploadStep, Taken, NextUpload, post
  <2>2. CASE UploadMissed
    BY <1>0, <2>2 DEF UploadMissed, Unchecked, Taken, NextUpload, post
  <2> QED BY <2>1, <2>2
<1>2. UNCHANGED <<post, message, tries, ctx, atPlatform, result>>
  BY <1>1 DEF NextUpload
<1>3. /\ at \in 1 .. Len(files) /\ Len(files) \in Nat
      /\ ChainLength(files[at]) \in {2, 3} /\ step \in 1 .. ChainLength(files[at])
  BY <1>1 DEF PubInv, Types, Uploaded, ChainLength
<1>4. \A k \in Nat : Taken(k) => Taken(k)'
  BY <1>1, <1>2 DEF Taken, post
<1>5. \A k \in 1 .. a - 1 : Taken(k)'
  <2>1. \A k \in 1 .. a - 1 : Taken(k)
    BY <1>0, <1>1 DEF PubInv, Uploaded
  <2> QED BY <2>1, <1>0, <1>3, <1>4
<1>6. step >= BytesStep => Taken(a)'
  <2>1. step > BytesStep => Taken(a)
    BY <1>0, <1>1 DEF PubInv, Uploaded
  <2> QED BY <1>0, <1>1, <1>3, <1>4, <2>1 DEF BytesStep
<1>7. /\ step < ChainLength(files[at]) =>
           step' = step + 1 /\ at' = at /\ pc' = "upload"
      /\ ~(step < ChainLength(files[at])) =>
           /\ step' = 1 /\ at' = at + 1
           /\ pc' = IF at = Len(files) THEN "post" ELSE "upload"
  BY <1>1 DEF NextUpload
<1>8. files' = files /\ platform' = platform /\ ret' = ret
  BY <1>2 DEF post, result
<1>9. Types' /\ KindsAgree'
  BY <1>2, <1>3, <1>7 DEF PubInv, Types, KindsAgree, post, atPlatform, result
<1>10. Out'
  BY <1>1, <1>2, <1>7, PostIsKept DEF PubInv, Out, Result, atPlatform, result
<1>11. Result'
  BY <1>1, <1>2, <1>7, PostIsKept DEF PubInv, Result, post, result
<1>12. Uploaded'
  <2>1. ret' # "ok"
    BY <1>1, <1>8 DEF PubInv, Result
  <2>2. CASE step < ChainLength(files[at])
    <3>1. step' \in 1 .. ChainLength(files[at])
      BY <1>3, <1>7, <2>2
    <3>2. step' > BytesStep => Taken(a)'
      BY <1>3, <1>6, <1>7, <2>2 DEF BytesStep
    <3> QED BY <1>0, <1>3, <1>5, <1>7, <1>8, <2>1, <2>2, <3>1, <3>2 DEF Uploaded, ChainLength, Taken
  <2>3. CASE ~(step < ChainLength(files[at]))
    <3>1. Taken(a)'
      BY <1>3, <1>6, <2>3 DEF BytesStep
    <3>2. \A k \in 1 .. a : Taken(k)'
      BY <1>0, <1>3, <1>5, <3>1
    <3>3. CASE at = Len(files)
      BY <1>0, <1>3, <1>7, <1>8, <2>1, <2>3, <3>2, <3>3 DEF PubInv, Types, Uploaded
    <3>4. CASE at # Len(files)
      <4>1. pc' = "upload" /\ at' = at + 1 /\ step' = 1
        BY <1>7, <2>3, <3>4
      <4>2. at + 1 \in 1 .. Len(files) /\ (at + 1) - 1 = at
        BY <1>3, <3>4
      <4> QED BY <1>0, <1>8, <2>1, <3>2, <4>1, <4>2 DEF Uploaded, ChainLength, BytesStep, Taken
    <3> QED BY <3>3, <3>4
  <2> QED BY <2>2, <2>3
<1> QED BY <1>9, <1>10, <1>11, <1>12 DEF PubInv

LEMMA RequestKeepsPubInv ==
  ASSUME PubInv, Request
  PROVE  PubInv'
<1> USE DEF PubInv, Request
<1>1. Types' /\ KindsAgree'
  BY DEF Types, KindsAgree, post, upload, result
<1>2. Out'
  BY PostIsKept DEF Out, Result, result
<1>3. Result'
  BY PostIsKept DEF Result, post, result
<1>4. Uploaded'
  BY PostIsKept DEF Uploaded, Taken, post, upload, result
<1> QED BY <1>1, <1>2, <1>3, <1>4

\* What the platform does with the request, also when nobody waits for it.
LEMMA PlatformKeepsPubInv ==
  ASSUME PubInv, CarryOut \/ Refuse
  PROVE  PubInv'
<1> USE DEF PubInv
<1>1. /\ UNCHANGED <<post, pc, upload, message, ctx, result>>
      /\ flying = TRUE /\ flying' = FALSE
  BY DEF CarryOut, Refuse, Types
<1>2. PICK m \in Nat : message = m + 1
  BY DEF Out, Types
<1>3. posted = First(m)
  BY <1>1, <1>2 DEF Out
<1>4. posted' \in {First(m), First(m + 1)}
  <2>1. CASE CarryOut
    BY <1>2, <1>3, <2>1, FirstGrows DEF CarryOut
  <2>2. CASE Refuse
    BY <1>3, <2>2 DEF Refuse
  <2> QED BY <2>1, <2>2
<1>5. Types' /\ KindsAgree'
  BY <1>1 DEF Types, KindsAgree, post, upload, result
<1>6. Out'
  <2>1. pc \in {"answer", "ended"} /\ ret # "ok"
    BY <1>1 DEF Out
  <2>2. message - 1 = m
    BY <1>2
  <2> QED BY <1>1, <1>2, <1>4, <2>1, <2>2, PostIsKept DEF Out, result
<1>7. Result'
  BY <1>1, PostIsKept DEF Result, post, result
<1>8. Uploaded'
  <2>1. /\ UploadsFirst' = UploadsFirst /\ files' = files /\ platform' = platform
        /\ at' = at /\ step' = step /\ stored' = stored /\ ret' = ret /\ pc' = pc
    BY <1>1 DEF UploadsFirst, post, upload, result
  <2>2. \A k : Taken(k)' = Taken(k)
    BY <2>1 DEF Taken
  <2> QED BY <2>1, <2>2 DEF Uploaded, ChainLength
<1> QED BY <1>5, <1>6, <1>7, <1>8

\* A refusal, or no request at all, and MAX may wait for another try.
LEMMA FailedKeepsPubInv ==
  ASSUME PubInv, NEW reason, Failed(reason), pc \in {"post", "answer"},
         ~flying, posted = First(message - 1),
         UNCHANGED <<post, upload, message, ctx, atPlatform>>
  PROVE  PubInv'
<1> USE DEF PubInv
<1>1. \/ Fail
      \/ pc' = "wait" /\ UNCHANGED result
  BY DEF Failed
<1>2. CASE Fail
  BY <1>2, FailKeepsPubInv
<1>3. CASE pc' = "wait" /\ UNCHANGED result
  <2>1. Types' /\ KindsAgree'
    BY <1>3 DEF Types, KindsAgree, Failed, post, upload, atPlatform, result
  <2>2. Out'
    BY <1>3, PostIsKept DEF Out, Result, atPlatform, result
  <2>3. Result'
    BY <1>3, PostIsKept DEF Result, post, result
  <2>4. Uploaded'
    BY <1>3, PostIsKept DEF Uploaded, Taken, post, upload, result
  <2> QED BY <2>1, <2>2, <2>3, <2>4
<1> QED BY <1>1, <1>2, <1>3

\* What is out when nothing is on its way.
LEMMA OutOrNot ==
  ASSUME PubInv, ~flying
  PROVE  posted = IF IsOut THEN First(message) ELSE First(message - 1)
<1>1. PICK m \in Nat : message = m + 1 /\ message - 1 = m
  BY DEF PubInv, Out, Types
<1>2. Len(First(m)) = m /\ Len(First(m + 1)) = m + 1
  BY FirstGrows
<1> QED BY <1>1, <1>2 DEF PubInv, Out, IsOut

LEMMA PostFailsKeepsPubInv ==
  ASSUME PubInv, PostFails \/ RefusalArrives
  PROVE  PubInv'
<1>1. CASE PostFails
  <2>1. ~flying /\ posted = First(message - 1)
    BY <1>1 DEF PostFails, PubInv, Out
  <2> QED BY <1>1, <2>1, FailedKeepsPubInv DEF PostFails
<1>2. CASE RefusalArrives
  <2>1. ~flying /\ posted = First(message - 1)
    BY <1>2, OutOrNot DEF RefusalArrives
  <2> QED BY <1>2, <2>1, FailedKeepsPubInv DEF RefusalArrives
<1> QED BY <1>1, <1>2

LEMMA AnsweredKeepsPubInv ==
  ASSUME PubInv, Answered
  PROVE  PubInv'
<1> USE DEF PubInv, Answered
<1>0. ~flying /\ posted = First(message)
  BY OutOrNot DEF IsOut
<1>1. CASE message < Len(Messages)
  <2>1. message' = message + 1 /\ pc' = "post" /\ UNCHANGED result
    BY <1>1
  <2>2. Types' /\ KindsAgree'
    BY <2>1 DEF Types, KindsAgree, post, upload, atPlatform, result
  <2>3. Out'
    <3>1. Len(Messages) \in Nat /\ message \in Nat
      BY SomeMessage DEF Types
    <3>2. (message + 1) - 1 = message
      BY <3>1
    <3> QED BY <1>0, <1>1, <2>1, <3>1, <3>2, PostIsKept DEF Out, Result, atPlatform, result
  <2>4. Result'
    BY <2>1, PostIsKept DEF Result, post, result
  <2>5. Uploaded'
    BY <2>1, PostIsKept DEF Uploaded, Taken, post, upload, result
  <2> QED BY <2>2, <2>3, <2>4, <2>5
<1>2. CASE ~(message < Len(Messages))
  <2>1. PICK ref \in Refs : End("ok", PostURL(ref))
    BY <1>2
  <2>2. message' = message /\ message = Len(Messages)
    BY <1>2, SomeMessage DEF Types, Out
  <2>3. Types' /\ KindsAgree'
    BY <2>1, <2>2 DEF Types, KindsAgree, post, upload, atPlatform, End
  <2>4. Out'
    BY <1>0, <2>1, <2>2, PostIsKept DEF Out, atPlatform, End
  <2>5. Result'
    <3>1. PostURL(ref) # NoUrl =>
            /\ \/ PostURL(ref).message = message
               \/ platform = "vk" /\ PostURL(ref).message = 0
            /\ PostURL(ref).channel \in {"here", target}
      BY <2>1 DEF PostURL, TargetURL, Linked, Refs, TelegramRefs, VKRefs, WebhookRefs
    <3> QED BY <2>1, <2>2, <3>1, PostIsKept DEF Result, post, End
  <2>6. Uploaded'
    BY <2>1, PostIsKept DEF Uploaded, Taken, post, upload, End
  <2> QED BY <2>3, <2>4, <2>5, <2>6
<1> QED BY <1>1, <1>2

\* Not even MAX tries again once an answer is lost.
LEMMA AnswerLostKeepsPubInv ==
  ASSUME PubInv, AnswerLost
  PROVE  PubInv'
<1>1. Fail
  BY DEF AnswerLost, Failed, Retryable
<1> QED BY <1>1, FailKeepsPubInv DEF AnswerLost

LEMMA WaitKeepsPubInv ==
  ASSUME PubInv, Wait
  PROVE  PubInv'
<1> USE DEF PubInv, Wait
<1>1. CASE Fail
  BY <1>1, FailKeepsPubInv
<1>2. CASE pc' = "post" /\ UNCHANGED result
  <2>1. Types' /\ KindsAgree'
    BY <1>2 DEF Types, KindsAgree, post, upload, atPlatform, result
  <2>2. Out'
    BY <1>2, PostIsKept DEF Out, Result, atPlatform, result
  <2>3. Result'
    BY <1>2, PostIsKept DEF Result, post, result
  <2>4. Uploaded'
    BY <1>2, PostIsKept DEF Uploaded, Taken, post, upload, result
  <2> QED BY <2>1, <2>2, <2>3, <2>4
<1> QED BY <1>1, <1>2

\* ContextDies and stuttering.
LEMMA RestKeepsPubInv ==
  ASSUME PubInv, UNCHANGED <<post, pc, upload, message, atPlatform, result>>,
         ctx' \in {"live", "dead"}
  PROVE  PubInv'
<1> USE DEF PubInv
<1>1. Types' /\ KindsAgree'
  BY DEF Types, KindsAgree, post, upload, atPlatform, result
<1>2. Out'
  BY PostIsKept DEF Out, atPlatform, result
<1>3. Result'
  BY PostIsKept DEF Result, post, result
<1>4. Uploaded'
  <2>1. /\ UploadsFirst' = UploadsFirst /\ files' = files /\ platform' = platform
        /\ at' = at /\ step' = step /\ stored' = stored /\ ret' = ret /\ pc' = pc
    BY DEF UploadsFirst, post, upload, result
  <2>2. \A k : Taken(k)' = Taken(k)
    BY <2>1 DEF Taken
  <2> QED BY <2>1, <2>2 DEF Uploaded, ChainLength
<1> QED BY <1>1, <1>2, <1>3, <1>4

LEMMA StepKeepsPubInv ==
  PubInv /\ [Next]_vars => PubInv'
<1> SUFFICES ASSUME PubInv, [Next]_vars PROVE PubInv'
  OBVIOUS
<1>1. ASSUME NEW u \in Uploads, NEW small \in BOOLEAN, Prepare(u, small) PROVE PubInv'
  BY <1>1, PrepareKeepsPubInv
<1>2. CASE PrepareFails
  BY <1>2, FailKeepsPubInv DEF PrepareFails
<1>3. CASE Publish
  BY <1>3, PublishKeepsPubInv
<1>4. CASE UploadStep \/ UploadMissed
  BY <1>4, UploadKeepsPubInv
<1>5. CASE UploadFails
  BY <1>5, FailKeepsPubInv DEF UploadFails
<1>6. CASE Request
  BY <1>6, RequestKeepsPubInv
<1>13. CASE CarryOut \/ Refuse
  BY <1>13, PlatformKeepsPubInv
<1>7. CASE PostFails \/ RefusalArrives
  BY <1>7, PostFailsKeepsPubInv
<1>8. CASE Answered
  BY <1>8, AnsweredKeepsPubInv
<1>9. CASE AnswerLost
  BY <1>9, AnswerLostKeepsPubInv
<1>10. CASE Wait
  BY <1>10, WaitKeepsPubInv
<1>11. CASE ContextDies
  BY <1>11, RestKeepsPubInv DEF ContextDies
<1>12. CASE UNCHANGED vars
  BY <1>12, RestKeepsPubInv DEF vars, PubInv, Types
<1> QED
  BY <1>1, <1>2, <1>3, <1>4, <1>5, <1>6, <1>7, <1>8, <1>9, <1>10, <1>11, <1>12,
     <1>13 DEF Next

LEMMA PubInvHolds ==
  Spec => []PubInv
BY InitHasPubInv, StepKeepsPubInv, PTL DEF Spec

-----------------------------------------------------------------------------
(* What the invariant says about what came out.                            *)

LEMMA PostedIsFirst ==
  ASSUME PubInv
  PROVE  \E n \in 0 .. Len(Messages) : posted = First(n)
<1>1. message - 1 \in 0 .. Len(Messages) /\ message \in 0 .. Len(Messages)
  BY SomeMessage DEF PubInv, Types, Out
<1> QED BY <1>1 DEF PubInv, Out

LEMMA FirstShows ==
  ASSUME PubInv, NEW n \in 0 .. Len(Messages), posted = First(n)
  PROVE  /\ DOMAIN posted = 1 .. n
         /\ PostedFiles = UpTo(IF n = 0 THEN 0 ELSE IF OneEach THEN n ELSE Len(files))
         /\ Texts = IF n = 0 THEN {} ELSE {1}
<1>1. files \in Seq(Kinds) /\ Len(files) \in Nat /\ n \in Nat /\ Len(Messages) \in Nat
  BY SomeMessage DEF PubInv, Types
<1>2. DOMAIN posted = 1 .. n /\ \A k \in 1 .. n : posted[k] = Messages[k]
  BY DEF First
<1>3. Texts = IF n = 0 THEN {} ELSE {1}
  BY <1>1, <1>2, SomeMessage DEF Texts
<1>4. CASE n = 0
  <2>1. posted = <<>>
    BY <1>4, FirstNone
  <2>2. [k \in DOMAIN posted |-> posted[k].files] = <<>>
    BY <2>1
  <2>3. UpTo(0) = <<>>
    BY DEF UpTo
  <2> QED BY <1>2, <1>3, <1>4, <2>2, <2>3, FlattenNone DEF PostedFiles
<1>5. CASE n # 0 /\ OneEach
  <2>1. [k \in DOMAIN posted |-> posted[k].files] = [k \in 1 .. n |-> <<k>>]
    <3>1. Len(Messages) = Len(files)
      BY <1>1, <1>5, ManyMessages
    <3>2. ASSUME NEW k \in 1 .. n PROVE posted[k].files = <<k>>
      <4>1. k \in 1 .. Len(files)
        BY <1>1, <3>1
      <4>2. Messages[k] = [files |-> <<k>>, text |-> k = 1]
        BY <1>1, <1>5, <4>1, ManyMessages
      <4> QED BY <1>2, <4>2
    <3> QED BY <1>2, <3>2
  <2>2. PostedFiles = UpTo(n)
    BY <1>1, <1>5, <2>1, FlattenSingles DEF PostedFiles
  <2> QED BY <1>2, <1>3, <1>5, <2>2
<1>6. CASE n # 0 /\ ~OneEach
  <2>1. n = 1 /\ Messages[1].files = Indices
    <3>1. Len(Messages) = 1 /\ Messages[1] = [files |-> Indices, text |-> TRUE]
      BY <1>1, <1>6, OneMessage
    <3> QED BY <1>1, <1>6, <3>1
  <2>2. [k \in DOMAIN posted |-> posted[k].files] = <<Indices>>
    BY <1>2, <2>1
  <2>3. Indices = UpTo(Len(files))
    BY <1>1 DEF Indices, UpTo
  <2>4. PostedFiles = UpTo(Len(files))
    BY <2>2, <2>3, FlattenOne DEF PostedFiles
  <2> QED BY <1>2, <1>3, <1>6, <2>4
<1> QED BY <1>4, <1>5, <1>6

\* AllOrNothing: without OneEach there is one message, which is out or not.
LEMMA PubInvGivesAllOrNothing ==
  PubInv => AllOrNothing
<1> SUFFICES ASSUME PubInv PROVE AllOrNothing
  OBVIOUS
<1>1. files \in Seq(Kinds)
  BY DEF PubInv, Types
<1>2. PICK n \in 0 .. Len(Messages) : posted = First(n)
  BY PostedIsFirst
<1>3. CASE OneEach
  <2>1. PICK k \in DOMAIN files : files[k] # "photo"
    BY <1>3 DEF OneEach, Album
  <2>2. files[k] \in Range(files)
    BY DEF Range
  <2> QED BY <1>3, <2>1, <2>2 DEF AllOrNothing, OneEach
<1>4. CASE ~OneEach
  <2>1. Len(Messages) = 1 /\ Messages = Together
    BY <1>1, <1>4, OneMessage
  <2>2. n = 0 \/ n = 1
    BY <2>1
  <2>3. First(1) = Together
    BY <2>1 DEF First, Together
  <2> QED BY <1>2, <2>2, <2>3, FirstNone DEF AllOrNothing
<1> QED BY <1>3, <1>4

LEMMA PubInvGivesOkMeansComplete ==
  PubInv => OkMeansComplete
<1> SUFFICES ASSUME PubInv, ret = "ok" PROVE OkMeansComplete
  BY DEF OkMeansComplete
<1>1. files \in Seq(Kinds) /\ Len(files) \in Nat
  BY DEF PubInv, Types
<1>2. PICK n \in 0 .. Len(Messages) : n = Len(Messages) /\ n >= 1
  BY <1>1, SomeMessage
<1>3. posted = First(n)
  BY <1>2 DEF PubInv, Out
<1>4. PostedFiles = UpTo(Len(files)) /\ Texts = {1}
  BY <1>1, <1>2, <1>3, FirstShows, ManyMessages
<1>5. Indices = UpTo(Len(files))
  BY <1>1 DEF Indices, UpTo
<1>6. UploadsFirst => \A k \in DOMAIN files \ stored : platform = "vk" /\ files[k] = "video"
  BY DEF PubInv, Uploaded, Taken
<1> QED BY <1>4, <1>5, <1>6 DEF OkMeansComplete

LEMMA PubInvGivesNeverTwice ==
  PubInv => NeverTwice
<1> SUFFICES ASSUME PubInv PROVE NeverTwice
  OBVIOUS
<1>1. PICK n \in 0 .. Len(Messages) : posted = First(n)
  BY PostedIsFirst
<1>2. PICK m : PostedFiles = UpTo(m)
  BY <1>1, FirstShows
<1>3. \A k, l \in Texts : k = l
  BY <1>1, FirstShows
<1>4. \A k, l \in DOMAIN PostedFiles : PostedFiles[k] = PostedFiles[l] => k = l
  BY <1>2 DEF UpTo
<1> QED BY <1>3, <1>4 DEF NeverTwice

LEMMA PubInvGivesLink ==
  PubInv => LinkLeadsToPost
<1> SUFFICES ASSUME PubInv, url # NoUrl PROVE LinkLeadsToPost
  BY DEF LinkLeadsToPost
<1>1. /\ ret = "ok" /\ posted = First(Len(Messages))
      /\ url.message = Len(Messages) \/ (platform = "vk" /\ url.message = 0)
  BY DEF PubInv, Result, Out
<1>0. url.channel = "here" \/ target = "elsewhere"
  BY DEF PubInv, Types, Result
<1>2. files \in Seq(Kinds)
  BY DEF PubInv, Types
<1>3. PICK n \in 0 .. Len(Messages) : n = Len(Messages) /\ n >= 1 /\ posted = First(n)
  BY <1>1, <1>2, SomeMessage
<1>4. DOMAIN posted = 1 .. n /\ Texts = {1}
  BY <1>3, FirstShows
<1>5. Len(posted) = n
  BY <1>3 DEF First
<1>6. url.message = Len(Messages) =>
        url.message \in Texts \/ (platform = "telegram" /\ Len(posted) > 1)
  BY <1>2, <1>3, <1>4, <1>5, SomeMessage
<1> QED BY <1>0, <1>1, <1>3, <1>4, <1>6 DEF LinkLeadsToPost

-----------------------------------------------------------------------------
(* One send of ChannelSend.                                                *)

LEMMA InitIsChannelInit ==
  Init => Channel!Init
BY DEF Init, Channel!Init

\* The end of a send is its result being told; ok comes after the last message.
LEMMA EndTells ==
  ASSUME PubInv, ret = "none", ret' \in {"ok", "error"}, UNCHANGED <<ctx, atPlatform>>,
         ret' = "ok" => posted # <<>> /\ ~flying
  PROVE  Channel!Next
<1>1. Channel!Tell(1, ret')
  BY DEF Channel!Tell, atPlatform
<1> QED BY <1>1 DEF Channel!Next

\* The rest between a request and a result is nothing to the caller.
LEMMA StutterOfChannel ==
  ASSUME UNCHANGED <<ret, ctx, atPlatform>>
  PROVE  UNCHANGED Channel!vars
BY DEF Channel!vars, atPlatform

LEMMA StepIsChannelStep ==
  PubInv /\ [Next]_vars => [Channel!Next]_(Channel!vars)
<1> SUFFICES ASSUME PubInv, [Next]_vars PROVE Channel!Next \/ UNCHANGED Channel!vars
  OBVIOUS
<1>1. ASSUME Fail, pc # "ended", UNCHANGED <<ctx, atPlatform>> PROVE Channel!Next
  <2>1. ret = "none" /\ ret' = "error"
    BY <1>1 DEF Fail, End, PubInv, Result
  <2> QED BY <1>1, <2>1, EndTells
<1>2. ASSUME NEW u \in Uploads, NEW small \in BOOLEAN, Prepare(u, small)
      PROVE  UNCHANGED Channel!vars
  BY <1>2, StutterOfChannel DEF Prepare, result
<1>3. CASE PrepareFails
  BY <1>1, <1>3 DEF PrepareFails
<1>4. CASE Publish
  BY <1>4, StutterOfChannel DEF Publish, result
<1>5. CASE UploadStep \/ UploadMissed
  BY <1>5, StutterOfChannel DEF UploadStep, UploadMissed, NextUpload, result
<1>6. CASE UploadFails
  BY <1>1, <1>6 DEF UploadFails
<1>7. CASE Request
  <2>1. ret = "none" /\ ret' = ret /\ flying' = TRUE
    BY <1>7 DEF Request, PubInv, Result, result
  <2>2. Channel!Request(1)
    BY <1>7, <2>1 DEF Request, Channel!Request
  <2> QED BY <2>2 DEF Channel!Next
<1>8. CASE CarryOut
  <2>1. posted' # <<>>
    <3>1. PICK m \in Nat : message = m + 1 /\ posted = First(m)
      BY <1>8 DEF CarryOut, PubInv, Out, Types
    <3> QED BY <1>8, <3>1, FirstGrows DEF CarryOut
  <2>2. Channel!ComesOut(1)
    BY <1>8, <2>1 DEF CarryOut, result, Channel!ComesOut
  <2> QED BY <2>2 DEF Channel!Next
<1>9. CASE Refuse
  <2>1. Channel!Refused(1)
    BY <1>9 DEF Refuse, result, Channel!Refused
  <2> QED BY <2>1 DEF Channel!Next
<1>10. CASE PostFails \/ RefusalArrives
  <2>1. Fail \/ UNCHANGED result
    BY <1>10 DEF PostFails, RefusalArrives, Failed
  <2>2. pc # "ended" /\ UNCHANGED <<ctx, atPlatform>>
    BY <1>10 DEF PostFails, RefusalArrives
  <2> QED BY <1>1, <2>1, <2>2, StutterOfChannel DEF result
<1>11. CASE Answered
  <2>1. pc = "answer" /\ IsOut /\ UNCHANGED <<ctx, atPlatform>>
    BY <1>11 DEF Answered
  <2>2. CASE UNCHANGED result
    BY <2>1, <2>2, StutterOfChannel DEF result
  <2>3. CASE \E ref \in Refs : End("ok", PostURL(ref))
    <3>1. ret = "none" /\ ret' = "ok"
      BY <2>1, <2>3 DEF End, PubInv, Result
    <3>2. posted # <<>> /\ ~flying
      <4>1. message \in Nat \ {0} /\ Len(posted) = message /\ ~flying
        BY <2>1 DEF IsOut, PubInv, Out, Types
      <4>2. Len(<<>>) = 0
        OBVIOUS
      <4> QED BY <4>1, <4>2
    <3> QED BY <2>1, <3>1, <3>2, EndTells
  <2> QED BY <1>11, <2>2, <2>3 DEF Answered
<1>12. CASE AnswerLost
  <2>1. Fail
    BY <1>12 DEF AnswerLost, Failed, Retryable
  <2> QED BY <1>1, <1>12, <2>1 DEF AnswerLost
<1>13. CASE Wait
  <2>1. pc # "ended" /\ UNCHANGED <<ctx, atPlatform>> /\ (Fail \/ UNCHANGED result)
    BY <1>13 DEF Wait
  <2> QED BY <1>1, <2>1, StutterOfChannel DEF result
<1>14. CASE ContextDies
  <2>1. Channel!ContextEnds
    BY <1>14 DEF ContextDies, Channel!ContextEnds, result, atPlatform
  <2> QED BY <2>1 DEF Channel!Next
<1>15. CASE UNCHANGED vars
  BY <1>15, StutterOfChannel DEF vars, result
<1> QED
  BY <1>2, <1>3, <1>4, <1>5, <1>6, <1>7, <1>8, <1>9, <1>10, <1>11, <1>12, <1>13,
     <1>14, <1>15 DEF Next

-----------------------------------------------------------------------------
(* The theorems.                                                           *)

\* For posts of any number of files: when Dispatcher.Send returns ok, the
\* channel shows every file once and in order, the text once and with the
\* first of them, and what the message refers to was uploaded, but for a
\* video of VK.
THEOREM OkSendsAreComplete ==
  Spec => []OkMeansComplete
BY PubInvHolds, PubInvGivesOkMeansComplete, PTL

\* However often MAX is tried and wherever an answer is lost, no file and no
\* text comes out twice.
THEOREM NothingComesOutTwice ==
  Spec => []NeverTwice
BY PubInvHolds, PubInvGivesNeverTwice, PTL

\* A send that is over has shown the whole post or nothing of it, but for
\* several files on Telegram that are not photos only.
THEOREM SendsAreAllOrNothing ==
  Spec => []AllOrNothing
BY PubInvHolds, PubInvGivesAllOrNothing, PTL

\* Through upload, conversion and the publishers' lists of extensions a file
\* stays what the page took it for.
THEOREM FilesStayWhatTheyAre ==
  Spec => []KindsAgree
<1>1. PubInv => KindsAgree
  BY DEF PubInv
<1> QED BY <1>1, PubInvHolds, PTL

\* The link the history keeps names a message of the post that is out, in the
\* channel unless the target id is of another one, but for a post of VK whose
\* answer had no post_id.
THEOREM LinksLeadToPosts ==
  Spec => []LinkLeadsToPost
BY PubInvHolds, PubInvGivesLink, PTL

\* Whatever requests a platform takes and whenever it carries them out, executeSend
\* sees a send of ChannelSend: no request leaves after the result or on a dead
\* context, and after ok the post is out and nothing on its way.
THEOREM PublishersImplementChannelSend ==
  Spec => ImplementsChannelSend
<1>1. Spec => Channel!Init /\ [][Channel!Next]_(Channel!vars)
  BY InitIsChannelInit, StepIsChannelStep, PubInvHolds, PTL DEF Spec
<1> QED BY <1>1 DEF ImplementsChannelSend, Channel!Spec
=============================================================================
