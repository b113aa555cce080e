----------------------------- MODULE Publishers -----------------------------
(***************************************************************************)
(* One Dispatcher.Send (internal/publish/publish.go) down to the requests  *)
(* of the platforms' publishers (internal/publish/{telegram,discord,lolka, *)
(* max,vk}).  SendJob takes from here that ok means the post is out, and   *)
(* that an error may hide a message.                                       *)
(*                                                                         *)
(* Telegram, Discord and Lolka get the files with the message; Telegram    *)
(* gets several files as a message each unless all are photos.  MAX and VK *)
(* get every file first, in a chain of requests, then one message that     *)
(* refers to them.  What the platforms do with a request for a message is  *)
(* external: once it has left they carry it out or refuse it when they     *)
(* like, also after Send has returned or its context has died, and the     *)
(* answer arrives or does not.                                             *)
(* From the answer to the last message comes the link the history shows.   *)
(***************************************************************************)
EXTENDS Naturals, Sequences, SequencesExt, MediaKind

CONSTANTS
  MaxFiles,  (* bound: media items of a post                                 *)
  MaxTries   (* attempts of MAX: 5                                           *)

ASSUME PublishersAssumption == MaxFiles \in Nat /\ MaxTries \in Nat \ {0}

VARIABLES
  platform,
  target,   (* where the channel's target id leads, see Targets              *)
  files,    (* kinds of the media, as guessed from the prepared names        *)
  kinds,    (* their kinds as the uploads were given them                    *)
  pc,       (* "prepare", "upload", "post", "answer", "wait", "ended"        *)
  at,       (* index of the file being uploaded                              *)
  step,     (* request of its chain                                          *)
  stored,   (* files whose bytes a platform took in an upload                *)
  message,  (* index of the message being sent                               *)
  tries,    (* attempts made and refused                                     *)
  ctx,      (* "live" or "dead"                                              *)
  flying,   (* whether the platform has a request for a message before it    *)
  posted,   (* the messages that came out                                    *)
  ret,      (* what Send returns: "none" as yet, "ok" or "error"             *)
  url       (* its PostURL: the message it leads to and where, NoUrl         *)

post == <<platform, target, files, kinds>>
result == <<ret, url>>
upload == <<at, step, stored>>
atPlatform == <<flying, posted>>
vars == <<post, pc, upload, message, tries, ctx, atPlatform, result>>

Platforms == {"telegram", "discord", "lolka", "max", "vk"}
\* Where a link made from the target id leads.  Discord and Lolka send to the
\* webhook; the target id is a link to a message of, one hopes, its channel.
\* Telegram, MAX and VK send to the target id; the link of Telegram, t.me/c/<id>,
\* is of the channel for "@name" and "-100<id>", and of another chat or none for
\* a basic group ("-<id>") or a private chat ("<id>").
Targets == IF platform \in {"telegram", "discord", "lolka"}
           THEN {"here", "elsewhere"} ELSE {"here"}
NoUrl == [message |-> 0, channel |-> "none"]
UploadsFirst == platform \in {"max", "vk"}
Indices == [k \in DOMAIN files |-> k]

-----------------------------------------------------------------------------
(* What a post becomes.                                                    *)

Together == <<[files |-> Indices, text |-> TRUE]>>
\* The first file carries the text as its caption.
OneByOne == [k \in DOMAIN files |-> [files |-> <<k>>, text |-> k = 1]]
Album == \A k \in DOMAIN files : files[k] = "photo"

MessagesWithoutAlbum ==
  IF platform = "telegram" /\ Len(files) > 1 THEN OneByOne ELSE Together
MessagesCaptionedAll ==
  IF platform = "telegram" /\ Len(files) > 1 /\ ~Album
  THEN [k \in DOMAIN files |-> [files |-> <<k>>, text |-> TRUE]] ELSE Together
Messages ==
  IF platform = "telegram" /\ Len(files) > 1 /\ ~Album THEN OneByOne ELSE Together

\* MAX: open an upload, send the bytes.  VK: ask for a server or for a video,
\* send the bytes, and save all but videos.
ChainLength(kind) == IF platform = "vk" /\ kind # "video" THEN 3 ELSE 2
BytesStep == 2

\* uploadVideo does not look at the answer to its bytes.
Unchecked == platform = "vk" /\ files[at] = "video"

RetryAll(reason) == platform = "max"
\* MAX: attachment.not.ready, not.processed.
Retryable(reason) == platform = "max" /\ reason = "not_ready"

TriesLeft == tries + 1 < MaxTries

-----------------------------------------------------------------------------
(* What the publisher returns for the last message, and the link.          *)

\* "ok": the answer has no id, "id", or "url": the webhook's answer names the
\* channel too, which makes a link.
WebhookRefs == {"id", "ok", "url"}
\* The messages of an album have no single id.
TelegramRefs == IF Len(Messages[message].files) > 1 THEN {"ok"} ELSE {"id", "ok"}
\* VK formats the post_id of the answer as it is: "0" if there is none.
VKRefs == {"id", "zero"}
Refs ==
  CASE platform = "telegram" -> TelegramRefs
    [] platform = "vk" -> VKRefs
    [] platform = "max" -> {"id", "ok"}
    [] OTHER -> WebhookRefs

\* The message of the id, 0 for none.
Linked(ref) == IF ref \in {"ok", "zero"} THEN 0 ELSE message

UrlOfAnyRef(ref) == [message |-> Linked(ref), channel |-> target]
\* telegramURL, vkURL, discordURL, lolkaURL: the id with the ids of the target.
TargetURL(ref) == [message |-> Linked(ref), channel |-> target]
\* BuildPostURL: MAX has no public links.
PostURL(ref) ==
  CASE ref = "ok" \/ platform = "max" -> NoUrl
    [] ref = "url" -> [message |-> message, channel |-> "here"]
    [] OTHER -> TargetURL(ref)

-----------------------------------------------------------------------------
Init ==
  /\ platform \in Platforms
  /\ target \in Targets
  /\ files = <<>>
  /\ kinds = <<>>
  /\ pc = "prepare"
  /\ at = 1
  /\ step = 1
  /\ stored = {}
  /\ message = 1
  /\ tries = 0
  /\ ctx = "live"
  /\ flying = FALSE
  /\ posted = <<>>
  /\ ret = "none"
  /\ url = NoUrl

End(outcome, link) == pc' = "ended" /\ ret' = outcome /\ url' = link
Fail == End("error", NoUrl)

\* Discord and Lolka pass a file on with its name.
TakenFor(u, small) ==
  IF platform \in {"discord", "lolka"} THEN UploadKind(u)
  ELSE guessKind(platform, PreparedExt(u, small))

\* The Prepare function of the next media item gives its file.
Prepare(u, small) ==
  /\ pc = "prepare"
  /\ Len(files) < MaxFiles
  /\ files' = Append(files, TakenFor(u, small))
  /\ kinds' = Append(kinds, UploadKind(u))
  /\ UNCHANGED <<platform, target, pc, upload, message, tries, ctx, atPlatform, result>>

PrepareFails ==
  /\ pc = "prepare"
  /\ Fail
  /\ UNCHANGED <<post, upload, message, tries, ctx, atPlatform>>

\* All are prepared: Publish is called.
Publish ==
  /\ pc = "prepare"
  /\ pc' = IF UploadsFirst /\ files # <<>> THEN "upload" ELSE "post"
  /\ UNCHANGED <<post, upload, message, tries, ctx, atPlatform, result>>

\* On to the next request of the chain, the next file or the message.
NextUpload ==
  /\ IF step < ChainLength(files[at])
     THEN step' = step + 1 /\ UNCHANGED <<at, pc>>
     ELSE /\ step' = 1
          /\ at' = at + 1
          /\ pc' = IF at = Len(files) THEN "post" ELSE "upload"
  /\ UNCHANGED <<post, message, tries, ctx, atPlatform, result>>

UploadStep ==
  /\ pc = "upload"
  /\ ctx = "live"
  /\ stored' = IF step = BytesStep THEN stored \cup {at} ELSE stored
  /\ NextUpload

\* The bytes are refused and nobody notices.
UploadMissed ==
  /\ pc = "upload"
  /\ ctx = "live"
  /\ step = BytesStep
  /\ Unchecked
  /\ UNCHANGED stored
  /\ NextUpload

UploadFails ==
  /\ pc = "upload"
  /\ Fail
  /\ UNCHANGED <<post, upload, message, tries, ctx, atPlatform>>

\* The request for a message leaves: net/http begins none on a dead context.
Request ==
  /\ pc = "post"
  /\ ctx = "live"
  /\ flying' = TRUE
  /\ pc' = "answer"
  /\ UNCHANGED <<post, upload, message, tries, ctx, posted, result>>

\* The platform posts the message: before the answer, or when nobody waits.
CarryOut ==
  /\ flying
  /\ flying' = FALSE
  /\ posted' = Append(posted, Messages[message])
  /\ UNCHANGED <<post, pc, upload, message, tries, ctx, result>>

\* It does not, or the request never gets there.
Refuse ==
  /\ flying
  /\ flying' = FALSE
  /\ UNCHANGED <<post, pc, upload, message, tries, ctx, posted, result>>

\* lastErr shadowed in the loop.
FailedUnlessGivingUp(reason) ==
  IF Retryable(reason)
  THEN IF TriesLeft THEN pc' = "wait" /\ tries' = tries + 1 /\ UNCHANGED result
                    ELSE End("ok", NoUrl) /\ UNCHANGED tries
  ELSE Fail /\ UNCHANGED tries
Failed(reason) ==
  IF Retryable(reason) /\ TriesLeft
  THEN pc' = "wait" /\ tries' = tries + 1 /\ UNCHANGED result
  ELSE Fail /\ UNCHANGED tries

\* The request is never made: the file cannot be read, the context is dead.
PostFails ==
  /\ pc = "post"
  /\ Failed("other")
  /\ UNCHANGED <<post, upload, message, ctx, atPlatform>>

\* Of the messages that came out, the last is the one the publisher waits for.
IsOut == ~flying /\ Len(posted) = message

RefusalArrives ==
  /\ pc = "answer"
  /\ ~flying /\ ~IsOut
  /\ \E reason \in {"not_ready", "other"} : Failed(reason)
  /\ UNCHANGED <<post, upload, message, ctx, atPlatform>>

Answered ==
  /\ pc = "answer"
  /\ IsOut
  /\ IF message < Len(Messages)
     THEN message' = message + 1 /\ pc' = "post" /\ UNCHANGED result
     ELSE (\E ref \in Refs : End("ok", PostURL(ref))) /\ UNCHANGED message
  /\ UNCHANGED <<post, upload, tries, ctx, atPlatform>>

\* Timeout, dead context, broken connection, an answer nobody can read: whatever
\* becomes of the request.
AnswerLost ==
  /\ pc = "answer"
  /\ Failed("other")
  /\ UNCHANGED <<post, upload, message, ctx, atPlatform>>

\* MAX waits longer each time, 1 s to 8 s, unless the context dies first.
Wait ==
  /\ pc = "wait"
  /\ IF ctx = "dead" THEN Fail ELSE pc' = "post" /\ UNCHANGED result
  /\ UNCHANGED <<post, upload, message, tries, ctx, atPlatform>>

ContextDies ==
  /\ pc # "ended"
  /\ ctx = "live"
  /\ ctx' = "dead"
  /\ UNCHANGED <<post, pc, upload, message, tries, atPlatform, result>>

Next ==
  \/ \E u \in Uploads, small \in BOOLEAN : Prepare(u, small)
  \/ PrepareFails
  \/ Publish
  \/ UploadStep
  \/ UploadMissed
  \/ UploadFails
  \/ Request
  \/ CarryOut
  \/ Refuse
  \/ PostFails
  \/ RefusalArrives
  \/ Answered
  \/ AnswerLost
  \/ Wait
  \/ ContextDies

Spec == Init /\ [][Next]_vars

-----------------------------------------------------------------------------
PostedFiles == FlattenSeq([k \in DOMAIN posted |-> posted[k].files])
Texts == {k \in DOMAIN posted : posted[k].text}

\* Send returns ok only when the channel shows every file once, in the order
\* of the post, and the text once, with the first of them, and every file a
\* message of MAX or VK refers to was taken in its upload, but for VK's videos.
OkMeansComplete ==
  ret = "ok" =>
    /\ PostedFiles = Indices /\ Texts = {1}
    /\ UploadsFirst => \A k \in DOMAIN files \ stored : platform = "vk" /\ files[k] = "video"

\* No file and no text comes out twice, though MAX is tried several times and
\* an answer may be lost on any attempt.
NeverTwice ==
  (\A k, l \in DOMAIN PostedFiles : PostedFiles[k] = PostedFiles[l] => k = l)
  /\ (\A k, l \in Texts : k = l)

\* Whatever fails, what came out is all of the post or none of it, except for
\* several files on Telegram that are not photos only.
AllOrNothing ==
  pc = "ended" =>
    \/ posted \in {<<>>, Together}
    \/ platform = "telegram" /\ Len(files) > 1 /\ Range(files) # {"photo"}

\* What the page took a file for when it was uploaded, by name and content
\* type, is what the publisher takes it for by the extension it has after the
\* preparation, for every type browsers give: a video is not posted as a photo.
KindsAgree == files = kinds

\* The history has a link only for a send that was told ok, and the link names a
\* message of the post that is out, the one with the text unless Telegram got the
\* files one by one.  Two cases are left out, in which the code's link leads
\* nowhere or astray: VK's answer had no post_id (vk.go:107), and the target id
\* is of another channel than the post (links.go:59-65 for Telegram, a wrong
\* sample link for Discord and Lolka).
LinkLeadsToPost ==
  url # NoUrl =>
    /\ ret = "ok"
    /\ url.channel = "here" \/ target = "elsewhere"
    /\ \/ /\ url.message \in DOMAIN posted
          /\ url.message \in Texts \/ (platform = "telegram" /\ Len(posted) > 1)
       \/ platform = "vk" /\ url.message = 0

\* What SendJob takes from a send.
Channel == INSTANCE ChannelSend WITH
  Sends <- {1},
  live <- IF ctx = "live" THEN {1} ELSE {},
  flying <- IF flying THEN {1} ELSE {},
  out <- IF posted = <<>> THEN {} ELSE {1},
  told <- [s \in {1} |-> ret]

\* However many requests a platform takes, the caller sees one send: no request
\* for a message leaves after the result or on a dead context, and ok is told only
\* of what is out when nothing is on its way any more; after an error a message
\* may still come out.
ImplementsChannelSend == Channel!Spec
=============================================================================
