----------------------------- MODULE MediaKind -----------------------------
(***************************************************************************)
(* What a media file is taken for on its way: apiUpload decides once       *)
(* (internal/httpserver/server.go), keeps the decision and the name it     *)
(* gives the file; media.go chooses whether to convert it and so its next  *)
(* extension; each publisher goes by a list of extensions of its own.      *)
(*                                                                         *)
(* An upload is [ext, type, sub]: the extension of its file name in lower  *)
(* case and its Content-Type type/sub, both empty without one.             *)
(***************************************************************************)

\* Content types as browsers give them to files with these extensions, and
\* the same files without a content type.
Labelled ==
  {<<"jpg", "image", "jpeg">>, <<"jpeg", "image", "jpeg">>, <<"png", "image", "png">>,
   <<"heic", "image", "heic">>, <<"mp4", "video", "mp4">>, <<"m4v", "video", "mp4">>,
   <<"m4v", "video", "x-m4v">>, <<"mov", "video", "quicktime">>,
   <<"mkv", "video", "x-matroska">>, <<"webm", "video", "webm">>,
   <<"avi", "video", "x-msvideo">>, <<"ogg", "video", "ogg">>,
   <<"mp3", "audio", "mpeg">>, <<"m4a", "audio", "mp4">>, <<"m4a", "audio", "x-m4a">>,
   <<"aac", "audio", "aac">>, <<"ogg", "audio", "ogg">>, <<"oga", "audio", "ogg">>,
   <<"opus", "audio", "ogg">>, <<"wav", "audio", "wav">>, <<"flac", "audio", "flac">>,
   <<"wma", "audio", "x-ms-wma">>, <<"webm", "audio", "webm">>, <<"mp4", "audio", "mp4">>,
   <<"pdf", "application", "pdf">>}
Uploads ==
  {[ext |-> l[1], type |-> l[2], sub |-> l[3]] : l \in Labelled} \cup
  {[ext |-> l[1], type |-> "", sub |-> ""] : l \in Labelled}

-----------------------------------------------------------------------------
(* apiUpload.                                                              *)

KnownExts ==
  {"jpg", "png", "gif", "webp", "mp4", "mov", "mkv", "webm", "avi",
   "mp3", "ogg", "flac", "wav", "m4a", "aac"}

ImageExt(sub) == IF sub \in {"png", "webp", "gif"} THEN sub ELSE "jpg"

safeUploadExt(u) ==
  IF u.ext \in KnownExts THEN u.ext
  ELSE IF u.ext = "jpeg" THEN "jpg"
  ELSE CASE u.type = "image" -> ImageExt(u.sub)
         [] u.type = "video" -> "mp4"
         [] u.type = "audio" -> "mp3"
         [] OTHER -> u.ext

isVideoExt == {"mp4", "mov", "mkv", "webm", "avi"}
IsAudioExt == {"mp3", "m4a", "aac", "ogg", "oga", "opus", "wav", "flac", "wma"}

\* The kind that is kept with the upload; what is neither counts as a photo.
UploadKind(u) ==
  IF u.type = "video" \/ safeUploadExt(u) \in isVideoExt THEN "video"
  ELSE IF u.type = "audio" \/ safeUploadExt(u) \in IsAudioExt THEN "audio"
  ELSE "photo"

-----------------------------------------------------------------------------
(* media.go: by the name and the content type the upload came with.        *)

looksCompatibleVideo(u) == u.sub = "mp4" \/ u.ext \in {"mp4", "mov"}
looksCompatibleAudio(u) ==
  IF u.type = "audio" THEN u.sub \in {"mpeg", "mp4", "x-m4a", "aac"}
                      ELSE u.ext \in {"mp3", "m4a", "aac"}

\* small: the file is within the platform's limit.
PreparePhoto(u) == "jpg"
PrepareVideo(u, small) ==
  IF small /\ looksCompatibleVideo(u) THEN safeUploadExt(u) ELSE "mp4"
PrepareAudio(u, small) ==
  IF small /\ looksCompatibleAudio(u) THEN safeUploadExt(u) ELSE "mp3"

\* The extension of what Dispatcher.Send hands to the publisher.
PreparedExt(u, small) ==
  CASE UploadKind(u) = "photo" -> PreparePhoto(u)
    [] UploadKind(u) = "video" -> PrepareVideo(u, small)
    [] UploadKind(u) = "audio" -> PrepareAudio(u, small)

-----------------------------------------------------------------------------
(* The publishers.                                                         *)

VideosWithoutMov(platform) == {"mp4", "mkv", "webm"}
VideoExts(platform) ==
  {"mp4", "mov", "webm"} \cup (IF platform = "vk" THEN {} ELSE {"mkv"})
AudioExts(platform) == IsAudioExt \ (IF platform = "vk" THEN {} ELSE {"wma"})

\* guessKind of Telegram, upload of MAX, the loop over prepared of VK.
guessKind(platform, ext) ==
  IF ext \in VideoExts(platform) THEN "video"
  ELSE IF ext \in AudioExts(platform) THEN "audio"
  ELSE "photo"
=============================================================================
