------------------------------ MODULE Truncate ------------------------------
(***************************************************************************)
(* TruncateCanonical (internal/format/limits.go): cutting marked-up text   *)
(* to the limit of Telegram, one iteration of the loop of                  *)
(* truncateCanonicalKeepTags per step.                                     *)
(*                                                                         *)
(* A text is a sequence of units: characters and whole tags.  "x" stands   *)
(* for any character of one UTF-16 unit, "W" for one of two; "&", "l", "t" *)
(* and ";" only occur as the entity of that spelling; a bare "<" or ">" is *)
(* what a user may type.  <a href="..."> behaves like the other tags.      *)
(*                                                                         *)
(* FitDiscord and FitLolka cut the Markdown they made with TruncateUTF16,  *)
(* which is the same loop over text without tags: plain.                   *)
(***************************************************************************)
EXTENDS Integers, Sequences, SequencesExt

CONSTANTS
  MaxWords,  (* bound: words of a text *)
  Limits     (* the limits to cut to   *)

ASSUME TruncateAssumption == MaxWords \in Nat /\ Limits \subseteq Nat \ {0}

VARIABLES
  text,   (* canonical                                                       *)
  plain,  (* TruncateUTF16 was called                                        *)
  max,
  i,      (* index of the next unit of text                                  *)
  out,    (* the text built                                                  *)
  stack,  (* names of the open tags                                          *)
  n,      (* units counted against the limit                                 *)
  cut,    (* the second result                                               *)
  pc      (* "text", "called", "scan", "returned"                            *)

input == <<text, plain, max>>
vars == <<input, i, out, stack, n, cut, pc>>

Ellipsis == "..."
OpenTags == {"<b>", "<i>"}
CloseTag(t) == IF t = "<b>" THEN "</b>" ELSE "</i>"
CloseTags == {CloseTag(t) : t \in OpenTags}
Tags == OpenTags \cup CloseTags
EndsInBracket == Tags \cup {">"}

Words == {<<"x">>, <<"W">>, <<"&", "l", "t", ";">>, <<"<">>, <<">">>}
         \cup {<<t>> : t \in Tags}
PlainWords == {<<"x">>, <<"W">>}

\* utf16.RuneLen
Width(u) == IF u = "W" THEN 2 ELSE 1

-----------------------------------------------------------------------------
(* VisibleUTF16Len: tags removed, then html.UnescapeString, which needs no  *)
(* semicolon after lt.                                                     *)

Visible(s) ==
  LET kept[k \in 0 .. Len(s)] ==
        IF k = 0 THEN <<>>
        ELSE IF s[k] \in Tags THEN kept[k - 1] ELSE Append(kept[k - 1], s[k])
  IN  kept[Len(s)]

OccursAt(p, s, k) == k + Len(p) - 1 <= Len(s) /\ SubSeq(s, k, k + Len(p) - 1) = p

LengthWhere(s, k) ==
  CASE OccursAt(<<"&", "l", "t", ";">>, s, k) -> -3
    [] OccursAt(<<"&", "l", "t">>, s, k) -> -2
    [] OTHER -> 0

VisibleLen(s) ==
  LET v == Visible(s)
      sum[k \in 0 .. Len(v)] ==
        IF k = 0 THEN 0 ELSE sum[k - 1] + Width(v[k]) + LengthWhere(v, k)
  IN  sum[Len(v)]

-----------------------------------------------------------------------------
Init ==
  /\ text = <<>>
  /\ plain \in BOOLEAN
  /\ max \in Limits
  /\ i = 1
  /\ out = <<>>
  /\ stack = <<>>
  /\ n = 0
  /\ cut = FALSE
  /\ pc = "text"

\* The user writes a text; each sequence of words is one.
Write(w) ==
  /\ pc = "text"
  /\ n < MaxWords
  /\ plain => w \in PlainWords
  /\ n' = n + 1
  /\ text' = text \o w
  /\ UNCHANGED <<plain, max, i, out, stack, cut, pc>>

Call ==
  /\ pc = "text"
  /\ n' = 0
  /\ pc' = "called"
  /\ UNCHANGED <<input, i, out, stack, cut>>

Whole ==
  /\ pc = "called"
  /\ VisibleLen(text) <= max
  /\ out' = text
  /\ pc' = "returned"
  /\ UNCHANGED <<input, i, stack, n, cut>>

\* if max == 1
OnlyEllipsis ==
  /\ pc = "called"
  /\ plain /\ max = 1 /\ VisibleLen(text) > max
  /\ out' = <<Ellipsis>>
  /\ cut' = TRUE
  /\ pc' = "returned"
  /\ UNCHANGED <<input, i, stack, n>>

Enter ==
  /\ pc = "called"
  /\ ~(plain /\ max = 1)
  /\ VisibleLen(text) > max
  /\ cut' = TRUE
  /\ pc' = "scan"
  /\ UNCHANGED <<input, i, out, stack, n>>

Scanning == pc = "scan" /\ i <= Len(text)

\* name closes the innermost of the open tags.
Closes(name, open) ==
  open # <<>> /\ Last(open) \in OpenTags /\ CloseTag(Last(open)) = name

\* A closing tag that does not match the innermost open one closes nothing.
Pop(name) == IF Closes(name, stack) THEN Front(stack) ELSE stack

\* The bytes of a tag are kept, so that no link is silently dropped.
TagBytes(k) == SubSeq(text, i, k)

\* Tags are copied and not counted.
ScanTag ==
  /\ Scanning
  /\ text[i] \in Tags
  /\ out' = out \o TagBytes(i)
  /\ stack' = IF text[i] \in OpenTags THEN Append(stack, text[i]) ELSE Pop(text[i])
  /\ i' = i + 1
  /\ UNCHANGED <<input, n, cut, pc>>

Closing(k) == k \in i + 1 .. Len(text) /\ text[k] \in EndsInBracket

\* Everything from a bare "<" to the next ">" is taken for a tag.
ScanBracket(k) ==
  /\ Scanning
  /\ text[i] = "<"
  /\ Closing(k)
  /\ \A m \in i + 1 .. k - 1 : ~Closing(m)
  /\ out' = out \o TagBytes(k)
  /\ i' = k + 1
  /\ UNCHANGED <<input, stack, n, cut, pc>>

\* break: the rest is lost, without an ellipsis.
ScanUnclosed ==
  /\ Scanning
  /\ text[i] = "<"
  /\ \A k \in i + 1 .. Len(text) : ~Closing(k)
  /\ pc' = "returned"
  /\ UNCHANGED <<input, i, out, stack, n, cut>>

IsCharacter == Scanning /\ text[i] \notin Tags \cup {"<"}

RoomToTheLimit(u) == n + Width(u) <= max
\* limit := max - 1, for the ellipsis.
Room(u) == n + Width(u) <= max - 1

ScanCharacter ==
  /\ IsCharacter
  /\ Room(text[i])
  /\ out' = Append(out, text[i])
  /\ n' = n + Width(text[i])
  /\ i' = i + 1
  /\ UNCHANGED <<input, stack, cut, pc>>

ClosersInOrder == [k \in DOMAIN stack |-> CloseTag(stack[k])]
\* The open tags are closed from the innermost outwards.
Closers == Reverse([k \in DOMAIN stack |-> CloseTag(stack[k])])

Cut ==
  /\ IsCharacter
  /\ ~Room(text[i])
  /\ out' = Append(out, Ellipsis) \o Closers
  /\ pc' = "returned"
  /\ UNCHANGED <<input, i, stack, n, cut>>

RunOut ==
  /\ pc = "scan"
  /\ i > Len(text)
  /\ pc' = "returned"
  /\ UNCHANGED <<input, i, out, stack, n, cut>>

Next ==
  \/ \E w \in Words : Write(w)
  \/ Call
  \/ Whole
  \/ OnlyEllipsis
  \/ Enter
  \/ ScanTag
  \/ \E k \in DOMAIN text : ScanBracket(k)
  \/ ScanUnclosed
  \/ ScanCharacter
  \/ Cut
  \/ RunOut

Spec == Init /\ [][Next]_vars

-----------------------------------------------------------------------------
(* Properties.                                                             *)

NoBareBracket == ~Contains(text, "<")

\* The stack of open tags after one more unit; one that closes nothing marks it.
Nest(open, u) ==
  CASE u \notin Tags -> open
    [] u \in OpenTags -> Append(open, u)
    [] Closes(u, open) -> Front(open)
    [] OTHER -> Append(open, "?")

Nesting(s) ==
  LET after[k \in 0 .. Len(s)] ==
        IF k = 0 THEN <<>> ELSE Nest(after[k - 1], s[k])
  IN  after[Len(s)]
ClosersMatch(s) == ~Contains(Nesting(s), "?")

\* The visible text of the result fits the limit, ellipsis included, whatever
\* tags and entities the text has, also where an entity is cut in two.
FitsWithoutBrackets ==
  pc = "returned" /\ NoBareBracket => VisibleLen(out) <= max

\* A cut text is well nested, if no tag of the text closes another one.
CutIsBalanced ==
  pc = "returned" /\ cut /\ NoBareBracket /\ ClosersMatch(text) =>
    Nesting(out) = <<>>
=============================================================================
