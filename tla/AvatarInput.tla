--------------------------- MODULE AvatarInput ---------------------------
(***************************************************************************)
(* What an avatar upload is made of and which uploads are accepted:          *)
(* readAvatarUpload, part by part, with the limits it gives the multipart     *)
(* parser, then SharpAvatarImageProcessor.process.  Avatars takes it from     *)
(* there, with "accepted" or with a refusal.                                 *)
(*                                                                         *)
(* Of a file the model keeps its field, its size, the format its media type   *)
(* declares, the format of its leading bytes, and whether sharp decodes it.   *)
(***************************************************************************)
EXTENDS Naturals, Sequences, FiniteSets

CONSTANTS
  Files,             \* the files a client may send
  MaxFields,         \* MAX_IGNORED_FIELDS
  MaxFileSize,       \* AVATAR_MAX_FILE_SIZE
  MaxParts           \* bound: parts of a body

Formats == {"jpeg", "png", "webp"}

\* A media type that AVATAR_MIME_TO_FORMAT does not have declares "other"; so do
\* leading bytes that are no signature.
File == [type : {"file"}, field : {"file", "photo"}, size : Nat, declared : Formats \cup {"other"},
         actual : Formats \cup {"other"}, decodable : BOOLEAN]

Field == [type |-> "field"]     \* its name and value are ignored
BrokenPart == [type |-> "broken"]   \* malformed from here on, or the client leaves
OtherBody == [type |-> "other"]     \* a request that is not multipart/form-data

ASSUME AvatarInputAssumption ==
  /\ Files \subseteq File
  /\ MaxFields \in Nat /\ MaxFileSize \in Nat \ {0} /\ MaxParts \in Nat

Parts == Files \cup {Field, BrokenPart, OtherBody}

VARIABLES
  body,    \* the parts the client has sent
  stage,
  upload,  \* the file that was read: none or one
  answer   \* 0, a status, or Accepted

Accepted == 200

inputVars == <<body, stage, upload, answer>>

InputInit ==
  /\ body = <<>>
  /\ stage = "called"
  /\ upload = <<>>
  /\ answer = 0

Refuse(status) == answer' = status /\ stage' = "done"

---------------------------------------------------------------------------
(* readAvatarUpload                                                         *)

FileCount(parts) == Cardinality({i \in 1..Len(parts) : parts[i].type = "file"})
FieldCount(parts) == Cardinality({i \in 1..Len(parts) : parts[i].type = "field"})

IsMultipart ==
  /\ stage = "called"
  /\ \/ stage' = "reading" /\ UNCHANGED <<body, answer>>
     \/ Refuse(415) /\ body' = <<OtherBody>>
  /\ UNCHANGED upload

\* Faulty: the limit of all parts is the one of the fields.
OverLimitByParts(parts) ==
  FileCount(parts) > 1 \/ FieldCount(parts) > MaxFields \/ Len(parts) > MaxFields

\* FST_FILES_LIMIT, FST_FIELDS_LIMIT, FST_PARTS_LIMIT
OverLimit(parts) ==
  FileCount(parts) > 1 \/ FieldCount(parts) > MaxFields \/ Len(parts) > MaxFields + 1

\* Faulty: one byte more is let through.
IsTooLargeLoose(f) == f.size > MaxFileSize + 1

IsTooLarge(f) == f.size > MaxFileSize

ReadPart ==
  /\ stage = "reading" /\ Len(body) < MaxParts
  /\ \E part \in Files \cup {Field} :
       LET parts == Append(body, part)
       IN  /\ body' = parts
           /\ IF OverLimit(parts) THEN Refuse(400) /\ UNCHANGED upload
              ELSE IF part = Field THEN UNCHANGED <<stage, upload, answer>>
              ELSE IF part.field # "file" THEN Refuse(400) /\ UNCHANGED upload
              ELSE IF IsTooLarge(part) THEN Refuse(413) /\ UNCHANGED upload
              ELSE upload' = <<part>> /\ UNCHANGED <<stage, answer>>

BreakOff ==
  /\ stage = "reading"
  /\ body' = Append(body, BrokenPart)
  /\ Refuse(400)
  /\ UNCHANGED upload

EndBody ==
  /\ stage = "reading"
  /\ IF upload = <<>> \/ \E i \in 1..Len(upload) : upload[i].size = 0
       THEN Refuse(400) ELSE stage' = "processing" /\ UNCHANGED answer
  /\ UNCHANGED <<body, upload>>

---------------------------------------------------------------------------
(* SharpAvatarImageProcessor.process                                        *)

\* Faulty: whatever has no signature is an image of another kind.
VerdictOfSignature(f) ==
  IF f.declared = "other" \/ f.actual # f.declared THEN 415
  ELSE IF f.decodable THEN Accepted ELSE 400

\* Bytes without a signature may be an image of another kind.
Verdict(f) ==
  IF f.declared = "other" THEN 415
  ELSE IF f.actual = "other" THEN (IF f.decodable THEN 415 ELSE 400)
  ELSE IF f.actual # f.declared THEN 415
  ELSE IF f.decodable THEN Accepted ELSE 400

Process ==
  /\ stage = "processing"
  /\ Refuse(Verdict(upload[1]))
  /\ UNCHANGED <<body, upload>>

InputNext == IsMultipart \/ ReadPart \/ BreakOff \/ EndBody \/ Process

InputSpec == InputInit /\ [][InputNext]_inputVars

---------------------------------------------------------------------------
(* Properties                                                               *)

\* Every variable keeps its type; at most one file is held in memory, and it is no
\* larger than the limit.
InputTypeOK ==
  /\ body \in Seq(Parts) /\ Len(body) <= MaxParts + 1
  /\ stage \in {"called", "reading", "processing", "done"}
  /\ answer \in {0, Accepted, 400, 413, 415}
  /\ upload \in Seq(Files) /\ Len(upload) <= 1
  /\ \A i \in 1..Len(upload) : upload[i].size <= MaxFileSize

\* "Require exactly one non-empty image file": one file among at most ten fields,
\* before, between or after them, in the field "file", with content within the limit
\* that is what its media type says.
Image(f) ==
  /\ f.field = "file" /\ f.size \in 1..MaxFileSize
  /\ f.declared = f.actual /\ f.actual # "other" /\ f.decodable

Sent == {body[i] : i \in {j \in 1..Len(body) : body[j].type = "file"}}

Acceptable ==
  /\ FileCount(body) = 1 /\ FieldCount(body) <= MaxFields
  /\ Len(body) = FileCount(body) + FieldCount(body)
  /\ \A f \in Sent : Image(f)

\* Uploads of that kind are accepted, and no others.
AcceptsImages == stage = "done" => (answer = Accepted <=> Acceptable)

\* One file that the reader lets through to sharp.
OnePhoto ==
  /\ FileCount(body) = 1 /\ FieldCount(body) <= MaxFields
  /\ Len(body) = FileCount(body) + FieldCount(body)
  /\ \A f \in Sent : f.field = "file" /\ f.size \in 1..MaxFileSize

\* An image of a kind that is not supported, or not of the kind that is declared.
Unsupported(f) ==
  \/ f.declared = "other"
  \/ f.actual = "other" /\ f.decodable
  \/ f.actual \notin {"other", f.declared}

\* A refusal is the one spec 13 lists: 413 exactly for one file that is too large and
\* in its field; 415 exactly for one file of a format that is unsupported or not what
\* was declared, and for a request of another media type; so 400 for the rest: what
\* is missing, empty, too much, malformed or no image at all.
RefusalFits ==
  /\ answer = 413 <=>
       /\ stage = "done" /\ FileCount(body) = 1 /\ FieldCount(body) <= MaxFields
       /\ \A f \in Sent : f.field = "file" /\ f.size > MaxFileSize
  /\ answer = 415 <=>
       /\ stage = "done"
       /\ body = <<OtherBody>> \/ (OnePhoto /\ \A f \in Sent : Unsupported(f))

\* Every request ends with the answer spec 13 gives its body.
AnswerFits == AcceptsImages /\ RefusalFits

---------------------------------------------------------------------------
(* The inductive invariant                                                  *)

\* Until a request is answered its body is within the limits, and the file that was
\* read is the one file of the body.
StillGood ==
  /\ Len(body) = FileCount(body) + FieldCount(body)
  /\ ~OverLimit(body)
  /\ \/ upload = <<>> /\ FileCount(body) = 0
     \/ \E f \in Files : /\ upload = <<f>> /\ Sent = {f} /\ FileCount(body) = 1
                         /\ f.field = "file" /\ ~IsTooLarge(f)

InputInv ==
  /\ InputTypeOK
  /\ stage # "done" => answer = 0 /\ StillGood /\ Len(body) <= MaxParts
  /\ stage = "called" => body = <<>>
  /\ stage = "processing" => \E f \in Files : upload = <<f>> /\ f.size # 0
  /\ AnswerFits
====
