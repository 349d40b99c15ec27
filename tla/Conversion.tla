--------------------------- MODULE Conversion ---------------------------
(***************************************************************************)
(* One request to convert a file, from its multipart body to its answer:     *)
(* ConversionService.convertMultipartRequest with its 30-second timer, the   *)
(* pool of PiscinaConversionEngine, what conversion.worker accepts, saving    *)
(* and the history item.  Several requests share the pool of one process.    *)
(*                                                                         *)
(* A body is any sequence of parts, read one by one; later parts override    *)
(* earlier ones.  Of a file the model keeps its size, what its name and MIME  *)
(* type say, and what the worker will find in it.                            *)
(***************************************************************************)
EXTENDS Integers, Sequences, FiniteSets

CONSTANTS
  Requests,    \* conversion requests; also the names of files and rows
  Kinds,       \* FILE_TYPE of the requests of a run
  Parts,       \* the parts a client may send
  MaxParts,    \* bound: parts of a body
  MaxThreads,  \* threads of the pool
  SizeLimit,   \* GLOBAL_MAX_FILE_SIZE, which is also the limit of every format
  MaxWidth, MaxHeight, MaxQuality,
  None,        \* nothing, unknown
  MaxFaults    \* bound: errors of the disk and the database in a run

TextFormats == {"csv", "json", "xml", "yaml"}
ImageFormats == {"jpeg", "png", "svg"}
Formats(kind) == IF kind = "text" THEN TextFormats ELSE ImageFormats

\* A width, height or quality of 0 is falsy in JavaScript: as good as absent, but
\* for the quality, which has a default when it is absent.
Options == [width : Int, height : Int, quality : Int]
NoOptions == [width |-> 0, height |-> 0, quality |-> MaxQuality]

Target(v) == [type |-> "target", value |-> v]
SaveField(v) == [type |-> "save", value |-> v]
OptionsField(o, s) == [type |-> "options", value |-> o, save |-> s]
File(mime, ext, size, content) ==
  [type |-> "file", mime |-> mime, ext |-> ext, size |-> size, content |-> content]
BadOptions == [type |-> "bad_options"]   \* not JSON, or null
BadFile == [type |-> "bad_file"]         \* its stream ends in an error
Broken == [type |-> "broken"]            \* the body does: no more parts

Status == {200, 400, 408, 413, 415}

\* What a part is made of. A target may be any string, and content any bytes.
IsPart(p) ==
  /\ p.type \in {"target", "save", "options", "file", "bad_options", "bad_file"}
  /\ p.type = "save" => p.value \in BOOLEAN
  /\ p.type = "options" => p.value \in Options /\ p.save \in BOOLEAN \cup {None}
  /\ p.type = "file" => p.size \in Nat

ASSUME ConversionBounds ==
  /\ Kinds \subseteq {"text", "image"}
  /\ MaxParts \in Nat /\ MaxThreads \in Nat \ {0} /\ MaxFaults \in Nat
  /\ SizeLimit \in Nat \ {0}
  /\ MaxWidth \in Nat \ {0} /\ MaxHeight \in Nat \ {0} /\ MaxQuality \in Nat \ {0}
  /\ None \notin TextFormats \cup ImageFormats /\ None \notin Status
  /\ \A p \in Parts : IsPart(p)

VARIABLES
  kind,     \* which of the two endpoints a request calls
  body,     \* the parts read so far
  form,     \* what they amount to: the local variables of the method
  pc,       \* where each request stands
  timer,    \* its setTimeout: "off", "running", "fired", "cleared"
  code,     \* the status its answer has, or will have
  queue,    \* tasks that wait for a thread
  running,  \* tasks on a thread
  disk,     \* files in uploads/
  rows,     \* converted_file rows
  items,    \* history items a request inserted
  faults,   \* errors so far
  lost,     \* history: requests whose result could not be saved
  killed    \* history: requests whose worker died

input == <<kind, body, form>>
pool  == <<queue, running>>
store == <<disk, rows, items>>
vars  == <<kind, body, form, pc, timer, code, queue, running, disk, rows, items, faults,
          lost, killed>>

Blank == [target |-> None, source |-> None, file |-> FALSE, size |-> 0,
          content |-> None, save |-> FALSE, options |-> NoOptions, error |-> None]

Init ==
  /\ kind \in [Requests -> Kinds]
  /\ body = [r \in Requests |-> <<>>]
  /\ form = [r \in Requests |-> Blank]
  /\ pc = [r \in Requests |-> "idle"]
  /\ timer = [r \in Requests |-> "off"]
  /\ code = [r \in Requests |-> None]
  /\ queue = <<>> /\ running = {}
  /\ disk = {} /\ rows = {}
  /\ items = [r \in Requests |-> <<>>]
  /\ faults = 0
  /\ lost = {}
  /\ killed = {}

Goto(r, label) == pc' = [pc EXCEPT ![r] = label]
Fault == faults < MaxFaults /\ faults' = faults + 1

\* Leave the try block by its catch clause: the item is recorded, then the answer.
Refuse(r, status) == code' = [code EXCEPT ![r] = status] /\ Goto(r, "recording_error")

\* The content is there: it is saved first, when that was asked for.
Keep(r) ==
  /\ code' = [code EXCEPT ![r] = 200]
  /\ Goto(r, IF form[r].save THEN "writing" ELSE "recording")

---------------------------------------------------------------------------
(* Reading the parts                                                        *)

Begin(r) ==
  /\ pc[r] = "idle"
  /\ Goto(r, "parsing")
  /\ timer' = [timer EXCEPT ![r] = "running"]
  /\ UNCHANGED <<input, code, pool, store, faults, lost, killed>>

\* detectTextFormat and detectImageFormat: the MIME type, else the extension.
Detect(k, p) ==
  IF p.mime \in Formats(k) THEN p.mime
  ELSE IF p.ext \in Formats(k) THEN p.ext ELSE None

\* Faulty: the error of a later part replaces that of a file.
OptionsErrorLast(f) == [f EXCEPT !.error = 400]

\* An invalid options field is an error unless there is one already ...
OptionsError(f) == [f EXCEPT !.error = IF @ = None THEN 400 ELSE @]

\* ... and a file that cannot be read is one in any case; it is no file content.
ReadFile(f, k, p) ==
  LET g == [f EXCEPT !.source = Detect(k, p), !.size = p.size]
  IN  IF p.size > SizeLimit THEN [g EXCEPT !.error = 413]
                            ELSE [g EXCEPT !.file = TRUE, !.content = p.content]

WithOptions(f, p) ==
  [f EXCEPT !.options = p.value, !.save = IF p.save = None THEN @ ELSE p.save]

Read(f, k, p) ==
  CASE p.type = "target"      -> [f EXCEPT !.target = p.value]
    [] p.type = "save"        -> [f EXCEPT !.save = p.value]
    [] p.type = "options"     -> WithOptions(f, p)
    [] p.type = "bad_options" -> OptionsError(f)
    [] p.type = "bad_file"    -> [f EXCEPT !.error = 400]
    [] p.type = "file"        -> ReadFile(f, k, p)

ReadPart(r) ==
  /\ pc[r] = "parsing"
  /\ Len(body[r]) < MaxParts
  /\ \E p \in Parts :
       /\ body' = [body EXCEPT ![r] = Append(@, p)]
       /\ form' = [form EXCEPT ![r] = Read(@, kind[r], p)]
  /\ UNCHANGED <<kind, pc, timer, code, pool, store, faults, lost, killed>>

\* The connection breaks, or the request is not multipart: the iterator throws.
BreakOff(r) ==
  /\ pc[r] = "parsing"
  /\ body' = [body EXCEPT ![r] = Append(@, Broken)]
  /\ Refuse(r, 400)
  /\ UNCHANGED <<kind, form, timer, pool, store, faults, lost, killed>>

---------------------------------------------------------------------------
(* Checking the form                                                        *)

Incomplete(f) == ~f.file \/ f.target = None \/ f.size = 0
Unsupported(k, f) == f.source = None \/ f.target \notin Formats(k)

Refusal(k, f) ==
  IF f.error # None THEN f.error
  ELSE IF Incomplete(f) THEN 400
  ELSE IF Unsupported(k, f) THEN 415
  ELSE IF f.size > SizeLimit THEN 413
  ELSE None

\* All parts are read. Equal formats need no conversion; piscina.run rejects a task
\* whose signal is aborted already.
EndBody(r) ==
  /\ pc[r] = "parsing"
  /\ LET f == form[r]
         refusal == Refusal(kind[r], f)
     IN  IF refusal # None THEN Refuse(r, refusal) /\ UNCHANGED queue
         ELSE IF f.source = f.target THEN Keep(r) /\ UNCHANGED queue
         ELSE IF timer[r] = "fired" THEN Refuse(r, 408) /\ UNCHANGED queue
         ELSE /\ queue' = Append(queue, r)
              /\ Goto(r, "converting")
              /\ UNCHANGED code
  /\ UNCHANGED <<input, timer, running, store, faults, lost, killed>>

---------------------------------------------------------------------------
(* The pool and its workers                                                 *)

StartTask ==
  /\ queue # <<>> /\ Cardinality(running) < MaxThreads
  /\ running' = running \cup {Head(queue)}
  /\ queue' = Tail(queue)
  /\ UNCHANGED <<input, pc, timer, code, store, faults, lost, killed>>

\* convertTextFile: "rows" are objects, "values" and "nothing" an array without;
\* the rest has no text, cannot be parsed, or is no structure.
TextConverts(f) ==
  \/ f.content = "rows"
  \/ f.content \in {"values", "nothing"} /\ f.target # "csv"

\* Faulty: a bound is missed by one.
OptionsAllowedLoose(o) ==
  /\ o.width # 0 => o.width \in 1..(MaxWidth + 1)
  /\ o.height # 0 => o.height \in 1..MaxHeight
  /\ o.quality # 0 => o.quality \in 1..MaxQuality

\* The checks of convertImageFile; each is skipped for 0.
OptionsAllowed(o) ==
  /\ o.width # 0 => o.width \in 1..MaxWidth
  /\ o.height # 0 => o.height \in 1..MaxHeight
  /\ o.quality # 0 => o.quality \in 1..MaxQuality

\* convertImageFile: sharp encodes jpeg and png only, and wants a quality.
ImageConverts(f) ==
  /\ f.target \in {"jpeg", "png"}
  /\ OptionsAllowed(f.options) /\ f.options.quality # 0
  /\ f.content = "picture"

\* The sequence s without its element at position i.
Without(s, i) == SubSeq(s, 1, i - 1) \o SubSeq(s, i + 1, Len(s))

\* A task leaves its thread, or its place in the queue.
Leave(r) ==
  /\ queue' = IF r \in running THEN queue
              ELSE Without(queue, CHOOSE i \in 1..Len(queue) : queue[i] = r)
  /\ running' = running \ {r}

\* The worker answers; a thrown error loses its class on the way back.
FinishTask(r) ==
  /\ r \in running
  /\ Leave(r)
  /\ IF IF kind[r] = "text" THEN TextConverts(form[r]) ELSE ImageConverts(form[r])
       THEN Keep(r) ELSE Refuse(r, 400)
  /\ UNCHANGED <<input, timer, store, faults, lost, killed>>

\* The thread dies: piscina rejects its task.
WorkerDies(r) ==
  /\ r \in running
  /\ Leave(r)
  /\ Refuse(r, 400)
  /\ killed' = killed \cup {r}
  /\ UNCHANGED <<input, timer, store, faults, lost>>

\* Faulty: images are converted without a signal.
TimeoutOfText(r) ==
  /\ timer[r] = "running"
  /\ timer' = [timer EXCEPT ![r] = "fired"]
  /\ IF pc[r] = "converting" /\ kind[r] = "text" THEN Leave(r) /\ Refuse(r, 408)
                                                 ELSE UNCHANGED <<pool, code, pc>>
  /\ UNCHANGED <<input, store, faults, lost, killed>>

\* Faulty: the task stays in the pool.
TimeoutKeepsTask(r) ==
  /\ timer[r] = "running"
  /\ timer' = [timer EXCEPT ![r] = "fired"]
  /\ IF pc[r] = "converting" THEN Refuse(r, 408) ELSE UNCHANGED <<code, pc>>
  /\ UNCHANGED <<input, pool, store, faults, lost, killed>>

\* After 30 seconds the signal is aborted: piscina rejects a task that waits or runs
\* and ends its thread. Nothing else listens to the signal.
Timeout(r) ==
  /\ timer[r] = "running"
  /\ timer' = [timer EXCEPT ![r] = "fired"]
  /\ IF pc[r] = "converting" THEN Leave(r) /\ Refuse(r, 408)
                             ELSE UNCHANGED <<pool, code, pc>>
  /\ UNCHANGED <<input, store, faults, lost, killed>>

---------------------------------------------------------------------------
(* enqueueSavedFilePersistence and createHistoryEntry, which are awaited      *)

WriteFile(r) ==
  /\ pc[r] = "writing"
  /\ disk' = disk \cup {r}
  /\ Goto(r, "registering")
  /\ UNCHANGED <<input, timer, code, pool, rows, items, faults, lost, killed>>

Register(r) ==
  /\ pc[r] = "registering"
  /\ rows' = rows \cup {r}
  /\ Goto(r, "recording_saved")
  /\ UNCHANGED <<input, timer, code, pool, disk, items, faults, lost, killed>>

\* Faulty: the error is taken for a success.
SaveFailsUnnoticed(r) ==
  /\ pc[r] \in {"writing", "registering"}
  /\ Fault
  /\ \/ UNCHANGED disk
     \/ pc[r] = "writing" /\ disk' = disk \cup {r}
  /\ lost' = lost \cup {r}
  /\ Goto(r, "recording_saved")
  /\ UNCHANGED <<input, timer, code, pool, rows, items, killed>>

\* The item will be an error, the answer is not. A part of a file may be written.
SaveFails(r) ==
  /\ pc[r] \in {"writing", "registering"}
  /\ Fault
  /\ \/ UNCHANGED disk
     \/ pc[r] = "writing" /\ disk' = disk \cup {r}
  /\ lost' = lost \cup {r}
  /\ Goto(r, "recording_error")
  /\ UNCHANGED <<input, timer, code, pool, rows, items, killed>>

Recording == {"recording", "recording_saved", "recording_error"}

\* Faulty: an item of a failed save has the status of the answer.
ItemOfAnswer(r) ==
  [status |-> IF pc[r] = "recording_error" THEN "ERROR" ELSE "SUCCESS",
   file |-> pc[r] = "recording_saved",
   code |-> IF pc[r] = "recording_error" THEN code[r] ELSE None]

Item(r) ==
  IF pc[r] = "recording_error"
    THEN [status |-> "ERROR", file |-> FALSE, code |-> IF code[r] = 200 THEN 500 ELSE code[r]]
    ELSE [status |-> "SUCCESS", file |-> pc[r] = "recording_saved", code |-> None]

\* The answer is given, after the timer is cleared.
Answer(r) ==
  /\ timer' = [timer EXCEPT ![r] = IF @ = "running" THEN "cleared" ELSE @]
  /\ Goto(r, "done")

Record(r) ==
  /\ pc[r] \in Recording
  /\ items' = [items EXCEPT ![r] = Append(@, Item(r))]
  /\ Answer(r)
  /\ UNCHANGED <<input, code, pool, disk, rows, faults, lost, killed>>

\* A failed insert is logged and nothing else.
RecordFails(r) ==
  /\ pc[r] \in Recording
  /\ Fault
  /\ Answer(r)
  /\ UNCHANGED <<input, code, pool, store, lost, killed>>

---------------------------------------------------------------------------
Saving(r) == WriteFile(r) \/ Register(r) \/ SaveFails(r)

Conversion(r) ==
  \/ Begin(r) \/ ReadPart(r) \/ BreakOff(r) \/ EndBody(r)
  \/ FinishTask(r) \/ WorkerDies(r) \/ Timeout(r)
  \/ Saving(r) \/ Record(r) \/ RecordFails(r)

Next == StartTask \/ \E r \in Requests : Conversion(r)

Spec == Init /\ [][Next]_vars

\* The timer fires and the database answers. Nobody makes a client send its body or
\* a worker come to an end.
StorageMayHang ==
  /\ Spec
  /\ \A r \in Requests : WF_vars(Timeout(r)) /\ WF_vars(Record(r))

\* So does the disk.
FairSpec == StorageMayHang /\ \A r \in Requests : WF_vars(WriteFile(r) \/ Register(r))

---------------------------------------------------------------------------
(* Properties                                                               *)

\* The pool holds the requests that are converting, each once, on no more threads
\* than there are.
Waiting == {queue[i] : i \in 1..Len(queue)}
PoolFits ==
  /\ \A i, j \in 1..Len(queue) : queue[i] = queue[j] => i = j
  /\ {r \in Requests : pc[r] = "converting"} = running \cup Waiting
  /\ running \cap Waiting = {}
  /\ Cardinality(running) <= MaxThreads

\* Every variable keeps its type, and no abort leaves a task behind in the pool.
TypeOK ==
  /\ kind \in [Requests -> Kinds]
  /\ \A r \in Requests : Len(body[r]) <= MaxParts + 1
  /\ pc \in [Requests -> {"idle", "parsing", "converting", "writing", "registering",
                          "done"} \cup Recording]
  /\ timer \in [Requests -> {"off", "running", "fired", "cleared"}]
  /\ code \in [Requests -> Status \cup {None}]
  /\ PoolFits
  /\ rows \subseteq disk /\ disk \cup lost \cup killed \subseteq Requests
  /\ faults \in 0..MaxFaults

\* GET convert/formats and GET images/convert/formats.
Offered ==
  {p \in TextFormats \X TextFormats : p[1] # p[2]}
    \cup {<<"jpeg", "png">>, <<"png", "jpeg">>, <<"svg", "jpeg">>, <<"svg", "png">>}

\* A reader's account of a body, by its last target, file and options.
Sent(r, type) == {i \in 1..Len(body[r]) : body[r][i].type = type}
Last(r, type) == body[r][CHOOSE i \in Sent(r, type) : \A j \in Sent(r, type) : j <= i]
Oversize(r) == {i \in Sent(r, "file") : body[r][i].size > SizeLimit}
InRange(o) ==
  o.width \in 0..MaxWidth /\ o.height \in 0..MaxHeight /\ o.quality \in 1..MaxQuality

\* Content that every offered conversion takes, and that some do.
Whole(k) == IF k = "text" THEN "rows" ELSE "picture"
Readable(k) == IF k = "text" THEN {"rows", "values", "nothing"} ELSE {"picture"}

AnswerFits(r) ==
  LET s == Detect(kind[r], Last(r, "file"))
      t == Last(r, "target").value
      content == Last(r, "file").content
      options == IF Sent(r, "options") = {} THEN NoOptions ELSE Last(r, "options").value
  IN  IF Sent(r, "broken") # {} THEN code[r] = 400
      ELSE IF Sent(r, "bad_file") = {} /\ Oversize(r) # {} THEN code[r] = 413
      ELSE IF Sent(r, "bad_options") \cup Sent(r, "bad_file") # {}
        THEN code[r] \in {400, 413}
      ELSE IF \/ Sent(r, "file") = {} \/ Sent(r, "target") = {}
              \/ t = None \/ Last(r, "file").size = 0
        THEN code[r] = 400
      ELSE IF t \notin Formats(kind[r]) THEN code[r] \in {400, 415}
      ELSE IF s = None
        THEN code[r] = 415 \/ (content \in Readable(kind[r]) /\ code[r] \in {200, 400, 408})
      ELSE IF s = t THEN code[r] \in {200, 400}
      ELSE \/ code[r] = 408 /\ timer[r] = "fired"
           \/ code[r] = 400 /\ \/ r \in killed \/ <<s, t>> \notin Offered
                               \/ content # Whole(kind[r])
                               \/ kind[r] = "image" /\ ~InRange(options)
           \/ /\ code[r] = 200 /\ <<s, t>> \in Offered
              /\ content \in Readable(kind[r])
              /\ kind[r] = "image" => InRange(options)

\* The answer fits the body, whatever the order of the parts and however the timer,
\* the worker and the disk interleave: 413 for a file that is too large, 400 for a
\* body that lacks something, 415 for a source that is not recognised, and for two
\* formats what the lists of formats offer, unless it took 30 seconds or a worker
\* died. Where the code and specs/09 and specs/10 ask different answers (a target
\* there is not, a source only its content tells, equal formats) either one fits;
\* the three properties below are the specs' side of it.
AnswerFollowsBody == \A r \in Requests : code[r] # None => AnswerFits(r)

\* A body whose file and target were read without an error.
Legible(r) ==
  /\ Sent(r, "file") # {} /\ Sent(r, "target") # {}
  /\ Sent(r, "broken") \cup Sent(r, "bad_options") \cup Sent(r, "bad_file") = {}
  /\ Oversize(r) = {} /\ Last(r, "file").size # 0

\* specs/09-data-file-transformation/spec.md:33 "The requested source -> target
\* conversion pair must be valid" and :34 "Source file must be syntactically valid":
\* a 200 answer is for a pair on the list and content that can be read. The code
\* returns any file whose format is asked for (conversion.service.ts:314).
PairOffered == \A r \in Requests : code[r] = 200 =>
  /\ <<Detect(kind[r], Last(r, "file")), Last(r, "target").value>> \in Offered
  /\ Last(r, "file").content \in Readable(kind[r])

\* specs/09-data-file-transformation/spec.md:72 "400 Bad Request: [...] invalid
\* parameters", with targetFormat a parameter by :32. The code answers 415
\* (conversion.service.ts:298).
UnknownTargetIsInvalid == \A r \in Requests :
  Legible(r) /\ Last(r, "target").value \notin Formats(kind[r]) => code[r] \in {None, 400}

\* specs/09-data-file-transformation/spec.md:30 "auto-detected via MIME type, file
\* extension, and content sniffing": text that can be read is not refused as an
\* unsupported source. The code does not look at the content.
ContentSniffed == \A r \in Requests :
  /\ Legible(r) /\ kind[r] = "text" /\ Last(r, "target").value \in TextFormats
  /\ Last(r, "file").content = "rows"
  => code[r] # 415

HistoryFits(r) ==
  /\ pc[r] = "done" /\ faults = 0 => items[r] # <<>>
  /\ r \in rows => form[r].save /\ code[r] = 200
  /\ \A i \in 1..Len(items[r]) :
       LET item == items[r][i]
       IN  /\ i = 1 /\ pc[r] = "done"
           /\ item.file <=> r \in rows
           /\ item.status = "SUCCESS" <=> code[r] = 200 /\ r \notin lost
           /\ item.status = "SUCCESS" => item.file = form[r].save
           /\ item.status = "ERROR" => item.code = IF r \in lost THEN 500 ELSE code[r]

\* The history tells what happened: one item per answered request at most, a
\* success for a 200 answer, the status for another, and the file exactly when one
\* was asked for and stored; a failed save is an error in the history only.
TruthfulHistory == \A r \in Requests : HistoryFits(r)

\* "Enforce a hard timeout (e.g., 30 seconds) per conversion task": a request whose
\* body has been read is answered, though workers may hang and others wait for them.
Answered == \A r \in Requests : pc[r] \notin {"idle", "parsing"} ~> pc[r] = "done"

---------------------------------------------------------------------------
(* What a conversion leaves behind is what History says                      *)

HistoryPc == [r \in Requests |-> IF pc[r] = "parsing" THEN "idle" ELSE pc[r]]
OneDay == [r \in Requests |-> 0]
HasFile(r) == \E i \in 1..Len(items[r]) : items[r][i].file

Outcome == INSTANCE History WITH
  Readers <- {}, Instances <- {"server"}, Retention <- 1, MaxDay <- 0,
  day <- 0, pc <- HistoryPc, begun <- OneDay, host <- [r \in Requests |-> "server"],
  rowAt <- [r \in Requests |-> IF r \in rows THEN 0 ELSE None],
  itemAt <- [r \in Requests |-> IF items[r] = <<>> THEN None ELSE 0],
  lost <- lost \cap disk,
  linked <- {r \in Requests : HasFile(r)},
  savedAt <- [r \in Requests |-> IF HasFile(r) THEN 0 ELSE None],
  target <- <<>>, view <- <<>>,
  step <- [i \in {"server"} |-> "off"], cutoff <- [i \in {"server"} |-> 0],
  expired <- [i \in {"server"} |-> {}], old <- [i \in {"server"} |-> {}],
  doomed <- [i \in {"server"} |-> {}], left <- [i \in {"server"} |-> {}]

\* Reading, checking, queueing, converting, timing out and failing leave disk and
\* database as the conversions of History do.
HistorySpec == Outcome!Spec

---------------------------------------------------------------------------
(* The inductive invariant                                                  *)

Targets == {p.value : p \in {q \in Parts : q.type = "target"}}
Contents == {p.content : p \in {q \in Parts : q.type = "file"}}

Form == [target : Targets \cup {None}, source : TextFormats \cup ImageFormats \cup {None},
         file : BOOLEAN, size : Nat, content : Contents \cup {None}, save : BOOLEAN,
         options : Options, error : {None, 400, 413}]

HistoryItem == [status : {"SUCCESS", "ERROR"}, file : BOOLEAN, code : Status \cup {None, 500}]

Structured ==
  /\ body \in [Requests -> Seq(Parts \cup {Broken})]
  /\ form \in [Requests -> Form]
  /\ queue \in Seq(Requests)
  /\ IsFiniteSet(running)
  /\ items \in [Requests -> Seq(HistoryItem)]

\* The local variables of the method are those of a reader who knows the whole body:
\* the last target, options and file count, and the errors of all parts.
FormFits(r) ==
  /\ \A type \in {"target", "options", "file"} : Sent(r, type) # {} =>
       \E i \in Sent(r, type) : \A j \in Sent(r, type) : j <= i
  /\ form[r].target = IF Sent(r, "target") = {} THEN None ELSE Last(r, "target").value
  /\ form[r].options = IF Sent(r, "options") = {} THEN NoOptions ELSE Last(r, "options").value
  /\ IF Sent(r, "file") = {} THEN ~form[r].file
       ELSE /\ form[r].source = Detect(kind[r], Last(r, "file"))
            /\ form[r].size = Last(r, "file").size
            /\ form[r].error = None => form[r].file /\ form[r].content = Last(r, "file").content
  /\ form[r].error = None <=>
       Sent(r, "bad_options") = {} /\ Sent(r, "bad_file") = {} /\ Oversize(r) = {}
  /\ Sent(r, "bad_file") = {} /\ Oversize(r) # {} => form[r].error = 413

\* Where a request stands tells what is decided about it and what is stored of it.
StageFits(r) ==
  /\ pc[r] \in {"idle", "parsing", "converting"} <=> code[r] = None
  /\ pc[r] \in {"idle", "parsing"} => Len(body[r]) <= MaxParts
  /\ Sent(r, "broken") # {} => code[r] = 400
  /\ pc[r] = "converting" =>
       Refusal(kind[r], form[r]) = None /\ form[r].source # form[r].target
  /\ pc[r] \in {"writing", "registering", "recording_saved"} => form[r].save /\ code[r] = 200
  /\ pc[r] = "registering" => r \in disk
  /\ pc[r] = "recording" => ~form[r].save /\ code[r] = 200
  /\ pc[r] = "recording_saved" => r \in rows
  /\ pc[r] = "recording_error" => code[r] # 200 \/ r \in lost
  /\ r \in rows => pc[r] \in {"recording_saved", "done"}
  /\ r \in lost => pc[r] \in {"recording_error", "done"} /\ r \notin rows /\ code[r] = 200
  /\ pc[r] # "done" => items[r] = <<>>

IInv ==
  /\ TypeOK
  /\ Structured
  /\ \A r \in Requests : FormFits(r) /\ StageFits(r)
  /\ AnswerFollowsBody
  /\ TruthfulHistory
====
