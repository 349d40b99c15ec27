-------------------------- MODULE ConversionProof --------------------------
(***************************************************************************)
(* Theorems about Conversion, for every set of requests, every body, any     *)
(* number of threads and any limits: the inductive invariant, and from it    *)
(* that an answer follows from the body and that the history tells the truth. *)
(***************************************************************************)
EXTENDS Conversion, FiniteSetTheorems, SequenceTheorems, TLAPS

---------------------------------------------------------------------------
(* Reading a part: what it changes of the form                              *)

SameTarget(f, g) == g.target = f.target
SameOptions(f, g) == g.options = f.options
SameFile(f, g) ==
  g.source = f.source /\ g.file = f.file /\ g.size = f.size /\ g.content = f.content

LEMMA ReadTarget ==
  ASSUME NEW f \in Form, NEW k \in Kinds, NEW p \in Parts, p.type = "target"
  PROVE  LET g == Read(f, k, p)
         IN  /\ g \in Form /\ g.target = p.value
             /\ SameOptions(f, g) /\ SameFile(f, g) /\ g.error = f.error
<1>1. Read(f, k, p) = [f EXCEPT !.target = p.value]
  BY DEF Read
<1>2. p.value \in Targets
  BY DEF Targets
<1>3. QED
  BY <1>1, <1>2 DEF Form, SameOptions, SameFile

LEMMA ReadSave ==
  ASSUME NEW f \in Form, NEW k \in Kinds, NEW p \in Parts, p.type = "save"
  PROVE  LET g == Read(f, k, p)
         IN  /\ g \in Form
             /\ SameTarget(f, g) /\ SameOptions(f, g) /\ SameFile(f, g) /\ g.error = f.error
<1>1. Read(f, k, p) = [f EXCEPT !.save = p.value]
  BY DEF Read
<1>2. p.value \in BOOLEAN
  BY ConversionBounds DEF IsPart
<1>3. QED
  BY <1>1, <1>2 DEF Form, SameTarget, SameOptions, SameFile

LEMMA ReadOptions ==
  ASSUME NEW f \in Form, NEW k \in Kinds, NEW p \in Parts, p.type = "options"
  PROVE  LET g == Read(f, k, p)
         IN  /\ g \in Form /\ g.options = p.value
             /\ SameTarget(f, g) /\ SameFile(f, g) /\ g.error = f.error
<1> DEFINE save == IF p.save = None THEN f.save ELSE p.save
           e == [f EXCEPT !.options = p.value]
           g == [e EXCEPT !.save = save]
<1>1. Read(f, k, p) = g
  BY DEF Read, WithOptions
<1>2. p.value \in Options /\ save \in BOOLEAN
  BY ConversionBounds DEF IsPart, Form
<1> HIDE DEF save
<1>3. /\ e \in Form /\ e.options = p.value
      /\ SameTarget(f, e) /\ SameFile(f, e) /\ e.error = f.error
  BY <1>2 DEF Form, SameTarget, SameFile
<1> HIDE DEF e
<1>4. /\ g \in Form /\ g.options = e.options
      /\ SameTarget(e, g) /\ SameFile(e, g) /\ g.error = e.error
  BY <1>2, <1>3 DEF Form, SameTarget, SameFile
<1> HIDE DEF g
<1>5. QED
  BY <1>1, <1>3, <1>4 DEF SameTarget, SameFile

\* Of the errors the first one counts, unless a file ends in one.
LEMMA ReadBadOptions ==
  ASSUME NEW f \in Form, NEW k \in Kinds, NEW p \in Parts, p.type = "bad_options"
  PROVE  LET g == Read(f, k, p)
         IN  /\ g \in Form
             /\ SameTarget(f, g) /\ SameOptions(f, g) /\ SameFile(f, g)
             /\ g.error = IF f.error = None THEN 400 ELSE f.error
<1>1. Read(f, k, p) = [f EXCEPT !.error = IF @ = None THEN 400 ELSE @]
  BY DEF Read, OptionsError
<1>2. QED
  BY <1>1 DEF Form, SameTarget, SameOptions, SameFile

LEMMA ReadBadFile ==
  ASSUME NEW f \in Form, NEW k \in Kinds, NEW p \in Parts, p.type = "bad_file"
  PROVE  LET g == Read(f, k, p)
         IN  /\ g \in Form /\ g.error = 400
             /\ SameTarget(f, g) /\ SameOptions(f, g) /\ SameFile(f, g)
<1>1. Read(f, k, p) = [f EXCEPT !.error = 400]
  BY DEF Read
<1>2. QED
  BY <1>1 DEF Form, SameTarget, SameOptions, SameFile

\* A file that is too large leaves its format and its size, and no content.
LEMMA ReadOneFile ==
  ASSUME NEW f \in Form, NEW k \in Kinds, NEW p \in Parts, p.type = "file"
  PROVE  LET g == Read(f, k, p)
         IN  /\ g \in Form /\ g.source = Detect(k, p) /\ g.size = p.size
             /\ SameTarget(f, g) /\ SameOptions(f, g)
             /\ p.size > SizeLimit => g.error = 413
             /\ ~(p.size > SizeLimit) => g.file /\ g.content = p.content /\ g.error = f.error
<1>1. Detect(k, p) \in TextFormats \cup ImageFormats \cup {None}
  BY DEF Detect, Formats
<1>2. p.size \in Nat
  BY ConversionBounds DEF IsPart
<1>3. p.content \in Contents
  BY DEF Contents
<1> DEFINE e == [f EXCEPT !.source = Detect(k, p)]
           h == [e EXCEPT !.size = p.size]
           large == [h EXCEPT !.error = 413]
           full == [h EXCEPT !.file = TRUE]
           read == [full EXCEPT !.content = p.content]
<1>4. Read(f, k, p) = IF p.size > SizeLimit THEN large ELSE read
  BY DEF Read, ReadFile
<1>5. /\ e \in Form /\ e.source = Detect(k, p)
      /\ SameTarget(f, e) /\ SameOptions(f, e) /\ e.error = f.error
  BY <1>1 DEF Form, SameTarget, SameOptions
<1> HIDE DEF e
<1>6. /\ h \in Form /\ h.source = e.source /\ h.size = p.size
      /\ SameTarget(e, h) /\ SameOptions(e, h) /\ h.error = e.error
  BY <1>2, <1>5 DEF Form, SameTarget, SameOptions
<1> HIDE DEF h
<1>7. /\ large \in Form /\ large.source = h.source /\ large.size = h.size
      /\ SameTarget(h, large) /\ SameOptions(h, large) /\ large.error = 413
  BY <1>6 DEF Form, SameTarget, SameOptions
<1>8. /\ full \in Form /\ full.source = h.source /\ full.size = h.size /\ full.file
      /\ SameTarget(h, full) /\ SameOptions(h, full) /\ full.error = h.error
  <2>1. full \in Form
    <3>1. \A b \in BOOLEAN : [h EXCEPT !.file = b] \in Form
      BY <1>6 DEF Form
    <3>2. QED
      BY <3>1
  <2>2. full.file
    BY <1>6 DEF Form
  <2>3. full.source = h.source /\ full.size = h.size /\ full.error = h.error
    BY <1>6 DEF Form
  <2>4. SameTarget(h, full) /\ SameOptions(h, full)
    BY <1>6 DEF Form, SameTarget, SameOptions
  <2>5. QED
    BY <2>1, <2>2, <2>3, <2>4
<1> HIDE DEF large, full
<1>9. /\ read \in Form /\ read.source = full.source /\ read.size = full.size
      /\ SameTarget(full, read) /\ SameOptions(full, read) /\ read.error = full.error
      /\ read.content = p.content
  BY <1>3, <1>8 DEF Form, SameTarget, SameOptions
<1>9a. read.file
  BY <1>8 DEF Form
<1> HIDE DEF read
<1>10. QED
  BY <1>4, <1>5, <1>6, <1>7, <1>8, <1>9, <1>9a DEF SameTarget, SameOptions

---------------------------------------------------------------------------
(* A body with one more part                                                *)

LEMMA OnePartMore ==
  ASSUME Structured, NEW r \in Requests, NEW p \in Parts \cup {Broken},
         body' = [body EXCEPT ![r] = Append(@, p)]
  PROVE  /\ body' \in [Requests -> Seq(Parts \cup {Broken})]
         /\ Len(body[r]) \in Nat /\ Len(body'[r]) = Len(body[r]) + 1
         /\ \A i \in 1..Len(body[r]) : body'[r][i] = body[r][i]
         /\ body'[r][Len(body[r]) + 1] = p
         /\ \A q \in Requests : q # r => body'[q] = body[q]
<1>1. body[r] \in Seq(Parts \cup {Broken})
  BY DEF Structured
<1>2. body'[r] = Append(body[r], p) /\ \A q \in Requests : q # r => body'[q] = body[q]
  BY DEF Structured
<1>3. /\ Append(body[r], p) \in Seq(Parts \cup {Broken})
      /\ Len(Append(body[r], p)) = Len(body[r]) + 1
      /\ \A i \in 1..Len(body[r]) : Append(body[r], p)[i] = body[r][i]
      /\ Append(body[r], p)[Len(body[r]) + 1] = p
  BY <1>1, AppendProperties
<1>4. Len(body[r]) \in Nat
  BY <1>1, LenProperties
<1>5. body' \in [Requests -> Seq(Parts \cup {Broken})]
  BY <1>1, <1>2, <1>3 DEF Structured
<1>6. QED
  BY <1>2, <1>3, <1>4, <1>5

LEMMA SentMore ==
  ASSUME Structured, NEW r \in Requests, NEW p \in Parts \cup {Broken},
         body' = [body EXCEPT ![r] = Append(@, p)], NEW type
  PROVE  Sent(r, type)' = IF p.type = type THEN Sent(r, type) \cup {Len(body[r]) + 1}
                                           ELSE Sent(r, type)
<1> DEFINE n == Len(body[r])
<1>1. /\ n \in Nat /\ Len(body'[r]) = n + 1 /\ body'[r][n + 1] = p
      /\ \A i \in 1..n : body'[r][i] = body[r][i]
  BY OnePartMore
<1> HIDE DEF n
<1>2. 1..(n + 1) = 1..n \cup {n + 1}
  BY <1>1
<1>3. Sent(r, type)' = {i \in 1..(n + 1) : body'[r][i].type = type}
  BY <1>1 DEF Sent
<1>4. Sent(r, type) = {i \in 1..n : body[r][i].type = type}
  BY DEF Sent, n
<1>5. n + 1 \notin 1..n
  BY <1>1
<1>6. QED
  BY <1>1, <1>2, <1>3, <1>4, <1>5 DEF n

HasLast(r, type) ==
  Sent(r, type) # {} => \E i \in Sent(r, type) : \A j \in Sent(r, type) : j <= i

LEMMA LastMore ==
  ASSUME Structured, NEW r \in Requests, NEW p \in Parts \cup {Broken},
         body' = [body EXCEPT ![r] = Append(@, p)], NEW type, HasLast(r, type)
  PROVE  /\ HasLast(r, type)'
         /\ p.type = type => Last(r, type)' = p
         /\ p.type # type /\ Sent(r, type) # {} => Last(r, type)' = Last(r, type)
<1> DEFINE n == Len(body[r])
<1>1. /\ n \in Nat /\ body'[r][n + 1] = p
      /\ \A i \in 1..n : body'[r][i] = body[r][i]
  BY OnePartMore
<1>2. Sent(r, type)' = IF p.type = type THEN Sent(r, type) \cup {n + 1} ELSE Sent(r, type)
  BY SentMore
<1>3. Sent(r, type) \subseteq 1..n
  BY DEF Sent
<1> HIDE DEF n
<1>4. CASE p.type = type
  <2> DEFINE IsLast(i) == i \in Sent(r, type)' /\ \A j \in Sent(r, type)' : j <= i
  <2>1. IsLast(n + 1) /\ \A i : IsLast(i) => i = n + 1
    <3>1. Sent(r, type)' = Sent(r, type) \cup {n + 1}
      BY <1>2, <1>4
    <3>2. \A j \in Sent(r, type) : j \in Nat /\ j < n + 1
      BY <1>1, <1>3
    <3>3. IsLast(n + 1)
      BY <1>1, <3>1, <3>2
    <3>4. ASSUME NEW i, IsLast(i) PROVE i = n + 1
      <4>1. i \in Sent(r, type) \/ i = n + 1
        BY <3>1, <3>4
      <4>2. n + 1 <= i
        BY <3>1, <3>4
      <4>3. QED
        BY <1>1, <3>2, <4>1, <4>2
    <3>5. QED
      BY <3>3, <3>4
  <2>2. (CHOOSE i \in Sent(r, type)' : \A j \in Sent(r, type)' : j <= i) = n + 1
    BY <2>1
  <2>3. Last(r, type)' = p
    BY <1>1, <2>2 DEF Last
  <2>4. QED
    BY <1>4, <2>1, <2>3 DEF HasLast
<1>5. CASE p.type # type
  <2>1. Sent(r, type)' = Sent(r, type)
    BY <1>2, <1>5
  <2>2. ASSUME Sent(r, type) # {} PROVE Last(r, type)' = Last(r, type)
    <3> DEFINE last == CHOOSE i \in Sent(r, type) : \A j \in Sent(r, type) : j <= i
    <3>1. last \in Sent(r, type)
      BY <2>2 DEF HasLast
    <3>2. Last(r, type)' = body'[r][last]
      BY <2>1 DEF Last
    <3>3. Last(r, type) = body[r][last]
      BY DEF Last
    <3> HIDE DEF last
    <3>4. QED
      BY <1>1, <1>3, <3>1, <3>2, <3>3
  <2>3. HasLast(r, type)'
    BY <2>1 DEF HasLast
  <2>4. QED
    BY <1>5, <2>2, <2>3
<1>6. QED
  BY <1>4, <1>5

LEMMA OversizeMore ==
  ASSUME Structured, NEW r \in Requests, NEW p \in Parts \cup {Broken},
         body' = [body EXCEPT ![r] = Append(@, p)]
  PROVE  Oversize(r)' = IF p.type = "file" /\ p.size > SizeLimit
                          THEN Oversize(r) \cup {Len(body[r]) + 1} ELSE Oversize(r)
<1> DEFINE n == Len(body[r])
<1>1. /\ n \in Nat /\ body'[r][n + 1] = p
      /\ \A i \in 1..n : body'[r][i] = body[r][i]
  BY OnePartMore
<1>2. Sent(r, "file")' = IF p.type = "file" THEN Sent(r, "file") \cup {n + 1} ELSE Sent(r, "file")
  BY SentMore
<1>3. Sent(r, "file") \subseteq 1..n
  BY DEF Sent
<1>4. Oversize(r)' = {i \in Sent(r, "file")' : body'[r][i].size > SizeLimit}
  BY DEF Oversize
<1>5. \A i \in Sent(r, "file") : body'[r][i] = body[r][i]
  BY <1>1, <1>3
<1>6. {i \in Sent(r, "file") : body'[r][i].size > SizeLimit} = Oversize(r)
  BY <1>5 DEF Oversize
<1> HIDE DEF n
<1>7. QED
  BY <1>1, <1>2, <1>4, <1>6 DEF n

\* A part that is no target leaves the last target; the same for options and files.
LEMMA TargetKept ==
  ASSUME Structured, NEW r \in Requests, NEW p \in Parts \cup {Broken}, p.type # "target",
         body' = [body EXCEPT ![r] = Append(@, p)], FormFits(r), SameTarget(form[r], form'[r])
  PROVE  form'[r].target = IF Sent(r, "target")' = {} THEN None ELSE Last(r, "target")'.value
<1>1. Sent(r, "target")' = Sent(r, "target")
  BY SentMore
<1>2. Sent(r, "target") # {} => Last(r, "target")' = Last(r, "target")
  BY LastMore DEF FormFits, HasLast
<1>3. QED
  BY <1>1, <1>2 DEF FormFits, SameTarget

LEMMA OptionsKept ==
  ASSUME Structured, NEW r \in Requests, NEW p \in Parts \cup {Broken}, p.type # "options",
         body' = [body EXCEPT ![r] = Append(@, p)], FormFits(r), SameOptions(form[r], form'[r])
  PROVE  form'[r].options = IF Sent(r, "options")' = {} THEN NoOptions ELSE Last(r, "options")'.value
<1>1. Sent(r, "options")' = Sent(r, "options")
  BY SentMore
<1>2. Sent(r, "options") # {} => Last(r, "options")' = Last(r, "options")
  BY LastMore DEF FormFits, HasLast
<1>3. QED
  BY <1>1, <1>2 DEF FormFits, SameOptions

FileFits(r) ==
  IF Sent(r, "file") = {} THEN ~form[r].file
    ELSE /\ form[r].source = Detect(kind[r], Last(r, "file"))
         /\ form[r].size = Last(r, "file").size
         /\ form[r].error = None => form[r].file /\ form[r].content = Last(r, "file").content

LEMMA FileKept ==
  ASSUME Structured, NEW r \in Requests, NEW p \in Parts \cup {Broken}, p.type # "file",
         body' = [body EXCEPT ![r] = Append(@, p)], FormFits(r), SameFile(form[r], form'[r]),
         form'[r].error = None => form[r].error = None, kind' = kind
  PROVE  FileFits(r)' /\ Oversize(r)' = Oversize(r)
<1>1. Sent(r, "file")' = Sent(r, "file")
  BY SentMore
<1>2. Sent(r, "file") # {} => Last(r, "file")' = Last(r, "file")
  BY LastMore DEF FormFits, HasLast
<1>3. Oversize(r)' = Oversize(r)
  BY OversizeMore
<1>4. FileFits(r)
  BY DEF FormFits, FileFits
<1>5. CASE Sent(r, "file") = {}
  <2>1. ~form[r].file /\ form'[r].file = form[r].file
    BY <1>4, <1>5 DEF FileFits, SameFile
  <2>2. QED
    BY <1>1, <1>3, <1>5, <2>1 DEF FileFits
<1>6. CASE Sent(r, "file") # {}
  <2>1. Detect(kind[r], Last(r, "file"))' = Detect(kind[r], Last(r, "file"))
    BY <1>2, <1>6 DEF Detect
  <2>2. /\ form'[r].source = Detect(kind[r], Last(r, "file"))'
        /\ form'[r].size = Last(r, "file")'.size
        /\ form'[r].error = None => form'[r].content = Last(r, "file")'.content
    BY <1>2, <1>4, <1>6, <2>1 DEF FileFits, SameFile
  <2>3. form'[r].error = None => form'[r].file
    BY <1>4, <1>6 DEF FileFits, SameFile
  <2>4. QED
    BY <1>1, <1>3, <1>6, <2>2, <2>3 DEF FileFits
<1>7. QED
  BY <1>5, <1>6

ErrorFits(r) ==
  /\ form[r].error = None <=>
       Sent(r, "bad_options") = {} /\ Sent(r, "bad_file") = {} /\ Oversize(r) = {}
  /\ Sent(r, "bad_file") = {} /\ Oversize(r) # {} => form[r].error = 413

\* Whatever the next part is, the form remains what the whole body says.
LEMMA FormFollows ==
  ASSUME Structured, kind \in [Requests -> Kinds], NEW r \in Requests, NEW p \in Parts,
         body' = [body EXCEPT ![r] = Append(@, p)],
         form' = [form EXCEPT ![r] = Read(@, kind[r], p)], kind' = kind, FormFits(r)
  PROVE  form' \in [Requests -> Form] /\ FormFits(r)'
<1> DEFINE f == form[r]
           k == kind[r]
           g == Read(f, k, p)
           n == Len(body[r])
<1>1. f \in Form /\ k \in Kinds /\ form'[r] = g /\ n \in Nat
  BY OnePartMore DEF Structured
<1>2. (f.error = None \/ f.error = 400 \/ f.error = 413) /\ None # 400 /\ None # 413
  BY <1>1, ConversionBounds DEF Form, Status
<1>3. \A type \in {"target", "options", "file"} : HasLast(r, type)'
  BY LastMore DEF FormFits, HasLast
<1>4. \A type : Sent(r, type)' = IF p.type = type THEN Sent(r, type) \cup {n + 1} ELSE Sent(r, type)
  BY SentMore
<1>4a. /\ Sent(r, "bad_file")' = IF p.type = "bad_file" THEN Sent(r, "bad_file") \cup {n + 1}
                                                      ELSE Sent(r, "bad_file")
       /\ Sent(r, "bad_options")' = IF p.type = "bad_options"
                                      THEN Sent(r, "bad_options") \cup {n + 1}
                                      ELSE Sent(r, "bad_options")
  BY <1>4
<1>5. \A type \in {"target", "options", "file"} : p.type = type => Last(r, type)' = p
  BY LastMore DEF FormFits, HasLast
<1>6. Oversize(r)' = IF p.type = "file" /\ p.size > SizeLimit THEN Oversize(r) \cup {n + 1}
                                                             ELSE Oversize(r)
  BY OversizeMore
<1>7. ErrorFits(r)
  BY DEF FormFits, ErrorFits
<1> DEFINE TargetFits ==
             form'[r].target = IF Sent(r, "target")' = {} THEN None ELSE Last(r, "target")'.value
           OptionsFit ==
             form'[r].options = IF Sent(r, "options")' = {} THEN NoOptions ELSE Last(r, "options")'.value
           Goal == g \in Form /\ TargetFits /\ OptionsFit /\ FileFits(r)' /\ ErrorFits(r)'
<1> HIDE DEF g, n
<1>8. ASSUME p.type = "target" PROVE Goal
  <2>1. g \in Form /\ g.target = p.value /\ SameOptions(f, g) /\ SameFile(f, g) /\ g.error = f.error
    BY <1>1, <1>8, ReadTarget DEF g
  <2>2. TargetFits
    BY <1>1, <1>4, <1>5, <1>8, <2>1
  <2>3. OptionsFit /\ FileFits(r)'
    BY <1>1, <1>8, <2>1, OptionsKept, FileKept
  <2>4. ErrorFits(r)'
    BY <1>1, <1>4a, <1>6, <1>7, <1>8, <2>1 DEF ErrorFits
  <2>5. QED
    BY <2>1, <2>2, <2>3, <2>4
<1>9. ASSUME p.type = "save" PROVE Goal
  <2>1. g \in Form /\ SameTarget(f, g) /\ SameOptions(f, g) /\ SameFile(f, g) /\ g.error = f.error
    BY <1>1, <1>9, ReadSave DEF g
  <2>2. TargetFits /\ OptionsFit /\ FileFits(r)'
    BY <1>1, <1>9, <2>1, TargetKept, OptionsKept, FileKept
  <2>3. ErrorFits(r)'
    BY <1>1, <1>4a, <1>6, <1>7, <1>9, <2>1 DEF ErrorFits
  <2>4. QED
    BY <2>1, <2>2, <2>3
<1>10. ASSUME p.type = "options" PROVE Goal
  <2>1. g \in Form /\ g.options = p.value /\ SameTarget(f, g) /\ SameFile(f, g) /\ g.error = f.error
    BY <1>1, <1>10, ReadOptions DEF g
  <2>2. OptionsFit
    BY <1>1, <1>4, <1>5, <1>10, <2>1
  <2>3. TargetFits /\ FileFits(r)'
    BY <1>1, <1>10, <2>1, TargetKept, FileKept
  <2>4. ErrorFits(r)'
    BY <1>1, <1>4a, <1>6, <1>7, <1>10, <2>1 DEF ErrorFits
  <2>5. QED
    BY <2>1, <2>2, <2>3, <2>4
<1>11. ASSUME p.type = "bad_options" PROVE Goal
  <2>1. /\ g \in Form /\ SameTarget(f, g) /\ SameOptions(f, g) /\ SameFile(f, g)
        /\ g.error = IF f.error = None THEN 400 ELSE f.error
    BY <1>1, <1>11, ReadBadOptions DEF g
  <2>1a. g.error = None => f.error = None
    BY <1>2, <2>1
  <2>2. TargetFits /\ OptionsFit /\ FileFits(r)'
    BY <1>1, <1>11, <2>1, <2>1a, TargetKept, OptionsKept, FileKept
  <2>3. ErrorFits(r)'
    BY <1>1, <1>2, <1>4a, <1>6, <1>7, <1>11, <2>1 DEF ErrorFits
  <2>4. QED
    BY <2>1, <2>2, <2>3
<1>12. ASSUME p.type = "bad_file" PROVE Goal
  <2>1. g \in Form /\ g.error = 400 /\ SameTarget(f, g) /\ SameOptions(f, g) /\ SameFile(f, g)
    BY <1>1, <1>12, ReadBadFile DEF g
  <2>1a. g.error # None
    BY <1>2, <2>1
  <2>2. TargetFits /\ OptionsFit /\ FileFits(r)'
    BY <1>1, <1>12, <2>1, <2>1a, TargetKept, OptionsKept, FileKept
  <2>3. ErrorFits(r)'
    <3>1. Sent(r, "bad_file")' # {}
      BY <1>4a, <1>12
    <3>2. QED
      BY <1>1, <2>1a, <3>1 DEF ErrorFits
  <2>4. QED
    BY <2>1, <2>2, <2>3
<1>13. ASSUME p.type = "file" PROVE Goal
  <2>1. /\ g \in Form /\ g.source = Detect(k, p) /\ g.size = p.size
        /\ SameTarget(f, g) /\ SameOptions(f, g)
        /\ p.size > SizeLimit => g.error = 413
        /\ ~(p.size > SizeLimit) => g.file /\ g.content = p.content /\ g.error = f.error
    BY <1>1, <1>13, ReadOneFile DEF g
  <2>2. TargetFits /\ OptionsFit
    BY <1>1, <1>13, <2>1, TargetKept, OptionsKept
  <2>3. FileFits(r)'
    <3>1. Sent(r, "file")' # {} /\ Last(r, "file")' = p /\ kind'[r] = k
      BY <1>4, <1>5, <1>13
    <3>2. Detect(kind[r], Last(r, "file"))' = Detect(k, p)
      BY <3>1 DEF Detect
    <3>3. g.error = None => ~(p.size > SizeLimit)
      BY <1>2, <2>1
    <3>4. QED
      BY <1>1, <2>1, <3>1, <3>2, <3>3 DEF FileFits
  <2>4. ErrorFits(r)'
    <3>1. /\ Sent(r, "bad_file")' = Sent(r, "bad_file")
          /\ Sent(r, "bad_options")' = Sent(r, "bad_options")
      BY <1>4a, <1>13
    <3>2. CASE p.size > SizeLimit
      <4>1. Oversize(r)' # {} /\ g.error = 413 /\ g.error # None
        BY <1>2, <1>6, <1>13, <2>1, <3>2
      <4>2. QED
        BY <1>1, <4>1 DEF ErrorFits
    <3>3. CASE ~(p.size > SizeLimit)
      <4>1. Oversize(r)' = Oversize(r) /\ g.error = f.error
        BY <1>6, <2>1, <3>3
      <4>2. QED
        BY <1>1, <1>7, <3>1, <4>1 DEF ErrorFits
    <3>4. QED
      BY <3>2, <3>3
  <2>5. QED
    BY <2>1, <2>2, <2>3, <2>4
<1>14. Goal
  BY <1>8, <1>9, <1>10, <1>11, <1>12, <1>13, ConversionBounds DEF IsPart
<1>15. form' \in [Requests -> Form]
  BY <1>1, <1>14 DEF Structured
<1>16. FormFits(r)'
  BY <1>3, <1>14 DEF FormFits, FileFits, ErrorFits, HasLast
<1>17. QED
  BY <1>15, <1>16

---------------------------------------------------------------------------
(* What a step leaves alone                                                 *)

Fits(r) == FormFits(r) /\ StageFits(r) /\ (code[r] # None => AnswerFits(r)) /\ HistoryFits(r)

\* The body and the form of a request are as they were.
SameRequest(r) == body'[r] = body[r] /\ form'[r] = form[r] /\ kind'[r] = kind[r]

SameStore(r) ==
  /\ r \in rows' <=> r \in rows
  /\ r \in disk => r \in disk'
  /\ r \in lost' <=> r \in lost
  /\ items'[r] = items[r]

\* The timer may fire, a worker may die, errors may be counted.
Aside(r) ==
  /\ SameRequest(r) /\ SameStore(r) /\ pc'[r] = pc[r] /\ code'[r] = code[r]
  /\ timer[r] = "fired" => timer'[r] = "fired"
  /\ r \in killed => r \in killed'
  /\ faults' = 0 => faults = 0

LEMMA SameBody ==
  ASSUME NEW r \in Requests, SameRequest(r)
  PROVE  /\ \A type : Sent(r, type)' = Sent(r, type) /\ Last(r, type)' = Last(r, type)
         /\ Oversize(r)' = Oversize(r)
         /\ Detect(kind[r], Last(r, "file"))' = Detect(kind[r], Last(r, "file"))
<1>1. \A type : Sent(r, type)' = Sent(r, type)
  BY DEF SameRequest, Sent
<1>2. ASSUME NEW type PROVE Last(r, type)' = Last(r, type)
  <2>1. Sent(r, type)' = Sent(r, type) /\ body'[r] = body[r]
    BY <1>1 DEF SameRequest
  <2>2. QED
    BY <2>1 DEF Last
<1>3. Oversize(r)' = Oversize(r)
  BY <1>1 DEF SameRequest, Oversize
<1>4. Detect(kind[r], Last(r, "file"))' = Detect(kind[r], Last(r, "file"))
  BY <1>2 DEF SameRequest, Detect
<1>5. QED
  BY <1>1, <1>2, <1>3, <1>4

LEMMA FormStays ==
  ASSUME NEW r \in Requests, SameRequest(r), FormFits(r)
  PROVE  FormFits(r)'
  BY SameBody DEF SameRequest, FormFits

LEMMA AnswerStays ==
  ASSUME NEW r \in Requests, SameRequest(r), AnswerFits(r), code'[r] = code[r],
         timer[r] = "fired" => timer'[r] = "fired", r \in killed => r \in killed'
  PROVE  AnswerFits(r)'
  BY SameBody DEF SameRequest, AnswerFits

LEMMA AsideFits ==
  ASSUME NEW r \in Requests, Fits(r), Aside(r)
  PROVE  Fits(r)'
<1>1. SameRequest(r) /\ SameStore(r) /\ pc'[r] = pc[r] /\ code'[r] = code[r]
  BY DEF Aside
<1>2. FormFits(r)'
  BY <1>1, FormStays DEF Fits
<1>3. code'[r] # None => AnswerFits(r)'
  BY <1>1, AnswerStays DEF Fits, Aside
<1>4. StageFits(r)'
  <2>1. StageFits(r)
    BY DEF Fits
  <2>2. Refusal(kind[r], form[r])' = Refusal(kind[r], form[r])
    BY <1>1 DEF SameRequest, Refusal, Incomplete, Unsupported
  <2>3. Sent(r, "broken")' = Sent(r, "broken")
    BY <1>1, SameBody
  <2>4. QED
    BY <1>1, <2>1, <2>2, <2>3 DEF StageFits, SameStore, SameRequest
<1>5. HistoryFits(r)'
  BY <1>1 DEF Fits, HistoryFits, Aside, SameStore, SameRequest
<1>6. QED
  BY <1>2, <1>3, <1>4, <1>5 DEF Fits

---------------------------------------------------------------------------
(* The pool                                                                 *)

LEMMA WithoutOne ==
  ASSUME NEW S, NEW s \in Seq(S), NEW i \in 1..Len(s)
  PROVE  /\ Without(s, i) \in Seq(S)
         /\ Len(Without(s, i)) = Len(s) - 1
         /\ \A j \in 1..(Len(s) - 1) : Without(s, i)[j] = IF j < i THEN s[j] ELSE s[j + 1]
<1> DEFINE n == Len(s)
           front == SubSeq(s, 1, i - 1)
           back == SubSeq(s, i + 1, n)
<1>1. n \in Nat /\ i \in 1..n /\ \A j \in 1..n : s[j] \in S
  BY LenProperties, ElementOfSeq
<1> HIDE DEF n
<1>2. \A j \in 1..(i - 1) : s[j] \in S
  BY <1>1
<1>3. \A j \in (i + 1)..n : s[j] \in S
  BY <1>1
<1>4. /\ front \in Seq(S) /\ Len(front) = i - 1
      /\ \A j \in 1..(i - 1) : front[j] = s[j]
  <2>1. 1 \in Int /\ i - 1 \in Int
    BY <1>1
  <2>2. /\ front \in Seq(S) /\ Len(front) = IF 1 <= i - 1 THEN i - 1 - 1 + 1 ELSE 0
        /\ \A j \in 1..(i - 1 - 1 + 1) : front[j] = s[1 + j - 1]
    BY <1>2, <2>1, SubSeqProperties
  <2>3. QED
    BY <1>1, <2>2
<1>5. /\ back \in Seq(S) /\ Len(back) = n - i
      /\ \A j \in 1..(n - i) : back[j] = s[i + j]
  <2>1. i + 1 \in Int /\ n \in Int
    BY <1>1
  <2>2. /\ back \in Seq(S) /\ Len(back) = IF i + 1 <= n THEN n - (i + 1) + 1 ELSE 0
        /\ \A j \in 1..(n - (i + 1) + 1) : back[j] = s[i + 1 + j - 1]
    BY <1>3, <2>1, SubSeqProperties
  <2>3. QED
    BY <1>1, <2>2
<1>6. Without(s, i) = front \o back
  BY DEF Without, n
<1> HIDE DEF front, back
<1>7. /\ front \o back \in Seq(S) /\ Len(front \o back) = Len(front) + Len(back)
      /\ \A j \in 1..(Len(front) + Len(back)) :
           (front \o back)[j] = IF j <= Len(front) THEN front[j] ELSE back[j - Len(front)]
  BY <1>4, <1>5, ConcatProperties
<1>8. Len(front) + Len(back) = n - 1
  BY <1>1, <1>4, <1>5
<1>9. ASSUME NEW j \in 1..(n - 1)
      PROVE  (front \o back)[j] = IF j < i THEN s[j] ELSE s[j + 1]
  <2>1. CASE j < i
    BY <1>1, <1>4, <1>7, <1>8, <1>9, <2>1
  <2>2. CASE ~(j < i)
    <3>1. j - (i - 1) \in 1..(n - i) /\ i + (j - (i - 1)) = j + 1 /\ ~(j <= i - 1)
      BY <1>1, <1>9, <2>2
    <3>2. back[j - (i - 1)] = s[j + 1]
      BY <1>5, <3>1
    <3>3. QED
      BY <1>4, <1>7, <1>8, <2>2, <3>1, <3>2
  <2>3. QED
    BY <2>1, <2>2
<1>10. QED
  BY <1>6, <1>7, <1>8, <1>9 DEF n

\* A task is on a thread or has one place in the queue; when it leaves, the others stay.
LEMMA LeavePool ==
  ASSUME TypeOK, Structured, NEW r \in Requests, pc[r] = "converting", Leave(r),
         NEW label, label # "converting", pc' = [pc EXCEPT ![r] = label]
  PROVE  queue' \in Seq(Requests) /\ IsFiniteSet(running') /\ PoolFits'
<1> DEFINE n == Len(queue)
           at == CHOOSE i \in 1..n : queue[i] = r
<1>1. /\ queue \in Seq(Requests) /\ IsFiniteSet(running)
      /\ \A i, j \in 1..n : queue[i] = queue[j] => i = j
      /\ {q \in Requests : pc[q] = "converting"} = running \cup Waiting
      /\ running \cap Waiting = {}
      /\ Cardinality(running) <= MaxThreads
  BY DEF TypeOK, PoolFits, Structured
<1>2. n \in Nat /\ \A i \in 1..n : queue[i] \in Requests
  BY <1>1, LenProperties, ElementOfSeq
<1>3. {q \in Requests : pc'[q] = "converting"} = {q \in Requests : pc[q] = "converting"} \ {r}
  BY DEF TypeOK
<1>4. running' = running \ {r} /\ IsFiniteSet(running') /\ Cardinality(running') <= MaxThreads
  <2>1. running' = running \ {r}
    BY DEF Leave
  <2>2. IsFiniteSet(running') /\ Cardinality(running') <= Cardinality(running)
    BY <1>1, <2>1, FS_Subset
  <2>3. Cardinality(running) \in Nat /\ Cardinality(running') \in Nat
    BY <1>1, <2>2, FS_CardinalityType
  <2>4. QED
    BY <1>1, <2>1, <2>2, <2>3, ConversionBounds
<1>5. CASE r \in running
  <2>1. queue' = queue /\ Waiting' = Waiting /\ r \notin Waiting
    BY <1>1, <1>5 DEF Leave, Waiting
  <2>2. QED
    BY <1>1, <1>3, <1>4, <2>1 DEF PoolFits
<1>6. CASE r \notin running
  <2>1. r \in Waiting
    BY <1>1, <1>6
  <2>2. at \in 1..n /\ queue[at] = r
    BY <2>1 DEF Waiting
  <2>3. queue' = Without(queue, at)
    BY <1>6 DEF Leave
  <2> HIDE DEF at, n
  <2>4. /\ queue' \in Seq(Requests) /\ Len(queue') = n - 1
        /\ \A j \in 1..(n - 1) : queue'[j] = IF j < at THEN queue[j] ELSE queue[j + 1]
    BY <1>1, <2>2, <2>3, WithoutOne DEF n
  <2>5. \A i, j \in 1..Len(queue') : queue'[i] = queue'[j] => i = j
    BY <1>1, <1>2, <2>2, <2>4
  <2>6. Waiting' = Waiting \ {r}
    <3>1. ASSUME NEW j \in 1..(n - 1) PROVE queue'[j] \in Waiting \ {r}
      <4>1. PICK i \in 1..n : queue'[j] = queue[i] /\ i # at
        BY <1>2, <2>2, <2>4, <3>1
      <4>2. QED
        BY <1>1, <2>2, <4>1 DEF Waiting, n
    <3>2. ASSUME NEW i \in 1..n, queue[i] # r PROVE \E j \in 1..(n - 1) : queue'[j] = queue[i]
      <4>1. CASE i < at
        BY <1>2, <2>2, <2>4, <3>2, <4>1
      <4>2. CASE ~(i < at)
        <5>1. i - 1 \in 1..(n - 1) /\ ~(i - 1 < at) /\ i - 1 + 1 = i
          BY <1>2, <2>2, <3>2, <4>2
        <5>2. QED
          BY <2>4, <5>1
      <4>3. QED
        BY <4>1, <4>2
    <3>3. Waiting' = {queue'[j] : j \in 1..(n - 1)}
      BY <2>4 DEF Waiting
    <3>4. Waiting = {queue[i] : i \in 1..n}
      BY DEF Waiting, n
    <3>5. QED
      BY <3>1, <3>2, <3>3, <3>4
  <2>7. QED
    BY <1>1, <1>3, <1>4, <1>6, <2>4, <2>5, <2>6 DEF PoolFits
<1>7. QED
  BY <1>5, <1>6

\* A task that joins the queue was not in the pool.
LEMMA JoinPool ==
  ASSUME TypeOK, Structured, NEW r \in Requests, pc[r] # "converting",
         queue' = Append(queue, r), running' = running, pc' = [pc EXCEPT ![r] = "converting"]
  PROVE  queue' \in Seq(Requests) /\ IsFiniteSet(running') /\ PoolFits'
<1> DEFINE n == Len(queue)
<1>1. /\ queue \in Seq(Requests) /\ IsFiniteSet(running)
      /\ \A i, j \in 1..n : queue[i] = queue[j] => i = j
      /\ {q \in Requests : pc[q] = "converting"} = running \cup Waiting
      /\ running \cap Waiting = {}
      /\ Cardinality(running) <= MaxThreads
  BY DEF TypeOK, PoolFits, Structured
<1>2. {q \in Requests : pc'[q] = "converting"} = {q \in Requests : pc[q] = "converting"} \cup {r}
  BY DEF TypeOK
<1>3. r \notin running /\ r \notin Waiting
  BY <1>1
<1>4. /\ queue' \in Seq(Requests) /\ Len(queue') = n + 1 /\ n \in Nat
      /\ \A i \in 1..n : queue'[i] = queue[i]
      /\ queue'[n + 1] = r
  BY <1>1, AppendProperties, LenProperties
<1>5. \A i \in 1..n : queue[i] # r
  BY <1>3 DEF Waiting
<1>6. Waiting = {queue[i] : i \in 1..n} /\ Waiting' = {queue'[i] : i \in 1..(n + 1)}
  BY <1>4 DEF Waiting
<1> HIDE DEF n
<1>7. \A i, j \in 1..Len(queue') : queue'[i] = queue'[j] => i = j
  <2>1. SUFFICES ASSUME NEW i \in 1..(n + 1), NEW j \in 1..(n + 1), queue'[i] = queue'[j]
                 PROVE  i = j
    BY <1>4
  <2>2. (i \in 1..n \/ i = n + 1) /\ (j \in 1..n \/ j = n + 1)
    BY <1>4
  <2>3. QED
    BY <1>1, <1>4, <1>5, <2>1, <2>2
<1>8. Waiting' = Waiting \cup {r}
  <2>1. 1..(n + 1) = 1..n \cup {n + 1}
    BY <1>4
  <2>2. QED
    BY <1>4, <1>6, <2>1
<1>9. QED
  BY <1>1, <1>2, <1>3, <1>4, <1>7, <1>8 DEF PoolFits

\* The head of the queue moves to a free thread.
LEMMA StartPool ==
  ASSUME TypeOK, Structured, StartTask
  PROVE  queue' \in Seq(Requests) /\ IsFiniteSet(running') /\ PoolFits'
<1> DEFINE n == Len(queue)
           head == Head(queue)
<1>1. /\ queue \in Seq(Requests) /\ IsFiniteSet(running)
      /\ \A i, j \in 1..n : queue[i] = queue[j] => i = j
      /\ {q \in Requests : pc[q] = "converting"} = running \cup Waiting
      /\ running \cap Waiting = {}
  BY DEF TypeOK, PoolFits, Structured
<1>2. /\ queue # <<>> /\ Cardinality(running) < MaxThreads
      /\ running' = running \cup {head} /\ queue' = Tail(queue) /\ pc' = pc
  BY DEF StartTask
<1>3. /\ head = queue[1] /\ n \in Nat /\ 1 <= n
      /\ Tail(queue) \in Seq(Requests) /\ Len(Tail(queue)) = n - 1
      /\ \A i \in 1..(n - 1) : Tail(queue)[i] = queue[i + 1]
  <2>1. n \in Nat \ {0}
    BY <1>1, <1>2, EmptySeq
  <2>2. QED
    BY <1>1, <1>2, <2>1, HeadTailProperties
<1>4. Waiting = {queue[i] : i \in 1..n} /\ Waiting' = {queue[i + 1] : i \in 1..(n - 1)}
  <2>1. Waiting' = {queue'[i] : i \in 1..(n - 1)}
    BY <1>2, <1>3 DEF Waiting
  <2>2. QED
    BY <1>2, <1>3, <2>1 DEF Waiting
<1> HIDE DEF n, head
<1>5. \A i, j \in 1..Len(queue') : queue'[i] = queue'[j] => i = j
  BY <1>1, <1>2, <1>3
<1>6. Waiting' \subseteq Waiting /\ head \in Waiting /\ head \notin Waiting'
  BY <1>1, <1>3, <1>4
<1>7. Waiting \subseteq Waiting' \cup {head}
  <2>1. ASSUME NEW i \in 1..n PROVE queue[i] \in Waiting' \cup {head}
    <3>1. CASE i = 1
      BY <1>3, <3>1
    <3>2. CASE i # 1
      <4>1. i - 1 \in 1..(n - 1) /\ (i - 1) + 1 = i
        BY <1>3, <2>1, <3>2
      <4>2. QED
        BY <1>4, <4>1
    <3>3. QED
      BY <3>1, <3>2
  <2>2. QED
    BY <1>4, <2>1
<1>8. IsFiniteSet(running') /\ Cardinality(running') <= MaxThreads
  <2>1. head \notin running
    BY <1>1, <1>6
  <2>2. IsFiniteSet(running') /\ Cardinality(running') = Cardinality(running) + 1
    BY <1>1, <1>2, <2>1, FS_AddElement
  <2>3. Cardinality(running) \in Nat
    BY <1>1, FS_CardinalityType
  <2>4. QED
    BY <1>2, <2>2, <2>3, ConversionBounds
<1>9. running' \cup Waiting' = running \cup Waiting /\ running' \cap Waiting' = {}
  BY <1>1, <1>2, <1>6, <1>7
<1>10. QED
  BY <1>1, <1>2, <1>3, <1>5, <1>8, <1>9 DEF PoolFits

LEMMA PoolStays ==
  ASSUME TypeOK, Structured, UNCHANGED pool,
         \A r \in Requests : pc'[r] = "converting" <=> pc[r] = "converting"
  PROVE  queue' \in Seq(Requests) /\ IsFiniteSet(running') /\ PoolFits'
<1>1. queue' = queue /\ running' = running /\ Waiting' = Waiting
  BY DEF pool, Waiting
<1>2. QED
  BY <1>1 DEF TypeOK, Structured, PoolFits

---------------------------------------------------------------------------
(* The answers                                                              *)

\* What a form that is not refused says of its body.
LEMMA FormSays ==
  ASSUME Structured, NEW r \in Requests, FormFits(r), Refusal(kind[r], form[r]) = None
  PROVE  /\ Sent(r, "bad_options") = {} /\ Sent(r, "bad_file") = {} /\ Oversize(r) = {}
         /\ Sent(r, "file") # {} /\ Sent(r, "target") # {}
         /\ form[r].target = Last(r, "target").value /\ form[r].target # None
         /\ form[r].target \in Formats(kind[r])
         /\ form[r].source = Detect(kind[r], Last(r, "file")) /\ form[r].source # None
         /\ form[r].size = Last(r, "file").size /\ form[r].size # 0
         /\ form[r].content = Last(r, "file").content
         /\ form[r].options =
              IF Sent(r, "options") = {} THEN NoOptions ELSE Last(r, "options").value
<1>1. form[r].error = None /\ ~Incomplete(form[r]) /\ ~Unsupported(kind[r], form[r])
  BY ConversionBounds DEF Refusal, Status
<1>2. /\ form[r].file /\ form[r].target # None /\ form[r].size # 0
      /\ form[r].source # None /\ form[r].target \in Formats(kind[r])
  BY <1>1 DEF Incomplete, Unsupported
<1>3. Sent(r, "file") # {} /\ Sent(r, "target") # {}
  BY <1>2 DEF FormFits
<1>4. QED
  BY <1>1, <1>2, <1>3 DEF FormFits

\* A request that is refused is answered by the status of its refusal.
LEMMA RefusalFits ==
  ASSUME Structured, NEW r \in Requests, FormFits(r), Sent(r, "broken") = {}, SameRequest(r),
         Refusal(kind[r], form[r]) # None, code'[r] = Refusal(kind[r], form[r])
  PROVE  AnswerFits(r)'
<1> DEFINE f == form[r]
           k == kind[r]
           s == Detect(kind[r], Last(r, "file"))
           t == Last(r, "target").value
<1>1. f \in Form /\ f.error \in {None, 400, 413}
  BY DEF Structured, Form
<1>2. /\ Sent(r, "broken")' = {} /\ Sent(r, "bad_file")' = Sent(r, "bad_file")
      /\ Sent(r, "bad_options")' = Sent(r, "bad_options") /\ Oversize(r)' = Oversize(r)
      /\ Sent(r, "file")' = Sent(r, "file") /\ Sent(r, "target")' = Sent(r, "target")
      /\ Last(r, "file")' = Last(r, "file") /\ Last(r, "target")' = Last(r, "target")
      /\ Detect(kind[r], Last(r, "file"))' = s /\ kind'[r] = k
  BY SameBody DEF SameRequest
<1>3. CASE f.error # None
  <2>1. code'[r] = f.error /\ f.error \in {400, 413}
    BY <1>1, <1>3 DEF Refusal
  <2>2. Sent(r, "bad_file") = {} /\ Oversize(r) # {} => f.error = 413
    BY DEF FormFits
  <2>3. Sent(r, "bad_options") # {} \/ Sent(r, "bad_file") # {} \/ Oversize(r) # {}
    BY <1>3 DEF FormFits
  <2>4. QED
    BY <1>2, <2>1, <2>2, <2>3 DEF AnswerFits
<1>4. CASE f.error = None
  <2>1. Sent(r, "bad_options") = {} /\ Sent(r, "bad_file") = {} /\ Oversize(r) = {}
    BY <1>4 DEF FormFits
  <2>2. Sent(r, "file") # {} => f.file /\ f.source = s /\ f.size = Last(r, "file").size
    BY <1>4 DEF FormFits
  <2>3. Sent(r, "file") = {} => ~f.file
    BY DEF FormFits
  <2>4. f.target = IF Sent(r, "target") = {} THEN None ELSE t
    BY DEF FormFits
  <2> HIDE DEF f, s, t, k
  <2>5. CASE Incomplete(f)
    <3>1. code'[r] = 400
      BY <1>4, <2>5 DEF Refusal, f
    <3>2. Sent(r, "file") = {} \/ Sent(r, "target") = {} \/ t = None \/ Last(r, "file").size = 0
      BY <2>2, <2>4, <2>5 DEF Incomplete
    <3>3. QED
      BY <1>2, <2>1, <3>1, <3>2 DEF AnswerFits, t
  <2>6. CASE ~Incomplete(f)
    <3>1. /\ f.file /\ f.target # None /\ f.size # 0
      BY <2>6 DEF Incomplete
    <3>2. Sent(r, "file") # {} /\ Sent(r, "target") # {} /\ f.target = t /\ f.source = s
      BY <2>2, <2>3, <2>4, <3>1
    <3>3. f.size \in Nat /\ ~(f.size > SizeLimit)
      <4>1. HasLast(r, "file")
        BY DEF FormFits, HasLast
      <4>2. PICK i \in Sent(r, "file") : Last(r, "file") = body[r][i]
        BY <3>2, <4>1 DEF HasLast, Last
      <4>3. ~(body[r][i].size > SizeLimit)
        BY <2>1, <4>2 DEF Oversize
      <4>4. QED
        BY <1>1, <2>2, <3>2, <4>2, <4>3 DEF Form
    <3>4. Unsupported(k, f) /\ code'[r] = 415
      BY <1>4, <2>6, <3>3 DEF Refusal, f, k
    <3>5. s = None \/ t \notin Formats(k)
      BY <3>2, <3>4 DEF Unsupported
    <3>6. t # None /\ Last(r, "file").size # 0
      BY <2>2, <3>1, <3>2
    <3>7. QED
      BY <1>2, <2>1, <3>2, <3>4, <3>5, <3>6 DEF AnswerFits, t
  <2>7. QED
    BY <2>5, <2>6
<1>5. QED
  BY <1>3, <1>4

\* The answer of a request that is not refused has one of four reasons.
Reasoned(r) ==
  LET f == form[r]
  IN  IF f.source = f.target THEN code'[r] = 200
      ELSE \/ code'[r] = 408 /\ timer'[r] = "fired"
           \/ code'[r] = 400 /\ \/ r \in killed' \/ <<f.source, f.target>> \notin Offered
                                \/ f.content # Whole(kind[r])
                                \/ kind[r] = "image" /\ ~InRange(f.options)
           \/ /\ code'[r] = 200 /\ <<f.source, f.target>> \in Offered
              /\ f.content \in Readable(kind[r])
              /\ kind[r] = "image" => InRange(f.options)

LEMMA OutcomeFits ==
  ASSUME Structured, NEW r \in Requests, FormFits(r), Sent(r, "broken") = {}, SameRequest(r),
         Refusal(kind[r], form[r]) = None,
         Reasoned(r)
  PROVE  AnswerFits(r)'
<1> DEFINE s == Detect(kind[r], Last(r, "file"))
           t == Last(r, "target").value
           o == IF Sent(r, "options") = {} THEN NoOptions ELSE Last(r, "options").value
<1>1. /\ Sent(r, "broken")' = {} /\ Sent(r, "bad_file")' = {} /\ Oversize(r)' = {}
      /\ Sent(r, "bad_options")' = {} /\ Sent(r, "file")' # {} /\ Sent(r, "target")' # {}
  BY SameBody, FormSays
<1>2. /\ Last(r, "file")' = Last(r, "file") /\ Last(r, "target")' = Last(r, "target")
      /\ Detect(kind[r], Last(r, "file"))' = s /\ kind'[r] = kind[r]
      /\ (IF Sent(r, "options") = {} THEN NoOptions ELSE Last(r, "options").value)' = o
  BY SameBody DEF SameRequest
<1>3. /\ form[r].target = t /\ t # None /\ t \in Formats(kind[r])
      /\ form[r].source = s /\ s # None /\ Last(r, "file").size # 0
      /\ form[r].content = Last(r, "file").content /\ form[r].options = o
  BY FormSays
<1> HIDE DEF s, t, o
<1>4. CASE s = t
  BY <1>1, <1>2, <1>3, <1>4 DEF AnswerFits, t, Reasoned
<1>5. CASE s # t
  <2>1. code'[r] = 408 /\ timer'[r] = "fired" => AnswerFits(r)'
    BY <1>1, <1>2, <1>3, <1>5 DEF AnswerFits, t
  <2>2. ASSUME code'[r] = 400, \/ r \in killed' \/ <<s, t>> \notin Offered
                               \/ Last(r, "file").content # Whole(kind[r])
                               \/ kind[r] = "image" /\ ~InRange(o)
        PROVE  AnswerFits(r)'
    BY <1>1, <1>2, <1>3, <1>5, <2>2 DEF AnswerFits, t
  <2>3. ASSUME code'[r] = 200, <<s, t>> \in Offered, kind[r] = "image" => InRange(o),
               Last(r, "file").content \in Readable(kind[r])
        PROVE  AnswerFits(r)'
    BY <1>1, <1>2, <1>3, <1>5, <2>3 DEF AnswerFits, t
  <2>4. QED
    BY <1>3, <1>5, <2>1, <2>2, <2>3 DEF Reasoned
<1>6. QED
  BY <1>4, <1>5

\* The worker takes what is offered and readable, within the limits.
LEMMA WorkerFits ==
  ASSUME Structured, kind \in [Requests -> Kinds], NEW r \in Requests, FormFits(r),
         Refusal(kind[r], form[r]) = None, form[r].source # form[r].target
  PROVE  LET f == form[r]
         IN  IF IF kind[r] = "text" THEN TextConverts(f) ELSE ImageConverts(f)
               THEN /\ <<f.source, f.target>> \in Offered
                    /\ f.content \in Readable(kind[r])
                    /\ kind[r] = "image" => InRange(f.options)
               ELSE \/ <<f.source, f.target>> \notin Offered
                    \/ f.content # Whole(kind[r])
                    \/ kind[r] = "image" /\ ~InRange(f.options)
<1> DEFINE f == form[r]
<1>1. kind[r] = "text" \/ kind[r] = "image"
  BY ConversionBounds
<1>2. f.target \in Formats(kind[r]) /\ f.source \in Formats(kind[r]) /\ f.source # f.target
  <2>1. f.source = Detect(kind[r], Last(r, "file")) /\ f.source # None
    BY FormSays
  <2>2. QED
    BY <2>1, FormSays DEF Detect
<1>3. f.options \in Options
  BY DEF Structured, Form
<1> HIDE DEF f
<1>4. CASE kind[r] = "text"
  <2>1. f.source \in TextFormats /\ f.target \in TextFormats
    BY <1>2, <1>4 DEF Formats
  <2>2. <<f.source, f.target>> \in Offered
    BY <1>2, <2>1 DEF Offered
  <2>3. QED
    BY <1>4, <2>2 DEF TextConverts, Readable, Whole, f
<1>5. CASE kind[r] = "image"
  <2>1. f.source \in ImageFormats /\ f.target \in ImageFormats
    BY <1>2, <1>5 DEF Formats
  <2>2. f.target \in {"jpeg", "png"} <=> <<f.source, f.target>> \in Offered
    BY <1>2, <2>1 DEF Offered, ImageFormats, TextFormats
  <2>3. OptionsAllowed(f.options) /\ f.options.quality # 0 <=> InRange(f.options)
    <3>1. f.options.width \in Int /\ f.options.height \in Int /\ f.options.quality \in Int
      BY <1>3 DEF Options
    <3>2. QED
      BY <3>1, ConversionBounds DEF OptionsAllowed, InRange
  <2>4. QED
    BY <1>5, <2>2, <2>3 DEF ImageConverts, Readable, Whole, f
<1>6. QED
  BY <1>1, <1>4, <1>5

---------------------------------------------------------------------------
(* The inductive invariant                                                  *)

LEMMA InvFits ==
  ASSUME IInv
  PROVE  TypeOK /\ Structured /\ \A r \in Requests : Fits(r)
  BY DEF IInv, AnswerFollowsBody, TruthfulHistory, Fits

LEMMA InductiveInit == Init => IInv
<1> SUFFICES ASSUME Init PROVE IInv
  OBVIOUS
<1>1. queue = <<>> /\ running = {} /\ queue \in Seq(Requests) /\ Len(queue) = 0
  BY EmptySeq DEF Init
<1>2. Waiting = {}
  BY <1>1 DEF Waiting
<1>3. IsFiniteSet(running) /\ Cardinality(running) = 0
  BY <1>1, FS_EmptySet
<1>4. PoolFits
  BY <1>1, <1>2, <1>3, ConversionBounds DEF Init, PoolFits
<1>5. \A r \in Requests : Len(body[r]) = 0 /\ body[r] = <<>> /\ items[r] = <<>> /\ Len(items[r]) = 0
  BY EmptySeq DEF Init
<1>6. TypeOK
  BY <1>4, <1>5, ConversionBounds DEF Init, TypeOK
<1>7. NoOptions \in Options
  BY ConversionBounds DEF NoOptions, Options
<1>8. Blank \in Form
  BY <1>7, ConversionBounds DEF Blank, Form
<1>9. Structured
  BY <1>1, <1>3, <1>8, EmptySeq DEF Init, Structured
<1>10. \A r \in Requests : \A type : Sent(r, type) = {}
  BY <1>5 DEF Sent
<1>11. \A r \in Requests : FormFits(r)
  BY <1>10 DEF Init, FormFits, Blank, Oversize
<1>12. \A r \in Requests : StageFits(r) /\ code[r] = None /\ HistoryFits(r)
  BY <1>5, <1>10, ConversionBounds DEF Init, StageFits, HistoryFits
<1>13. QED
  BY <1>6, <1>9, <1>11, <1>12 DEF IInv, AnswerFollowsBody, TruthfulHistory

\* A step of one request that fits it, and leaves the others alone.
Step(r) ==
  /\ TypeOK' /\ Structured' /\ Fits(r)'
  /\ \A q \in Requests \ {r} : Aside(q)

LEMMA StepKeeps ==
  ASSUME IInv, NEW r \in Requests, Step(r)
  PROVE  IInv'
<1>1. \A q \in Requests : Fits(q)'
  BY InvFits, AsideFits DEF Step
<1>2. QED
  BY <1>1 DEF Step, IInv, AnswerFollowsBody, TruthfulHistory, Fits

LEMMA BeginStep ==
  ASSUME IInv, NEW r \in Requests, Begin(r)
  PROVE  Step(r)
<1> USE DEF Begin, Goto, input, pool, store
<1>1. TypeOK /\ Structured /\ Fits(r)
  BY InvFits
<1>2. queue' \in Seq(Requests) /\ IsFiniteSet(running') /\ PoolFits'
  BY <1>1, PoolStays DEF TypeOK
<1>3. TypeOK' /\ Structured'
  BY <1>1, <1>2 DEF TypeOK, Structured
<1>4. \A q \in Requests \ {r} : Aside(q)
  BY <1>1 DEF TypeOK, Aside, SameRequest, SameStore
<1>5. SameRequest(r) /\ SameStore(r) /\ pc[r] = "idle" /\ pc'[r] = "parsing" /\ code'[r] = code[r]
  BY <1>1 DEF TypeOK, SameRequest, SameStore
<1>6. FormFits(r)'
  BY <1>1, <1>5, FormStays DEF Fits
<1>7. Sent(r, "broken")' = Sent(r, "broken")
  BY <1>5, SameBody
<1>8. StageFits(r)' /\ code'[r] = None
  BY <1>1, <1>5, <1>7 DEF Fits, StageFits, SameStore, SameRequest
<1>9. HistoryFits(r)'
  BY <1>1, <1>5 DEF Fits, StageFits, HistoryFits, SameStore, SameRequest
<1>10. QED
  BY <1>3, <1>4, <1>6, <1>8, <1>9 DEF Step, Fits

LEMMA ReadPartStep ==
  ASSUME IInv, NEW r \in Requests, ReadPart(r)
  PROVE  Step(r)
<1>1. TypeOK /\ Structured /\ Fits(r)
  BY InvFits
<1>2. PICK p \in Parts : /\ body' = [body EXCEPT ![r] = Append(@, p)]
                         /\ form' = [form EXCEPT ![r] = Read(@, kind[r], p)]
  BY DEF ReadPart
<1>3. /\ pc[r] = "parsing" /\ Len(body[r]) < MaxParts
      /\ UNCHANGED <<kind, pc, timer, code, queue, running, disk, rows, items, faults, lost, killed>>
  BY DEF ReadPart, pool, store
<1>4. /\ body' \in [Requests -> Seq(Parts \cup {Broken})]
      /\ Len(body[r]) \in Nat /\ Len(body'[r]) = Len(body[r]) + 1
      /\ \A q \in Requests : q # r => body'[q] = body[q]
  BY <1>1, <1>2, OnePartMore
<1>5. form' \in [Requests -> Form] /\ FormFits(r)'
  BY <1>1, <1>2, <1>3, FormFollows DEF TypeOK, Fits
<1>6. queue' \in Seq(Requests) /\ IsFiniteSet(running') /\ PoolFits'
  BY <1>1, <1>3, PoolStays DEF pool
<1>7. Structured'
  BY <1>1, <1>3, <1>4, <1>5, <1>6 DEF Structured
<1>8. Len(body'[r]) <= MaxParts
  BY <1>3, <1>4, ConversionBounds
<1>9. TypeOK'
  <2>1. Len(body'[r]) <= MaxParts + 1
    BY <1>4, <1>8, ConversionBounds
  <2>2. \A q \in Requests : q # r => Len(body'[q]) <= MaxParts + 1
    BY <1>1, <1>4 DEF TypeOK
  <2>3. QED
    BY <1>1, <1>3, <1>6, <2>1, <2>2 DEF TypeOK
<1>10. \A q \in Requests \ {r} : Aside(q)
  BY <1>1, <1>2, <1>3, <1>4 DEF Structured, Aside, SameRequest, SameStore
<1>11. p.type # "broken"
  BY ConversionBounds DEF IsPart
<1>12. Sent(r, "broken")' = Sent(r, "broken")
  BY <1>1, <1>2, <1>11, SentMore
<1>13. StageFits(r)' /\ code'[r] = None
  BY <1>1, <1>3, <1>8, <1>12 DEF Fits, StageFits
<1>14. HistoryFits(r)'
  BY <1>1, <1>3 DEF Fits, StageFits, HistoryFits
<1>15. QED
  BY <1>5, <1>7, <1>9, <1>10, <1>13, <1>14 DEF Step, Fits

LEMMA BreakOffStep ==
  ASSUME IInv, NEW r \in Requests, BreakOff(r)
  PROVE  Step(r)
<1>1. TypeOK /\ Structured /\ Fits(r)
  BY InvFits
<1>2. /\ body' = [body EXCEPT ![r] = Append(@, Broken)] /\ pc[r] = "parsing"
      /\ code' = [code EXCEPT ![r] = 400] /\ pc' = [pc EXCEPT ![r] = "recording_error"]
      /\ UNCHANGED <<kind, form, timer, queue, running, disk, rows, items, faults, lost, killed>>
  BY DEF BreakOff, Refuse, Goto, pool, store
<1>0. Broken \in Parts \cup {Broken} /\ Broken.type = "broken"
  BY DEF Broken
<1>3. /\ body' \in [Requests -> Seq(Parts \cup {Broken})]
      /\ Len(body[r]) \in Nat /\ Len(body'[r]) = Len(body[r]) + 1
      /\ \A q \in Requests : q # r => body'[q] = body[q]
  BY <1>1, <1>2, <1>0, OnePartMore
<1>4. \A type : Sent(r, type)' = IF Broken.type = type THEN Sent(r, type) \cup {Len(body[r]) + 1}
                                                      ELSE Sent(r, type)
  BY <1>1, <1>2, <1>0, SentMore
<1>4a. Oversize(r)' = Oversize(r)
  BY <1>1, <1>2, <1>0, OversizeMore
<1>5. ASSUME NEW type, type # "broken", HasLast(r, type), Sent(r, type) # {}
      PROVE  Last(r, type)' = Last(r, type)
  BY <1>1, <1>2, <1>0, <1>5, LastMore
<1>6. FormFits(r)'
  <2>1. FormFits(r) /\ \A type \in {"target", "options", "file"} : HasLast(r, type)
    BY <1>1 DEF Fits, FormFits, HasLast
  <2>2. /\ Sent(r, "target") # {} => Last(r, "target")' = Last(r, "target")
        /\ Sent(r, "options") # {} => Last(r, "options")' = Last(r, "options")
        /\ Sent(r, "file") # {} => Last(r, "file")' = Last(r, "file")
    BY <1>5, <2>1
  <2>3. /\ Sent(r, "target")' = Sent(r, "target") /\ Sent(r, "options")' = Sent(r, "options")
        /\ Sent(r, "file")' = Sent(r, "file") /\ Oversize(r)' = Oversize(r)
        /\ Sent(r, "bad_file")' = Sent(r, "bad_file")
        /\ Sent(r, "bad_options")' = Sent(r, "bad_options")
    BY <1>0, <1>4, <1>4a
  <2>4. Sent(r, "file") # {} => Detect(kind[r], Last(r, "file"))' = Detect(kind[r], Last(r, "file"))
    BY <1>2, <2>2 DEF Detect
  <2>5. form'[r] = form[r]
    BY <1>2
  <2>6. QED
    BY <2>1, <2>2, <2>3, <2>4, <2>5 DEF FormFits
<1>7. queue' \in Seq(Requests) /\ IsFiniteSet(running') /\ PoolFits'
  BY <1>1, <1>2, PoolStays DEF TypeOK, pool
<1>8. Structured'
  BY <1>1, <1>2, <1>3, <1>7 DEF Structured
<1>9. TypeOK'
  <2>1. Len(body[r]) <= MaxParts
    BY <1>1, <1>2 DEF Fits, StageFits
  <2>2. \A q \in Requests : Len(body'[q]) <= MaxParts + 1
    <3>1. Len(body'[r]) <= MaxParts + 1
      BY <1>3, <2>1, ConversionBounds
    <3>2. \A q \in Requests : q # r => Len(body'[q]) <= MaxParts + 1
      BY <1>1, <1>3 DEF TypeOK
    <3>3. QED
      BY <3>1, <3>2
  <2>3. pc' \in [Requests -> {"idle", "parsing", "converting", "writing", "registering",
                               "done"} \cup Recording]
    BY <1>1, <1>2 DEF TypeOK, Recording
  <2>4. QED
    BY <1>1, <1>2, <1>7, <2>2, <2>3 DEF TypeOK, Status
<1>10. \A q \in Requests \ {r} : Aside(q)
  BY <1>1, <1>2, <1>3 DEF TypeOK, Aside, SameRequest, SameStore
<1>11. pc'[r] = "recording_error" /\ code'[r] = 400
  BY <1>1, <1>2 DEF TypeOK
<1>12. Sent(r, "broken")' # {}
  BY <1>0, <1>4
<1>13. StageFits(r)'
  BY <1>1, <1>2, <1>11, ConversionBounds DEF Fits, StageFits, Status
<1>14. AnswerFits(r)'
  BY <1>11, <1>12 DEF AnswerFits
<1>15. HistoryFits(r)'
  BY <1>1, <1>2, <1>11 DEF Fits, StageFits, HistoryFits
<1>16. QED
  BY <1>6, <1>8, <1>9, <1>10, <1>13, <1>14, <1>15 DEF Step, Fits


PcLabels == {"idle", "parsing", "converting", "writing", "registering", "done"} \cup Recording

LEMMA PcType ==
  ASSUME TypeOK, NEW r \in Requests, NEW label \in PcLabels, pc' = [pc EXCEPT ![r] = label]
  PROVE  /\ pc' \in [Requests -> PcLabels] /\ pc'[r] = label
         /\ \A q \in Requests : q # r => pc'[q] = pc[q]
  BY DEF TypeOK, PcLabels

\* A request whose answer is decided, out of its body or out of the pool.
LEMMA DecidedStep ==
  ASSUME IInv, NEW r \in Requests, pc[r] \in {"parsing", "converting"},
         UNCHANGED <<input, store, faults, lost>>,
         queue' \in Seq(Requests), IsFiniteSet(running'), PoolFits',
         (\E c \in Status : c # 200 /\ Refuse(r, c)) \/ Keep(r),
         killed \subseteq killed', killed' \subseteq Requests,
         timer' = timer \/ timer' = [timer EXCEPT ![r] = "fired"],
         AnswerFits(r)'
  PROVE  Step(r)
<1>1. TypeOK /\ Structured /\ Fits(r)
  BY InvFits
<1>2. PICK c \in Status, label \in {"recording_error", "writing", "recording"} :
        /\ code' = [code EXCEPT ![r] = c] /\ pc' = [pc EXCEPT ![r] = label]
        /\ label = "recording_error" => c # 200
        /\ label = "writing" => c = 200 /\ form[r].save
        /\ label = "recording" => c = 200 /\ ~form[r].save
  <2>1. CASE \E c \in Status : c # 200 /\ Refuse(r, c)
    BY <2>1 DEF Refuse, Goto
  <2>2. CASE Keep(r)
    BY <2>2 DEF Keep, Goto, Status
  <2>3. QED
    BY <2>1, <2>2
<1>3. pc' \in [Requests -> PcLabels] /\ pc'[r] = label /\ \A q \in Requests : q # r => pc'[q] = pc[q]
  BY <1>1, <1>2, PcType DEF PcLabels, Recording
<1>4. /\ code' \in [Requests -> Status \cup {None}] /\ code'[r] = c
      /\ \A q \in Requests : q # r => code'[q] = code[q]
  BY <1>1, <1>2 DEF TypeOK
<1>5. /\ timer' \in [Requests -> {"off", "running", "fired", "cleared"}]
      /\ \A q \in Requests : q # r => timer'[q] = timer[q]
  BY <1>1 DEF TypeOK
<1>6. /\ kind' = kind /\ body' = body /\ form' = form /\ disk' = disk /\ rows' = rows
      /\ items' = items /\ faults' = faults /\ lost' = lost
  BY DEF input, store
<1>7. TypeOK'
  BY <1>1, <1>3, <1>4, <1>5, <1>6 DEF TypeOK, PcLabels
<1>8. Structured'
  BY <1>1, <1>6 DEF Structured
<1>9. \A q \in Requests \ {r} : Aside(q)
  BY <1>3, <1>4, <1>5, <1>6 DEF Aside, SameRequest, SameStore
<1>10. SameRequest(r)
  BY <1>6 DEF SameRequest
<1>11. FormFits(r)'
  BY <1>1, <1>10, FormStays DEF Fits
<1>12. code[r] = None /\ c # None /\ Sent(r, "broken") = {} /\ Sent(r, "broken")' = {}
  <2>1. code[r] = None /\ Sent(r, "broken") = {}
    BY <1>1, ConversionBounds DEF Fits, StageFits, Status
  <2>2. QED
    BY <1>10, <2>1, SameBody, ConversionBounds
<1>13. r \notin rows /\ r \notin lost /\ items[r] = <<>>
  BY <1>1 DEF Fits, StageFits
<1>14. StageFits(r)'
  BY <1>2, <1>3, <1>4, <1>6, <1>12, <1>13 DEF StageFits
<1>15. HistoryFits(r)'
  BY <1>2, <1>3, <1>6, <1>13 DEF HistoryFits
<1>16. QED
  BY <1>7, <1>8, <1>9, <1>11, <1>14, <1>15 DEF Step, Fits

LEMMA NotBroken ==
  ASSUME IInv, NEW r \in Requests, pc[r] \in {"parsing", "converting"}
  PROVE  Sent(r, "broken") = {}
  BY InvFits, ConversionBounds DEF Fits, StageFits, Status

LEMMA EndBodyStep ==
  ASSUME IInv, NEW r \in Requests, EndBody(r)
  PROVE  Step(r)
<1> DEFINE f == form[r]
           refusal == Refusal(kind[r], f)
<1>1. TypeOK /\ Structured /\ Fits(r) /\ FormFits(r) /\ f \in Form
  BY InvFits DEF Fits, Structured
<1>2. /\ pc[r] = "parsing" /\ running' = running
      /\ UNCHANGED <<input, timer, store, faults, lost, killed>>
  BY DEF EndBody
<1>3. SameRequest(r) /\ Sent(r, "broken") = {}
  BY <1>2, NotBroken DEF SameRequest, input
<1>4. ASSUME UNCHANGED queue, NEW label, label # "converting", pc' = [pc EXCEPT ![r] = label]
      PROVE  queue' \in Seq(Requests) /\ IsFiniteSet(running') /\ PoolFits'
  <2>1. UNCHANGED pool
    BY <1>2, <1>4 DEF pool
  <2>2. \A q \in Requests : pc'[q] = "converting" <=> pc[q] = "converting"
    BY <1>1, <1>2, <1>4 DEF TypeOK
  <2>3. QED
    BY <1>1, <2>1, <2>2, PoolStays
<1>5. CASE refusal # None
  <2>1. refusal \in Status /\ refusal # 200
    <3>1. f.error \in {None, 400, 413}
      BY <1>1 DEF Form
    <3>2. QED
      BY <1>5, <3>1 DEF Refusal, Status
  <2>2. Refuse(r, refusal) /\ UNCHANGED queue
    BY <1>5 DEF EndBody
  <2> HIDE DEF refusal
  <2>3. code'[r] = refusal /\ pc' = [pc EXCEPT ![r] = "recording_error"]
    BY <1>1, <2>2 DEF TypeOK, Refuse, Goto
  <2>4. queue' \in Seq(Requests) /\ IsFiniteSet(running') /\ PoolFits'
    BY <1>4, <2>2, <2>3
  <2>5. AnswerFits(r)'
    BY <1>1, <1>3, <1>5, <2>3, RefusalFits DEF refusal
  <2>6. QED
    BY <1>1, <1>2, <2>1, <2>2, <2>4, <2>5, DecidedStep DEF TypeOK
<1>6. CASE refusal = None /\ f.source = f.target
  <2>1. Keep(r) /\ UNCHANGED queue
    BY <1>6 DEF EndBody
  <2>2. code'[r] = 200
    BY <1>1, <2>1 DEF TypeOK, Keep
  <2>3. pc' = [pc EXCEPT ![r] = IF form[r].save THEN "writing" ELSE "recording"]
    BY <2>1 DEF Keep, Goto
  <2>4. queue' \in Seq(Requests) /\ IsFiniteSet(running') /\ PoolFits'
    <3>1. PICK label \in {"writing", "recording"} : pc' = [pc EXCEPT ![r] = label]
      BY <2>3
    <3>2. QED
      BY <1>4, <2>1, <3>1
  <2>5. AnswerFits(r)'
    BY <1>1, <1>3, <1>6, <2>2, OutcomeFits DEF Reasoned
  <2>6. QED
    BY <1>1, <1>2, <2>1, <2>4, <2>5, DecidedStep DEF TypeOK
<1>7. CASE refusal = None /\ f.source # f.target /\ timer[r] = "fired"
  <2>1. Refuse(r, 408) /\ UNCHANGED queue
    BY <1>7 DEF EndBody
  <2>2. code'[r] = 408 /\ timer'[r] = "fired" /\ pc' = [pc EXCEPT ![r] = "recording_error"]
    BY <1>1, <1>2, <1>7, <2>1 DEF TypeOK, Refuse, Goto
  <2>3. queue' \in Seq(Requests) /\ IsFiniteSet(running') /\ PoolFits'
    BY <1>4, <2>1, <2>2
  <2>4. AnswerFits(r)'
    BY <1>1, <1>3, <1>7, <2>2, OutcomeFits DEF Reasoned
  <2>5. 408 \in Status
    BY DEF Status
  <2>6. QED
    BY <1>1, <1>2, <2>1, <2>3, <2>4, <2>5, DecidedStep DEF TypeOK
<1>8. CASE refusal = None /\ f.source # f.target /\ timer[r] # "fired"
  <2>1. queue' = Append(queue, r) /\ pc' = [pc EXCEPT ![r] = "converting"] /\ code' = code
    BY <1>8 DEF EndBody, Goto
  <2>2. queue' \in Seq(Requests) /\ IsFiniteSet(running') /\ PoolFits'
    BY <1>1, <1>2, <2>1, JoinPool
  <2>3. /\ kind' = kind /\ body' = body /\ form' = form /\ timer' = timer /\ disk' = disk
        /\ rows' = rows /\ items' = items /\ faults' = faults /\ lost' = lost /\ killed' = killed
    BY <1>2 DEF input, store
  <2>4. /\ pc' \in [Requests -> PcLabels] /\ pc'[r] = "converting"
        /\ \A q \in Requests : q # r => pc'[q] = pc[q]
    BY <1>1, <2>1, PcType DEF PcLabels
  <2>5. TypeOK' /\ Structured'
    BY <1>1, <2>1, <2>2, <2>3, <2>4 DEF TypeOK, Structured, PcLabels
  <2>6. \A q \in Requests \ {r} : Aside(q)
    BY <2>1, <2>3, <2>4 DEF Aside, SameRequest, SameStore
  <2>7. FormFits(r)'
    BY <1>1, <1>3, FormStays
  <2>8. Sent(r, "broken")' = {}
    BY <1>3, SameBody
  <2>9. (Refusal(kind[r], form[r]) = None /\ form[r].source # form[r].target)'
    BY <1>8, <2>3
  <2>10. StageFits(r)' /\ code'[r] = None
    <3>1. code[r] = None /\ r \notin rows /\ r \notin lost /\ items[r] = <<>>
      BY <1>1, <1>2 DEF Fits, StageFits
    <3>2. QED
      BY <2>1, <2>3, <2>4, <2>8, <2>9, <3>1 DEF StageFits
  <2>11. HistoryFits(r)'
    BY <1>1, <1>2, <2>3, <2>4 DEF Fits, StageFits, HistoryFits
  <2>12. QED
    BY <2>5, <2>6, <2>7, <2>10, <2>11 DEF Step, Fits
<1>9. QED
  BY <1>5, <1>6, <1>7, <1>8

LEMMA StartTaskStep ==
  ASSUME IInv, StartTask
  PROVE  IInv'
<1>1. TypeOK /\ Structured /\ \A q \in Requests : Fits(q)
  BY InvFits
<1>2. queue' \in Seq(Requests) /\ IsFiniteSet(running') /\ PoolFits'
  BY <1>1, StartPool
<1>3. UNCHANGED <<kind, body, form, pc, timer, code, disk, rows, items, faults, lost, killed>>
  BY DEF StartTask, input, store
<1>4. TypeOK' /\ Structured'
  BY <1>1, <1>2, <1>3 DEF TypeOK, Structured
<1>5. \A q \in Requests : Aside(q)
  BY <1>3 DEF Aside, SameRequest, SameStore
<1>6. \A q \in Requests : Fits(q)'
  BY <1>1, <1>5, AsideFits
<1>7. QED
  BY <1>4, <1>6 DEF IInv, AnswerFollowsBody, TruthfulHistory, Fits

\* The task of a request that is not refused has left the pool.
LEMMA LeftPool ==
  ASSUME IInv, NEW r \in Requests, pc[r] = "converting", Leave(r),
         (\E c \in Status : Refuse(r, c)) \/ Keep(r)
  PROVE  queue' \in Seq(Requests) /\ IsFiniteSet(running') /\ PoolFits'
<1>1. TypeOK /\ Structured
  BY InvFits
<1>2. PICK label \in {"recording_error", "writing", "recording"} : pc' = [pc EXCEPT ![r] = label]
  <2>1. CASE \E c \in Status : Refuse(r, c)
    BY <2>1 DEF Refuse, Goto
  <2>2. CASE Keep(r)
    BY <2>2 DEF Keep, Goto
  <2>3. QED
    BY <2>1, <2>2
<1>3. label # "converting"
  OBVIOUS
<1>4. QED
  BY <1>1, <1>2, <1>3, LeavePool

LEMMA Runs ==
  ASSUME IInv, NEW r \in Requests
  PROVE  r \in running => pc[r] = "converting"
  BY InvFits DEF TypeOK, PoolFits

LEMMA FinishTaskStep ==
  ASSUME IInv, NEW r \in Requests, FinishTask(r)
  PROVE  Step(r)
<1> DEFINE f == form[r]
           Converts == IF kind[r] = "text" THEN TextConverts(f) ELSE ImageConverts(f)
<1>1. TypeOK /\ Structured /\ Fits(r) /\ FormFits(r)
  BY InvFits DEF Fits
<1>2. /\ pc[r] = "converting" /\ Leave(r)
      /\ UNCHANGED <<input, timer, store, faults, lost, killed>>
  BY Runs DEF FinishTask
<1>3. SameRequest(r) /\ Sent(r, "broken") = {}
  BY <1>2, NotBroken DEF SameRequest, input
<1>4. Refusal(kind[r], f) = None /\ f.source # f.target
  BY <1>1, <1>2 DEF Fits, StageFits
<1>5. 400 \in Status /\ 400 # 200
  BY DEF Status
<1>6. kind \in [Requests -> Kinds]
  BY <1>1 DEF TypeOK
<1>7. CASE Converts
  <2>1. Keep(r)
    BY <1>7 DEF FinishTask
  <2>2. code'[r] = 200
    BY <1>1, <2>1 DEF TypeOK, Keep
  <2>3. /\ <<f.source, f.target>> \in Offered /\ f.content \in Readable(kind[r])
        /\ kind[r] = "image" => InRange(f.options)
    BY <1>1, <1>4, <1>6, <1>7, WorkerFits
  <2>4. AnswerFits(r)'
    BY <1>1, <1>3, <1>4, <2>2, <2>3, OutcomeFits DEF Reasoned
  <2>5. queue' \in Seq(Requests) /\ IsFiniteSet(running') /\ PoolFits'
    BY <1>2, <2>1, LeftPool
  <2>6. QED
    BY <1>1, <1>2, <2>1, <2>4, <2>5, DecidedStep DEF TypeOK
<1>8. CASE ~Converts
  <2>1. Refuse(r, 400)
    BY <1>8 DEF FinishTask
  <2>2. code'[r] = 400
    BY <1>1, <2>1 DEF TypeOK, Refuse
  <2>3. \/ <<f.source, f.target>> \notin Offered \/ f.content # Whole(kind[r])
        \/ kind[r] = "image" /\ ~InRange(f.options)
    BY <1>1, <1>4, <1>6, <1>8, WorkerFits
  <2>4. AnswerFits(r)'
    BY <1>1, <1>3, <1>4, <2>2, <2>3, OutcomeFits DEF Reasoned
  <2>5. queue' \in Seq(Requests) /\ IsFiniteSet(running') /\ PoolFits'
    BY <1>2, <1>5, <2>1, LeftPool
  <2>6. QED
    BY <1>1, <1>2, <1>5, <2>1, <2>4, <2>5, DecidedStep DEF TypeOK
<1>9. QED
  BY <1>7, <1>8

LEMMA WorkerDiesStep ==
  ASSUME IInv, NEW r \in Requests, WorkerDies(r)
  PROVE  Step(r)
<1>1. TypeOK /\ Structured /\ Fits(r) /\ FormFits(r)
  BY InvFits DEF Fits
<1>2. /\ pc[r] = "converting" /\ Leave(r) /\ Refuse(r, 400) /\ killed' = killed \cup {r}
      /\ UNCHANGED <<input, timer, store, faults, lost>>
  BY Runs DEF WorkerDies
<1>3. SameRequest(r) /\ Sent(r, "broken") = {}
  BY <1>2, NotBroken DEF SameRequest, input
<1>4. Refusal(kind[r], form[r]) = None /\ form[r].source # form[r].target
  BY <1>1, <1>2 DEF Fits, StageFits
<1>5. 400 \in Status /\ 400 # 200
  BY DEF Status
<1>6. code'[r] = 400 /\ r \in killed'
  BY <1>1, <1>2 DEF TypeOK, Refuse
<1>7. AnswerFits(r)'
  <2>1. Reasoned(r)
    BY <1>4, <1>6 DEF Reasoned
  <2>2. QED
    BY <1>1, <1>3, <1>4, <2>1, OutcomeFits
<1>8. queue' \in Seq(Requests) /\ IsFiniteSet(running') /\ PoolFits'
  BY <1>2, <1>5, LeftPool
<1>9. killed \subseteq killed' /\ killed' \subseteq Requests
  BY <1>1, <1>2 DEF TypeOK
<1>10. QED
  BY <1>2, <1>5, <1>7, <1>8, <1>9, DecidedStep

LEMMA TimeoutStep ==
  ASSUME IInv, NEW r \in Requests, Timeout(r)
  PROVE  Step(r)
<1>1. TypeOK /\ Structured /\ Fits(r) /\ FormFits(r)
  BY InvFits DEF Fits
<1>2. /\ timer[r] = "running" /\ timer' = [timer EXCEPT ![r] = "fired"]
      /\ UNCHANGED <<input, store, faults, lost, killed>>
  BY DEF Timeout
<1>3. /\ timer' \in [Requests -> {"off", "running", "fired", "cleared"}] /\ timer'[r] = "fired"
      /\ \A q \in Requests : q # r => timer'[q] = timer[q]
  BY <1>1, <1>2 DEF TypeOK
<1>4. CASE pc[r] = "converting"
  <2>1. Leave(r) /\ Refuse(r, 408)
    BY <1>4 DEF Timeout
  <2>2. SameRequest(r) /\ Sent(r, "broken") = {}
    BY <1>2, <1>4, NotBroken DEF SameRequest, input
  <2>3. Refusal(kind[r], form[r]) = None /\ form[r].source # form[r].target
    BY <1>1, <1>4 DEF Fits, StageFits
  <2>4. 408 \in Status /\ 408 # 200
    BY DEF Status
  <2>5. code'[r] = 408
    BY <1>1, <2>1 DEF TypeOK, Refuse
  <2>6. AnswerFits(r)'
    BY <1>1, <1>3, <2>2, <2>3, <2>5, OutcomeFits DEF Reasoned
  <2>7. queue' \in Seq(Requests) /\ IsFiniteSet(running') /\ PoolFits'
    BY <1>4, <2>1, <2>4, LeftPool
  <2>8. killed \subseteq killed' /\ killed' \subseteq Requests
    BY <1>1, <1>2 DEF TypeOK
  <2>9. \E c \in Status : c # 200 /\ Refuse(r, c)
    BY <2>1, <2>4
  <2>10. pc[r] \in {"parsing", "converting"} /\ UNCHANGED <<input, store, faults, lost>>
    BY <1>2, <1>4
  <2>11. timer' = timer \/ timer' = [timer EXCEPT ![r] = "fired"]
    BY <1>2
  <2>12. QED
    BY <2>6, <2>7, <2>8, <2>9, <2>10, <2>11, DecidedStep
<1>5. CASE pc[r] # "converting"
  <2>1. UNCHANGED <<pool, code, pc>>
    BY <1>5 DEF Timeout
  <2>2. queue' \in Seq(Requests) /\ IsFiniteSet(running') /\ PoolFits'
    BY <1>1, <2>1, PoolStays
  <2>3. /\ kind' = kind /\ body' = body /\ form' = form /\ pc' = pc /\ code' = code
        /\ disk' = disk /\ rows' = rows /\ items' = items /\ faults' = faults
        /\ lost' = lost /\ killed' = killed
    BY <1>2, <2>1 DEF input, store
  <2>4. TypeOK' /\ Structured'
    BY <1>1, <1>3, <2>2, <2>3 DEF TypeOK, Structured
  <2>5. \A q \in Requests : Aside(q)
    BY <1>3, <2>3 DEF Aside, SameRequest, SameStore
  <2>6. Fits(r)'
    BY <1>1, <2>5, AsideFits
  <2>7. QED
    BY <2>4, <2>5, <2>6 DEF Step
<1>6. QED
  BY <1>4, <1>5

\* While its file is saved, the answer of a request stands.
LEMMA SavingStep ==
  ASSUME IInv, NEW r \in Requests, pc[r] \in {"writing", "registering"},
         NEW label \in {"registering", "recording_saved", "recording_error"},
         pc' = [pc EXCEPT ![r] = label],
         UNCHANGED <<input, timer, code, pool, items, killed>>,
         disk \subseteq disk', disk' \subseteq disk \cup {r},
         rows \subseteq rows', rows' \subseteq rows \cup {r}, rows' \subseteq disk',
         lost \subseteq lost', lost' \subseteq lost \cup {r},
         faults' \in 0..MaxFaults, faults' = 0 => faults = 0,
         label = "registering" => r \in disk' /\ r \notin rows' /\ r \notin lost',
         label = "recording_saved" => r \in rows' /\ r \notin lost',
         label = "recording_error" => r \in lost' /\ r \notin rows'
  PROVE  Step(r)
<1>1. TypeOK /\ Structured /\ Fits(r)
  BY InvFits
<1>2. pc' \in [Requests -> PcLabels] /\ pc'[r] = label /\ \A q \in Requests : q # r => pc'[q] = pc[q]
  BY <1>1, PcType DEF PcLabels, Recording
<1>3. /\ kind' = kind /\ body' = body /\ form' = form /\ timer' = timer /\ code' = code
      /\ items' = items /\ killed' = killed
  BY DEF input
<1>4. queue' \in Seq(Requests) /\ IsFiniteSet(running') /\ PoolFits'
  <2>1. \A q \in Requests : pc'[q] = "converting" <=> pc[q] = "converting"
    BY <1>2
  <2>2. QED
    BY <1>1, <2>1, PoolStays
<1>5. TypeOK' /\ Structured'
  BY <1>1, <1>2, <1>3, <1>4 DEF TypeOK, Structured, PcLabels
<1>6. \A q \in Requests \ {r} : Aside(q)
  BY <1>2, <1>3 DEF Aside, SameRequest, SameStore
<1>7. SameRequest(r)
  BY <1>3 DEF SameRequest
<1>8. FormFits(r)' /\ Sent(r, "broken")' = Sent(r, "broken")
  BY <1>1, <1>7, FormStays, SameBody DEF Fits
<1>9. form[r].save /\ code[r] = 200 /\ items[r] = <<>> /\ (Sent(r, "broken") # {} => code[r] = 400)
  BY <1>1 DEF Fits, StageFits
<1>10. 200 # None
  BY ConversionBounds DEF Status
<1>11. AnswerFits(r)'
  BY <1>1, <1>3, <1>7, <1>9, <1>10, AnswerStays DEF Fits
<1>12. StageFits(r)'
  BY <1>2, <1>3, <1>8, <1>9, <1>10 DEF StageFits
<1>13. HistoryFits(r)'
  BY <1>2, <1>3, <1>9 DEF HistoryFits
<1>14. QED
  BY <1>5, <1>6, <1>8, <1>11, <1>12, <1>13 DEF Step, Fits

LEMMA WriteFileStep ==
  ASSUME IInv, NEW r \in Requests, WriteFile(r)
  PROVE  Step(r)
<1>1. TypeOK /\ Fits(r)
  BY InvFits
<1>2. /\ pc[r] = "writing" /\ disk' = disk \cup {r} /\ pc' = [pc EXCEPT ![r] = "registering"]
      /\ rows' = rows /\ lost' = lost /\ faults' = faults
      /\ UNCHANGED <<input, timer, code, pool, items, killed>>
  BY DEF WriteFile, Goto
<1>3. r \notin rows /\ r \notin lost
  BY <1>1, <1>2 DEF Fits, StageFits
<1>4. rows \subseteq disk /\ faults \in 0..MaxFaults
  BY <1>1 DEF TypeOK
<1>5. QED
  BY <1>2, <1>3, <1>4, SavingStep

LEMMA RegisterStep ==
  ASSUME IInv, NEW r \in Requests, Register(r)
  PROVE  Step(r)
<1>1. TypeOK /\ Fits(r)
  BY InvFits
<1>2. /\ pc[r] = "registering" /\ rows' = rows \cup {r} /\ pc' = [pc EXCEPT ![r] = "recording_saved"]
      /\ disk' = disk /\ lost' = lost /\ faults' = faults
      /\ UNCHANGED <<input, timer, code, pool, items, killed>>
  BY DEF Register, Goto
<1>3. r \in disk /\ r \notin lost
  BY <1>1, <1>2 DEF Fits, StageFits
<1>4. rows \subseteq disk /\ faults \in 0..MaxFaults
  BY <1>1 DEF TypeOK
<1>5. QED
  BY <1>2, <1>3, <1>4, SavingStep

LEMMA SaveFailsStep ==
  ASSUME IInv, NEW r \in Requests, SaveFails(r)
  PROVE  Step(r)
<1>1. TypeOK /\ Fits(r)
  BY InvFits
<1>2. /\ pc[r] \in {"writing", "registering"} /\ lost' = lost \cup {r}
      /\ pc' = [pc EXCEPT ![r] = "recording_error"] /\ rows' = rows
      /\ disk' = disk \/ disk' = disk \cup {r}
      /\ faults < MaxFaults /\ faults' = faults + 1
      /\ UNCHANGED <<input, timer, code, pool, items, killed>>
  BY DEF SaveFails, Goto, Fault
<1>3. r \notin rows
  BY <1>1, <1>2 DEF Fits, StageFits
<1>4. rows \subseteq disk /\ faults \in 0..MaxFaults
  BY <1>1 DEF TypeOK
<1>5. faults' \in 0..MaxFaults /\ faults' # 0
  BY <1>2, <1>4, ConversionBounds
<1>6. QED
  BY <1>2, <1>3, <1>4, <1>5, SavingStep

\* The answer is given: with the item that History will show, or with none.
LEMMA AnswerStep ==
  ASSUME IInv, NEW r \in Requests, pc[r] \in Recording, Answer(r),
         UNCHANGED <<input, code, pool, disk, rows, lost, killed>>,
         \/ items' = [items EXCEPT ![r] = Append(@, Item(r))] /\ faults' = faults
         \/ items' = items /\ faults' = faults + 1 /\ faults < MaxFaults
  PROVE  Step(r)
<1>1. TypeOK /\ Structured /\ Fits(r) /\ StageFits(r)
  BY InvFits DEF Fits
<1>2. /\ timer' = [timer EXCEPT ![r] = IF @ = "running" THEN "cleared" ELSE @]
      /\ pc' = [pc EXCEPT ![r] = "done"]
  BY DEF Answer, Goto
<1>3. /\ kind' = kind /\ body' = body /\ form' = form /\ code' = code /\ disk' = disk
      /\ rows' = rows /\ lost' = lost /\ killed' = killed
  BY DEF input
<1>4. /\ timer' \in [Requests -> {"off", "running", "fired", "cleared"}]
      /\ timer[r] = "fired" => timer'[r] = "fired"
      /\ \A q \in Requests : q # r => timer'[q] = timer[q]
  BY <1>1, <1>2 DEF TypeOK
<1>5. pc' \in [Requests -> PcLabels] /\ pc'[r] = "done" /\ \A q \in Requests : q # r => pc'[q] = pc[q]
  BY <1>1, <1>2, PcType DEF PcLabels
<1>6. queue' \in Seq(Requests) /\ IsFiniteSet(running') /\ PoolFits'
  <2>1. \A q \in Requests : pc'[q] = "converting" <=> pc[q] = "converting"
    BY <1>5 DEF Recording
  <2>2. QED
    BY <1>1, <2>1, PoolStays
<1>7. faults \in 0..MaxFaults /\ faults' \in 0..MaxFaults /\ (faults' = 0 => faults = 0)
  BY <1>1, ConversionBounds DEF TypeOK
<1>8. /\ Item(r) \in HistoryItem
      /\ items[r] = <<>> /\ Append(<<>>, Item(r)) = <<Item(r)>>
      /\ <<Item(r)>> \in Seq(HistoryItem) /\ Len(<<Item(r)>>) = 1 /\ <<Item(r)>>[1] = Item(r)
  <2>1. Item(r) \in HistoryItem
    <3>1. code[r] \in Status \cup {None}
      BY <1>1 DEF TypeOK
    <3>2. QED
      BY <3>1 DEF Item, HistoryItem
  <2>2. items[r] = <<>>
    BY <1>1 DEF StageFits, Recording
  <2>3. QED
    BY <2>1, <2>2
<1>9. \/ items'[r] = <<Item(r)>> /\ faults' = faults
      \/ items'[r] = <<>> /\ faults' # 0
  <2>1. CASE items' = [items EXCEPT ![r] = Append(@, Item(r))] /\ faults' = faults
    BY <1>1, <1>8, <2>1 DEF Structured
  <2>2. CASE items' = items /\ faults' = faults + 1 /\ faults < MaxFaults
    BY <1>7, <1>8, <2>2
  <2>3. QED
    BY <2>1, <2>2
<1>10. items' \in [Requests -> Seq(HistoryItem)] /\ \A q \in Requests : q # r => items'[q] = items[q]
  <2>1. CASE items' = [items EXCEPT ![r] = Append(@, Item(r))] /\ faults' = faults
    BY <1>1, <1>8, <2>1 DEF Structured
  <2>2. CASE items' = items /\ faults' = faults + 1 /\ faults < MaxFaults
    BY <1>1, <2>2 DEF Structured
  <2>3. QED
    BY <2>1, <2>2
<1>11. TypeOK' /\ Structured'
  BY <1>1, <1>3, <1>4, <1>5, <1>6, <1>7, <1>10 DEF TypeOK, Structured, PcLabels
<1>12. \A q \in Requests \ {r} : Aside(q)
  BY <1>3, <1>4, <1>5, <1>7, <1>10 DEF Aside, SameRequest, SameStore
<1>13. SameRequest(r)
  BY <1>3 DEF SameRequest
<1>14. FormFits(r)' /\ Sent(r, "broken")' = Sent(r, "broken")
  BY <1>1, <1>13, FormStays, SameBody DEF Fits
<1>15. code[r] # None
  BY <1>1 DEF StageFits, Recording
<1>16. AnswerFits(r)'
  BY <1>1, <1>3, <1>4, <1>13, <1>15, AnswerStays DEF Fits
<1>17. StageFits(r)'
  BY <1>1, <1>3, <1>5, <1>14, <1>15 DEF StageFits, Recording
<1>18. HistoryFits(r)'
  <2>1. /\ pc[r] = "recording_saved" <=> r \in rows
        /\ pc[r] = "recording_error" <=> code[r] # 200 \/ r \in lost
        /\ r \in lost => code[r] = 200
        /\ pc[r] = "recording_saved" => form[r].save
        /\ pc[r] = "recording" => ~form[r].save
        /\ r \in rows => form[r].save /\ code[r] = 200
    BY <1>1 DEF StageFits, Recording
  <2>2. form[r].save \in BOOLEAN
    BY <1>1 DEF Structured, Form
  <2>3. /\ Item(r).status \in {"SUCCESS", "ERROR"}
        /\ Item(r).file <=> r \in rows
        /\ Item(r).status = "SUCCESS" <=> code[r] = 200 /\ r \notin lost
        /\ Item(r).status = "ERROR" => Item(r).code = IF r \in lost THEN 500 ELSE code[r]
    BY <2>1 DEF Item, Recording
  <2>4. Item(r).status = "SUCCESS" => Item(r).file = form[r].save
    BY <2>1, <2>2 DEF Item, Recording
  <2>5. CASE items'[r] = <<Item(r)>>
    BY <1>3, <1>5, <1>8, <2>1, <2>3, <2>4, <2>5 DEF HistoryFits
  <2>6. CASE items'[r] = <<>> /\ faults' # 0
    BY <1>3, <1>5, <2>1, <2>6 DEF HistoryFits
  <2>7. QED
    BY <1>9, <2>5, <2>6
<1>19. QED
  BY <1>11, <1>12, <1>14, <1>16, <1>17, <1>18 DEF Step, Fits

LEMMA InductiveNext == IInv /\ [Next]_vars => IInv'
<1> SUFFICES ASSUME IInv, [Next]_vars PROVE IInv'
  OBVIOUS
<1>1. CASE StartTask
  BY <1>1, StartTaskStep
<1>2. ASSUME NEW r \in Requests, Conversion(r) PROVE IInv'
  <2>1. CASE Begin(r) \/ ReadPart(r) \/ BreakOff(r) \/ EndBody(r)
    BY <2>1, BeginStep, ReadPartStep, BreakOffStep, EndBodyStep, StepKeeps
  <2>2. CASE FinishTask(r) \/ WorkerDies(r) \/ Timeout(r)
    BY <2>2, FinishTaskStep, WorkerDiesStep, TimeoutStep, StepKeeps
  <2>3. CASE Saving(r)
    BY <2>3, WriteFileStep, RegisterStep, SaveFailsStep, StepKeeps DEF Saving
  <2>4. CASE Record(r)
    <3>1. Step(r)
      BY <2>4, AnswerStep DEF Record
    <3>2. QED
      BY <3>1, StepKeeps
  <2>5. CASE RecordFails(r)
    <3>1. Step(r)
      BY <2>5, AnswerStep DEF RecordFails, Fault, store
    <3>2. QED
      BY <3>1, StepKeeps
  <2>6. QED
    BY <1>2, <2>1, <2>2, <2>3, <2>4, <2>5 DEF Conversion
<1>3. CASE UNCHANGED vars
  <2>1. /\ UNCHANGED <<kind, body, form, pc, timer, code, queue, running, disk, rows, items,
                       faults, lost, killed>>
    BY <1>3 DEF vars
  <2>2. TypeOK /\ Structured /\ \A q \in Requests : Fits(q)
    BY InvFits
  <2>3. queue' \in Seq(Requests) /\ IsFiniteSet(running') /\ PoolFits'
    BY <2>1, <2>2, PoolStays DEF pool
  <2>4. TypeOK' /\ Structured'
    BY <2>1, <2>2, <2>3 DEF TypeOK, Structured
  <2>5. \A q \in Requests : Aside(q)
    BY <2>1 DEF Aside, SameRequest, SameStore
  <2>6. \A q \in Requests : Fits(q)'
    BY <2>2, <2>5, AsideFits
  <2>7. QED
    BY <2>4, <2>6 DEF IInv, AnswerFollowsBody, TruthfulHistory, Fits
<1>4. QED
  BY <1>1, <1>2, <1>3 DEF Next

---------------------------------------------------------------------------
(* The theorems                                                             *)

\* The invariant holds in every state the program reaches.
THEOREM Inductive == Spec => []IInv
  BY InductiveInit, InductiveNext, PTL DEF Spec

\* The variables keep their types, and the pool holds exactly the requests that
\* are converting, each once: an abort removes its task wherever it is.
THEOREM TypeCorrect == Spec => []TypeOK
<1>1. IInv => TypeOK
  BY DEF IInv
<1>2. QED
  BY <1>1, Inductive, PTL

\* Every answer is the one the API describes for the body that was sent, in
\* whatever order its parts came and however timer, workers and disk interleave.
THEOREM AnswersFollowBodies == Spec => []AnswerFollowsBody
<1>1. IInv => AnswerFollowsBody
  BY DEF IInv
<1>2. QED
  BY <1>1, Inductive, PTL

\* What the history says of a request is what happened to it.
THEOREM HistoryIsTruthful == Spec => []TruthfulHistory
<1>1. IInv => TruthfulHistory
  BY DEF IInv
<1>2. QED
  BY <1>1, Inductive, PTL

---------------------------------------------------------------------------
(* A conversion is one of History's                                         *)

RowAt == [r \in Requests |-> IF r \in rows THEN 0 ELSE None]
ItemAt == [r \in Requests |-> IF items[r] = <<>> THEN None ELSE 0]
Linked == {r \in Requests : HasFile(r)}
SavedAt == [r \in Requests |-> IF HasFile(r) THEN 0 ELSE None]

\* What of History changes at all here, and what does not.
LEMMA OutcomeRest ==
  /\ UNCHANGED Outcome!readers /\ UNCHANGED Outcome!sweeps
  /\ UNCHANGED <<OneDay, [r \in Requests |-> "server"]>>
  /\ \A r \in Requests : OneDay = [OneDay EXCEPT ![r] = 0]
  BY DEF Outcome!readers, Outcome!sweeps, OneDay

LEMMA SameItems ==
  ASSUME items' = items
  PROVE  UNCHANGED <<ItemAt, Linked, SavedAt>>
<1>1. \A r \in Requests : HasFile(r)' <=> HasFile(r)
  BY DEF HasFile
<1>2. QED
  BY <1>1 DEF ItemAt, Linked, SavedAt

LEMMA OutcomePc ==
  ASSUME IInv, NEW r \in Requests, NEW label, label # "parsing", pc' = [pc EXCEPT ![r] = label]
  PROVE  HistoryPc' = [HistoryPc EXCEPT ![r] = label]
<1>1. pc'[r] = label /\ \A q \in Requests : q # r => pc'[q] = pc[q]
  BY InvFits DEF TypeOK
<1>2. QED
  BY <1>1 DEF HistoryPc

\* Reading a body, and waiting for the pool, leave nothing behind.
LEMMA OutcomeStutters ==
  ASSUME HistoryPc' = HistoryPc, UNCHANGED <<disk, rows, items, faults, lost>>
  PROVE  UNCHANGED Outcome!vars
<1>1. UNCHANGED <<ItemAt, Linked, SavedAt, RowAt>>
  BY SameItems DEF RowAt
<1>2. QED
  BY <1>1, OutcomeRest DEF Outcome!vars, Outcome!readers, Outcome!sweeps, ItemAt, Linked, SavedAt, RowAt

\* An answer that is decided while the body ends, or in the pool.
LEMMA OutcomeDecides ==
  ASSUME IInv, NEW r \in Requests, pc[r] \in {"parsing", "converting"},
         UNCHANGED <<disk, rows, items, faults, lost>>,
         NEW label \in {"converting", "writing", "recording", "recording_error"},
         pc[r] = "converting" => label # "converting", pc' = [pc EXCEPT ![r] = label]
  PROVE  Outcome!Conversion(r)
<1>1. HistoryPc' = [HistoryPc EXCEPT ![r] = label]
  BY OutcomePc
<1>2. UNCHANGED <<ItemAt, Linked, SavedAt, RowAt>>
  BY SameItems DEF RowAt
<1>3. UNCHANGED Outcome!store
  BY <1>2 DEF Outcome!store, ItemAt, Linked, RowAt
<1>4. UNCHANGED <<SavedAt, lost \cap disk>>
  BY <1>2
<1>5. CASE pc[r] = "parsing"
  <2>1. HistoryPc[r] = "idle"
    BY <1>5 DEF HistoryPc
  <2>2. Outcome!Goto(r, label)
    BY <1>1 DEF Outcome!Goto
  <2>3. Outcome!Parse(r)
    BY <1>3, <1>4, <2>1, <2>2, OutcomeRest DEF Outcome!Parse, Outcome!Converted, SavedAt
  <2>4. QED
    BY <2>3 DEF Outcome!Conversion
<1>6. CASE pc[r] = "converting"
  <2>1. HistoryPc[r] = "converting"
    BY <1>6 DEF HistoryPc
  <2>2. Outcome!Goto(r, label)
    BY <1>1 DEF Outcome!Goto
  <2>3. Outcome!Convert(r)
    BY <1>3, <1>4, <1>6, <2>1, <2>2, OutcomeRest DEF Outcome!Convert, Outcome!Converted, SavedAt
  <2>4. QED
    BY <2>3 DEF Outcome!Conversion
<1>7. QED
  BY <1>5, <1>6

\* The file and its row are stored there as here, and lost there as here.
LEMMA OutcomeSaves ==
  ASSUME IInv, NEW r \in Requests, Saving(r)
  PROVE  Outcome!Conversion(r)
<1>1. StageFits(r)
  BY InvFits DEF Fits
<1>2. UNCHANGED <<ItemAt, Linked, SavedAt>>
  BY SameItems DEF Saving, WriteFile, Register, SaveFails
<1>3. CASE WriteFile(r)
  <2>1. HistoryPc[r] = "writing" /\ Outcome!Goto(r, "registering")
    BY <1>3, OutcomePc DEF WriteFile, Goto, HistoryPc, Outcome!Goto
  <2>2. r \notin lost /\ UNCHANGED <<RowAt, lost \cap disk>>
    BY <1>1, <1>3 DEF WriteFile, StageFits, RowAt
  <2>3. Outcome!WriteFile(r)
    BY <1>2, <1>3, <2>1, <2>2, OutcomeRest
    DEF WriteFile, Outcome!WriteFile, ItemAt, Linked, SavedAt, RowAt
  <2>4. QED
    BY <2>3 DEF Outcome!Conversion
<1>4. CASE Register(r)
  <2>1. HistoryPc[r] = "registering" /\ Outcome!Goto(r, "recording_saved")
    BY <1>4, OutcomePc DEF Register, Goto, HistoryPc, Outcome!Goto
  <2>2. RowAt' = [RowAt EXCEPT ![r] = 0] /\ UNCHANGED <<disk, faults, lost \cap disk>>
    BY <1>4 DEF Register, RowAt
  <2>3. Outcome!Register(r)
    BY <1>2, <2>1, <2>2, OutcomeRest DEF Outcome!Register, ItemAt, Linked, SavedAt, RowAt
  <2>4. QED
    BY <2>3 DEF Outcome!Conversion
<1>5. CASE SaveFails(r) /\ pc[r] = "writing"
  <2>1. HistoryPc[r] = "writing" /\ Outcome!Goto(r, "recording_error") /\ Outcome!Fault
    BY <1>5, OutcomePc DEF SaveFails, Goto, Fault, HistoryPc, Outcome!Goto, Outcome!Fault
  <2>2. \/ disk' = disk /\ (lost \cap disk)' = lost \cap disk
        \/ disk' = disk \cup {r} /\ (lost \cap disk)' = (lost \cap disk) \cup {r}
    BY <1>5 DEF SaveFails
  <2>3. UNCHANGED RowAt
    BY <1>5 DEF SaveFails, RowAt
  <2>4. Outcome!WriteFileFails(r)
    BY <1>2, <2>1, <2>2, <2>3, OutcomeRest
    DEF Outcome!WriteFileFails, ItemAt, Linked, SavedAt, RowAt
  <2>5. QED
    BY <2>4 DEF Outcome!Conversion
<1>6. CASE SaveFails(r) /\ pc[r] = "registering"
  <2>1. HistoryPc[r] = "registering" /\ Outcome!Goto(r, "recording_error") /\ Outcome!Fault
    BY <1>6, OutcomePc DEF SaveFails, Goto, Fault, HistoryPc, Outcome!Goto, Outcome!Fault
  <2>2. r \in disk /\ disk' = disk /\ (lost \cap disk)' = (lost \cap disk) \cup {r}
    BY <1>1, <1>6 DEF SaveFails, StageFits
  <2>3. UNCHANGED RowAt
    BY <1>6 DEF SaveFails, RowAt
  <2>4. UNCHANGED Outcome!store
    BY <1>2, <2>2, <2>3 DEF Outcome!store, ItemAt, Linked, RowAt
  <2>5. Outcome!RegisterFails(r)
    BY <1>2, <2>1, <2>2, <2>4, OutcomeRest DEF Outcome!RegisterFails, SavedAt
  <2>6. QED
    BY <2>5 DEF Outcome!Conversion
<1>7. QED
  BY <1>3, <1>4, <1>5, <1>6 DEF Saving, SaveFails

\* The item is History's, with the file or without.
LEMMA OutcomeRecords ==
  ASSUME IInv, NEW r \in Requests, Record(r) \/ RecordFails(r)
  PROVE  Outcome!Conversion(r)
<1>1. StageFits(r) /\ items \in [Requests -> Seq(HistoryItem)]
  BY InvFits DEF Fits, Structured
<1>2. pc[r] \in Recording /\ HistoryPc[r] = pc[r] /\ items[r] = <<>>
  BY <1>1 DEF Record, RecordFails, StageFits, Recording, HistoryPc
<1>3. Outcome!Goto(r, "done")
  BY OutcomePc DEF Record, RecordFails, Answer, Goto, Outcome!Goto
<1>4. UNCHANGED <<disk, RowAt, lost \cap disk>>
  BY DEF Record, RecordFails, store, RowAt
<1>5. CASE Record(r)
  <2>1. items' = [items EXCEPT ![r] = Append(@, Item(r))] /\ faults' = faults
    BY <1>5 DEF Record
  <2>2. items'[r] = <<Item(r)>> /\ \A q \in Requests : q # r => items'[q] = items[q]
    BY <1>1, <1>2, <2>1
  <2>3. /\ \A q \in Requests : q # r => (HasFile(q)' <=> HasFile(q))
        /\ HasFile(r)' <=> Item(r).file
        /\ ~HasFile(r)
    <3>1. <<Item(r)>>[1] = Item(r) /\ Len(<<Item(r)>>) = 1
      OBVIOUS
    <3>2. QED
      BY <1>2, <2>2, <3>1 DEF HasFile
  <2>4. Item(r).file <=> pc[r] = "recording_saved"
    BY <1>2 DEF Item, Recording
  <2>5. items'[r] # <<>>
    BY <2>2
  <2>6. ItemAt' = [ItemAt EXCEPT ![r] = 0]
    BY <2>2, <2>5 DEF ItemAt
  <2>7. IF pc[r] = "recording_saved"
          THEN Linked' = Linked \cup {r} /\ SavedAt' = [SavedAt EXCEPT ![r] = 0]
          ELSE UNCHANGED <<Linked, SavedAt>>
    BY <2>3, <2>4 DEF Linked, SavedAt
  <2>8. Outcome!Record(r)
    BY <1>2, <1>3, <1>4, <2>1, <2>6, <2>7, OutcomeRest
    DEF Outcome!Record, Recording, ItemAt, Linked, SavedAt, RowAt
  <2>9. QED
    BY <2>8 DEF Outcome!Conversion
<1>6. CASE RecordFails(r)
  <2>1. UNCHANGED <<ItemAt, Linked, SavedAt>>
    BY <1>6, SameItems DEF RecordFails, store
  <2>2. UNCHANGED Outcome!store
    BY <1>4, <2>1 DEF Outcome!store, ItemAt, Linked, RowAt
  <2>3. Outcome!Fault
    BY <1>6 DEF RecordFails, Fault, Outcome!Fault
  <2>4. Outcome!RecordFails(r)
    BY <1>2, <1>3, <1>4, <2>1, <2>2, <2>3, OutcomeRest
    DEF Outcome!RecordFails, Recording, SavedAt
  <2>5. QED
    BY <2>4 DEF Outcome!Conversion
<1>7. QED
  BY <1>5, <1>6

LEMMA OutcomeInit == Init => Outcome!Init
<1> SUFFICES ASSUME Init PROVE Outcome!Init
  OBVIOUS
<1>1. \A r \in Requests : items[r] = <<>> /\ ~HasFile(r)
  BY DEF Init, HasFile
<1>2. HistoryPc = [r \in Requests |-> "idle"] /\ lost \cap disk = {}
  BY DEF Init, HistoryPc
<1>3. QED
  BY <1>1, <1>2 DEF Init, Outcome!Init, OneDay

LEMMA OutcomeNext ==
  ASSUME IInv, [Next]_vars
  PROVE  [Outcome!Next]_(Outcome!vars)
<1>1. CASE StartTask \/ UNCHANGED vars
  <2>1. pc' = pc /\ UNCHANGED <<disk, rows, items, faults, lost>>
    BY <1>1 DEF StartTask, vars, store
  <2>2. HistoryPc' = HistoryPc
    BY <2>1 DEF HistoryPc
  <2>3. QED
    BY <2>1, <2>2, OutcomeStutters
<1>2. ASSUME NEW r \in Requests, Conversion(r) PROVE [Outcome!Next]_(Outcome!vars)
  <2>1. TypeOK
    BY InvFits
  <2>2. SUFFICES Outcome!Conversion(r) \/ UNCHANGED Outcome!vars
    BY DEF Outcome!Next
  <2>3. CASE Begin(r) \/ ReadPart(r)
    <3>1. HistoryPc' = HistoryPc /\ UNCHANGED <<disk, rows, items, faults, lost>>
      BY <2>1, <2>3 DEF Begin, ReadPart, Goto, store, HistoryPc, TypeOK
    <3>2. QED
      BY <3>1, OutcomeStutters
  <2>4. CASE BreakOff(r) \/ EndBody(r)
    <3>1. pc[r] = "parsing" /\ UNCHANGED <<disk, rows, items, faults, lost>>
      BY <2>4 DEF BreakOff, EndBody, store
    <3>2. PICK label \in {"converting", "writing", "recording", "recording_error"} :
            pc' = [pc EXCEPT ![r] = label]
      BY <2>4 DEF BreakOff, EndBody, Refuse, Keep, Goto
    <3>3. QED
      BY <3>1, <3>2, OutcomeDecides
  <2>5. CASE FinishTask(r) \/ WorkerDies(r) \/ (Timeout(r) /\ pc[r] = "converting")
    <3>1. pc[r] = "converting" /\ UNCHANGED <<disk, rows, items, faults, lost>>
      BY <2>5, Runs DEF FinishTask, WorkerDies, Timeout, store
    <3>2. PICK label \in {"writing", "recording", "recording_error"} :
            pc' = [pc EXCEPT ![r] = label]
      BY <2>5 DEF FinishTask, WorkerDies, Timeout, Refuse, Keep, Goto
    <3>3. QED
      BY <3>1, <3>2, OutcomeDecides
  <2>6. CASE Timeout(r) /\ pc[r] # "converting"
    <3>1. pc' = pc /\ UNCHANGED <<disk, rows, items, faults, lost>>
      BY <2>6 DEF Timeout, store
    <3>2. HistoryPc' = HistoryPc
      BY <3>1 DEF HistoryPc
    <3>3. QED
      BY <3>1, <3>2, OutcomeStutters
  <2>7. CASE Saving(r)
    BY <2>7, OutcomeSaves
  <2>8. CASE Record(r) \/ RecordFails(r)
    BY <2>8, OutcomeRecords
  <2>9. QED
    BY <1>2, <2>3, <2>4, <2>5, <2>6, <2>7, <2>8 DEF Conversion
<1>3. QED
  BY <1>1, <1>2 DEF Next

\* What History is proved to keep of the conversions it describes, these keep:
\* every step of a request is one of its steps or leaves disk and database alone.
THEOREM ImplementsHistory == Spec => HistorySpec
<1>1. Init => Outcome!Init
  BY OutcomeInit
<1>2. IInv /\ [Next]_vars => [Outcome!Next]_(Outcome!vars)
  BY OutcomeNext
<1>3. QED
  BY <1>1, <1>2, Inductive, PTL DEF Spec, HistorySpec, Outcome!Spec
====
