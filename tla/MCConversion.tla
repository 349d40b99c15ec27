-------------------------- MODULE MCConversion --------------------------
(* Conversion with the parts of a run.                                      *)
EXTENDS Conversion

Image(format) == File(format, None, 1, "picture")

\* One request: every kind of part that the method tells apart.
AllParts ==
  {Target(v) : v \in {"json", "csv", "png", "svg", "pdf", None}}
    \cup {SaveField(TRUE), SaveField(FALSE), BadOptions, BadFile}
    \cup {OptionsField(NoOptions, FALSE),
          OptionsField([NoOptions EXCEPT !.width = MaxWidth + 1], None),
          OptionsField([NoOptions EXCEPT !.quality = 0], TRUE)}
    \cup {File("json", None, 1, "rows"), File(None, "json", 1, "values"),
          File(None, "json", 1, "nothing"), File("json", "csv", 1, "garbage"),
          File("json", None, 1, "picture"),
          File(None, None, 1, "rows"), File("json", None, 0, None),
          File("json", None, SizeLimit + 1, None),
          Image("png"), Image("jpeg"), Image("svg"), File("svg", None, 1, "linked")}

\* Several requests: a picture, a format for it, saving it.
FewParts == {File("jpeg", None, 1, "picture"), Target("png"), SaveField(TRUE)}
====
