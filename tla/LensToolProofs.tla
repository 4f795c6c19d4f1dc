--------------------------- MODULE LensToolProofs ---------------------------
(***************************************************************************)
(* For any commands, files, paths, catalogues and apertures: a report links*)
(* to files of its own run, a run replaces no file but those it may, the   *)
(* lens that is analysed and saved is the lens of the text, and the glasses*)
(* that are assigned are found again.                                      *)
(***************************************************************************)
EXTENDS LensTool2, PrescriptionProofs

Steps == {"load", "trial", "import", "optimize", "models", "save", "zmx", "report", "readme"}

\* A file of this name, of this run, from this configuration and model.
Recorded(name, c, of) ==
  LET path == getOutputFileWithPath(name)
  IN /\ path \in DOMAIN disk
     /\ disk[path].run = Run /\ disk[path].config = c /\ disk[path].of = of

\* What a report links to, for each configuration.
LinkedStems == {"layoutonly", "layout", "spot", "spot-semi-skew", "spot-skew", "mtf", "mtf-w"}
ModelOf(stem) ==
  IF stem \in {"layoutonly", "layout"} THEN "output"
  ELSE IF stem = "mtf-w" THEN "weighted" ELSE "analysis"
LinkOf(stem, c) == Link(stem, ConfigSuffix(lens.p, c), c, ModelOf(stem))

Stems ==
  LinkedStems \cup
  {"vig", "paraxial", "layout-fan", "spot-report", "pupil-report", "pupil", "pupil-semi-skew",
   "pupil-skew", "mtf-fld", "mtf-fld-weighted", "rayabbr", "opdabbr", "mtf-diffraction",
   "mtf-w-wavelength-report", "contrast-report-w", "contrast-pupil", "contrast-pupil-semi-skew",
   "contrast-pupil-skew", "mtf-diffraction-w"}
Outputs == [stem : Stems, ext : {".txt", ".svg", ".csv"}, of : {"output", "analysis", "weighted"}]

\* No two outputs of a configuration that share a linked name are of different
\* models, and the maps that are skipped together stand together.
OneModelEach(outputs) ==
  \A i \in DOMAIN outputs :
    /\ outputs[i].stem # "prescription"
    /\ outputs[i].ext = ".svg" /\ outputs[i].stem \in LinkedStems
         => outputs[i].of = ModelOf(outputs[i].stem)
MapsTogether(outputs) ==
  \A i \in DOMAIN outputs :
    outputs[i].stem = "contrast-pupil" =>
      /\ i + 2 \in DOMAIN outputs
      /\ outputs[i + 1].stem = "contrast-pupil-semi-skew"
      /\ outputs[i + 2].stem = "contrast-pupil-skew"

TodoInv ==
  pc = "report" =>
    /\ todo \in Seq(Outputs)
    /\ OneModelEach(todo) /\ MapsTogether(todo)
    /\ \A i \in DOMAIN todo : \E k \in DOMAIN ConfigOutputs : ConfigOutputs[k] = todo[i]
    /\ \A stem \in LinkedStems :
         \/ \E i \in DOMAIN todo : todo[i].stem = stem /\ todo[i].ext = ".svg"
         \/ Recorded(suffixed_name(stem, Suffix, ".svg"), config, ModelOf(stem))

\* The configurations whose outputs are all written.
Finished == 1 .. (IF pc = "report" THEN config - 1 ELSE config)

LinksInv ==
  /\ pc \notin {"report", "readme", "idle"} => links = {}
  /\ pc \in {"zmx", "report", "readme"} => Recorded(Name("prescription", <<>>, ".txt"), 0, "prescription")
  /\ pc \in {"report", "readme"} =>
       /\ Recorded(replaceExtension(specfile[2], ".zmx"), 0, "prescription")
       /\ config > 1 => Multi(lens.p)
       /\ \A link \in links :
            /\ \E stem \in LinkedStems, c \in Finished : link = LinkOf(stem, c)
            /\ Recorded(link.name, link.config, link.of)

ShapeInv ==
  /\ pc \in Steps \cup {"idle"}
  /\ outcomes \in Seq({"usage", "failed", "done"})
  /\ config \in Nat \ {0}
  /\ pc \notin {"idle", "optimize", "report", "readme"} => config = 1

ReportInv == ShapeInv /\ TodoInv /\ LinksInv /\ ReportsAreOfTheirRun

\* Until a trial is run the specfile is the input.
KeepInv ==
  /\ pc = "load" => disk = given
  /\ pc \in {"load", "trial"} => specfile = Input
  /\ pc = "trial" =>
       /\ args.values.optimize_trial # Absent
       /\ \A path \in Changed :
            Input = path /\ {"--assign-glass-types", "--update-specfile"} \subseteq args.flags
  /\ RunsKeepOtherFiles

-----------------------------------------------------------------------------
(* Files. *)

LEMMA Created ==
  ASSUME NEW path, NEW file, createOutputFile(path, file)
  PROVE  /\ path \in DOMAIN disk' /\ disk'[path] = file
         /\ \A q : q # path => (q \in DOMAIN disk' <=> q \in DOMAIN disk)
         /\ \A q \in DOMAIN disk : q # path => disk'[q] = disk[q]
BY DEF createOutputFile

LEMMA OtherName ==
  ASSUME NEW name, NEW other, getOutputFileWithPath(name) = getOutputFileWithPath(other)
  PROVE  name = other
BY DEF getOutputFileWithPath

LEMMA NowRecorded ==
  ASSUME NEW name, NEW c, NEW of, NEW file, createOutputFile(getOutputFileWithPath(name), file),
         UNCHANGED <<args, specfile, outcomes>>,
         file.run = Run, file.config = c, file.of = of
  PROVE  Recorded(name, c, of)'
<1>1. getOutputFileWithPath(name)' = getOutputFileWithPath(name)
  BY DEF getOutputFileWithPath, outdir
<1>2. Run' = Run
  BY DEF Run
<1> QED
  BY <1>1, <1>2, Created DEF Recorded

\* A file stays as it was recorded, unless another is written in its place.
LEMMA StaysRecorded ==
  ASSUME NEW name, NEW c, NEW of, Recorded(name, c, of),
         NEW other, NEW file, createOutputFile(getOutputFileWithPath(other), file),
         other # name \/ (file.run = Run /\ file.config = c /\ file.of = of),
         UNCHANGED <<args, specfile, outcomes>>
  PROVE  Recorded(name, c, of)'
<1>1. CASE other = name
  BY <1>1, NowRecorded
<1>2. CASE other # name
  <2>1. getOutputFileWithPath(other) # getOutputFileWithPath(name)
    BY <1>2, OtherName
  <2>2. getOutputFileWithPath(name)' = getOutputFileWithPath(name) /\ Run' = Run
    BY DEF getOutputFileWithPath, outdir, Run
  <2> QED
    BY <2>1, <2>2, Created DEF Recorded
<1> QED
  BY <1>1, <1>2

LEMMA RecordedAlone ==
  ASSUME NEW name, NEW c, NEW of, Recorded(name, c, of),
         UNCHANGED <<disk, args, specfile, outcomes>>
  PROVE  Recorded(name, c, of)'
BY DEF Recorded, getOutputFileWithPath, outdir, Run

-----------------------------------------------------------------------------
(* The outputs of a configuration. *)

\* Outputs in order, with at least these pictures.
Sound(outputs, stems) ==
  /\ outputs \in Seq(Outputs)
  /\ OneModelEach(outputs) /\ MapsTogether(outputs)
  /\ \A stem \in stems : \E i \in DOMAIN outputs : outputs[i].stem = stem /\ outputs[i].ext = ".svg"

LEMMA SoundConcat ==
  ASSUME NEW s, NEW t, NEW X, NEW Y, Sound(s, X), Sound(t, Y)
  PROVE  Sound(s \o t, X \cup Y)
<1>1. /\ s \in Seq(Outputs) /\ t \in Seq(Outputs)
      /\ Len(s) \in Nat /\ Len(t) \in Nat
      /\ DOMAIN s = 1 .. Len(s) /\ DOMAIN t = 1 .. Len(t)
  BY LenProperties DEF Sound
<1> DEFINE u == s \o t
<1>2. /\ u \in Seq(Outputs) /\ DOMAIN u = 1 .. Len(s) + Len(t)
      /\ \A i \in 1 .. Len(s) : u[i] = s[i]
      /\ \A i \in 1 .. Len(t) : u[Len(s) + i] = t[i]
  <2>1. /\ u \in Seq(Outputs) /\ Len(u) = Len(s) + Len(t)
        /\ \A i \in 1 .. Len(s) + Len(t) : u[i] = IF i <= Len(s) THEN s[i] ELSE t[i - Len(s)]
    BY <1>1, ConcatProperties
  <2> HIDE DEF u
  <2>2. DOMAIN u = 1 .. Len(s) + Len(t)
    BY <2>1, LenProperties
  <2>3. ASSUME NEW i \in 1 .. Len(t)  PROVE u[Len(s) + i] = t[i]
    <3>1. Len(s) + i \in 1 .. Len(s) + Len(t) /\ ~(Len(s) + i <= Len(s)) /\ Len(s) + i - Len(s) = i
      BY <1>1
    <3> QED BY <2>1, <3>1
  <2>4. \A i \in 1 .. Len(s) : i \in 1 .. Len(s) + Len(t) /\ i <= Len(s)
    BY <1>1
  <2> QED
    BY <2>1, <2>2, <2>3, <2>4
<1> HIDE DEF u
<1>3. ASSUME NEW i \in DOMAIN u
      PROVE  \/ i \in DOMAIN s /\ u[i] = s[i]
             \/ \E k \in DOMAIN t : i = Len(s) + k /\ u[i] = t[k]
  <2>1. CASE i <= Len(s)
    BY <1>1, <1>2, <2>1
  <2>2. CASE ~(i <= Len(s))
    <3>1. i - Len(s) \in 1 .. Len(t) /\ i = Len(s) + (i - Len(s))
      BY <1>1, <1>2, <2>2
    <3> QED
      BY <1>1, <1>2, <3>1
  <2> QED
    BY <2>1, <2>2
<1>4. OneModelEach(u)
  BY <1>3 DEF Sound, OneModelEach
<1>5. MapsTogether(u)
  <2> SUFFICES ASSUME NEW i \in DOMAIN u, u[i].stem = "contrast-pupil"
               PROVE  /\ i + 2 \in DOMAIN u
                      /\ u[i + 1].stem = "contrast-pupil-semi-skew"
                      /\ u[i + 2].stem = "contrast-pupil-skew"
    BY DEF MapsTogether
  <2>1. CASE i \in DOMAIN s /\ u[i] = s[i]
    <3>1. /\ i + 2 \in DOMAIN s /\ s[i + 1].stem = "contrast-pupil-semi-skew"
          /\ s[i + 2].stem = "contrast-pupil-skew"
      BY <2>1 DEF Sound, MapsTogether
    <3>2. i + 1 \in 1 .. Len(s) /\ i + 2 \in 1 .. Len(s) /\ i + 2 \in 1 .. Len(s) + Len(t)
      BY <1>1, <2>1, <3>1
    <3> QED
      BY <1>2, <3>1, <3>2
  <2>2. ASSUME NEW k \in DOMAIN t, i = Len(s) + k, u[i] = t[k]
        PROVE  /\ i + 2 \in DOMAIN u
               /\ u[i + 1].stem = "contrast-pupil-semi-skew"
               /\ u[i + 2].stem = "contrast-pupil-skew"
    <3>1. /\ k + 2 \in DOMAIN t /\ t[k + 1].stem = "contrast-pupil-semi-skew"
          /\ t[k + 2].stem = "contrast-pupil-skew"
      BY <2>2 DEF Sound, MapsTogether
    <3> PICK m, n : m = Len(s) /\ n = Len(t)
      OBVIOUS
    <3>2. m \in Nat /\ n \in Nat /\ k \in 1 .. n /\ k + 2 \in 1 .. n /\ i = m + k
      BY <1>1, <2>2, <3>1
    <3>3. k + 1 \in 1 .. n /\ i + 1 = m + (k + 1) /\ i + 2 = m + (k + 2) /\ i + 2 \in 1 .. m + n
      BY ONLY <3>2
    <3>4. /\ k + 1 \in 1 .. Len(t) /\ k + 2 \in 1 .. Len(t)
          /\ i + 1 = Len(s) + (k + 1) /\ i + 2 = Len(s) + (k + 2) /\ i + 2 \in 1 .. Len(s) + Len(t)
      BY <3>2, <3>3
    <3>5. /\ i + 2 \in 1 .. Len(s) + Len(t)
          /\ u[i + 1] = t[k + 1] /\ u[i + 2] = t[k + 2]
      <4>1. \A j \in 1 .. Len(t) : u[Len(s) + j] = t[j]
        BY <1>2
      <4> QED
        BY <3>4, <4>1
    <3> QED
      BY <1>2, <3>1, <3>5
  <2> QED
    BY <1>3, <2>1, <2>2
<1>6. ASSUME NEW stem \in X \cup Y
      PROVE  \E i \in DOMAIN u : u[i].stem = stem /\ u[i].ext = ".svg"
  <2>1. CASE stem \in X
    <3>1. PICK i \in DOMAIN s : s[i].stem = stem /\ s[i].ext = ".svg"
      BY <2>1 DEF Sound
    <3>2. i \in DOMAIN u /\ u[i] = s[i]
      BY <1>1, <1>2
    <3> QED
      BY <3>1, <3>2
  <2>2. CASE stem \in Y
    <3>1. PICK k \in DOMAIN t : t[k].stem = stem /\ t[k].ext = ".svg"
      BY <2>2 DEF Sound
    <3>2. Len(s) + k \in DOMAIN u /\ u[Len(s) + k] = t[k]
      BY <1>1, <1>2
    <3> QED
      BY <3>1, <3>2
  <2> QED
    BY <2>1, <2>2
<1>7. Sound(u, X \cup Y)
  BY <1>2, <1>4, <1>5, <1>6 DEF Sound
<1> QED
  BY <1>7 DEF u

\* What each piece of the list shows.
LEMMA SoundIf ==
  ASSUME NEW flag, NEW s, NEW X, Sound(s, X)
  PROVE  Sound(If(flag, s), {})
<1>1. Sound(<<>>, {})
  BY EmptySeq DEF Sound, OneModelEach, MapsTogether
<1>2. Sound(s, {})
  BY DEF Sound
<1> QED
  BY <1>1, <1>2 DEF If

\* An output by itself, unless others are skipped with it.
Plain(o) ==
  /\ o \in Outputs /\ o.stem \notin {"prescription", "contrast-pupil"}
  /\ o.ext = ".svg" /\ o.stem \in LinkedStems => o.of = ModelOf(o.stem)

LEMMA SoundPlain ==
  ASSUME NEW s \in Seq(Outputs), \A i \in DOMAIN s : Plain(s[i]),
         NEW X, \A stem \in X : \E i \in DOMAIN s : s[i].stem = stem /\ s[i].ext = ".svg"
  PROVE  Sound(s, X)
BY DEF Sound, OneModelEach, MapsTogether, Plain

\* The pictures among some outputs.
Pictures(outputs) == {o.stem : o \in {q \in outputs : q.ext = ".svg"}}

LEMMA SoundOne ==
  ASSUME NEW a, Plain(a)
  PROVE  Sound(<<a>>, Pictures({a}))
<1> DEFINE s == <<a>>
<1>1. s \in Seq(Outputs)
  BY DEF Plain
<1>2. DOMAIN s = 1 .. 1 /\ s[1] = a
  OBVIOUS
<1> HIDE DEF s
<1>3. \A i \in DOMAIN s : Plain(s[i])
  BY <1>2
<1>4. \A stem \in Pictures({a}) : \E i \in DOMAIN s : s[i].stem = stem /\ s[i].ext = ".svg"
  BY <1>2 DEF Pictures
<1>5. Sound(s, Pictures({a}))
  BY <1>1, <1>3, <1>4, SoundPlain
<1> QED
  BY <1>5 DEF s

LEMMA SoundTwo ==
  ASSUME NEW a, NEW b, Plain(a), Plain(b)
  PROVE  Sound(<<a, b>>, Pictures({a, b}))
<1> DEFINE s == <<a, b>>
<1>1. s \in Seq(Outputs)
  BY DEF Plain
<1>2. DOMAIN s = 1 .. 2 /\ s[1] = a /\ s[2] = b
  OBVIOUS
<1>3. \A i \in 1 .. 2 : i = 1 \/ i = 2
  OBVIOUS
<1> HIDE DEF s
<1>4. \A i \in DOMAIN s : Plain(s[i])
  BY <1>2, <1>3
<1>5. \A stem \in Pictures({a, b}) : \E i \in DOMAIN s : s[i].stem = stem /\ s[i].ext = ".svg"
  <2>1. 1 \in DOMAIN s /\ 2 \in DOMAIN s
    BY <1>2
  <2> QED
    BY <1>2, <2>1 DEF Pictures
<1>6. Sound(s, Pictures({a, b}))
  BY <1>1, <1>4, <1>5, SoundPlain
<1> QED
  BY <1>6 DEF s

LEMMA SoundThree ==
  ASSUME NEW a, NEW b, NEW c, Plain(a), Plain(b), Plain(c)
  PROVE  Sound(<<a, b, c>>, Pictures({a, b, c}))
<1> DEFINE s == <<a, b, c>>
<1>1. s \in Seq(Outputs)
  BY DEF Plain
<1>2. DOMAIN s = 1 .. 3 /\ s[1] = a /\ s[2] = b /\ s[3] = c
  OBVIOUS
<1>3. \A i \in 1 .. 3 : i = 1 \/ i = 2 \/ i = 3
  OBVIOUS
<1> HIDE DEF s
<1>4. \A i \in DOMAIN s : Plain(s[i])
  BY <1>2, <1>3
<1>5. \A stem \in Pictures({a, b, c}) : \E i \in DOMAIN s : s[i].stem = stem /\ s[i].ext = ".svg"
  <2>1. 1 \in DOMAIN s /\ 2 \in DOMAIN s /\ 3 \in DOMAIN s
    BY <1>2
  <2> QED
    BY <1>2, <2>1 DEF Pictures
<1>6. Sound(s, Pictures({a, b, c}))
  BY <1>1, <1>4, <1>5, SoundPlain
<1> QED
  BY <1>6 DEF s

LEMMA SoundFour ==
  ASSUME NEW a, NEW b, NEW c, NEW e, Plain(a), Plain(b), Plain(c), Plain(e)
  PROVE  Sound(<<a, b, c, e>>, Pictures({a, b, c, e}))
<1> DEFINE s == <<a, b, c, e>>
<1>1. s \in Seq(Outputs)
  BY DEF Plain
<1>2. DOMAIN s = 1 .. 4 /\ s[1] = a /\ s[2] = b /\ s[3] = c /\ s[4] = e
  OBVIOUS
<1>3. \A i \in 1 .. 4 : i = 1 \/ i = 2 \/ i = 3 \/ i = 4
  OBVIOUS
<1> HIDE DEF s
<1>4. \A i \in DOMAIN s : Plain(s[i])
  BY <1>2, <1>3
<1>5. \A stem \in Pictures({a, b, c, e}) : \E i \in DOMAIN s : s[i].stem = stem /\ s[i].ext = ".svg"
  <2>1. 1 \in DOMAIN s /\ 2 \in DOMAIN s /\ 3 \in DOMAIN s /\ 4 \in DOMAIN s
    BY <1>2
  <2> QED
    BY <1>2, <2>1 DEF Pictures
<1>6. Sound(s, Pictures({a, b, c, e}))
  BY <1>1, <1>4, <1>5, SoundPlain
<1> QED
  BY <1>6 DEF s

\* The lists that ConfigOutputs puts together, the contrast maps aside.
LEMMA SoundPieces ==
  /\ Sound(<<Out("vig", ".txt", "analysis"), Out("paraxial", ".txt", "analysis")>>, {})
  /\ Sound(doLayoutDiagrams, {"layoutonly", "layout"})
  /\ Sound(generateSpotDiagrams, {"spot", "spot-semi-skew", "spot-skew"})
  /\ Sound(generateRayAberrationPlots, {})
<1>1. Sound(<<Out("vig", ".txt", "analysis"), Out("paraxial", ".txt", "analysis")>>, {})
  <2> DEFINE a == Out("vig", ".txt", "analysis")
         b == Out("paraxial", ".txt", "analysis")
  <2>1. Plain(a) /\ Plain(b)
    BY DEF Plain, Outputs, Stems, LinkedStems, ModelOf, Out
  <2> HIDE DEF a, b
  <2>2. Sound(<<a, b>>, {})
    BY <2>1, SoundTwo DEF Sound
  <2> QED
    BY <2>2 DEF a, b
<1>2. Sound(doLayoutDiagrams, {"layoutonly", "layout"})
  <2> DEFINE a == Out("layout-fan", ".svg", "output")
         b == Out("layoutonly", ".svg", "output")
         c == Out("layout", ".svg", "output")
  <2>1. Plain(a) /\ Plain(b) /\ Plain(c)
    BY DEF Plain, Outputs, Stems, LinkedStems, ModelOf, Out
  <2>2. b.stem = "layoutonly" /\ b.ext = ".svg" /\ c.stem = "layout" /\ c.ext = ".svg"
    BY DEF Out
  <2> HIDE DEF a, b, c
  <2>3. {"layoutonly", "layout"} \subseteq Pictures({a, b, c})
    BY <2>2 DEF Pictures
  <2>4. Sound(<<a, b, c>>, {"layoutonly", "layout"})
    BY <2>1, <2>3, SoundThree DEF Sound
  <2> QED
    BY <2>4 DEF a, b, c, doLayoutDiagrams
<1>3. Sound(generateSpotDiagrams, {"spot", "spot-semi-skew", "spot-skew"})
  <2> DEFINE a == Out("spot-report", ".txt", "analysis")
         b == Out("spot", ".svg", "analysis")
         c == Out("spot-semi-skew", ".svg", "analysis")
         e == Out("spot-skew", ".svg", "analysis")
  <2>1. Plain(a) /\ Plain(b) /\ Plain(c) /\ Plain(e)
    BY DEF Plain, Outputs, Stems, LinkedStems, ModelOf, Out
  <2>2. b.stem = "spot" /\ b.ext = ".svg" /\ c.stem = "spot-semi-skew" /\ c.ext = ".svg" /\ e.stem = "spot-skew" /\ e.ext = ".svg"
    BY DEF Out
  <2> HIDE DEF a, b, c, e
  <2>3. {"spot", "spot-semi-skew", "spot-skew"} \subseteq Pictures({a, b, c, e})
    BY <2>2 DEF Pictures
  <2>4. Sound(<<a, b, c, e>>, {"spot", "spot-semi-skew", "spot-skew"})
    BY <2>1, <2>3, SoundFour DEF Sound
  <2> QED
    BY <2>4 DEF a, b, c, e, generateSpotDiagrams
<1>4. Sound(generateRayAberrationPlots, {})
  <2> DEFINE a == Out("rayabbr", ".svg", "analysis")
         b == Out("opdabbr", ".svg", "analysis")
  <2>1. Plain(a) /\ Plain(b)
    BY DEF Plain, Outputs, Stems, LinkedStems, ModelOf, Out
  <2> HIDE DEF a, b
  <2>2. Sound(<<a, b>>, {})
    BY <2>1, SoundTwo DEF Sound
  <2> QED
    BY <2>2 DEF a, b, generateRayAberrationPlots
<1> QED
  BY <1>1, <1>2, <1>3, <1>4

LEMMA SoundEmpty == Sound(<<>>, {})
BY EmptySeq DEF Sound, OneModelEach, MapsTogether

LEMMA MapList ==
  ASSUME NEW x, NEW y, NEW z, NEW of
  PROVE  PupilMaps(<<x, y, z>>, of)
           = <<Out(x, ".svg", of), Out(y, ".svg", of), Out(z, ".svg", of)>>
BY DEF PupilMaps

LEMMA SoundPupilMaps == Sound(generatePupilMaps, {})
<1> DEFINE r == Out("pupil-report", ".txt", "analysis")
           a == Out("pupil", ".svg", "analysis")
           b == Out("pupil-semi-skew", ".svg", "analysis")
           c == Out("pupil-skew", ".svg", "analysis")
<1>1. Plain(r) /\ Plain(a) /\ Plain(b) /\ Plain(c)
  BY DEF Plain, Outputs, Stems, LinkedStems, ModelOf, Out
<1>2. generatePupilMaps = <<r>> \o <<a, b, c>>
  <2>1. PupilMaps(<<"pupil", "pupil-semi-skew", "pupil-skew">>, "analysis") = <<a, b, c>>
    BY MapList
  <2> QED
    BY ONLY <2>1 DEF generatePupilMaps
<1> HIDE DEF r, a, b, c
<1>3. Sound(<<r>>, {}) /\ Sound(<<a, b, c>>, {})
  BY <1>1, SoundOne, SoundThree DEF Sound
<1>4. Sound(<<r>> \o <<a, b, c>>, {} \cup {})
  BY <1>3, SoundConcat
<1> QED
  BY <1>2, <1>4

\* The contrast maps, which are skipped together.
LEMMA SoundContrastMaps == Sound(generateContrastPupilMaps, {})
<1> DEFINE a == Out("contrast-pupil", ".svg", "weighted")
           b == Out("contrast-pupil-semi-skew", ".svg", "weighted")
           c == Out("contrast-pupil-skew", ".svg", "weighted")
           s == <<a, b, c>>
<1>1. generateContrastPupilMaps = s
  BY MapList DEF generateContrastPupilMaps
<1>2. /\ a \in Outputs /\ a.stem = "contrast-pupil"
      /\ b \in Outputs /\ b.stem = "contrast-pupil-semi-skew"
      /\ c \in Outputs /\ c.stem = "contrast-pupil-skew"
  BY DEF Outputs, Stems, Out
<1> HIDE DEF a, b, c
<1>3. s \in Seq(Outputs)
  BY <1>2
<1>4. DOMAIN s = 1 .. 3 /\ s[1] = a /\ s[2] = b /\ s[3] = c
  OBVIOUS
<1>5. \A i \in 1 .. 3 : i = 1 \/ i = 2 \/ i = 3
  OBVIOUS
<1> HIDE DEF s
<1>6. OneModelEach(s)
  <2>1. ASSUME NEW o \in {a, b, c}
        PROVE  o.stem # "prescription" /\ o.stem \notin LinkedStems
    BY <1>2 DEF LinkedStems
  <2> QED
    BY <1>4, <1>5, <2>1 DEF OneModelEach
<1>7. MapsTogether(s)
  <2>1. ASSUME NEW i \in DOMAIN s, s[i].stem = "contrast-pupil"  PROVE i = 1
    BY <1>2, <1>4, <1>5, <2>1
  <2>2. 1 + 1 = 2 /\ 1 + 2 = 3 /\ 3 \in DOMAIN s
    BY <1>4
  <2> QED
    BY <1>2, <1>4, <2>1, <2>2 DEF MapsTogether
<1> QED
  BY <1>1, <1>3, <1>6, <1>7 DEF Sound

LEMMA SoundMonochromatic ==
  ASSUME NEW of \in {"analysis", "weighted"}
  PROVE  Sound(MonochromaticMTFs(of), {})
<1> DEFINE a == Out("mtf-fld", ".svg", of)
           b == Out("mtf-fld-weighted", ".svg", of)
           more == IF of = "weighted" THEN <<b>> ELSE <<>>
<1>1. Plain(a) /\ Plain(b)
  BY DEF Plain, Outputs, Stems, LinkedStems, ModelOf, Out
<1> HIDE DEF a, b
<1>2. Sound(<<a>>, {}) /\ Sound(<<b>>, {})
  BY <1>1, SoundOne DEF Sound
<1>3. Sound(more, {})
  BY <1>2, SoundEmpty
<1> HIDE DEF more
<1>4. Sound(<<a>> \o more, {} \cup {})
  BY <1>2, <1>3, SoundConcat
<1>5. Sound(If("--output-wavelength-mtfs", <<a>> \o more), {})
  BY <1>4, SoundIf
<1> QED
  BY <1>5 DEF MonochromaticMTFs, a, b, more

LEMMA SoundMTFs ==
  /\ Sound(generateMTFs("mtf", "analysis"), {"mtf"})
  /\ Sound(generateMTFs("mtf-w", "weighted"), {"mtf-w"})
<1>1. ASSUME NEW outname \in {"mtf", "mtf-w"}, NEW of \in {"analysis", "weighted"},
             of = ModelOf(outname)
      PROVE  Sound(generateMTFs(outname, of), {outname})
  <2> DEFINE a == Out(outname, ".svg", of)
             b == Out(outname, ".csv", of)
  <2>1. Plain(a) /\ Plain(b)
    BY <1>1 DEF Plain, Outputs, Stems, LinkedStems, Out
  <2>2. a.stem = outname /\ a.ext = ".svg"
    BY DEF Out
  <2> HIDE DEF a, b
  <2>3. {outname} \subseteq Pictures({a, b})
    BY <2>2 DEF Pictures
  <2>4. Sound(<<a, b>>, {outname})
    BY <2>1, <2>3, SoundTwo DEF Sound
  <2>5. Sound(MonochromaticMTFs(of) \o <<a, b>>, {} \cup {outname})
    BY <2>4, SoundMonochromatic, SoundConcat
  <2>6. {} \cup {outname} = {outname}
    OBVIOUS
  <2> QED
    BY <2>5, <2>6 DEF generateMTFs, a, b
<1> QED
  BY <1>1 DEF ModelOf

LEMMA SoundDiffraction ==
  ASSUME NEW outname \in {"mtf-diffraction", "mtf-diffraction-w"},
         NEW of \in {"analysis", "weighted"}
  PROVE  Sound(generateDiffractionMTFs(outname, of), {})
<1> DEFINE a == Out(outname, ".svg", of)
           b == Out(outname, ".csv", of)
<1>1. Plain(a) /\ Plain(b)
  BY DEF Plain, Outputs, Stems, LinkedStems, ModelOf, Out
<1> HIDE DEF a, b
<1>2. Sound(<<a, b>>, {})
  BY <1>1, SoundTwo DEF Sound
<1> QED
  BY <1>2 DEF generateDiffractionMTFs, a, b

LEMMA SoundReports ==
  /\ Sound(<<Out("mtf-w-wavelength-report", ".txt", "weighted")>>, {})
  /\ Sound(<<Out("contrast-report-w", ".txt", "weighted")>>, {})
<1> DEFINE a == Out("mtf-w-wavelength-report", ".txt", "weighted")
           b == Out("contrast-report-w", ".txt", "weighted")
<1>1. Plain(a) /\ Plain(b)
  BY DEF Plain, Outputs, Stems, LinkedStems, ModelOf, Out
<1> HIDE DEF a, b
<1>2. Sound(<<a>>, {}) /\ Sound(<<b>>, {})
  BY <1>1, SoundOne DEF Sound
<1> QED
  BY <1>2 DEF a, b

\* Lists whose pictures are all that a report links to, and more.
LEMMA SoundOrIf ==
  ASSUME NEW s, NEW X, Sound(s, X), NEW flag, NEW t, NEW Y, Sound(t, Y)
  PROVE  Sound(s \o If(flag, t), X)
<1>1. Sound(If(flag, t), {})
  BY SoundIf
<1>2. Sound(s \o If(flag, t), X \cup {})
  BY <1>1, SoundConcat
<1> QED
  BY <1>2 DEF Sound

LEMMA OutputsAreSound == Sound(ConfigOutputs, LinkedStems)
<1> DEFINE X == {"layoutonly", "layout"} \cup {"spot", "spot-semi-skew", "spot-skew"}
           first == <<Out("vig", ".txt", "analysis"), Out("paraxial", ".txt", "analysis")>>
           s1 == first \o doLayoutDiagrams \o generateSpotDiagrams
           s2 == s1 \o If("--output-pupil-maps", generatePupilMaps)
           s3 == s2 \o generateMTFs("mtf", "analysis")
           s4 == s3 \o If("--output-ray-aberration-plots", generateRayAberrationPlots)
           s5 == s4 \o If("--output-diffraction-mtf",
                          generateDiffractionMTFs("mtf-diffraction", "analysis"))
           s6 == s5 \o generateMTFs("mtf-w", "weighted")
           s7 == s6 \o If("--output-wavelength-mtf-report",
                          <<Out("mtf-w-wavelength-report", ".txt", "weighted")>>)
           s8 == s7 \o If("--output-contrast-report",
                          <<Out("contrast-report-w", ".txt", "weighted")>>)
           s9 == s8 \o If("--output-contrast-pupil-maps", generateContrastPupilMaps)
<1>0. Sound(first \o doLayoutDiagrams, {} \cup {"layoutonly", "layout"})
  BY SoundPieces, SoundConcat
<1>1. Sound(s1, {} \cup {"layoutonly", "layout"} \cup {"spot", "spot-semi-skew", "spot-skew"})
  BY <1>0, SoundPieces, SoundConcat
<1> HIDE DEF s1
<1>2. Sound(s1, X)
  BY <1>1 DEF Sound
<1> HIDE DEF X
<1>3. Sound(s2, X)
  BY <1>2, SoundPupilMaps, SoundOrIf
<1> HIDE DEF s2
<1>4. Sound(s3, X \cup {"mtf"})
  BY <1>3, SoundMTFs, SoundConcat
<1> HIDE DEF s3
<1>5. Sound(s4, X \cup {"mtf"})
  BY <1>4, SoundPieces, SoundOrIf
<1> HIDE DEF s4
<1>6. Sound(s5, X \cup {"mtf"})
  BY <1>5, SoundDiffraction, SoundOrIf
<1> HIDE DEF s5
<1>7. Sound(s6, X \cup {"mtf"} \cup {"mtf-w"})
  BY <1>6, SoundMTFs, SoundConcat
<1> HIDE DEF s6
<1>8. X \cup {"mtf"} \cup {"mtf-w"} = LinkedStems
  BY DEF X, LinkedStems
<1>9. Sound(s7, LinkedStems)
  BY <1>7, <1>8, SoundReports, SoundOrIf
<1> HIDE DEF s7
<1>10. Sound(s8, LinkedStems)
  BY <1>9, SoundReports, SoundOrIf
<1> HIDE DEF s8
<1>11. Sound(s9, LinkedStems)
  BY <1>10, SoundContrastMaps, SoundOrIf
<1> HIDE DEF s9
<1>12. Sound(generateDiffractionMTFs("mtf-diffraction-w", "weighted"), {})
  BY SoundDiffraction
<1>13. Sound(s9 \o If("--output-diffraction-mtf",
                     generateDiffractionMTFs("mtf-diffraction-w", "weighted")), LinkedStems)
  BY <1>11, <1>12, SoundOrIf
<1> QED
  BY <1>13 DEF ConfigOutputs, s1, s2, s3, s4, s5, s6, s7, s8, s9

LEMMA SameOutputs ==
  ASSUME args' = args
  PROVE  ConfigOutputs' = ConfigOutputs
BY DEF ConfigOutputs, If, Given, generateMTFs, MonochromaticMTFs

\* The list with its first outputs gone.
Dropped(s, n) == SubSeq(s, n + 1, Len(s))

LEMMA Rest ==
  ASSUME NEW s \in Seq(Outputs), OneModelEach(s), MapsTogether(s), NEW n \in 1 .. Len(s),
         NEW r, r = Dropped(s, n)
  PROVE  /\ r \in Seq(Outputs) /\ OneModelEach(r) /\ MapsTogether(r)
         /\ \A i \in DOMAIN r : i + n \in DOMAIN s /\ r[i] = s[i + n]
         /\ \A i \in DOMAIN s : i > n => i - n \in DOMAIN r /\ r[i - n] = s[i]
<1>1. Len(s) \in Nat /\ DOMAIN s = 1 .. Len(s)
  BY LenProperties
<1>2. /\ r \in Seq(Outputs) /\ Len(r) = Len(s) - n
      /\ \A i \in 1 .. Len(s) - n : r[i] = s[n + i]
  <2>1. n + 1 \in 1 .. Len(s) + 1 /\ Len(s) \in n .. Len(s)
    BY <1>1
  <2>2. \A i \in n + 1 .. Len(s) : s[i] \in Outputs
    BY <1>1
  <2>3. /\ r \in Seq(Outputs)
        /\ Len(r) = IF n + 1 <= Len(s) THEN Len(s) - (n + 1) + 1 ELSE 0
        /\ \A i \in 1 .. Len(s) - (n + 1) + 1 : r[i] = s[n + 1 + i - 1]
    BY <1>1, <2>1, <2>2, SubSeqProperties DEF Dropped
  <2>4. \A m, k \in Nat : k <= m =>
          /\ m - (k + 1) + 1 = m - k
          /\ (IF k + 1 <= m THEN m - (k + 1) + 1 ELSE 0) = m - k
    OBVIOUS
  <2>5. Len(s) \in Nat /\ n \in Nat /\ n <= Len(s)
    BY <1>1
  <2>6. Len(s) - (n + 1) + 1 = Len(s) - n /\ Len(r) = Len(s) - n
    BY ONLY <2>3, <2>4, <2>5
  <2>7. \A i \in 1 .. Len(s) - n : r[i] = s[n + i]
    <3>1. \A i \in 1 .. Len(s) - n : r[i] = s[n + 1 + i - 1]
      BY ONLY <2>3, <2>6
    <3>2. \A i \in 1 .. Len(s) - n : n + 1 + i - 1 = n + i
      BY ONLY <2>5
    <3> QED
      BY ONLY <3>1, <3>2
  <2> QED
    BY <2>3, <2>6, <2>7
<1>3. DOMAIN r = 1 .. Len(s) - n
  BY <1>2, LenProperties
<1>4. \A i \in DOMAIN r : i + n \in DOMAIN s /\ r[i] = s[i + n]
  <2>1. \A i \in 1 .. Len(s) - n : i + n \in 1 .. Len(s) /\ i + n = n + i
    BY <1>1
  <2> QED
    BY <1>1, <1>2, <1>3, <2>1
<1>5. \A i \in DOMAIN s : i > n => i - n \in DOMAIN r /\ r[i - n] = s[i]
  <2>1. \A i \in 1 .. Len(s) : i > n => i - n \in 1 .. Len(s) - n /\ n + (i - n) = i
    BY <1>1
  <2> QED
    BY <1>1, <1>2, <1>3, <2>1
<1>6. OneModelEach(r)
  BY <1>4 DEF OneModelEach
<1>7. MapsTogether(r)
  <2> SUFFICES ASSUME NEW i \in DOMAIN r, r[i].stem = "contrast-pupil"
               PROVE  /\ i + 2 \in DOMAIN r
                      /\ r[i + 1].stem = "contrast-pupil-semi-skew"
                      /\ r[i + 2].stem = "contrast-pupil-skew"
    BY DEF MapsTogether
  <2>1. /\ i + n + 2 \in DOMAIN s
        /\ s[i + n + 1].stem = "contrast-pupil-semi-skew"
        /\ s[i + n + 2].stem = "contrast-pupil-skew"
    BY <1>4 DEF MapsTogether
  <2>2. /\ i + 1 \in 1 .. Len(s) - n /\ i + 2 \in 1 .. Len(s) - n
        /\ n + (i + 1) = i + n + 1 /\ n + (i + 2) = i + n + 2
    <3>1. \A m, k, j \in Int : j \in 1 .. m - k /\ j + k + 2 \in 1 .. m =>
            /\ j + 1 \in 1 .. m - k /\ j + 2 \in 1 .. m - k
            /\ k + (j + 1) = j + k + 1 /\ k + (j + 2) = j + k + 2
      OBVIOUS
    <3>2. Len(s) \in Int /\ n \in Int /\ i \in Int /\ i \in 1 .. Len(s) - n
      BY <1>1, <1>3
    <3>3. i + n + 2 \in 1 .. Len(s)
      BY <1>1, <2>1
    <3> QED
      BY <3>1, <3>2, <3>3
  <2> QED
    BY <1>2, <1>3, <2>1, <2>2
<1> QED
  BY <1>2, <1>4, <1>5, <1>6, <1>7

-----------------------------------------------------------------------------
(* The steps of a run. *)

\* Before the prescription is saved nothing is promised of the report.
LEMMA BeforeTheReport ==
  ASSUME pc' \notin {"zmx", "report", "readme", "idle"}, links' = {}
  PROVE  TodoInv' /\ LinksInv' /\ ReportsAreOfTheirRun'
BY DEF TodoInv, LinksInv, ReportsAreOfTheirRun

LEMMA PrepareKeepsReport ==
  ASSUME ReportInv,
         loadSpecText \/ runOptimizationTrial \/ Import \/ optimizeThicknesses \/ BuildModels
  PROVE  ReportInv'
<1>1. /\ pc' \in {"trial", "import", "optimize", "models", "save"}
      /\ UNCHANGED <<outcomes, links>>
  BY DEF loadSpecText, runOptimizationTrial, Import, optimizeThicknesses, BuildModels, GoTo
<1>2. pc \notin {"report", "readme", "idle"}
  BY DEF loadSpecText, runOptimizationTrial, Import, optimizeThicknesses, BuildModels
<1>3. links' = {}
  BY <1>1, <1>2 DEF ReportInv, LinksInv
<1>4. /\ config' \in Nat \ {0}
      /\ pc' # "optimize" => config' = 1
  <2>1. CASE loadSpecText \/ runOptimizationTrial \/ Import \/ BuildModels
    BY <2>1 DEF ReportInv, ShapeInv, loadSpecText, runOptimizationTrial, Import, BuildModels
  <2>2. CASE optimizeThicknesses
    BY <2>2 DEF ReportInv, ShapeInv, optimizeThicknesses, GoTo
  <2> QED
    BY <2>1, <2>2
<1>5. ShapeInv'
  BY <1>1, <1>4 DEF ReportInv, ShapeInv, Steps
<1> QED
  BY <1>1, <1>3, <1>5, BeforeTheReport DEF ReportInv

LEMMA SavePrescriptionKeepsReport ==
  ASSUME ReportInv, SavePrescription
  PROVE  ReportInv'
<1> DEFINE file == LensFile(prescriptionOutput(output'), Run)
<1>1. /\ pc = "save" /\ pc' = "zmx"
      /\ UNCHANGED <<args, specfile, outcomes, config, links>>
      /\ createOutputFile(getOutputFileWithPath(Name("prescription", <<>>, ".txt")), file)
  BY DEF SavePrescription, GoTo
<1>2. file.run = Run /\ file.config = 0 /\ file.of = "prescription"
  BY DEF LensFile
<1> HIDE DEF file
<1>3. Recorded(Name("prescription", <<>>, ".txt"), 0, "prescription")'
  <2> DEFINE name == Name("prescription", <<>>, ".txt")
  <2> HIDE DEF name
  <2>1. createOutputFile(getOutputFileWithPath(name), file)
    BY <1>1 DEF name
  <2>2. Recorded(name, 0, "prescription")'
    BY <1>1, <1>2, <2>1, NowRecorded
  <2> QED
    BY <2>2 DEF name
<1> QED
  BY <1>1, <1>3 DEF ReportInv, ShapeInv, Steps, TodoInv, LinksInv, ReportsAreOfTheirRun

LEMMA SaveZmxKeepsReport ==
  ASSUME ReportInv, SaveZmx
  PROVE  ReportInv'
<1> PICK zmx : zmx = replaceExtension(specfile[2], ".zmx")
  OBVIOUS
<1> DEFINE pre == Name("prescription", <<>>, ".txt")
           file == OutputFile(0, "prescription")
<1>1. /\ pc = "zmx" /\ pc' = "report" /\ todo' = ConfigOutputs
      /\ UNCHANGED <<args, specfile, outcomes, lens, config, links>>
      /\ createOutputFile(getOutputFileWithPath(zmx), file)
  BY DEF SaveZmx, GoTo
<1>2. config = 1 /\ links = {} /\ Recorded(pre, 0, "prescription")
  BY <1>1 DEF ReportInv, ShapeInv, LinksInv
<1>3. file.run = Run /\ file.config = 0 /\ file.of = "prescription"
  BY DEF OutputFile
<1>4. zmx = replaceExtension(specfile'[2], ".zmx")
  BY <1>1
<1> HIDE DEF pre, file
<1>5. Recorded(pre, 0, "prescription")'
  BY <1>1, <1>2, <1>3, StaysRecorded
<1>6. Recorded(zmx, 0, "prescription")'
  BY <1>1, <1>3, NowRecorded
<1>7. TodoInv'
  <2>1. Sound(todo', LinkedStems)
    BY <1>1, OutputsAreSound
  <2>2. \A i \in DOMAIN todo' : \E k \in DOMAIN ConfigOutputs' : ConfigOutputs'[k] = todo'[i]
    BY <1>1, SameOutputs
  <2> QED
    BY <2>1, <2>2 DEF Sound, TodoInv
<1>8. LinksInv'
  <2>1. links' = {} /\ config' = 1 /\ pc' = "report"
    BY <1>1, <1>2
  <2> QED
    BY <1>4, <1>5, <1>6, <2>1 DEF LinksInv, pre
<1> QED
  BY <1>1, <1>7, <1>8 DEF ReportInv, ShapeInv, Steps, ReportsAreOfTheirRun

\* Later outputs do not replace what the report links to already.
LEMMA LinksStay ==
  ASSUME ReportInv, pc = "report", pc' = "report",
         NEW o \in Outputs, o.stem # "prescription",
         createOutputFile(getOutputFileWithPath(suffixed_name(o.stem, Suffix, o.ext)),
                          OutputFile(config, o.of)),
         UNCHANGED <<args, specfile, outcomes, lens, config, links>>
  PROVE  LinksInv'
<1> DEFINE written == suffixed_name(o.stem, Suffix, o.ext)
           file == OutputFile(config, o.of)
<1>1. createOutputFile(getOutputFileWithPath(written), file)
  OBVIOUS
<1>2. o.ext \in {".txt", ".svg", ".csv"}
  BY DEF Outputs
<1>3. Recorded(Name("prescription", <<>>, ".txt"), 0, "prescription")'
  <2> DEFINE name == Name("prescription", <<>>, ".txt")
  <2>1. written # name
    BY DEF suffixed_name, Name
  <2>2. Recorded(name, 0, "prescription")
    BY DEF ReportInv, LinksInv
  <2> HIDE DEF name, written, file
  <2>3. Recorded(name, 0, "prescription")'
    BY <1>1, <2>1, <2>2, StaysRecorded
  <2> QED
    BY <2>3 DEF name
<1>4. Recorded(replaceExtension(specfile[2], ".zmx"), 0, "prescription")'
  <2> PICK name : name = replaceExtension(specfile[2], ".zmx")
    OBVIOUS
  <2>1. written # name
    BY <1>2 DEF suffixed_name, replaceExtension, Name
  <2>2. Recorded(name, 0, "prescription")
    BY DEF ReportInv, LinksInv
  <2> HIDE DEF written, file
  <2>3. Recorded(name, 0, "prescription")'
    BY <1>1, <2>1, <2>2, StaysRecorded
  <2>4. name = replaceExtension(specfile'[2], ".zmx")
    OBVIOUS
  <2> QED
    BY <2>3, <2>4
<1>5. ASSUME NEW link \in links
      PROVE  /\ \E stem \in LinkedStems, c \in Finished' : link = LinkOf(stem, c)'
             /\ Recorded(link.name, link.config, link.of)'
  <2>1. PICK stem \in LinkedStems, c \in Finished : link = LinkOf(stem, c)
    BY DEF ReportInv, LinksInv
  <2>2. c \in 1 .. config - 1 /\ Recorded(link.name, link.config, link.of)
    BY DEF ReportInv, LinksInv, Finished
  <2>3. c \in Finished' /\ LinkOf(stem, c)' = LinkOf(stem, c)
    BY <2>2 DEF Finished, LinkOf, ConfigSuffix
  <2>4. written # link.name
    <3>1. config > 1 /\ c # config /\ c \in Int /\ config \in Int
      BY <2>2 DEF ReportInv, ShapeInv
    <3>2. Multi(lens.p)
      BY <3>1 DEF ReportInv, LinksInv
    <3>3. ConfigSuffix(lens.p, c) # Suffix
      <4>1. c - 1 # config - 1
        BY <3>1
      <4>2. << <<"-", c - 1>> >> # << <<"-", config - 1>> >>
        BY <4>1
      <4> QED
        BY <3>2, <4>2 DEF ConfigSuffix, Suffix
    <3> QED
      BY <2>1, <3>3 DEF LinkOf, Link, suffixed_name, Name
  <2> HIDE DEF written, file
  <2>5. Recorded(link.name, link.config, link.of)'
    BY <1>1, <2>2, <2>4, StaysRecorded
  <2> QED
    BY <2>1, <2>3, <2>5
<1>6. config' > 1 => Multi(lens'.p)
  BY DEF ReportInv, LinksInv
<1> QED
  BY <1>3, <1>4, <1>5, <1>6 DEF LinksInv

\* What remains of the list stands in for what is gone, where that is written or
\* is no picture the report links to.
LEMMA TodoShrinks ==
  ASSUME ReportInv, pc = "report", pc' = "report",
         NEW n \in 1 .. Len(todo), todo' = Dropped(todo, n),
         UNCHANGED <<args, lens, config>>,
         \A stem \in LinkedStems :
           \/ \E i \in 1 .. n : todo[i].stem = stem /\ todo[i].ext = ".svg"
           \/ Recorded(suffixed_name(stem, Suffix, ".svg"), config, ModelOf(stem))
           => Recorded(suffixed_name(stem, Suffix, ".svg"), config, ModelOf(stem))'
  PROVE  TodoInv'
<1>1. todo \in Seq(Outputs) /\ OneModelEach(todo) /\ MapsTogether(todo)
  BY DEF ReportInv, TodoInv
<1>2. DOMAIN todo = 1 .. Len(todo) /\ Len(todo) \in Nat
  BY <1>1, LenProperties
<1>3. /\ todo' \in Seq(Outputs) /\ OneModelEach(todo') /\ MapsTogether(todo')
      /\ \A i \in DOMAIN todo' : i + n \in DOMAIN todo /\ todo'[i] = todo[i + n]
      /\ \A i \in DOMAIN todo : i > n => i - n \in DOMAIN todo' /\ todo'[i - n] = todo[i]
  <2> PICK s, r : s = todo /\ r = todo'
    OBVIOUS
  <2>1. s \in Seq(Outputs) /\ OneModelEach(s) /\ MapsTogether(s)
    BY <1>1
  <2>2. n \in 1 .. Len(s) /\ r = Dropped(s, n)
    OBVIOUS
  <2>3. /\ r \in Seq(Outputs) /\ OneModelEach(r) /\ MapsTogether(r)
        /\ \A i \in DOMAIN r : i + n \in DOMAIN s /\ r[i] = s[i + n]
        /\ \A i \in DOMAIN s : i > n => i - n \in DOMAIN r /\ r[i - n] = s[i]
    BY ONLY <2>1, <2>2, Rest
  <2> QED
    BY <2>3
<1>4. \A i \in DOMAIN todo' : \E k \in DOMAIN ConfigOutputs' : ConfigOutputs'[k] = todo'[i]
  <2>1. \A i \in DOMAIN todo : \E k \in DOMAIN ConfigOutputs : ConfigOutputs[k] = todo[i]
    BY DEF ReportInv, TodoInv
  <2> QED
    BY <1>3, <2>1, SameOutputs
<1>5. Suffix' = Suffix
  BY DEF Suffix, ConfigSuffix
<1>6. ASSUME NEW stem \in LinkedStems
      PROVE  \/ \E i \in DOMAIN todo' : todo'[i].stem = stem /\ todo'[i].ext = ".svg"
             \/ Recorded(suffixed_name(stem, Suffix, ".svg"), config, ModelOf(stem))'
  <2>1. CASE Recorded(suffixed_name(stem, Suffix, ".svg"), config, ModelOf(stem))
    BY <2>1
  <2>2. CASE \E i \in DOMAIN todo : todo[i].stem = stem /\ todo[i].ext = ".svg"
    <3>1. PICK i \in DOMAIN todo : todo[i].stem = stem /\ todo[i].ext = ".svg"
      BY <2>2
    <3>2. CASE i > n
      BY <1>3, <3>1, <3>2
    <3>3. CASE ~(i > n)
      <4>1. i \in 1 .. n
        BY <1>2, <3>3
      <4> QED
        BY <3>1, <4>1
    <3> QED
      BY <3>2, <3>3
  <2> QED
    BY <2>1, <2>2 DEF ReportInv, TodoInv
<1> QED
  BY <1>3, <1>4, <1>6 DEF TodoInv

LEMMA WriteOutputKeepsReport ==
  ASSUME ReportInv, WriteOutput
  PROVE  ReportInv'
<1>1. /\ pc = "report" /\ pc' = "report" /\ todo # <<>> /\ todo' = Tail(todo)
      /\ UNCHANGED <<args, specfile, outcomes, lens, config, links>>
  BY DEF WriteOutput, GoTo
<1>2. todo \in Seq(Outputs) /\ OneModelEach(todo)
  BY <1>1 DEF ReportInv, TodoInv
<1>3. /\ Len(todo) \in Nat /\ DOMAIN todo = 1 .. Len(todo) /\ 1 \in 1 .. Len(todo)
      /\ Head(todo) = todo[1] /\ todo' = Dropped(todo, 1)
  BY <1>1, <1>2, LenProperties DEF Dropped
<1> PICK o : o = Head(todo)
  OBVIOUS
<1>4. /\ o \in Outputs /\ o.stem # "prescription"
      /\ o.ext = ".svg" /\ o.stem \in LinkedStems => o.of = ModelOf(o.stem)
  BY <1>2, <1>3 DEF OneModelEach
<1> DEFINE file == OutputFile(config, o.of)
<1>5. createOutputFile(getOutputFileWithPath(suffixed_name(o.stem, Suffix, o.ext)), file)
  BY DEF WriteOutput
<1>6. file.run = Run /\ file.config = config /\ file.of = o.of
  BY DEF OutputFile
<1>7. LinksInv'
  BY <1>1, <1>4, <1>5, LinksStay
<1> HIDE DEF file
<1>8. ASSUME NEW stem \in LinkedStems,
             \/ Recorded(suffixed_name(stem, Suffix, ".svg"), config, ModelOf(stem))
             \/ o.stem = stem /\ o.ext = ".svg"
      PROVE  Recorded(suffixed_name(stem, Suffix, ".svg"), config, ModelOf(stem))'
  <2> PICK name, c : name = suffixed_name(stem, Suffix, ".svg") /\ c = config
    OBVIOUS
  <2>1. name = suffixed_name(stem, Suffix, ".svg")' /\ c = config'
    BY <1>1 DEF Suffix, ConfigSuffix
  <2>2. CASE o.stem = stem /\ o.ext = ".svg"
    <3>1. Recorded(name, c, ModelOf(stem))'
      BY <1>1, <1>4, <1>5, <1>6, <2>2, NowRecorded
    <3> QED
      BY <2>1, <3>1
  <2>3. CASE ~(o.stem = stem /\ o.ext = ".svg")
    <3>1. suffixed_name(o.stem, Suffix, o.ext) # name
      BY <2>3 DEF suffixed_name, Name
    <3>2. Recorded(name, c, ModelOf(stem))'
      BY <1>1, <1>5, <1>8, <2>3, <3>1, StaysRecorded
    <3> QED
      BY <2>1, <3>2
  <2> QED
    BY <2>2, <2>3
<1>9. \A i \in 1 .. 1 : todo[i] = o
  BY <1>3
<1>10. TodoInv'
  BY <1>1, <1>3, <1>8, <1>9, TodoShrinks
<1> QED
  BY <1>1, <1>7, <1>10 DEF ReportInv, ShapeInv, Steps, ReportsAreOfTheirRun

LEMMA LinksStand ==
  ASSUME LinksInv, UNCHANGED <<pc, disk, args, specfile, outcomes, lens, config, links>>
  PROVE  LinksInv'
<1>1. Finished' = Finished
  BY DEF Finished
<1>2. ASSUME NEW name, NEW c, NEW of, Recorded(name, c, of)
      PROVE  Recorded(name, c, of)'
  BY <1>2, RecordedAlone
<1>3. \A stem, c : LinkOf(stem, c)' = LinkOf(stem, c)
  BY DEF LinkOf, ConfigSuffix
<1>4. ASSUME pc \in {"report", "readme"}, NEW link \in links
      PROVE  /\ \E stem \in LinkedStems, c \in Finished : link = LinkOf(stem, c)'
             /\ Recorded(link.name, link.config, link.of)'
  <2>1. Recorded(link.name, link.config, link.of)
    BY <1>4 DEF LinksInv
  <2> QED
    BY <1>2, <1>3, <1>4, <2>1 DEF LinksInv
<1>5. pc \in {"zmx", "report", "readme"} =>
        Recorded(Name("prescription", <<>>, ".txt"), 0, "prescription")'
  BY <1>2 DEF LinksInv
<1>6. pc \in {"report", "readme"} =>
        Recorded(replaceExtension(specfile[2], ".zmx"), 0, "prescription")'
  <2> PICK name : name = replaceExtension(specfile[2], ".zmx")
    OBVIOUS
  <2>1. pc \in {"report", "readme"} => Recorded(name, 0, "prescription")'
    BY <1>2 DEF LinksInv
  <2>2. name = replaceExtension(specfile'[2], ".zmx")
    OBVIOUS
  <2> QED
    BY <2>1, <2>2
<1>7. /\ pc \notin {"report", "readme", "idle"} => links' = {}
      /\ pc \in {"report", "readme"} => (config' > 1 => Multi(lens'.p))
  BY DEF LinksInv
<1> QED
  BY <1>1, <1>4, <1>5, <1>6, <1>7 DEF LinksInv

LEMMA SkipMapsKeepsReport ==
  ASSUME ReportInv, SkipMaps
  PROVE  ReportInv'
<1>1. /\ pc = "report" /\ pc' = "report" /\ todo # <<>>
      /\ UNCHANGED <<disk, args, specfile, outcomes, lens, config, links>>
  BY DEF SkipMaps, GoTo
<1>2. todo \in Seq(Outputs) /\ MapsTogether(todo)
  BY <1>1 DEF ReportInv, TodoInv
<1>3. /\ Len(todo) \in Nat /\ DOMAIN todo = 1 .. Len(todo) /\ 1 \in 1 .. Len(todo)
      /\ Head(todo) = todo[1]
  BY <1>1, <1>2, LenProperties
<1>4. ASSUME NEW name, NEW c, NEW of, Recorded(name, c, of)
      PROVE  Recorded(name, c, of)'
  BY <1>1, <1>4, RecordedAlone
<1>5. ASSUME NEW stem, Recorded(suffixed_name(stem, Suffix, ".svg"), config, ModelOf(stem))
      PROVE  Recorded(suffixed_name(stem, Suffix, ".svg"), config, ModelOf(stem))'
  <2> PICK name, c : name = suffixed_name(stem, Suffix, ".svg") /\ c = config
    OBVIOUS
  <2>1. name = suffixed_name(stem, Suffix, ".svg")' /\ c = config'
    BY <1>1 DEF Suffix, ConfigSuffix
  <2> QED
    BY <1>4, <1>5, <2>1
<1>6. PICK n \in 1 .. Len(todo) : /\ todo' = Dropped(todo, n)
                                 /\ \A i \in 1 .. n : todo[i].stem \notin LinkedStems
  <2>1. CASE Head(todo).stem \in {"pupil", "pupil-semi-skew", "pupil-skew"} /\ todo' = Tail(todo)
    <3>1. todo' = Dropped(todo, 1)
      BY <1>2, <2>1 DEF Dropped
    <3>2. \A i \in 1 .. 1 : todo[i].stem \notin LinkedStems
      BY <1>3, <2>1 DEF LinkedStems
    <3> QED
      BY <1>3, <3>1, <3>2
  <2>2. CASE Head(todo).stem = "contrast-pupil" /\ todo' = SubSeq(todo, 4, Len(todo))
    <3>1. /\ 1 + 2 \in DOMAIN todo
          /\ todo[1 + 1].stem = "contrast-pupil-semi-skew"
          /\ todo[1 + 2].stem = "contrast-pupil-skew"
      BY <1>3, <2>2, <1>2 DEF MapsTogether
    <3>2. 3 \in 1 .. Len(todo) /\ 1 + 1 = 2 /\ 1 + 2 = 3 /\ 3 + 1 = 4
      BY <1>3, <3>1
    <3>3. \A i \in 1 .. 3 : i = 1 \/ i = 2 \/ i = 3
      OBVIOUS
    <3>4. \A i \in 1 .. 3 : todo[i].stem \notin LinkedStems
      BY <1>3, <2>2, <3>1, <3>2, <3>3 DEF LinkedStems
    <3>5. todo' = Dropped(todo, 3)
      BY <2>2, <3>2 DEF Dropped
    <3> QED
      BY <3>2, <3>4, <3>5
  <2> QED
    BY <2>1, <2>2 DEF SkipMaps
<1>7. TodoInv'
  BY <1>1, <1>5, <1>6, TodoShrinks
<1>8. LinksInv'
  BY <1>1, LinksStand DEF ReportInv
<1> QED
  BY <1>1, <1>7, <1>8 DEF ReportInv, ShapeInv, Steps, ReportsAreOfTheirRun

LEMMA NextConfigKeepsReport ==
  ASSUME ReportInv, NextConfig
  PROVE  ReportInv'
<1>1. /\ pc = "report" /\ todo = <<>> /\ pc' \in {"report", "readme"}
      /\ UNCHANGED <<disk, args, specfile, outcomes, lens>>
  BY DEF NextConfig, GoTo
<1>2. config \in Nat \ {0}
  BY DEF ReportInv, ShapeInv
<1>3. /\ pc' = "report" => config' = config + 1 /\ todo' = ConfigOutputs /\ Multi(lens.p)
      /\ pc' = "readme" => config' = config
  <2>1. CASE config \in 1 .. Len(lens.p.names) - 1
    <3>1. Multi(lens.p)
      <4> SUFFICES ASSUME lens.p.names = <<>>  PROVE FALSE
        BY DEF Multi
      <4>1. Len(lens.p.names) = 0
        OBVIOUS
      <4> QED
        BY <1>2, <2>1, <4>1
    <3> QED
      BY <2>1, <3>1 DEF NextConfig, GoTo
  <2>2. CASE ~(config \in 1 .. Len(lens.p.names) - 1)
    BY <2>2 DEF NextConfig, GoTo
  <2> QED
    BY <2>1, <2>2
<1>4. config \in Finished' /\ Finished \subseteq Finished'
  BY <1>1, <1>2, <1>3 DEF Finished
<1>5. ASSUME NEW name, NEW c, NEW of, Recorded(name, c, of)
      PROVE  Recorded(name, c, of)'
  BY <1>1, <1>5, RecordedAlone
<1>6. ASSUME NEW stem, NEW c  PROVE LinkOf(stem, c)' = LinkOf(stem, c)
  BY <1>1 DEF LinkOf, ConfigSuffix
<1>7. ASSUME NEW link \in links'
      PROVE  /\ \E stem \in LinkedStems, c \in Finished' : link = LinkOf(stem, c)
             /\ Recorded(link.name, link.config, link.of)
  <2>1. CASE link \in links
    BY <1>1, <1>4, <2>1 DEF ReportInv, LinksInv
  <2>2. CASE link \notin links
    <3>1. PICK stem \in LinkedStems : link = LinkOf(stem, config)
      <4>1. link \in addLayoutsToREADME(Suffix, config) \cup addSpotDiagramsToREADME(Suffix, config)
                       \cup addMTFsToREADME(Suffix, config)
        BY <2>2 DEF NextConfig
      <4> QED
        BY <4>1 DEF addLayoutsToREADME, addSpotDiagramsToREADME, addMTFsToREADME, LinkOf,
                    LinkedStems, ModelOf, Suffix
    <3>2. Recorded(suffixed_name(stem, Suffix, ".svg"), config, ModelOf(stem))
      BY <1>1 DEF ReportInv, TodoInv
    <3>3. /\ link.name = suffixed_name(stem, Suffix, ".svg")
          /\ link.config = config /\ link.of = ModelOf(stem)
      BY <3>1 DEF LinkOf, Link, Suffix
    <3> QED
      BY <1>4, <3>1, <3>2, <3>3
  <2> QED
    BY <2>1, <2>2
<1>8. LinksInv'
  <2>1. Recorded(Name("prescription", <<>>, ".txt"), 0, "prescription")'
    BY <1>1, <1>5 DEF ReportInv, LinksInv
  <2>2. Recorded(replaceExtension(specfile[2], ".zmx"), 0, "prescription")'
    <3> PICK name : name = replaceExtension(specfile[2], ".zmx")
      OBVIOUS
    <3>1. Recorded(name, 0, "prescription")'
      BY <1>1, <1>5 DEF ReportInv, LinksInv
    <3>2. name = replaceExtension(specfile'[2], ".zmx")
      BY <1>1
    <3> QED
      BY <3>1, <3>2
  <2>3. config' > 1 => Multi(lens'.p)
    BY <1>1, <1>3 DEF ReportInv, LinksInv
  <2>4. \A link \in links' :
          /\ \E stem \in LinkedStems, c \in Finished' : link = LinkOf(stem, c)'
          /\ Recorded(link.name, link.config, link.of)'
    BY <1>5, <1>6, <1>7
  <2> QED
    BY <1>1, <2>1, <2>2, <2>3, <2>4 DEF LinksInv
<1>9. TodoInv'
  <2>1. CASE pc' = "readme"
    BY <2>1 DEF TodoInv
  <2>2. CASE pc' = "report"
    <3>1. Sound(todo', LinkedStems)
      BY <1>3, <2>2, OutputsAreSound
    <3>2. \A i \in DOMAIN todo' : \E k \in DOMAIN ConfigOutputs' : ConfigOutputs'[k] = todo'[i]
      BY <1>1, <1>3, <2>2, SameOutputs
    <3> QED
      BY <3>1, <3>2 DEF Sound, TodoInv
  <2> QED
    BY <1>1, <2>1, <2>2
<1>10. config' \in Nat \ {0}
  BY <1>1, <1>2, <1>3
<1> QED
  BY <1>1, <1>8, <1>9, <1>10 DEF ReportInv, ShapeInv, Steps, ReportsAreOfTheirRun

LEMMA createREADMEKeepsReport ==
  ASSUME ReportInv, createREADME
  PROVE  ReportInv'
<1> DEFINE readme == Name("README", <<>>, ".md")
           file == [OutputFile(0, "report") EXCEPT !.links = links \cup Resources]
<1>1. /\ pc = "readme" /\ pc' = "idle" /\ outcomes' = Append(outcomes, "done")
      /\ UNCHANGED <<args, specfile, lens, config, links>>
      /\ createOutputFile(getOutputFileWithPath(readme), file)
  BY DEF createREADME, End, lensVars
<1>2. file.links = links \cup Resources
  BY DEF OutputFile
<1> HIDE DEF file
<1>3. /\ outcomes' \in Seq({"usage", "failed", "done"}) /\ outcomes' # <<>>
      /\ Len(outcomes') = Run
  BY <1>1 DEF ReportInv, ShapeInv, Run
<1>4. ReportPath' = getOutputFileWithPath(readme)
  BY <1>1 DEF ReportPath, getOutputFileWithPath, outdir
<1>5. disk'[ReportPath'].links = links \cup Resources
  BY <1>1, <1>2, <1>4, Created
<1>6. ASSUME NEW name, NEW c, NEW of, name # readme, Recorded(name, c, of)
      PROVE  LET path == getOutputFileWithPath(name)'
             IN /\ path \in DOMAIN disk' /\ disk'[path].run = Len(outcomes')
                /\ disk'[path].config = c /\ disk'[path].of = of
  <2>1. getOutputFileWithPath(name)' = getOutputFileWithPath(name)
    BY <1>1 DEF getOutputFileWithPath, outdir
  <2>2. getOutputFileWithPath(readme) # getOutputFileWithPath(name)
    BY <1>6, OtherName
  <2> HIDE DEF readme
  <2> QED
    BY <1>1, <1>3, <1>6, <2>1, <2>2, Created DEF Recorded
<1>7. ASSUME NEW link \in links \cup Resources
      PROVE  link.name # readme /\ Recorded(link.name, link.config, link.of)
  <2>1. CASE link \in links
    <3>1. PICK stem \in LinkedStems, c \in Finished : link = LinkOf(stem, c)
      BY <1>1, <2>1 DEF ReportInv, LinksInv
    <3>2. link.name.ext = ".svg" /\ readme.ext = ".md"
      BY <3>1 DEF LinkOf, Link, suffixed_name, Name
    <3> QED
      BY <1>1, <2>1, <3>2 DEF ReportInv, LinksInv
  <2>2. CASE link \in Resources
    <3>1. /\ Recorded(Name("prescription", <<>>, ".txt"), 0, "prescription")
          /\ Recorded(replaceExtension(specfile[2], ".zmx"), 0, "prescription")
      BY <1>1 DEF ReportInv, LinksInv
    <3>2. /\ link.config = 0 /\ link.of = "prescription"
          /\ \/ link.name = Name("prescription", <<>>, ".txt")
             \/ link.name = replaceExtension(specfile[2], ".zmx")
      BY <2>2 DEF Resources
    <3>3. link.name.ext \in {".txt", ".zmx"} /\ readme.ext = ".md"
      BY <3>2 DEF Name, replaceExtension
    <3> QED
      BY <3>1, <3>2, <3>3
  <2> QED
    BY <2>1, <2>2
<1>8. ReportsAreOfTheirRun'
  <2> HIDE DEF readme
  <2>1. ASSUME NEW link \in disk'[ReportPath'].links
        PROVE  LET path == getOutputFileWithPath(link.name)'
               IN /\ path \in DOMAIN disk' /\ disk'[path].run = Len(outcomes')
                  /\ disk'[path].config = link.config /\ disk'[path].of = link.of
    BY <1>5, <1>6, <1>7
  <2> QED
    BY <2>1 DEF ReportsAreOfTheirRun
<1>9. TodoInv' /\ LinksInv'
  BY <1>1 DEF TodoInv, LinksInv
<1> QED
  BY <1>1, <1>3, <1>8, <1>9 DEF ReportInv, ShapeInv, Steps

LEMMA EndsKeepReport ==
  ASSUME ReportInv, Start \/ Throw \/ FindGlasses
  PROVE  ReportInv'
<1>1. CASE Start
  <2>1. /\ links' = {} /\ config' = 1
        /\ \/ pc' = "load" /\ UNCHANGED outcomes
           \/ pc' = "idle" /\ outcomes' = Append(outcomes, "usage")
    BY <1>1 DEF Start, Fresh
  <2>2. CASE pc' = "load" /\ UNCHANGED outcomes
    BY <2>1, <2>2, BeforeTheReport DEF ReportInv, ShapeInv, Steps
  <2>3. CASE pc' = "idle" /\ outcomes' = Append(outcomes, "usage")
    <3>1. /\ outcomes' \in Seq({"usage", "failed", "done"})
          /\ outcomes'[Len(outcomes')] = "usage"
      BY <2>3 DEF ReportInv, ShapeInv
    <3> QED
      BY <2>1, <2>3, <3>1 DEF ReportInv, ShapeInv, TodoInv, LinksInv, ReportsAreOfTheirRun
  <2> QED
    BY <2>1, <2>2, <2>3
<1>2. CASE Throw
  <2>1. pc' = "idle" /\ outcomes' = Append(outcomes, "failed") /\ UNCHANGED config
    BY <1>2 DEF Throw, End, lensVars
  <2>2. outcomes' \in Seq({"usage", "failed", "done"}) /\ outcomes'[Len(outcomes')] = "failed"
    BY <2>1 DEF ReportInv, ShapeInv
  <2> QED
    BY <2>1, <2>2 DEF ReportInv, ShapeInv, TodoInv, LinksInv, ReportsAreOfTheirRun
<1>3. CASE FindGlasses
  <2>1. /\ pc' = "idle" /\ outcomes' = Append(outcomes, "done")
        /\ command' = command /\ command.program = "glassfinder" /\ UNCHANGED config
    BY <1>3 DEF FindGlasses, End
  <2>2. outcomes' \in Seq({"usage", "failed", "done"})
    BY <2>1 DEF ReportInv, ShapeInv
  <2> QED
    BY <2>1, <2>2 DEF ReportInv, ShapeInv, TodoInv, LinksInv, ReportsAreOfTheirRun
<1> QED
  BY <1>1, <1>2, <1>3

\* What holds between two steps holds while nothing happens.
LEMMA WaitingKeepsReport ==
  ASSUME ReportInv, UNCHANGED toolVars
  PROVE  ReportInv'
<1>1. UNCHANGED <<command, args, pc, disk, outcomes, specfile, lens, config, todo, links>>
  BY DEF toolVars, lensVars
<1>2. TodoInv'
  BY <1>1, SameOutputs DEF ReportInv, TodoInv, Recorded, getOutputFileWithPath, outdir, Run,
                           Suffix, ConfigSuffix
<1>3. LinksInv'
  BY <1>1, LinksStand DEF ReportInv
<1>4. ReportsAreOfTheirRun'
  BY <1>1 DEF ReportInv, ReportsAreOfTheirRun, ReportPath, getOutputFileWithPath, outdir
<1> QED
  BY <1>1, <1>2, <1>3, <1>4 DEF ReportInv, ShapeInv

LEMMA ReportStep ==
  ASSUME ReportInv, [Next]_toolVars
  PROVE  ReportInv'
<1>1. CASE \/ loadSpecText \/ runOptimizationTrial \/ Import \/ optimizeThicknesses
           \/ BuildModels
  BY <1>1, PrepareKeepsReport
<1>2. CASE SavePrescription
  BY <1>2, SavePrescriptionKeepsReport
<1>3. CASE SaveZmx
  BY <1>3, SaveZmxKeepsReport
<1>4. CASE WriteOutput
  BY <1>4, WriteOutputKeepsReport
<1>5. CASE SkipMaps
  BY <1>5, SkipMapsKeepsReport
<1>6. CASE NextConfig
  BY <1>6, NextConfigKeepsReport
<1>7. CASE createREADME
  BY <1>7, createREADMEKeepsReport
<1>8. CASE Start \/ Throw \/ FindGlasses
  BY <1>8, EndsKeepReport
<1>9. CASE UNCHANGED toolVars
  BY <1>9, WaitingKeepsReport
<1> QED
  BY <1>1, <1>2, <1>3, <1>4, <1>5, <1>6, <1>7, <1>8, <1>9 DEF Next

(***************************************************************************)
(* A report links to files of its own run: for any files and commands, in  *)
(* any order of runs that end or fail, a report that was finished links to *)
(* files that its run wrote, from the configuration and the model it says. *)
(* While the outputs of a configuration are written each picture the report*)
(* will link to is either still on the list or recorded already, and none  *)
(* that is recorded is replaced, since the outputs of another configuration*)
(* have another suffix and one configuration's have a model for each name. *)
(***************************************************************************)
THEOREM ReportsLinkToTheirRun == Spec => []ReportsAreOfTheirRun
<1>1. Init => ReportInv
  BY EmptySeq DEF Init, ReportInv, ShapeInv, TodoInv, LinksInv, ReportsAreOfTheirRun, Steps
<1>2. ReportInv /\ [Next]_toolVars => ReportInv'
  BY ReportStep
<1>3. ReportInv => ReportsAreOfTheirRun
  BY DEF ReportInv
<1> QED
  BY <1>1, <1>2, <1>3, PTL DEF Spec

-----------------------------------------------------------------------------
\* What a run has changed grows by the file a step writes.
LEMMA ChangedGrows ==
  ASSUME NEW path, NEW file, createOutputFile(path, file), given' = given
  PROVE  Changed' \subseteq Changed \cup {path}
BY Created DEF Changed

LEMMA SameNames ==
  ASSUME UNCHANGED <<args, specfile>>, NEW name
  PROVE  NamedLikeAnOutput(name)' <=> NamedLikeAnOutput(name)
BY SameOutputs DEF NamedLikeAnOutput

LEMMA OutputKeepsFiles ==
  ASSUME RunsKeepOtherFiles, NEW name, NEW file, NamedLikeAnOutput(name),
         createOutputFile(getOutputFileWithPath(name), file),
         UNCHANGED <<command, args, given, specfile>>
  PROVE  RunsKeepOtherFiles'
<1>1. Changed' \subseteq Changed \cup {getOutputFileWithPath(name)}
  BY ChangedGrows
<1> SUFFICES ASSUME args # <<>>, command.program = "lenstool2",
                    NEW path \in Changed', ~Replaceable(path)'
             PROVE  /\ path[1] = IF outdir # Absent THEN PathOf[outdir.w][1] ELSE specfile[1]
                    /\ path \in DOMAIN given /\ given[path].text # <<>>
                         => NamedLikeAnOutput(path[2])
  BY SameNames DEF RunsKeepOtherFiles, outdir
<1>2. ~Replaceable(path)
  BY DEF Replaceable, Input
<1>3. CASE path \in Changed
  BY <1>2, <1>3 DEF RunsKeepOtherFiles
<1>4. CASE path = getOutputFileWithPath(name)
  BY <1>4 DEF getOutputFileWithPath
<1> QED
  BY <1>1, <1>3, <1>4

\* A step that writes nothing keeps everything.
LEMMA NothingWritten ==
  ASSUME RunsKeepOtherFiles, UNCHANGED <<disk, command, args, given, specfile>>
  PROVE  RunsKeepOtherFiles'
BY SameNames DEF RunsKeepOtherFiles, Changed, Replaceable, Input, outdir

LEMMA LoadKeepsFiles ==
  ASSUME KeepInv, loadSpecText
  PROVE  KeepInv'
<1>1. /\ disk = given /\ specfile = Input
      /\ UNCHANGED <<command, args, given, specfile>>
      /\ pc' \in {"trial", "import"}
      /\ pc' = "trial" => args.values.optimize_trial # Absent
  BY DEF KeepInv, loadSpecText, GoTo
<1>2. Input' = Input
  BY <1>1 DEF Input
<1>3. ASSUME NEW path \in Changed'
      PROVE  /\ Input = path
             /\ {"--assign-glass-types", "--update-specfile"} \subseteq args.flags
  <2>1. Changed = {}
    BY <1>1 DEF Changed
  <2>2. CASE Updates
    <3>1. createOutputFile(specfile, LensFile(text'[1], Run))
      BY <2>2 DEF loadSpecText
    <3>2. Changed' \subseteq {specfile}
      BY <1>1, <2>1, <3>1, ChangedGrows
    <3> QED
      BY <1>1, <2>2, <3>2 DEF Updates, Given
  <2>3. CASE ~Updates
    <3>1. disk' = disk
      BY <2>3 DEF loadSpecText
    <3> QED
      BY <1>1, <3>1 DEF Changed
  <2> QED
    BY <2>2, <2>3
<1>4. RunsKeepOtherFiles'
  BY <1>1, <1>2, <1>3 DEF RunsKeepOtherFiles, Replaceable
<1> QED
  BY <1>1, <1>2, <1>3, <1>4 DEF KeepInv

LEMMA TrialKeepsFiles ==
  ASSUME KeepInv, runOptimizationTrial
  PROVE  KeepInv'
<1>1. /\ pc = "trial" /\ pc' = "import"
      /\ UNCHANGED <<command, args, given>>
      /\ createOutputFile(specfile', LensFile(text'[1], Run))
  BY DEF runOptimizationTrial, GoTo
<1>2. /\ args.values.optimize_trial # Absent
      /\ \A path \in Changed :
           Input = path /\ {"--assign-glass-types", "--update-specfile"} \subseteq args.flags
  BY <1>1 DEF KeepInv
<1>3. Changed' \subseteq Changed \cup {specfile'}
  BY <1>1, ChangedGrows
<1>4. Input' = Input
  BY <1>1 DEF Input
<1>5. \A path \in Changed' : Replaceable(path)'
  BY <1>1, <1>2, <1>3, <1>4 DEF Replaceable
<1> QED
  BY <1>1, <1>5 DEF KeepInv, RunsKeepOtherFiles

LEMMA SavesKeepFiles ==
  ASSUME ReportInv, KeepInv,
         SavePrescription \/ SaveZmx \/ WriteOutput \/ createREADME
  PROVE  KeepInv'
<1>1. /\ pc' \in {"zmx", "report", "idle"}
      /\ UNCHANGED <<command, args, given, specfile>>
  BY DEF SavePrescription, SaveZmx, WriteOutput, createREADME, GoTo, End
<1>2. RunsKeepOtherFiles'
  <2>1. CASE SavePrescription
    <3>1. /\ createOutputFile(getOutputFileWithPath(Name("prescription", <<>>, ".txt")),
                              LensFile(prescriptionOutput(output'), Run))
          /\ NamedLikeAnOutput(Name("prescription", <<>>, ".txt"))
      BY <2>1 DEF SavePrescription, NamedLikeAnOutput
    <3> QED
      BY <1>1, <3>1, OutputKeepsFiles DEF KeepInv
  <2>2. CASE SaveZmx
    <3>1. /\ createOutputFile(getOutputFileWithPath(replaceExtension(specfile[2], ".zmx")),
                              OutputFile(0, "prescription"))
          /\ NamedLikeAnOutput(replaceExtension(specfile[2], ".zmx"))
      BY <2>2 DEF SaveZmx, NamedLikeAnOutput
    <3> QED
      BY <1>1, <3>1, OutputKeepsFiles DEF KeepInv
  <2>3. CASE WriteOutput
    <3> PICK name : name = suffixed_name(Head(todo).stem, Suffix, Head(todo).ext)
      OBVIOUS
    <3>1. createOutputFile(getOutputFileWithPath(name), OutputFile(config, Head(todo).of))
      BY <2>3 DEF WriteOutput
    <3>2. PICK k \in DOMAIN ConfigOutputs : ConfigOutputs[k] = Head(todo)
      <4>1. todo \in Seq(Outputs) /\ todo # <<>>
        BY <2>3 DEF ReportInv, TodoInv, WriteOutput
      <4>2. 1 \in DOMAIN todo /\ Head(todo) = todo[1]
        BY <4>1
      <4> QED
        BY <2>3, <4>2 DEF ReportInv, TodoInv, WriteOutput
    <3>3. Head(todo) \in Range(ConfigOutputs)
      BY <3>2 DEF Range
    <3>4. name.stem = Head(todo).stem /\ name.ext = Head(todo).ext
      BY DEF suffixed_name, Name
    <3>5. NamedLikeAnOutput(name)
      BY <3>3, <3>4 DEF NamedLikeAnOutput
    <3> QED
      BY <1>1, <3>1, <3>5, OutputKeepsFiles DEF KeepInv
  <2>4. CASE createREADME
    <3>1. /\ createOutputFile(getOutputFileWithPath(Name("README", <<>>, ".md")),
                              [OutputFile(0, "report") EXCEPT !.links = links \cup Resources])
          /\ NamedLikeAnOutput(Name("README", <<>>, ".md"))
      BY <2>4 DEF createREADME, NamedLikeAnOutput
    <3> QED
      BY <1>1, <3>1, OutputKeepsFiles DEF KeepInv
  <2> QED
    BY <2>1, <2>2, <2>3, <2>4
<1> QED
  BY <1>1, <1>2 DEF KeepInv

LEMMA OthersKeepFiles ==
  ASSUME KeepInv,
         \/ Start \/ Throw \/ FindGlasses \/ Import \/ optimizeThicknesses \/ BuildModels
         \/ SkipMaps \/ NextConfig \/ UNCHANGED toolVars
  PROVE  KeepInv'
<1>1. CASE Start
  <2>1. /\ given' = disk' /\ pc' \in {"load", "idle"}
        /\ pc' = "load" => specfile' = Input'
    BY <1>1 DEF Start, Input
  <2>2. Changed' = {}
    BY <2>1 DEF Changed
  <2> QED
    BY <2>1, <2>2 DEF KeepInv, RunsKeepOtherFiles
<1>2. CASE FindGlasses
  <2>1. pc' = "idle" /\ command' = command /\ command.program = "glassfinder"
    BY <1>2 DEF FindGlasses, End
  <2> QED
    BY <2>1 DEF KeepInv, RunsKeepOtherFiles
<1>3. CASE \/ Throw \/ Import \/ optimizeThicknesses \/ BuildModels \/ SkipMaps \/ NextConfig
  <2>1. /\ pc' \in {"idle", "optimize", "models", "save", "report", "readme"}
        /\ UNCHANGED <<disk, command, args, given, specfile>>
    BY <1>3 DEF Throw, Import, optimizeThicknesses, BuildModels, SkipMaps, NextConfig, End, GoTo
  <2>2. RunsKeepOtherFiles'
    BY <2>1, NothingWritten DEF KeepInv
  <2> QED
    BY <2>1, <2>2 DEF KeepInv
<1>4. CASE UNCHANGED toolVars
  <2>1. UNCHANGED <<pc, disk, command, args, given, specfile>>
    BY <1>4 DEF toolVars
  <2>2. RunsKeepOtherFiles'
    BY <2>1, NothingWritten DEF KeepInv
  <2> QED
    BY <2>1, <2>2 DEF KeepInv, Changed, Input
<1> QED
  BY <1>1, <1>2, <1>3, <1>4

(***************************************************************************)
(* A run keeps other files: whatever was there when it began, it changes   *)
(* files in its output directory only, and of the lenses there only those  *)
(* with the name of an output, the result of its trial and, when it is     *)
(* asked to, its input.  Until its trial is run it has written nothing but *)
(* that input, and every name it writes afterwards is the prescription's,  *)
(* the Zemax file's, one of the list of outputs or the report's.           *)
(***************************************************************************)
THEOREM RunsKeepFiles == Spec => []RunsKeepOtherFiles
<1>1. Init => ReportInv /\ KeepInv
  BY EmptySeq DEF Init, ReportInv, ShapeInv, TodoInv, LinksInv, ReportsAreOfTheirRun, Steps,
                  KeepInv, RunsKeepOtherFiles
<1>2. ReportInv /\ KeepInv /\ [Next]_toolVars => ReportInv' /\ KeepInv'
  <2> SUFFICES ASSUME ReportInv, KeepInv, [Next]_toolVars  PROVE ReportInv' /\ KeepInv'
    OBVIOUS
  <2>1. ReportInv'
    BY ReportStep
  <2>2. KeepInv'
    BY LoadKeepsFiles, TrialKeepsFiles, SavesKeepFiles, OthersKeepFiles DEF Next
  <2> QED
    BY <2>1, <2>2
<1>3. KeepInv => RunsKeepOtherFiles
  BY DEF KeepInv
<1> QED
  BY <1>1, <1>2, <1>3, PTL DEF Spec

-----------------------------------------------------------------------------
(* The lens that is analysed. *)

\* What an import makes of the columns of a glass: a name it keeps leads to one.
Imported(m) ==
  /\ m = [name |-> m.name, catalog |-> m.catalog, nd |-> m.nd, vd |-> m.vd]
  /\ m.nd \in Nat /\ m.vd \in Nat
  /\ m.name # NoName => glass_by_catalog_name(m.catalog, m.name) # {}

ImportedOK(l) ==
  /\ l = [p |-> l.p, media |-> l.media]
  /\ LensOK(l.p)
  /\ l.media = [s \in DOMAIN l.p.surfaces |-> l.media[s]]
  /\ \A s \in DOMAIN l.p.surfaces :
       /\ Imported(l.media[s])
       /\ l.p.surfaces[s].cell \in Stops => l.media[s].nd = 0
       /\ l.p.surfaces[s].cell = "CG" => l.p.surfaces[s].radius = 0
       /\ l.p.surfaces[s].cell # "AS" => l.p.surfaces[s].diameter \in Int

\* The lens of the text with other air spaces.
WithOtherAir(start) ==
  /\ lens.p.names = start.p.names /\ DOMAIN lens.p.surfaces = DOMAIN start.p.surfaces
  /\ \A s \in DOMAIN start.p.surfaces, c \in Configurations(start.p) :
       thicknessOf(lens.p.surfaces[s], c) # thicknessOf(start.p.surfaces[s], c)
         => <<s, c>> \in moved /\ lens.media[s].nd = 0

FromText == WithOtherAir(createPrescription(text[1], use_glass_types))

\* The vignetting opens every surface it sets alike.
ModelsOK(p, diameters) ==
  /\ DOMAIN diameters = Configurations(p)
  /\ \A c \in Configurations(p), s \in DOMAIN p.surfaces :
       IF s \in Targets(p)
       THEN diameters[c][s] \in Int /\ \A t \in Targets(p) : diameters[c][t] = diameters[c][s]
       ELSE diameters[c][s] = diameterOf(p.surfaces[s], c)

LensesOnDisk == \A path \in DOMAIN disk : disk[path].text # <<>> => HoldsLens(disk[path])

LensInv ==
  /\ LensesOnDisk
  /\ pc \in Steps \ {"load"} => IsLens(text[1])
  /\ pc \in {"optimize", "models", "save", "zmx", "report"} => ImportedOK(lens)
  /\ pc = "optimize" => config \in Configurations(lens.p)
  /\ pc \in {"optimize", "models"} => FromText
  /\ pc = "save" => ModelsOK(lens.p, models)
  /\ pc = "zmx" => ImportedOK(output) /\ SameLens(lens, output) /\ AperturesFit(output)
  /\ pc = "report" => weighted = createWeightedPrescription(lens)

\* Until a trial is run the text is what was on the disk, with its glasses.
Enriches == command.program = "glassfinder" \/ Given("--assign-glass-types")

GlassInv ==
  text # <<>> /\ (args.values.optimize_trial = Absent \/ pc = "trial") /\ Enriches =>
    LET onDisk == given[Input].text[1]
    IN IsLens(onDisk) /\ text[1] = Enrichment(onDisk)

-----------------------------------------------------------------------------
(* Glasses and their names. *)

LEMMA RankOfCatalogue ==
  ASSUME NEW catalog
  PROVE  /\ catalog_rank(catalog) \in Nat
         /\ catalog \in Range(catalog_priority) =>
              catalog_priority[catalog_rank(catalog)] = catalog /\ catalog # NoCatalog
<1>1. DOMAIN catalog_priority = 1 .. 7 /\ Len(catalog_priority) = 7
  BY DEF catalog_priority
<1>2. CASE \E i \in DOMAIN catalog_priority : catalog_priority[i] = catalog
  <2>1. /\ catalog_rank(catalog) \in DOMAIN catalog_priority
        /\ catalog_priority[catalog_rank(catalog)] = catalog
    BY <1>2 DEF catalog_rank
  <2>2. \A i \in 1 .. 7 : i = 1 \/ i = 2 \/ i = 3 \/ i = 4 \/ i = 5 \/ i = 6 \/ i = 7
    OBVIOUS
  <2>3. /\ catalog_priority[1] = "Hoya" /\ catalog_priority[2] = "Ohara"
        /\ catalog_priority[3] = "Schott" /\ catalog_priority[4] = "Hikari"
        /\ catalog_priority[5] = "CORNING" /\ catalog_priority[6] = "SUMITA"
        /\ catalog_priority[7] = "CDGM"
    BY DEF catalog_priority
  <2>4. \A i \in 1 .. 7 : catalog_priority[i] # NoCatalog
    <3>1. /\ "Hoya" # "" /\ "Ohara" # "" /\ "Schott" # "" /\ "Hikari" # ""
          /\ "CORNING" # "" /\ "SUMITA" # "" /\ "CDGM" # ""
      BY Zenon
    <3>2. /\ "Hoya" # NoCatalog /\ "Ohara" # NoCatalog /\ "Schott" # NoCatalog
          /\ "Hikari" # NoCatalog /\ "CORNING" # NoCatalog /\ "SUMITA" # NoCatalog
          /\ "CDGM" # NoCatalog
      BY <3>1, Zenon DEF NoCatalog
    <3> QED
      BY <2>2, <2>3, <3>2
  <2>5. catalog_rank(catalog) \in 1 .. 7 /\ 1 .. 7 \subseteq Nat
    BY <1>1, <2>1
  <2> QED
    BY <2>1, <2>4, <2>5
<1>3. CASE ~(\E i \in DOMAIN catalog_priority : catalog_priority[i] = catalog)
  <2>1. catalog_rank(catalog) = Len(catalog_priority) + 1
    BY <1>3 DEF catalog_rank
  <2>2. catalog \notin Range(catalog_priority)
    BY <1>3 DEF Range
  <2> QED
    BY <1>1, <2>1, <2>2
<1> QED
  BY <1>2, <1>3

\* A name leads to one glass or to none.
LEMMA FoundIsOne ==
  ASSUME NEW catalog, NEW label, glass_by_catalog_name(catalog, label) # {}
  PROVE  \E g \in Catalogue : glass_by_catalog_name(catalog, label) = {g}
<1> DEFINE found == glass_by_catalog_name(catalog, label)
<1>1. \A g \in found : g \in Catalogue /\ g.label = label
  BY DEF glass_by_catalog_name, glass_by_name, GlassesListed
<1>2. ASSUME NEW g \in found, NEW h \in found  PROVE g.catalog = h.catalog
  <2>1. CASE catalog = NoCatalog
    <3>1. catalog_rank(g.catalog) <= catalog_rank(h.catalog)
          /\ catalog_rank(h.catalog) <= catalog_rank(g.catalog)
      BY <2>1 DEF glass_by_catalog_name, glass_by_name
    <3>2. catalog_rank(g.catalog) \in Nat /\ catalog_rank(h.catalog) \in Nat
      BY RankOfCatalogue
    <3>3. catalog_rank(g.catalog) = catalog_rank(h.catalog)
      BY <3>1, <3>2
    <3>4. g.catalog \in Range(catalog_priority) /\ h.catalog \in Range(catalog_priority)
      BY <1>1, CatalogueAssumption
    <3> QED
      BY <3>3, <3>4, RankOfCatalogue
  <2>2. CASE catalog # NoCatalog
    BY <2>2 DEF glass_by_catalog_name, GlassesListed
  <2> QED
    BY <2>1, <2>2
<1>3. \A g, h \in found : g = h
  BY <1>1, <1>2, CatalogueAssumption
<1> HIDE DEF found
<1>4. PICK g : g \in found
  BY DEF found
<1>5. found = {g}
  BY <1>3, <1>4
<1> QED
  BY <1>1, <1>4, <1>5 DEF found

\* The names a glass is written with lead back to it.
LEMMA FoundByItsNames ==
  ASSUME NEW g \in Catalogue
  PROVE  /\ get_catalog_name(g.catalog) = g.catalog /\ g.catalog # NoCatalog
         /\ g.label # NoName /\ g.nd \in Nat /\ g.vd \in Nat /\ g.nd > 100000
         /\ glass_by_catalog_name(get_catalog_name(g.catalog), g.label) = {g}
<1>1. g.catalog \in Range(catalog_priority)
  BY CatalogueAssumption
<1>2. get_catalog_name(g.catalog) = g.catalog
  BY <1>1, CatalogueAssumption DEF get_catalog_name
<1>3. g.catalog # NoCatalog
  BY <1>1, RankOfCatalogue
<1>4. glass_by_catalog_name(get_catalog_name(g.catalog), g.label) = GlassesListed(g.catalog, g.label)
  BY <1>2, <1>3 DEF glass_by_catalog_name
<1>5. GlassesListed(g.catalog, g.label) = {g}
  BY CatalogueAssumption DEF GlassesListed
<1>6. /\ g.label # NoName /\ g.nd \in Nat /\ g.vd \in Nat /\ g.nd > 100000 + DEFAULT_ND_TOLERANCE
  BY CatalogueAssumption
<1>7. g.nd > 100000
  BY <1>6 DEF DEFAULT_ND_TOLERANCE
<1> QED
  BY <1>2, <1>3, <1>4, <1>5, <1>6, <1>7

-----------------------------------------------------------------------------
(* Media. *)

LEMMA LineIs ==
  ASSUME NEW l, l = [section |-> l.section, cell |-> l.cell, rest |-> l.rest, nd |-> l.nd,
                     vd |-> l.vd, name |-> l.name, catalog |-> l.catalog],
         IsList(l.rest), l.nd \in Nat, l.vd \in Nat
  PROVE  IsLine(l)
BY DEF IsLine

LEMMA MediumImported ==
  ASSUME NEW row, IsLine(row), NEW use
  PROVE  /\ Imported(import_medium(row, use))
         /\ row.cell \in Stops => import_medium(row, use).nd = 0
<1>1. CASE row.cell \in Stops
  BY <1>1 DEF Stops, import_medium, Imported
<1>2. CASE row.cell \notin Stops
  <2> DEFINE m == import_medium(row, use)
             names == Names(row, use)
  <2>1. m = [name |-> names.name, catalog |-> names.catalog, nd |-> row.nd, vd |-> row.vd]
    BY <1>2 DEF Stops, import_medium
  <2>2. names.name # NoName =>
          names.name = row.name /\ glass_by_catalog_name(names.catalog, names.name) # {}
    BY DEF Names
  <2> HIDE DEF names
  <2>3. m.name = names.name /\ m.catalog = names.catalog /\ m.nd = row.nd /\ m.vd = row.vd
    BY <2>1
  <2>4. m = [name |-> m.name, catalog |-> m.catalog, nd |-> m.nd, vd |-> m.vd]
    BY <2>1
  <2>5. row.nd \in Nat /\ row.vd \in Nat
    BY DEF IsLine
  <2> HIDE DEF m
  <2>6. Imported(m)
    BY <2>2, <2>3, <2>4, <2>5 DEF Imported
  <2> QED
    BY <1>2, <2>6 DEF m
<1> QED
  BY <1>1, <1>2

LEMMA MediumRow ==
  ASSUME NEW m, Imported(m), NEW kind, NEW r, r = medium_to_opt_bench_row(kind, m)
  PROVE  /\ IsLine(r) /\ r.section = NoSection /\ r.cell = kind
         /\ m.nd = 0 \/ m.name = NoName =>
              r.nd = m.nd /\ r.name = NoName /\ (m.nd # 0 => r.vd = m.vd)
         /\ m.nd # 0 /\ m.name # NoName =>
              \E g \in Catalogue : /\ glass_by_catalog_name(m.catalog, m.name) = {g}
                                  /\ r.nd = g.nd /\ r.name = g.label /\ r.catalog = g.catalog
<1> DEFINE found == IF m.nd = 0 \/ m.name = NoName THEN {}
                    ELSE glass_by_catalog_name(m.catalog, m.name)
           glass == CHOOSE g \in found : TRUE
<1>1. r = [section |-> NoSection, cell |-> kind, rest |-> <<>>,
           nd |-> IF found # {} THEN glass.nd ELSE m.nd,
           vd |-> IF m.nd = 0 THEN 0 ELSE IF found # {} THEN glass.vd ELSE m.vd,
           name |-> IF found # {} THEN glass.label ELSE NoName,
           catalog |-> IF found # {} THEN glass.catalog ELSE NoCatalog]
  BY DEF medium_to_opt_bench_row
<1>2. /\ m.nd = 0 \/ m.name = NoName => found = {}
      /\ m.nd # 0 /\ m.name # NoName => found = glass_by_catalog_name(m.catalog, m.name)
  OBVIOUS
<1>3. found # {} => glass \in found
  OBVIOUS
<1> HIDE DEF found, glass
<1>4. IsList(<<>>)
  BY EmptySeq DEF IsList
<1>5. m.nd \in Nat /\ m.vd \in Nat
  BY DEF Imported
<1>6. CASE m.nd = 0 \/ m.name = NoName
  <2>1. r = [section |-> NoSection, cell |-> kind, rest |-> <<>>, nd |-> m.nd,
             vd |-> IF m.nd = 0 THEN 0 ELSE m.vd, name |-> NoName, catalog |-> NoCatalog]
    BY <1>1, <1>2, <1>6
  <2>2. IsLine(r)
    BY <1>4, <1>5, <2>1 DEF IsLine
  <2> QED
    BY <1>6, <2>1, <2>2
<1>7. CASE m.nd # 0 /\ m.name # NoName
  <2>1. glass_by_catalog_name(m.catalog, m.name) # {}
    BY <1>7 DEF Imported
  <2>2. PICK g \in Catalogue : glass_by_catalog_name(m.catalog, m.name) = {g}
    BY <2>1, FoundIsOne
  <2>3. found = {g} /\ found # {} /\ glass = g
    BY <1>2, <1>3, <1>7, <2>2
  <2>4. r = [section |-> NoSection, cell |-> kind, rest |-> <<>>, nd |-> g.nd, vd |-> g.vd,
             name |-> g.label, catalog |-> g.catalog]
    BY <1>1, <1>7, <2>3
  <2>5. g.nd \in Nat /\ g.vd \in Nat
    BY FoundByItsNames
  <2>6. IsLine(r)
    BY <1>4, <2>4, <2>5 DEF IsLine
  <2> QED
    BY <1>7, <2>2, <2>4, <2>6
<1> QED
  BY <1>6, <1>7

\* What is written of a medium is read back as that medium, or as its glass.
LEMMA MediumReadBack ==
  ASSUME NEW m, Imported(m), NEW kind, kind \in Stops => m.nd = 0,
         NEW r, r = medium_to_opt_bench_row(kind, m)
  PROVE  SameMedium(m, import_medium(r, TRUE))
<1>1. PICK again : again = import_medium(r, TRUE)
  OBVIOUS
<1> SUFFICES SameMedium(m, again)
  BY <1>1, Zenon
<1>2. r.cell = kind
  BY MediumRow
<1>5. PICK names : names = Names(r, TRUE)
  OBVIOUS
<1>6. r.cell \notin {"AS", "FS"} =>
        again = [name |-> names.name, catalog |-> names.catalog, nd |-> r.nd, vd |-> r.vd]
  <2> SUFFICES ASSUME r.cell \notin {"AS", "FS"}
               PROVE  again = [name |-> names.name, catalog |-> names.catalog, nd |-> r.nd, vd |-> r.vd]
    OBVIOUS
  <2>1. import_medium(r, TRUE) = [name |-> Names(r, TRUE).name, catalog |-> Names(r, TRUE).catalog,
                                  nd |-> r.nd, vd |-> r.vd]
    BY Zenon DEF import_medium
  <2> QED
    BY <1>1, <1>5, <2>1, Zenon
<1>3. CASE m.nd = 0 \/ m.name = NoName
  <2>1. r.nd = m.nd /\ r.name = NoName /\ (m.nd # 0 => r.vd = m.vd)
    BY <1>3, MediumRow
  <2>2. names.name = NoName
    BY <1>5, <2>1 DEF Names
  <2>3. again.name = NoName /\ again.nd = m.nd /\ (m.nd # 0 => again.vd = m.vd)
    <3>1. CASE kind \in Stops
      BY <1>1, <1>2, <3>1 DEF import_medium, Stops
    <3>2. CASE kind \notin Stops
      <4>1. again = [name |-> names.name, catalog |-> names.catalog, nd |-> r.nd, vd |-> r.vd]
        BY <1>2, <1>6, <3>2 DEF Stops
      <4> QED
        BY <2>1, <2>2, <4>1
    <3> QED
      BY <3>1, <3>2
  <2>4. CASE m.nd = 0
    <3>1. Medium(again) = Medium(m)
      BY <2>3, <2>4 DEF Medium
    <3> QED
      BY <2>4, <3>1 DEF SameMedium, NamedAir
  <2>5. CASE m.nd # 0
    <3>1. m.name = NoName /\ again.vd = m.vd
      BY <1>3, <2>3, <2>5
    <3>2. Medium(again) = Medium(m)
      BY <2>3, <2>5, <3>1 DEF Medium
    <3> QED
      BY <3>1, <3>2 DEF SameMedium, NamedAir
  <2> QED
    BY <2>4, <2>5
<1>4. CASE m.nd # 0 /\ m.name # NoName
  <2>1. PICK g \in Catalogue : /\ glass_by_catalog_name(m.catalog, m.name) = {g}
                              /\ r.nd = g.nd /\ r.name = g.label /\ r.catalog = g.catalog
    BY <1>4, MediumRow
  <2>2. /\ get_catalog_name(g.catalog) = g.catalog
        /\ g.label # NoName /\ g.nd # 100000 /\ g.nd # 0
        /\ glass_by_catalog_name(get_catalog_name(g.catalog), g.label) = {g}
    BY FoundByItsNames
  <2>3. names.name = g.label /\ names.catalog = g.catalog
    BY <1>5, <2>1, <2>2 DEF Names
  <2>4. r.cell \notin {"AS", "FS"}
    BY <1>2, <1>4 DEF Stops
  <2>5. again.name = g.label /\ again.catalog = g.catalog /\ again.nd = g.nd
    BY <1>6, <2>1, <2>3, <2>4
  <2>6. Medium(again) = [glass |-> {g}, nd |-> 0, vd |-> 0]
    <3>1. glass_by_catalog_name(again.catalog, again.name) = {g}
      BY <2>2, <2>5
    <3> QED
      BY <2>2, <2>5, <3>1 DEF Medium
  <2>7. m.nd # 100000 => Medium(m) = [glass |-> {g}, nd |-> 0, vd |-> 0]
    BY <1>4, <2>1 DEF Medium
  <2> QED
    BY <1>4, <2>1, <2>6, <2>7 DEF SameMedium, NamedAir
<1> QED
  BY <1>3, <1>4

-----------------------------------------------------------------------------
(* The lines of a lens. *)

LEMMA IncreasingInterval ==
  ASSUME NEW k \in Nat, NEW n \in Nat, NEW S, S = (k + 1) .. (k + n)
  PROVE  /\ DOMAIN Increasing(S) = 1 .. n
         /\ \A i \in 1 .. n : Increasing(S)[i] = k + i
<1>1. S \in SUBSET Int /\ IsFiniteSet(S) /\ Cardinality(S) = n
  <2>1. k + 1 \in Int /\ k + n \in Int
    OBVIOUS
  <2>2. /\ IsFiniteSet(S)
        /\ Cardinality(S) = IF k + 1 > k + n THEN 0 ELSE k + n - (k + 1) + 1
    BY <2>1, FS_Interval
  <2>3. (IF k + 1 > k + n THEN 0 ELSE k + n - (k + 1) + 1) = n
    OBVIOUS
  <2> QED
    BY <2>2, <2>3
<1>2. DOMAIN Increasing(S) = 1 .. n
  BY <1>1, IncreasingLists
<1>3. ASSUME NEW i \in 1 .. n
      PROVE  Increasing(S)[i] = k + i
  <2>1. k + i \in S
    OBVIOUS
  <2>2. PICK j \in DOMAIN Increasing(S) :
          Increasing(S)[j] = k + i /\ Cardinality(Below(S, k + i)) = j - 1
    BY <1>1, <2>1, IncreasingLists
  <2>3. Below(S, k + i) = (k + 1) .. (k + i - 1)
    BY DEF Below
  <2>4. Cardinality((k + 1) .. (k + i - 1)) = i - 1
    <3>1. k + 1 \in Int /\ k + i - 1 \in Int
      OBVIOUS
    <3>2. Cardinality((k + 1) .. (k + i - 1))
            = IF k + 1 > k + i - 1 THEN 0 ELSE k + i - 1 - (k + 1) + 1
      BY <3>1, FS_Interval
    <3>3. (IF k + 1 > k + i - 1 THEN 0 ELSE k + i - 1 - (k + 1) + 1) = i - 1
      OBVIOUS
    <3> QED
      BY <3>2, <3>3
  <2>5. j = i
    BY <1>2, <2>2, <2>3, <2>4
  <2> QED
    BY <2>2, <2>5
<1> QED
  BY <1>2, <1>3

\* A header of lens data and rows without one.
LEMMA RowsBehindHeader ==
  ASSUME NEW n \in Nat, NEW rows, rows = [s \in 1 .. n |-> rows[s]],
         \A s \in 1 .. n : /\ rows[s].section = NoSection /\ rows[s].cell # "none"
                           /\ IsLine(rows[s]),
         NEW lines, lines = <<LensDataHeader>> \o rows
  PROVE  /\ IsList(lines) /\ \A i \in DOMAIN lines : IsLine(lines[i])
         /\ LensRows(lines) = rows
<1>1. rows \in Seq(Range(rows)) /\ Len(rows) = n
  BY ListMade DEF IsList
<1> DEFINE T == {LensDataHeader} \cup Range(rows)
<1>2. /\ lines \in Seq(T) /\ Len(lines) = n + 1
      /\ lines[1] = LensDataHeader
      /\ \A s \in 1 .. n : lines[s + 1] = rows[s]
  <2>1. <<LensDataHeader>> \in Seq(T) /\ rows \in Seq(T) /\ Len(<<LensDataHeader>>) = 1
    BY <1>1, ListMade
  <2>2. /\ lines \in Seq(T) /\ Len(lines) = 1 + n
        /\ \A i \in 1 .. (1 + n) : lines[i] = IF i <= 1 THEN <<LensDataHeader>>[i] ELSE rows[i - 1]
    BY <1>1, <2>1, ConcatProperties
  <2>3. 1 + n = n + 1 /\ 1 \in 1 .. 1 + n
    OBVIOUS
  <2>4. lines[1] = LensDataHeader
    BY <2>2, <2>3
  <2>5. ASSUME NEW s \in 1 .. n  PROVE lines[s + 1] = rows[s]
    <3>1. s + 1 \in 1 .. 1 + n /\ ~(s + 1 <= 1) /\ s + 1 - 1 = s
      OBVIOUS
    <3> QED
      BY <2>2, <3>1
  <2> QED
    BY <2>2, <2>3, <2>4, <2>5
<1> HIDE DEF T
<1>3. IsList(lines) /\ DOMAIN lines = 1 .. n + 1
  BY <1>2, SeqIsList
<1>4. ASSUME NEW i \in 1 .. n + 1
      PROVE  i = 1 \/ \E s \in 1 .. n : i = s + 1
  <2>1. i = 1 \/ (i - 1 \in 1 .. n /\ i = i - 1 + 1)
    OBVIOUS
  <2> QED
    BY <2>1
<1>5. IsLine(LensDataHeader) /\ LensDataHeader.section = LensData /\ LensDataHeader.cell = "none"
  <2>1. IsList(<<>>)
    BY EmptySeq DEF IsList
  <2>2. PICK h : h = LensDataHeader
    OBVIOUS
  <2>3. h = [section |-> LensData, cell |-> "none", rest |-> <<>>, nd |-> 0, vd |-> 0,
             name |-> NoName, catalog |-> NoCatalog]
    BY <2>2 DEF LensDataHeader
  <2>4. IsLine(h)
    BY <2>1, <2>3, LineIs
  <2> QED
    BY <2>2, <2>3, <2>4
<1>6. ASSUME NEW i \in DOMAIN lines  PROVE IsLine(lines[i])
  <2>1. CASE i = 1
    BY <1>2, <1>5, <2>1
  <2>2. CASE \E s \in 1 .. n : i = s + 1
    BY <1>2, <2>2
  <2> QED
    BY <1>3, <1>4, <2>1, <2>2
<1>7. ASSUME NEW i \in 1 .. n + 1  PROVE InLensData(lines, i)
  <2>1. 1 \in 1 .. i /\ \A later \in 1 + 1 .. i : later \in 1 .. n + 1 /\ later # 1
    OBVIOUS
  <2>2. \A later \in 1 + 1 .. i : ~Header(later, lines)
    BY <1>2, <1>4, <2>1 DEF Header
  <2>3. lines[1].section = LensData
    BY <1>2, <1>5
  <2> QED
    BY <2>1, <2>2, <2>3 DEF InLensData
<1> DEFINE S == {i \in DOMAIN lines : InLensData(lines, i) /\ lines[i].cell # "none"}
<1> PICK k \in Nat : k = 1
  OBVIOUS
<1>8. S = (k + 1) .. (k + n)
  <2>1. \A i \in 1 .. n + 1 : lines[i].cell # "none" <=> i # 1
    BY <1>2, <1>4, <1>5
  <2>2. \A i \in Int : i \in (k + 1) .. (k + n) <=> i \in 1 .. n + 1 /\ i # 1
    OBVIOUS
  <2>3. S = {i \in 1 .. n + 1 : i # 1}
    BY <1>3, <1>7, <2>1
  <2> HIDE DEF S
  <2>4. \A i \in 1 .. n + 1 : i \in Int
    OBVIOUS
  <2>5. \A i \in (k + 1) .. (k + n) : i \in Int
    OBVIOUS
  <2> QED
    BY <2>2, <2>3, <2>4, <2>5
<1>10. LensRows(lines) = [s \in DOMAIN Increasing(S) |-> lines[Increasing(S)[s]]]
  BY DEF LensRows
<1> HIDE DEF S
<1>9. DOMAIN Increasing(S) = 1 .. n /\ \A s \in 1 .. n : Increasing(S)[s] = k + s
  <2>1. PICK R : R = (k + 1) .. (k + n)
    OBVIOUS
  <2>2. DOMAIN Increasing(R) = 1 .. n /\ \A s \in 1 .. n : Increasing(R)[s] = k + s
    BY ONLY n \in Nat, k \in Nat, <2>1, IncreasingInterval
  <2> QED
    BY ONLY <1>8, <2>1, <2>2
<1>11. LensRows(lines) = rows
  <2>1. \A s \in 1 .. n : k + s = s + 1
    OBVIOUS
  <2>2. \A s \in 1 .. n : lines[Increasing(S)[s]] = rows[s]
    BY <1>2, <1>9, <2>1
  <2> QED
    BY <1>9, <1>10, <2>2
<1> QED
  BY <1>3, <1>6, <1>11

\* Lines whose sections and cells are those of other lines.
LEMMA RowsStand ==
  ASSUME NEW lines, NEW others, DOMAIN others = DOMAIN lines,
         DOMAIN lines = 1 .. Len(lines), Len(lines) \in Nat,
         \A i \in DOMAIN lines : /\ others[i].section = lines[i].section
                                 /\ others[i].cell = lines[i].cell
  PROVE  /\ \A i \in DOMAIN lines : InLensData(others, i) <=> InLensData(lines, i)
         /\ DOMAIN LensRows(others) = DOMAIN LensRows(lines)
         /\ \A s \in DOMAIN LensRows(lines) :
              /\ LensRows(others)[s].cell = LensRows(lines)[s].cell
              /\ \E i \in DOMAIN lines : LensRows(lines)[s] = lines[i]
<1>1. ASSUME NEW i \in DOMAIN lines
      PROVE  InLensData(others, i) <=> InLensData(lines, i)
  <2>1. \A s \in 1 .. i : s \in DOMAIN lines /\ \A later \in s + 1 .. i : later \in DOMAIN lines
    OBVIOUS
  <2> QED
    BY <2>1 DEF InLensData, Header
<1> DEFINE S == {i \in DOMAIN lines : InLensData(lines, i) /\ lines[i].cell # "none"}
           T == {i \in DOMAIN others : InLensData(others, i) /\ others[i].cell # "none"}
           list == Increasing(S)
<1>2. S = T
  BY <1>1
<1>3. S \in SUBSET Int /\ IsFiniteSet(S)
  <2>1. S \subseteq 1 .. Len(lines) /\ IsFiniteSet(1 .. Len(lines))
    BY FS_Interval
  <2> QED
    BY <2>1, FS_Subset
<1>4. /\ LensRows(lines) = [s \in DOMAIN list |-> lines[list[s]]]
      /\ LensRows(others) = [s \in DOMAIN Increasing(T) |-> others[Increasing(T)[s]]]
  BY DEF LensRows
<1>5. \A s \in DOMAIN list : list[s] \in DOMAIN lines
  <2>1. list \in Seq(S)
    BY <1>3, IncreasingLists
  <2> HIDE DEF list, S
  <2>2. \A s \in DOMAIN list : list[s] \in S
    BY <2>1
  <2> QED
    BY <2>2 DEF S
<1>6. LensRows(others) = [s \in DOMAIN list |-> others[list[s]]]
  BY <1>2, <1>4
<1> HIDE DEF list, S, T
<1> QED
  BY <1>1, <1>4, <1>5, <1>6

-----------------------------------------------------------------------------
(* Lenses read from texts and written to them. *)

LEMMA LensRead ==
  ASSUME NEW t, IsLens(t), Buildable(t.bench), NEW use,
         NEW l, l = createPrescription(t, use)
  PROVE  /\ ImportedOK(l) /\ l.p = build_prescription(t.bench)
         /\ DOMAIN l.p.surfaces = DOMAIN t.bench.rows
<1> PICK file : file = t.bench
  OBVIOUS
<1>1. /\ IsText(file) /\ Buildable(file)
      /\ IsList(t.lines) /\ \A i \in DOMAIN t.lines : IsLine(t.lines[i])
      /\ DOMAIN LensRows(t.lines) = DOMAIN file.rows
      /\ \A s \in DOMAIN file.rows :
           /\ LensRows(t.lines)[s].cell \in Stops <=> file.rows[s].cell \in Stops
           /\ file.rows[s].cell # "AS" => file.rows[s].diameter \in Int
  BY DEF IsLens
<1> PICK cuts : cuts = LensRows(t.lines)
  OBVIOUS
<1>2. \A s \in DOMAIN file.rows : IsLine(cuts[s])
  <2>1. DOMAIN t.lines = 1 .. Len(t.lines) /\ Len(t.lines) \in Nat
    BY <1>1, ListIs
  <2>2. \A s \in DOMAIN LensRows(t.lines) : \E i \in DOMAIN t.lines : LensRows(t.lines)[s] = t.lines[i]
    BY <2>1, RowsStand
  <2> QED
    BY <1>1, <2>2
<1>3. l = [p |-> build_prescription(file),
           media |-> [s \in DOMAIN file.rows |-> import_medium(cuts[s], use)]]
  BY DEF createPrescription
<1> PICK p : p = build_prescription(file)
  OBVIOUS
<1>4. LensOK(p)
  BY <1>1, ImportedLens
<1>5. p.surfaces = [s \in DOMAIN file.rows |-> import_surface(file, s)]
  BY DEF build_prescription
<1>6. ASSUME NEW s \in DOMAIN file.rows
      PROVE  LET a == import_surface(file, s)
             IN /\ a.cell = file.rows[s].cell
                /\ a.cell = "CG" => a.radius = 0
                /\ a.cell # "AS" => a.diameter \in Int
  <2> DEFINE a == import_surface(file, s)
  <2>1. /\ a.cell = file.rows[s].cell
        /\ a.radius = IF file.rows[s].cell = "R" THEN file.rows[s].radius ELSE 0
        /\ a.diameter = get_diameter(file, file.rows[s], scenario_of_configuration(file, 0))
    BY ImportedSurface
  <2>2. file.rows[s].cell # "AS" =>
          get_diameter(file, file.rows[s], scenario_of_configuration(file, 0)) = file.rows[s].diameter
    BY DEF get_diameter, DiameterVariable
  <2> HIDE DEF a
  <2>3. /\ a.cell = file.rows[s].cell
        /\ a.cell = "CG" => a.radius = 0
        /\ a.cell # "AS" => a.diameter \in Int
    BY <1>1, <2>1, <2>2
  <2> QED
    BY <2>3 DEF a
<1>7. ASSUME NEW s \in DOMAIN file.rows
      PROVE  /\ Imported(import_medium(cuts[s], use))
             /\ file.rows[s].cell \in Stops => import_medium(cuts[s], use).nd = 0
  BY <1>1, <1>2, MediumImported
<1>8. l.p = p /\ DOMAIN p.surfaces = DOMAIN file.rows
  BY <1>3, <1>5
<1>9. /\ l = [p |-> l.p, media |-> l.media]
      /\ l.media = [s \in DOMAIN file.rows |-> l.media[s]]
      /\ \A s \in DOMAIN file.rows : l.media[s] = import_medium(cuts[s], use)
  BY <1>3
<1>10. ASSUME NEW s \in DOMAIN l.p.surfaces
       PROVE  /\ Imported(l.media[s])
              /\ l.p.surfaces[s].cell \in Stops => l.media[s].nd = 0
              /\ l.p.surfaces[s].cell = "CG" => l.p.surfaces[s].radius = 0
              /\ l.p.surfaces[s].cell # "AS" => l.p.surfaces[s].diameter \in Int
  <2>1. s \in DOMAIN file.rows /\ l.p.surfaces[s] = import_surface(file, s)
    BY <1>5, <1>8
  <2> QED
    BY <1>6, <1>7, <1>9, <2>1
<1>11. ImportedOK(l)
  BY <1>4, <1>8, <1>9, <1>10 DEF ImportedOK
<1> QED
  BY <1>8, <1>11

LEMMA LensWritten ==
  ASSUME NEW l, ImportedOK(l), NEW trials, NEW t, t = Written(l, trials)
  PROVE  /\ IsLens(t) /\ CanWrite(l.p) /\ Buildable(t.bench) /\ t.bench = to_opt_bench_str(l.p)
         /\ \A s \in DOMAIN l.p.surfaces :
              LensRows(t.lines)[s] = medium_to_opt_bench_row(l.p.surfaces[s].cell, l.media[s])
<1> PICK p : p = l.p
  OBVIOUS
<1>1. LensOK(p)
  BY DEF ImportedOK
<1> PICK n \in Nat : n = Len(p.surfaces) /\ DOMAIN p.surfaces = 1 .. n
  BY <1>1, ListIs DEF LensOK
<1> DEFINE made == [s \in 1 .. n |-> medium_to_opt_bench_row(p.surfaces[s].cell, l.media[s])]
<1> PICK rows : rows = made
  OBVIOUS
<1>2. /\ rows = [s \in 1 .. n |-> rows[s]]
      /\ \A s \in 1 .. n : rows[s] = medium_to_opt_bench_row(p.surfaces[s].cell, l.media[s])
  OBVIOUS
<1> PICK file : file = to_opt_bench_str(p)
  OBVIOUS
<1>3. t = [bench |-> file, lines |-> <<LensDataHeader>> \o rows, trials |-> trials]
  BY DEF Written
<1> HIDE DEF made
<1>4. \A s \in 1 .. n : /\ rows[s].section = NoSection /\ rows[s].cell = p.surfaces[s].cell
                        /\ IsLine(rows[s])
  <2> SUFFICES ASSUME NEW s \in 1 .. n
               PROVE  /\ rows[s].section = NoSection /\ rows[s].cell = p.surfaces[s].cell
                      /\ IsLine(rows[s])
    OBVIOUS
  <2> PICK m, r : m = l.media[s] /\ r = rows[s]
    OBVIOUS
  <2>1. Imported(m)
    BY DEF ImportedOK
  <2>2. r = medium_to_opt_bench_row(p.surfaces[s].cell, m)
    BY <1>2
  <2> QED
    BY <2>1, <2>2, MediumRow
<1>5. \A s \in 1 .. n : p.surfaces[s].cell # "none"
  BY <1>1 DEF LensOK, SurfaceOK, Cells
<1> PICK lines : lines = t.lines
  OBVIOUS
<1>6. /\ IsList(lines) /\ \A i \in DOMAIN lines : IsLine(lines[i])
      /\ LensRows(lines) = rows
  <2>1. lines = <<LensDataHeader>> \o rows
    BY <1>3
  <2>2. \A s \in 1 .. n : /\ rows[s].section = NoSection /\ rows[s].cell # "none"
                          /\ IsLine(rows[s])
    BY <1>4, <1>5
  <2> QED
    BY <1>2, <2>1, <2>2, RowsBehindHeader
<1>7. IsText(file) /\ DOMAIN file.rows = 1 .. n
      /\ \A s \in 1 .. n : file.rows[s] = to_opt_bench_row(p, s)
  BY <1>1, WrittenShape
<1>8. ASSUME NEW s \in 1 .. n
      PROVE  /\ LensRows(lines)[s].cell \in Stops <=> file.rows[s].cell \in Stops
             /\ file.rows[s].cell # "AS" => file.rows[s].diameter \in Int
  <2> PICK row : row = file.rows[s]
    OBVIOUS
  <2>3. row = to_opt_bench_row(p, s)
    BY <1>7
  <2>1. row.cell = p.surfaces[s].cell /\ row.diameter = p.surfaces[s].diameter
    BY <2>3 DEF to_opt_bench_row
  <2>2. p.surfaces[s].cell # "AS" => p.surfaces[s].diameter \in Int
    BY DEF ImportedOK
  <2> QED
    BY <1>4, <1>6, <2>1, <2>2
<1>9. t = [bench |-> t.bench, lines |-> t.lines, trials |-> t.trials] /\ t.bench = file
  BY <1>3
<1>10. DOMAIN LensRows(lines) = 1 .. n
  BY <1>2, <1>6
<1>11. IsLens(t)
  BY <1>6, <1>7, <1>8, <1>9, <1>10 DEF IsLens
<1>12. CanWrite(p) /\ Buildable(file)
  BY <1>1, LensIsReadBack
<1> QED
  BY <1>2, <1>6, <1>9, <1>11, <1>12

\* A copy made through a text is the same lens.
LEMMA LensReread ==
  ASSUME NEW l, ImportedOK(l), NEW copy, copy = createWeightedPrescription(l)
  PROVE  /\ ImportedOK(copy) /\ copy.p.names = l.p.names
         /\ DOMAIN copy.p.surfaces = DOMAIN l.p.surfaces
         /\ \A s \in DOMAIN l.p.surfaces :
              /\ copy.p.surfaces[s].cell = l.p.surfaces[s].cell
              /\ copy.p.surfaces[s].radius = l.p.surfaces[s].radius
              /\ SameMedium(l.media[s], copy.media[s])
              /\ \A c \in Configurations(l.p) :
                   /\ thicknessOf(copy.p.surfaces[s], c) = thicknessOf(l.p.surfaces[s], c)
                   /\ diameterOf(copy.p.surfaces[s], c) = diameterOf(l.p.surfaces[s], c)
<1> PICK t : t = Written(l, <<>>)
  OBVIOUS
<1> PICK use : use = TRUE
  OBVIOUS
<1>1. /\ IsLens(t) /\ Buildable(t.bench) /\ t.bench = to_opt_bench_str(l.p)
      /\ \A s \in DOMAIN l.p.surfaces :
           LensRows(t.lines)[s] = medium_to_opt_bench_row(l.p.surfaces[s].cell, l.media[s])
  BY LensWritten
<1>2. copy = createPrescription(t, use)
  BY Zenon DEF createWeightedPrescription, Reread
<1>3. /\ ImportedOK(copy) /\ copy.p = build_prescription(t.bench)
      /\ DOMAIN copy.p.surfaces = DOMAIN t.bench.rows
  BY <1>1, <1>2, LensRead
<1> PICK p : p = l.p
  OBVIOUS
<1>4. LensOK(p)
  BY DEF ImportedOK
<1> PICK q : q = copy.p
  OBVIOUS
<1>5. q = build_prescription(to_opt_bench_str(p))
  BY <1>1, <1>3
<1>6. /\ q.names = p.names /\ DOMAIN q.surfaces = DOMAIN p.surfaces
      /\ \A s \in DOMAIN p.surfaces : Alike(p, p.surfaces[s], q.surfaces[s])
  BY <1>4, <1>5, LensIsReadBack
<1>7. ASSUME NEW s \in DOMAIN p.surfaces
      PROVE  /\ q.surfaces[s].cell = p.surfaces[s].cell
             /\ q.surfaces[s].radius = p.surfaces[s].radius
             /\ SameMedium(l.media[s], copy.media[s])
             /\ \A c \in Configurations(p) :
                  /\ thicknessOf(q.surfaces[s], c) = thicknessOf(p.surfaces[s], c)
                  /\ diameterOf(q.surfaces[s], c) = diameterOf(p.surfaces[s], c)
  <2>1. Alike(p, p.surfaces[s], q.surfaces[s])
    BY <1>6
  <2>2. p.surfaces[s].cell = "CG" => p.surfaces[s].radius = 0
    BY DEF ImportedOK
  <2>3. q.surfaces[s].cell = "CG" => q.surfaces[s].radius = 0
    BY <1>3, <1>6 DEF ImportedOK
  <2>4. q.surfaces[s].radius = p.surfaces[s].radius
    BY <2>1, <2>2, <2>3 DEF Alike
  <2>5. Imported(l.media[s]) /\ (p.surfaces[s].cell \in Stops => l.media[s].nd = 0)
    BY DEF ImportedOK
  <2> PICK r : r = LensRows(t.lines)[s]
    OBVIOUS
  <2>6. r = medium_to_opt_bench_row(p.surfaces[s].cell, l.media[s])
    BY <1>1
  <2>7. s \in DOMAIN t.bench.rows
    BY <1>3, <1>6
  <2>8. copy.media[s] = import_medium(r, use)
    <3> DEFINE media == [i \in DOMAIN t.bench.rows |-> import_medium(LensRows(t.lines)[i], use)]
    <3>1. copy = [p |-> build_prescription(t.bench), media |-> media]
      BY <1>2 DEF createPrescription
    <3>2. media[s] = import_medium(r, use)
      BY <2>7
    <3> PICK built, all : built = build_prescription(t.bench) /\ all = media
      OBVIOUS
    <3> HIDE DEF media
    <3>4. copy = [p |-> built, media |-> all]
      BY <3>1
    <3>3. copy.media = media
      BY ONLY <3>4, all = media
    <3> QED
      BY <3>2, <3>3
  <2>9. copy.media[s] = import_medium(r, TRUE)
    BY <2>8, Zenon
  <2>10. SameMedium(l.media[s], import_medium(r, TRUE))
    BY <2>5, <2>6, MediumReadBack
  <2>11. SameMedium(l.media[s], copy.media[s])
    BY <2>9, <2>10, Zenon
  <2> QED
    BY <2>1, <2>4, <2>11 DEF Alike
<1> QED
  BY <1>3, <1>6, <1>7

-----------------------------------------------------------------------------
(* The order matches are sorted in. *)

LEMMA MatchIs ==
  ASSUME NEW n \in Nat, NEW v \in Nat, NEW indexLine, NEW abbeLine,
         NEW m \in Matches(n, v, indexLine, abbeLine)
  PROVE  /\ m.glass \in Catalogue
         /\ m.nd_difference \in Nat /\ m.vd_difference \in Nat
         /\ Distance(IF indexLine = "e" THEN m.glass.ne ELSE m.glass.nd, n) <= DEFAULT_ND_TOLERANCE
<1>1. PICK g \in Catalogue : m = GlassMatch(g, n, v, indexLine, abbeLine)
  BY DEF Matches
<1>2. g.nd \in Nat /\ g.ne \in Nat /\ g.vd \in Nat /\ g.ve \in Nat
  BY CatalogueAssumption
<1> PICK x, y : /\ x = Distance(IF indexLine = "e" THEN g.ne ELSE g.nd, n)
                /\ y = Distance(IF abbeLine = "e" THEN g.ve ELSE g.vd, v)
  OBVIOUS
<1>3. m.glass = g /\ m.nd_difference = x /\ m.vd_difference = y
  BY <1>1 DEF GlassMatch
<1>4. x \in Nat /\ y \in Nat
  BY <1>2 DEF Distance
<1>5. m.nd_difference <= DEFAULT_ND_TOLERANCE
  BY DEF Matches
<1> QED
  BY <1>3, <1>4, <1>5

LEMMA MatchesFinite ==
  ASSUME NEW n, NEW v, NEW indexLine, NEW abbeLine
  PROVE  IsFiniteSet(Matches(n, v, indexLine, abbeLine))
<1> DEFINE f == [g \in Catalogue |-> GlassMatch(g, n, v, indexLine, abbeLine)]
           all == {f[g] : g \in Catalogue}
<1>1. f \in Surjection(Catalogue, all)
  <2>1. f \in [Catalogue -> all] /\ \A m \in all : \E g \in Catalogue : f[g] = m
    OBVIOUS
  <2> HIDE DEF f, all
  <2> QED
    BY <2>1 DEF Surjection
<1>2. IsFiniteSet(Catalogue)
  BY CatalogueAssumption
<1>3. Matches(n, v, indexLine, abbeLine) \subseteq all
  BY DEF Matches
<1> HIDE DEF f, all
<1>4. IsFiniteSet(all)
  BY <1>1, <1>2, FS_Surjection
<1> QED
  BY <1>3, <1>4, FS_Subset

LEMMA KeyIs ==
  ASSUME NEW n \in Nat, NEW v \in Nat, NEW indexLine, NEW abbeLine,
         NEW m \in Matches(n, v, indexLine, abbeLine)
  PROVE  /\ Key(m) \in [1 .. 7 -> Int]
         /\ Key(m)[1] = IF m.exact THEN 0 ELSE 1
         /\ Key(m)[2] = IF m.exact THEN catalog_rank(m.glass.catalog) ELSE 0
<1> PICK rank, label, x, y, points :
      /\ rank = catalog_rank(m.glass.catalog) /\ label = m.glass.label
      /\ x = m.nd_difference /\ y = m.vd_difference /\ points = score(m)
  OBVIOUS
<1>1. rank \in Int
  BY RankOfCatalogue
<1>2. m.glass \in Catalogue /\ x \in Int /\ y \in Int
  BY MatchIs
<1>3. label \in Int
  BY <1>2, CatalogueAssumption
<1>4. points \in Int
  <2>1. points = x * x + 25 * y * y
    BY DEF score
  <2>2. x * x \in Int /\ y * y \in Int /\ 25 * y * y \in Int
    BY <1>2
  <2> QED
    BY <2>1, <2>2
<1> PICK first, second : /\ first = IF m.exact THEN 0 ELSE 1
                         /\ second = IF m.exact THEN rank ELSE 0
  OBVIOUS
<1>5. first \in Int /\ second \in Int
  BY <1>1
<1> PICK k : k = <<first, second, points, x, y, rank, label>>
  OBVIOUS
<1>6. Key(m) = k
  BY DEF Key
<1>7. k \in [1 .. 7 -> Int] /\ k[1] = first /\ k[2] = second
  BY <1>1, <1>2, <1>3, <1>4, <1>5
<1> QED
  BY <1>6, <1>7

\* Keys compare in the order of a dictionary.
Precedes(k, l) == \E i \in 1 .. 7 : k[i] < l[i] /\ \A j \in 1 .. i - 1 : k[j] = l[j]

LEMMA DictionaryOrder ==
  ASSUME NEW k \in [1 .. 7 -> Int], NEW l \in [1 .. 7 -> Int], NEW m \in [1 .. 7 -> Int]
  PROVE  /\ ~Precedes(k, k)
         /\ Precedes(k, l) /\ Precedes(l, m) => Precedes(k, m)
<1>1. ~Precedes(k, k)
  BY DEF Precedes
<1>2. ASSUME Precedes(k, l), Precedes(l, m)
      PROVE  Precedes(k, m)
  <2>1. PICK a \in 1 .. 7 : k[a] < l[a] /\ \A j \in 1 .. a - 1 : k[j] = l[j]
    BY <1>2 DEF Precedes
  <2>2. PICK b \in 1 .. 7 : l[b] < m[b] /\ \A j \in 1 .. b - 1 : l[j] = m[j]
    BY <1>2 DEF Precedes
  <2>3. PICK i \in 1 .. 7 : i = (IF a <= b THEN a ELSE b)
    OBVIOUS
  <2>4. \A j \in 1 .. i - 1 : j \in 1 .. a - 1 /\ j \in 1 .. b - 1
    BY <2>3
  <2>5. k[i] < m[i]
    <3>1. CASE a < b
      <4>1. i = a /\ a \in 1 .. b - 1
        BY <2>3, <3>1
      <4> QED
        BY <2>1, <2>2, <4>1
    <3>2. CASE a = b
      <4>1. i = a /\ i = b /\ k[i] \in Int /\ l[i] \in Int /\ m[i] \in Int
        BY <2>3, <3>2
      <4> QED
        BY <2>1, <2>2, <4>1
    <3>3. CASE b < a
      <4>1. i = b /\ b \in 1 .. a - 1
        BY <2>3, <3>3
      <4> QED
        BY <2>1, <2>2, <4>1
    <3> QED
      BY <3>1, <3>2, <3>3
  <2> QED
    BY <2>1, <2>2, <2>4, <2>5 DEF Precedes
<1> QED
  BY <1>1, <1>2

LEMMA SoonerIsAnOrder ==
  ASSUME NEW n \in Nat, NEW v \in Nat, NEW indexLine, NEW abbeLine,
         NEW a \in Matches(n, v, indexLine, abbeLine),
         NEW b \in Matches(n, v, indexLine, abbeLine),
         NEW c \in Matches(n, v, indexLine, abbeLine)
  PROVE  /\ ~Sooner(a, a)
         /\ Sooner(a, b) /\ Sooner(b, c) => Sooner(a, c)
<1> PICK k, l, m : k = Key(a) /\ l = Key(b) /\ m = Key(c)
  OBVIOUS
<1>1. k \in [1 .. 7 -> Int] /\ l \in [1 .. 7 -> Int] /\ m \in [1 .. 7 -> Int]
  BY KeyIs
<1>2. /\ Sooner(a, a) <=> Precedes(k, k)
      /\ Sooner(a, b) <=> Precedes(k, l)
      /\ Sooner(b, c) <=> Precedes(l, m)
      /\ Sooner(a, c) <=> Precedes(k, m)
  BY DEF Sooner, Precedes
<1> QED
  BY <1>1, <1>2, DictionaryOrder

\* A match stands first when none is sooner, and one does.
LEMMA FirstInOrder ==
  ASSUME NEW n \in Nat, NEW v \in Nat, NEW indexLine, NEW abbeLine,
         NEW matches, matches = Matches(n, v, indexLine, abbeLine)
  PROVE  /\ matches # {} => \E m \in matches : Place(matches, m) = 1
         /\ \A m \in matches : Place(matches, m) = 1 => ~ \E o \in matches : Sooner(o, m)
<1> DEFINE ahead(m) == {o \in matches : Sooner(o, m)}
           count(m) == Cardinality(ahead(m))
<1>1. IsFiniteSet(matches)
  BY MatchesFinite
<1>2. \A m : /\ ahead(m) \subseteq matches /\ IsFiniteSet(ahead(m)) /\ count(m) \in Nat
             /\ (count(m) = 0 <=> ahead(m) = {})
             /\ Place(matches, m) = 1 + count(m)
  <2> TAKE m
  <2>1. ahead(m) \subseteq matches
    OBVIOUS
  <2>2. Place(matches, m) = 1 + count(m)
    BY DEF Place
  <2> HIDE DEF ahead
  <2>3. IsFiniteSet(ahead(m))
    BY <1>1, <2>1, FS_Subset
  <2> QED
    BY <2>1, <2>2, <2>3, FS_CardinalityType, FS_EmptySet
<1>3. ASSUME NEW m \in matches, Place(matches, m) = 1
      PROVE  ~ \E o \in matches : Sooner(o, m)
  <2>1. count(m) \in Nat /\ 1 + count(m) = 1
    BY <1>2, <1>3
  <2>2. count(m) = 0
    <3> HIDE DEF count
    <3> QED
      BY <2>1
  <2>3. ahead(m) = {}
    BY <1>2, <2>2
  <2> QED
    BY <2>3
<1>4. ASSUME matches # {}
      PROVE  \E m \in matches : Place(matches, m) = 1
  <2> DEFINE T == {count(m) : m \in matches}
  <2>1. T \subseteq Nat /\ T # {}
    <3>1. \A m : count(m) \in Nat
      BY <1>2
    <3> HIDE DEF count
    <3> QED
      BY <1>4, <3>1
  <2>2. PICK x \in T : \A y \in T : x <= y
    <3> HIDE DEF T
    <3> QED
      BY <2>1, LeastElement
  <2>3. PICK m \in matches : x = count(m)
    OBVIOUS
  <2>4. \A o \in matches : count(m) <= count(o)
    BY <2>2, <2>3
  <2>5. ahead(m) = {}
    <3> SUFFICES ASSUME ahead(m) # {} PROVE FALSE
      OBVIOUS
    <3>1. PICK o \in matches : Sooner(o, m)
      OBVIOUS
    <3>2. ahead(o) \subseteq ahead(m)
      BY <3>1, SoonerIsAnOrder
    <3>3. o \in ahead(m) /\ o \notin ahead(o)
      BY <3>1, SoonerIsAnOrder
    <3> HIDE DEF ahead
    <3>4. IsFiniteSet(ahead(m)) /\ ahead(o) # ahead(m)
      BY <1>2, <3>3
    <3>5. Cardinality(ahead(o)) < Cardinality(ahead(m))
      <4> PICK A, B : A = ahead(o) /\ B = ahead(m)
        OBVIOUS
      <4>1. IsFiniteSet(B) /\ A \subseteq B /\ A # B
        BY <3>2, <3>4
      <4>2. IsFiniteSet(A) /\ Cardinality(A) <= Cardinality(B) /\ (Cardinality(A) = Cardinality(B) => A = B)
        BY <4>1, FS_Subset
      <4>3. Cardinality(A) \in Nat /\ Cardinality(B) \in Nat
        BY <4>1, <4>2, FS_CardinalityType
      <4>4. Cardinality(A) < Cardinality(B)
        BY <4>1, <4>2, <4>3
      <4> QED
        BY <4>4
    <3>6. Cardinality(ahead(m)) <= Cardinality(ahead(o))
      BY <2>4
    <3>7. Cardinality(ahead(o)) \in Nat /\ Cardinality(ahead(m)) \in Nat
      BY <1>2
    <3> HIDE DEF count
    <3> QED
      BY <3>5, <3>6, <3>7
  <2>6. count(m) = 0 /\ Place(matches, m) = 1 + count(m)
    BY <1>2, <2>5
  <2>7. Place(matches, m) = 1
    <3> HIDE DEF count
    <3> QED
      BY <2>6
  <2> QED
    BY <2>7
<1> QED
  BY <1>3, <1>4

\* The first match found: none is nearer, and an exact one is of the catalogue
\* that is preferred.
LEMMA FirstFound ==
  ASSUME NEW n \in Nat, NEW v \in Nat, NEW indexLine, NEW abbeLine,
         NEW found, found = find_glasses(n, v, indexLine, abbeLine)
  PROVE  /\ IsList(found)
         /\ found # <<>> =>
              /\ found[1] \in Matches(n, v, indexLine, abbeLine)
              /\ \A m \in Matches(n, v, indexLine, abbeLine) :
                   m.exact => catalog_rank(found[1].glass.catalog) <= catalog_rank(m.glass.catalog)
<1> PICK matches : matches = Matches(n, v, indexLine, abbeLine)
  OBVIOUS
<1>1. IsFiniteSet(matches) /\ Cardinality(matches) \in Nat
  BY MatchesFinite, FS_CardinalityType
<1> PICK count \in Nat : count = IF Cardinality(matches) > Limit THEN Limit ELSE Cardinality(matches)
  BY <1>1 DEF Limit
<1>2. found = [i \in 1 .. count |-> CHOOSE m \in matches : Place(matches, m) = i]
  BY DEF find_glasses
<1>3. IsList(found) /\ Len(found) = count /\ (found = <<>> <=> count = 0)
  <2>1. found = [i \in 1 .. count |-> found[i]]
    BY <1>2
  <2>2. IsList(found) /\ Len(found) = count
    BY <2>1, ListMade
  <2> QED
    BY <2>2, ListIs
<1>4. ASSUME found # <<>>
      PROVE  /\ found[1] \in matches
             /\ \A m \in matches :
                  m.exact => catalog_rank(found[1].glass.catalog) <= catalog_rank(m.glass.catalog)
  <2>1. 1 \in 1 .. count /\ count # 0
    BY <1>3, <1>4
  <2>2. matches # {}
    <3>1. Cardinality(matches) # 0
      BY <1>1, <2>1 DEF Limit
    <3> QED
      BY <1>1, <3>1, FS_EmptySet
  <2>3. \E m \in matches : Place(matches, m) = 1
    BY <2>2, FirstInOrder
  <2> PICK f : f = found[1]
    OBVIOUS
  <2>4. f \in matches /\ Place(matches, f) = 1
    <3>1. f = CHOOSE m \in matches : Place(matches, m) = 1
      BY <1>2, <2>1
    <3> QED
      BY <2>3, <3>1
  <2>5. ~ \E o \in matches : Sooner(o, f)
    BY <2>4, FirstInOrder
  <2>6. ASSUME NEW m \in matches, m.exact
        PROVE  catalog_rank(f.glass.catalog) <= catalog_rank(m.glass.catalog)
    <3> PICK k, l : k = Key(m) /\ l = Key(f)
      OBVIOUS
    <3> PICK r \in Nat, q \in Nat : r = catalog_rank(m.glass.catalog) /\ q = catalog_rank(f.glass.catalog)
      BY RankOfCatalogue
    <3>1. /\ k \in [1 .. 7 -> Int] /\ k[1] = 0 /\ k[2] = r
          /\ l \in [1 .. 7 -> Int] /\ l[1] = (IF f.exact THEN 0 ELSE 1)
          /\ l[2] = (IF f.exact THEN q ELSE 0)
      BY <2>4, <2>6, KeyIs
    <3>2. ~(\E i \in 1 .. 7 : k[i] < l[i] /\ \A j \in 1 .. i - 1 : k[j] = l[j])
      BY <2>5 DEF Sooner
    <3>3. f.exact
      <4> SUFFICES ASSUME ~f.exact PROVE FALSE
        OBVIOUS
      <4>1. k[1] < l[1] /\ 1 \in 1 .. 7
        BY <3>1
      <4>2. \A j \in 1 .. 1 - 1 : k[j] = l[j]
        OBVIOUS
      <4> QED
        BY <3>2, <4>1, <4>2
    <3>4. ~(r < q)
      <4> SUFFICES ASSUME r < q PROVE FALSE
        OBVIOUS
      <4>1. k[2] < l[2] /\ 2 \in 1 .. 7
        BY <3>1, <3>3
      <4>2. \A j \in 1 .. 2 - 1 : k[j] = l[j]
        BY <3>1, <3>3
      <4> QED
        BY <3>2, <4>1, <4>2
    <3> QED
      BY <3>4
  <2> QED
    BY <2>4, <2>6
<1> QED
  BY <1>3, <1>4

-----------------------------------------------------------------------------
(* Enriched rows. *)

LEMMA CandidatesRemoved ==
  ASSUME NEW fields, IsList(fields), NEW kept, kept = removeCandidateFields(fields)
  PROVE  /\ IsList(kept)
         /\ \A i \in DOMAIN kept : kept[i] = <<>>
<1> DEFINE S == {i \in DOMAIN fields : fields[i] = <<>>}
<1>1. S \in SUBSET Int /\ IsFiniteSet(S)
  <2>1. DOMAIN fields = 1 .. Len(fields) /\ Len(fields) \in Nat
    BY ListIs
  <2>2. S \subseteq 1 .. Len(fields) /\ IsFiniteSet(1 .. Len(fields))
    BY <2>1, FS_Interval
  <2> QED
    BY <2>2, FS_Subset
<1> PICK list : list = Increasing(S)
  OBVIOUS
<1>2. list \in Seq(S)
  BY <1>1, IncreasingLists
<1>3. kept = [i \in DOMAIN list |-> fields[list[i]]]
  BY DEF removeCandidateFields
<1>4. \A i \in DOMAIN list : list[i] \in S
  <2> HIDE DEF S
  <2> QED
    BY <1>2
<1>5. IsList(kept)
  <2>1. Len(list) \in Nat /\ DOMAIN list = 1 .. Len(list)
    <3> HIDE DEF S
    <3> QED
      BY <1>2
  <2>2. kept = [i \in 1 .. Len(list) |-> kept[i]]
    BY <1>3, <2>1
  <2> QED
    BY <2>1, <2>2, ListMade
<1> QED
  BY <1>3, <1>4, <1>5

\* Candidates are replaced by the new ones.
LEMMA CandidatesReplaced ==
  ASSUME NEW fields, IsList(fields), NEW found, IsList(found),
         NEW all, all = removeCandidateFields(fields) \o formatCandidate(found)
  PROVE  IsList(all) /\ removeCandidateFields(all) = removeCandidateFields(fields)
<1> PICK kept, added : kept = removeCandidateFields(fields) /\ added = formatCandidate(found)
  OBVIOUS
<1>1. IsList(kept) /\ \A i \in DOMAIN kept : kept[i] = <<>>
  BY CandidatesRemoved
<1> PICK n \in Nat, m \in Nat : n = Len(kept) /\ m = Len(found) /\ DOMAIN kept = 1 .. n /\ DOMAIN found = 1 .. m
  BY <1>1, ListIs
<1>2. added = [i \in 1 .. m |-> <<found[i]>>]
  BY DEF formatCandidate
<1>3. IsList(added) /\ Len(added) = m /\ \A i \in 1 .. m : added[i] # <<>>
  <2>1. added = [i \in 1 .. m |-> added[i]] /\ \A i \in 1 .. m : added[i] = <<found[i]>>
    BY <1>2
  <2>2. \A x : <<x>> # <<>>
    OBVIOUS
  <2>3. IsList(added) /\ Len(added) = m
    BY <2>1, ListMade
  <2> QED
    BY <2>1, <2>2, <2>3
<1> DEFINE T == Range(kept) \cup Range(added)
<1>4. /\ all \in Seq(T) /\ Len(all) = n + m
      /\ \A i \in 1 .. n + m : all[i] = IF i <= n THEN kept[i] ELSE added[i - n]
  <2>1. kept \in Seq(T) /\ added \in Seq(T)
    BY <1>1, <1>3 DEF IsList
  <2> HIDE DEF T
  <2>2. all = kept \o added /\ Len(kept) = n /\ Len(added) = m
    BY <1>3
  <2>4. /\ kept \o added \in Seq(T) /\ Len(kept \o added) = Len(kept) + Len(added)
        /\ \A i \in 1 .. Len(kept) + Len(added) :
             (kept \o added)[i] = IF i <= Len(kept) THEN kept[i] ELSE added[i - Len(kept)]
    BY ONLY <2>1, ConcatProperties
  <2>3. /\ all \in Seq(T) /\ Len(all) = Len(kept) + Len(added)
        /\ \A i \in 1 .. Len(kept) + Len(added) :
             all[i] = IF i <= Len(kept) THEN kept[i] ELSE added[i - Len(kept)]
    BY ONLY <2>2, <2>4
  <2> QED
    BY <2>2, <2>3
<1>5. IsList(all) /\ DOMAIN all = 1 .. n + m
  <2> HIDE DEF T
  <2> QED
    BY <1>4, SeqIsList
<1>6. ASSUME NEW i \in 1 .. n + m
      PROVE  all[i] = <<>> <=> i \in 1 .. n
  <2>1. CASE i <= n
    BY <1>1, <1>4, <2>1
  <2>2. CASE ~(i <= n)
    <3>1. i - n \in 1 .. m /\ i \notin 1 .. n
      BY <2>2
    <3> QED
      BY <1>3, <1>4, <2>2, <3>1
  <2> QED
    BY <2>1, <2>2
<1> PICK S : S = {i \in DOMAIN all : all[i] = <<>>}
  OBVIOUS
<1> PICK k \in Nat : k = 0
  OBVIOUS
<1>7. S = (k + 1) .. (k + n)
  <2>1. S = {i \in 1 .. n + m : i \in 1 .. n}
    BY <1>5, <1>6
  <2>2. \A i : i \in 1 .. n => i \in 1 .. n + m
    OBVIOUS
  <2>3. S = 1 .. n
    BY <2>1, <2>2
  <2> QED
    BY <2>3
<1>8. DOMAIN Increasing(S) = 1 .. n /\ \A i \in 1 .. n : Increasing(S)[i] = k + i
  <2>1. PICK R : R = (k + 1) .. (k + n)
    OBVIOUS
  <2>2. DOMAIN Increasing(R) = 1 .. n /\ \A i \in 1 .. n : Increasing(R)[i] = k + i
    BY ONLY n \in Nat, k \in Nat, <2>1, IncreasingInterval
  <2> QED
    BY ONLY <1>7, <2>1, <2>2
<1>9. removeCandidateFields(all) = [i \in DOMAIN Increasing(S) |-> all[Increasing(S)[i]]]
  BY DEF removeCandidateFields
<1>10. removeCandidateFields(all) = kept
  <2>1. \A i \in 1 .. n : k + i = i /\ i \in 1 .. n + m /\ i <= n
    OBVIOUS
  <2>2. \A i \in 1 .. n : all[Increasing(S)[i]] = kept[i]
    <3> TAKE i \in 1 .. n
    <3>1. Increasing(S)[i] = i
      BY <1>8, <2>1
    <3>2. all[i] = kept[i]
      BY <1>4, <2>1
    <3> QED
      BY <3>1, <3>2
  <2>3. removeCandidateFields(all) = [i \in 1 .. n |-> kept[i]]
    BY <1>8, <1>9, <2>2
  <2> QED
    BY <1>1, <2>3, ListIs
<1> QED
  BY <1>5, <1>10

-----------------------------------------------------------------------------
(* Rows that are given glasses. *)

\* A row that is given a glass.
Takes(out, g, eLine, row, matches) ==
  /\ out.name = g.label /\ out.catalog = g.catalog
  /\ out.nd > 100000 /\ (eLine => out.nd = g.nd /\ out.vd = g.vd)
  /\ \A m \in matches : m.exact => catalog_rank(g.catalog) <= catalog_rank(m.glass.catalog)

WithRest(row, rest) == [row EXCEPT !.rest = rest]

LEMMA EnrichedRow ==
  ASSUME NEW row, IsLine(row), NEW indexLine, NEW abbeLine, NEW eLine,
         NEW matches, matches = Matches(row.nd, row.vd, indexLine, abbeLine),
         NEW found, found = find_glasses(row.nd, row.vd, indexLine, abbeLine),
         NEW out, out = Enriched(row, found, eLine)
  PROVE  /\ IsLine(out) /\ out.section = row.section /\ out.cell = row.cell
         /\ \/ /\ out.nd = row.nd /\ out.vd = row.vd
               /\ out.name = row.name /\ out.catalog = row.catalog
               /\ Enriched(out, found, eLine) = out
            \/ \E g \in Catalogue : Takes(out, g, eLine, row, matches)
<1>1. /\ row = [section |-> row.section, cell |-> row.cell, rest |-> row.rest, nd |-> row.nd,
                vd |-> row.vd, name |-> row.name, catalog |-> row.catalog]
      /\ row.nd \in Nat /\ row.vd \in Nat /\ IsList(row.rest)
  BY DEF IsLine
<1>2. /\ IsList(found)
      /\ found # <<>> =>
           /\ found[1] \in matches
           /\ \A m \in matches :
                m.exact => catalog_rank(found[1].glass.catalog) <= catalog_rank(m.glass.catalog)
  BY <1>1, FirstFound
<1> PICK kept, all, g, exact :
      /\ kept = removeCandidateFields(row.rest)
      /\ all = removeCandidateFields(row.rest) \o formatCandidate(found)
      /\ g = found[1].glass /\ exact = found[1].exact
  OBVIOUS
<1>3. IsList(kept) /\ IsList(all) /\ removeCandidateFields(all) = kept
  BY <1>1, <1>2, CandidatesRemoved, CandidatesReplaced
<1>4. Len(<<>>) = 0
  OBVIOUS
<1>5. ASSUME found # <<>>
      PROVE  g \in Catalogue /\ row.nd > 100000
  <2>1. /\ g \in Catalogue
        /\ Distance(IF indexLine = "e" THEN g.ne ELSE g.nd, row.nd) <= DEFAULT_ND_TOLERANCE
    BY <1>1, <1>2, <1>5, MatchIs
  <2> PICK x : x = IF indexLine = "e" THEN g.ne ELSE g.nd
    OBVIOUS
  <2>2. x \in Nat /\ x > 100000 + DEFAULT_ND_TOLERANCE
    BY <2>1, CatalogueAssumption
  <2>3. row.nd > 100000
    BY <1>1, <2>1, <2>2 DEF Distance, DEFAULT_ND_TOLERANCE
  <2> QED
    BY <2>1, <2>3
<1> PICK assigned : assigned = Assigned(row, g, eLine)
  OBVIOUS
<1> PICK section, kind, old, nd1, vd1, name1, catalog1 :
      /\ section = row.section /\ kind = row.cell /\ old = row.rest
      /\ nd1 = row.nd /\ vd1 = row.vd /\ name1 = row.name /\ catalog1 = row.catalog
  OBVIOUS
<1>12. /\ row = [section |-> section, cell |-> kind, rest |-> old, nd |-> nd1,
                 vd |-> vd1, name |-> name1, catalog |-> catalog1]
       /\ nd1 \in Nat /\ vd1 \in Nat
  BY <1>1 DEF IsLine
<1> PICK nd, vd, name, catalog :
      /\ nd = IF eLine THEN g.nd ELSE row.nd
      /\ vd = IF eLine THEN g.vd ELSE row.vd
      /\ name = g.label /\ catalog = g.catalog
  OBVIOUS
<1>13. assigned = [section |-> section, cell |-> kind, rest |-> old, nd |-> nd,
                   vd |-> vd, name |-> name, catalog |-> catalog]
  <2>1. assigned = [row EXCEPT !.name = name, !.catalog = catalog, !.nd = nd, !.vd = vd]
    BY DEF Assigned
  <2>2. row = [section |-> section, cell |-> kind, rest |-> old, nd |-> nd1,
               vd |-> vd1, name |-> name1, catalog |-> catalog1]
    BY <1>12
  <2> QED
    BY ONLY <2>1, <2>2
<1>6. ASSUME found # <<>>, NEW rest, IsList(rest), out = WithRest(assigned, rest)
      PROVE  /\ IsLine(out) /\ out.section = row.section /\ out.cell = row.cell
             /\ \E h \in Catalogue : Takes(out, h, eLine, row, matches)
  <2>1. out = [section |-> section, cell |-> kind, rest |-> rest, nd |-> nd,
               vd |-> vd, name |-> name, catalog |-> catalog]
    BY ONLY <1>6, <1>13 DEF WithRest
  <2>2. nd \in Nat /\ vd \in Nat /\ nd > 100000
    <3>1. g.nd \in Nat /\ g.vd \in Nat /\ g.nd > 100000
      BY <1>5, <1>6, FoundByItsNames
    <3> QED
      BY <1>1, <1>5, <1>6, <3>1
  <2>4. IsLine(out)
    BY ONLY <1>6, <2>1, <2>2 DEF IsLine
  <2>5. /\ out.section = section /\ out.cell = kind
        /\ out.nd = nd /\ out.vd = vd /\ out.name = name /\ out.catalog = catalog
    BY ONLY <2>1
  <2>6. eLine => nd = g.nd /\ vd = g.vd
    OBVIOUS
  <2>7. \A m \in matches : m.exact => catalog_rank(g.catalog) <= catalog_rank(m.glass.catalog)
    BY <1>2, <1>6
  <2>8. Takes(out, g, eLine, row, matches)
    BY <2>2, <2>5, <2>6, <2>7 DEF Takes
  <2>9. g \in Catalogue
    BY <1>5, <1>6
  <2>10. out.section = row.section /\ out.cell = row.cell
    BY <2>5
  <2> QED
    BY ONLY <2>4, <2>8, <2>9, <2>10, Zenon
<1>7. CASE found = <<>>
  <2>1. out = row
    BY <1>7 DEF Enriched
  <2>2. Enriched(out, found, eLine) = out
    BY <2>1
  <2> QED
    BY <2>1, <2>2
<1>8. assigned.rest = row.rest
  BY <1>13
<1>9. CASE found # <<>> /\ Len(found) = 1
  <2>1. out = [assigned EXCEPT !.rest = removeCandidateFields(@)]
    BY <1>9, Zenon DEF Enriched
  <2>2. removeCandidateFields(assigned.rest) = kept
    BY <1>8, <1>9
  <2>3. out = WithRest(assigned, kept)
    BY <2>1, <2>2, Zenon DEF WithRest
  <2> QED
    BY <1>3, <1>6, <1>9, <2>3
<1>10. CASE found # <<>> /\ Len(found) # 1 /\ exact
  <2>1. out = appendCandidates(assigned, found)
    BY <1>10, Zenon DEF Enriched
  <2>2. out = [assigned EXCEPT !.rest = removeCandidateFields(@) \o formatCandidate(found)]
    BY <2>1, Zenon DEF appendCandidates
  <2>5. removeCandidateFields(assigned.rest) = kept
    BY <1>8, <1>10
  <2>3. out = WithRest(assigned, all)
    BY <2>2, <2>5, Zenon DEF WithRest
  <2> QED
    BY <1>3, <1>6, <1>10, <2>3
<1>11. CASE found # <<>> /\ Len(found) # 1 /\ ~exact
  <2>3. \A r : Enriched(r, found, eLine) = appendCandidates(r, found)
    BY <1>11, Zenon DEF Enriched
  <2>4. \A r : appendCandidates(r, found)
                = [r EXCEPT !.rest = removeCandidateFields(r.rest) \o formatCandidate(found)]
    BY Zenon DEF appendCandidates
  <2>5. out = [row EXCEPT !.rest = all]
    <3>1. out = appendCandidates(row, found)
      BY <2>3, Zenon
    <3>2. appendCandidates(row, found)
            = [row EXCEPT !.rest = removeCandidateFields(row.rest) \o formatCandidate(found)]
      BY <2>4
    <3> QED
      BY <3>1, <3>2, Zenon
  <2>6. out = [section |-> section, cell |-> kind, rest |-> all, nd |-> nd1, vd |-> vd1,
               name |-> name1, catalog |-> catalog1]
    BY ONLY <1>12, <2>5
  <2>10. IsLine(out)
    BY ONLY <1>3, <1>12, <2>6 DEF IsLine
  <2>8. /\ out.rest = all
        /\ out.section = section /\ out.cell = kind
        /\ out.nd = nd1 /\ out.vd = vd1 /\ out.name = name1 /\ out.catalog = catalog1
    BY ONLY <2>6
  <2>9. Enriched(out, found, eLine) = out
    <3>1. Enriched(out, found, eLine)
            = [out EXCEPT !.rest = removeCandidateFields(out.rest) \o formatCandidate(found)]
      BY <2>3, <2>4, Zenon
    <3>2. removeCandidateFields(out.rest) \o formatCandidate(found) = all
      BY <1>3, <2>8
    <3>3. [out EXCEPT !.rest = all] = out
      BY ONLY <2>6
    <3> QED
      BY <3>1, <3>2, <3>3, Zenon
  <2> QED
    BY <2>8, <2>9, <2>10
<1> QED
  BY <1>2, <1>7, <1>9, <1>10, <1>11

LEMMA EnrichedLines ==
  ASSUME NEW lines, IsList(lines), \A i \in DOMAIN lines : IsLine(lines[i]),
         NEW force, NEW indexLine, NEW abbeLine,
         NEW eLine, eLine = ("e" \in {indexLine, abbeLine}),
         NEW out, out = enrich(lines, force, indexLine, abbeLine)
  PROVE  /\ IsList(out) /\ DOMAIN out = DOMAIN lines
         /\ \A i \in DOMAIN lines :
              /\ IsLine(out[i])
              /\ out[i].section = lines[i].section /\ out[i].cell = lines[i].cell
              /\ InLensData(out, i) <=> InLensData(lines, i)
              /\ InLensData(lines, i) /\ Searched(lines[i], force) /\ out[i].name # lines[i].name =>
                   \E g \in Catalogue :
                     Takes(out[i], g, eLine, lines[i],
                           Matches(lines[i].nd, lines[i].vd, indexLine, abbeLine))
         /\ ~force => enrich(out, force, indexLine, abbeLine) = out
<1>1. DOMAIN lines = 1 .. Len(lines) /\ Len(lines) \in Nat
  BY ListIs
<1> DEFINE again == enrich(out, force, indexLine, abbeLine)
<1>2. /\ DOMAIN out = DOMAIN lines /\ out = [i \in DOMAIN lines |-> out[i]]
      /\ again = [i \in DOMAIN lines |-> again[i]]
  <2>1. DOMAIN out = DOMAIN lines /\ out = [i \in DOMAIN lines |-> out[i]]
    BY Zenon DEF enrich
  <2>2. DOMAIN again = DOMAIN out /\ again = [i \in DOMAIN out |-> again[i]]
    BY Zenon DEF enrich
  <2> HIDE DEF again
  <2> QED
    BY <2>1, <2>2
<1>3. \A i \in DOMAIN lines :
        /\ InLensData(lines, i) /\ Searched(lines[i], force) =>
             out[i] = Enriched(lines[i], find_glasses(lines[i].nd, lines[i].vd, indexLine, abbeLine), eLine)
        /\ ~(InLensData(lines, i) /\ Searched(lines[i], force)) => out[i] = lines[i]
  BY Zenon DEF enrich
<1>4. \A i \in DOMAIN lines :
        /\ InLensData(out, i) /\ Searched(out[i], force) =>
             again[i] = Enriched(out[i], find_glasses(out[i].nd, out[i].vd, indexLine, abbeLine), eLine)
        /\ ~(InLensData(out, i) /\ Searched(out[i], force)) => again[i] = out[i]
  BY <1>2, Zenon DEF enrich
<1> HIDE DEF again
<1>5. IsList(out)
  BY <1>1, <1>2, ListMade
<1>6. ASSUME NEW i \in DOMAIN lines
      PROVE  /\ IsLine(out[i])
             /\ out[i].section = lines[i].section /\ out[i].cell = lines[i].cell
             /\ InLensData(lines, i) /\ Searched(lines[i], force) =>
                  \/ /\ out[i].name = lines[i].name
                     /\ InLensData(out, i) /\ Searched(out[i], force) => again[i] = out[i]
                  \/ \E g \in Catalogue :
                       Takes(out[i], g, eLine, lines[i],
                             Matches(lines[i].nd, lines[i].vd, indexLine, abbeLine))
  <2> PICK row, found, matches, r :
        /\ row = lines[i] /\ found = find_glasses(row.nd, row.vd, indexLine, abbeLine)
        /\ matches = Matches(row.nd, row.vd, indexLine, abbeLine) /\ r = out[i]
    OBVIOUS
  <2>1. IsLine(row)
    OBVIOUS
  <2>2. CASE ~(InLensData(lines, i) /\ Searched(row, force))
    <3>1. r = row
      BY <1>3, <2>2
    <3> QED
      BY <2>1, <2>2, <3>1
  <2>3. CASE InLensData(lines, i) /\ Searched(row, force)
    <3>1. r = Enriched(row, found, eLine)
      BY <1>3, <2>3
    <3>2. /\ IsLine(r) /\ r.section = row.section /\ r.cell = row.cell
          /\ \/ /\ r.nd = row.nd /\ r.vd = row.vd /\ r.name = row.name /\ r.catalog = row.catalog
                /\ Enriched(r, found, eLine) = r
             \/ \E g \in Catalogue : Takes(r, g, eLine, row, matches)
      BY <2>1, <3>1, EnrichedRow
    <3>3. r.nd = row.nd /\ r.vd = row.vd =>
            find_glasses(r.nd, r.vd, indexLine, abbeLine) = found
      BY Zenon
    <3>4. InLensData(out, i) /\ Searched(r, force) =>
            again[i] = Enriched(r, find_glasses(r.nd, r.vd, indexLine, abbeLine), eLine)
      BY <1>4
    <3>5. r.nd = row.nd /\ r.vd = row.vd /\ Enriched(r, found, eLine) = r =>
            (InLensData(out, i) /\ Searched(r, force) => again[i] = r)
      BY <3>3, <3>4
    <3> QED
      BY <3>2, <3>5
  <2> QED
    BY <2>2, <2>3
<1>7. ASSUME NEW i \in DOMAIN lines
      PROVE  InLensData(out, i) <=> InLensData(lines, i)
  BY <1>1, <1>2, <1>6, RowsStand
<1>8. ASSUME NEW i \in DOMAIN lines, ~force
      PROVE  again[i] = out[i]
  <2>1. CASE ~(InLensData(lines, i) /\ Searched(lines[i], force))
    <3>1. ~(InLensData(out, i) /\ Searched(out[i], force))
      BY <1>3, <1>7, <2>1
    <3> QED
      BY <1>4, <3>1
  <2>2. CASE InLensData(lines, i) /\ Searched(lines[i], force)
    <3>1. ASSUME NEW g \in Catalogue,
                 Takes(out[i], g, eLine, lines[i],
                       Matches(lines[i].nd, lines[i].vd, indexLine, abbeLine))
          PROVE  ~Searched(out[i], force)
      <4>1. out[i].name = g.label /\ out[i].catalog = g.catalog
        BY <3>1 DEF Takes
      <4>2. out[i].name # NoName /\ get_catalog_name(out[i].catalog) # NoCatalog
        BY <4>1, FoundByItsNames
      <4> QED
        BY <1>8, <4>2 DEF Searched
    <3> QED
      BY <1>4, <1>6, <2>2, <3>1
  <2> QED
    BY <2>1, <2>2
<1>9. ~force => again = out
  BY <1>2, <1>8
<1> QED
  BY <1>2, <1>5, <1>6, <1>7, <1>9 DEF again

WithLines(t, lines) == [t EXCEPT !.lines = lines]

\* Assigning glasses leaves a lens that can be read.
LEMMA EnrichedLens ==
  ASSUME NEW t, IsLens(t), NEW force, NEW indexLine, NEW abbeLine,
         NEW lines, lines = enrich(t.lines, force, indexLine, abbeLine),
         NEW out, out = WithLines(t, lines)
  PROVE  IsLens(out) /\ out.lines = lines /\ out = [bench |-> t.bench, lines |-> lines, trials |-> t.trials]
<1> PICK bench, old, trials : bench = t.bench /\ old = t.lines /\ trials = t.trials
  OBVIOUS
<1>1. /\ t = [bench |-> bench, lines |-> old, trials |-> trials]
      /\ IsText(bench) /\ IsList(old)
      /\ \A i \in DOMAIN old : IsLine(old[i])
      /\ DOMAIN LensRows(old) = DOMAIN bench.rows
      /\ \A s \in DOMAIN bench.rows :
           /\ LensRows(old)[s].cell \in Stops <=> bench.rows[s].cell \in Stops
           /\ bench.rows[s].cell # "AS" => bench.rows[s].diameter \in Int
  BY DEF IsLens
<1>2. out = [bench |-> bench, lines |-> lines, trials |-> trials]
  <2>1. t = [bench |-> bench, lines |-> old, trials |-> trials]
    BY <1>1
  <2>2. out = [t EXCEPT !.lines = lines]
    BY DEF WithLines
  <2> QED
    BY ONLY <2>1, <2>2
<1> PICK eLine : eLine = ("e" \in {indexLine, abbeLine})
  OBVIOUS
<1>3. /\ IsList(lines) /\ DOMAIN lines = DOMAIN old
      /\ \A i \in DOMAIN old :
           /\ IsLine(lines[i]) /\ lines[i].section = old[i].section /\ lines[i].cell = old[i].cell
  <2>1. lines = enrich(old, force, indexLine, abbeLine)
    OBVIOUS
  <2> QED
    BY <1>1, <2>1, EnrichedLines
<1>4. DOMAIN old = 1 .. Len(old) /\ Len(old) \in Nat
  BY <1>1, ListIs
<1>5. /\ DOMAIN LensRows(lines) = DOMAIN LensRows(old)
      /\ \A s \in DOMAIN LensRows(old) : LensRows(lines)[s].cell = LensRows(old)[s].cell
  <2>1. DOMAIN lines = DOMAIN old
    BY ONLY <1>3
  <2>2. \A i \in DOMAIN old : lines[i].section = old[i].section /\ lines[i].cell = old[i].cell
    BY ONLY <1>3
  <2> QED
    BY ONLY <1>4, <2>1, <2>2, RowsStand, Zenon
<1>6. /\ out.bench = bench /\ out.lines = lines
      /\ out = [bench |-> out.bench, lines |-> out.lines, trials |-> out.trials]
  BY <1>2
<1>7. IsLens(out)
  BY <1>1, <1>3, <1>5, <1>6 DEF IsLens
<1> QED
  BY <1>2, <1>6, <1>7

\* Assigning glasses to a text, and again to what comes of it.
LEMMA EnrichmentOf ==
  ASSUME NEW t, IsLens(t), NEW force, force = Given("--force"),
         NEW indexLine, indexLine = index_line_value(args),
         NEW abbeLine, abbeLine = abbe_line_value(args),
         NEW out, out = Enrichment(t)
  PROVE  /\ IsLens(out) /\ out.lines = enrich(t.lines, force, indexLine, abbeLine)
         /\ enrich(out.lines, force, indexLine, abbeLine) = out.lines => Enrichment(out) = out
<1> PICK lines : lines = enrich(t.lines, force, indexLine, abbeLine)
  OBVIOUS
<1>1. out = WithLines(t, lines)
  BY DEF Enrichment, WithLines
<1>2. IsLens(out) /\ out.lines = lines /\ out = [bench |-> t.bench, lines |-> lines, trials |-> t.trials]
  BY <1>1, EnrichedLens
<1>3. ASSUME enrich(out.lines, force, indexLine, abbeLine) = out.lines
      PROVE  Enrichment(out) = out
  <2>1. Enrichment(out) = [out EXCEPT !.lines = lines]
    BY <1>2, <1>3 DEF Enrichment
  <2> PICK bench, trials : bench = t.bench /\ trials = t.trials
    OBVIOUS
  <2>2. out = [bench |-> bench, lines |-> lines, trials |-> trials]
    BY <1>2
  <2> PICK again : again = Enrichment(out)
    OBVIOUS
  <2>3. again = [out EXCEPT !.lines = lines]
    BY <2>1
  <2>4. again = out
    BY ONLY <2>2, <2>3
  <2> QED
    BY <2>4
<1> QED
  BY <1>2, <1>3

\* A row that was given a glass leads the import to it.
LEMMA TakenIsFound ==
  ASSUME NEW row, NEW before, NEW g \in Catalogue, NEW indexLine, NEW abbeLine,
         indexLine = index_line_value(args), abbeLine = abbe_line_value(args),
         NEW eLine, "e" \in {indexLine, abbeLine} => eLine,
         Takes(row, g, eLine, before, Matches(before.nd, before.vd, indexLine, abbeLine)),
         row.nd \in Nat, row.cell \notin Stops
  PROVE  FoundAgain(row, before)
<1> PICK found : found = glass_by_catalog_name(get_catalog_name(row.catalog), row.name)
  OBVIOUS
<1>1. row.name = g.label /\ row.catalog = g.catalog /\ row.nd > 100000
  BY DEF Takes
<1>2. /\ found = {g} /\ get_catalog_name(row.catalog) = g.catalog
      /\ row.name # NoName /\ g.catalog # NoCatalog
  BY <1>1, FoundByItsNames
<1>3. Cardinality(found) = 1
  BY <1>2, FS_Singleton
<1> PICK names : names = Names(row, TRUE)
  OBVIOUS
<1>4. names.name = row.name /\ names.catalog = get_catalog_name(row.catalog)
  <2>1. names = [name |-> row.name, catalog |-> get_catalog_name(row.catalog)]
    BY <1>2, Zenon DEF Names
  <2> QED
    BY ONLY <2>1
<1> PICK m : m = import_medium(row, TRUE)
  OBVIOUS
<1>5. m.name = row.name /\ m.catalog = get_catalog_name(row.catalog) /\ m.nd = row.nd
  <2>1. m = [name |-> names.name, catalog |-> names.catalog, nd |-> row.nd, vd |-> row.vd]
    BY DEF import_medium, Stops
  <2> QED
    BY ONLY <1>4, <2>1
<1>6. Medium(m) = [glass |-> found, nd |-> 0, vd |-> 0]
  <2>1. glass_by_catalog_name(m.catalog, m.name) = found /\ found # {}
    BY <1>2, <1>5
  <2>2. m.nd \notin {0, 100000} /\ m.name # NoName
    <3>1. row.nd \in Nat
      OBVIOUS
    <3> QED
      BY ONLY <1>1, <1>2, <1>5, <3>1
  <2> QED
    BY ONLY <2>1, <2>2 DEF Medium
<1>7. Medium(m).glass = found
  BY ONLY <1>6
<1>8. PreferredGlass(g, before)
  BY DEF PreferredGlass, Takes
<1>9. "e" \in {index_line_value(args), abbe_line_value(args)} => row.nd = g.nd /\ row.vd = g.vd
  <2>1. eLine => row.nd = g.nd /\ row.vd = g.vd
    BY DEF Takes
  <2> QED
    BY <2>1, Zenon
<1> QED
  BY <1>2, <1>3, <1>7, <1>8, <1>9 DEF FoundAgain

LEMMA GlassesKnown ==
  ASSUME GlassInv
  PROVE  GlassesAreFoundAgain
<1> SUFFICES ASSUME text # <<>>, args.values.optimize_trial = Absent \/ pc = "trial", Enriches
             PROVE  /\ \A i \in DOMAIN text[1].lines :
                         NewlyNamed(i) => FoundAgain(text[1].lines[i], given[Input].text[1].lines[i])
                    /\ ~Given("--force") => Enrichment(text[1]) = text[1]
  BY DEF GlassesAreFoundAgain, Enriches
<1> PICK t, out, old, lines :
      t = given[Input].text[1] /\ out = text[1] /\ old = t.lines /\ lines = out.lines
  OBVIOUS
<1> PICK force, indexLine, abbeLine : /\ force = Given("--force")
                                      /\ indexLine = index_line_value(args)
                                      /\ abbeLine = abbe_line_value(args)
  OBVIOUS
<1> PICK eLine : eLine = ("e" \in {indexLine, abbeLine})
  OBVIOUS
<1>1. IsLens(t) /\ out = Enrichment(t)
  BY DEF GlassInv
<1>2. /\ lines = enrich(old, force, indexLine, abbeLine)
      /\ enrich(lines, force, indexLine, abbeLine) = lines => Enrichment(out) = out
  BY <1>1, EnrichmentOf
<1>3. /\ DOMAIN lines = DOMAIN old
      /\ \A i \in DOMAIN old :
           /\ IsLine(lines[i]) /\ lines[i].cell = old[i].cell
           /\ InLensData(lines, i) <=> InLensData(old, i)
           /\ InLensData(old, i) /\ Searched(old[i], force) /\ lines[i].name # old[i].name =>
                \E g \in Catalogue :
                  Takes(lines[i], g, eLine, old[i],
                        Matches(old[i].nd, old[i].vd, indexLine, abbeLine))
      /\ ~force => enrich(lines, force, indexLine, abbeLine) = lines
  <2>1. IsList(old) /\ \A i \in DOMAIN old : IsLine(old[i])
    BY <1>1 DEF IsLens
  <2> QED
    BY <1>2, <2>1, EnrichedLines
<1>4. ASSUME NEW i \in DOMAIN lines, NewlyNamed(i)
      PROVE  FoundAgain(lines[i], old[i])
  <2>1. InLensData(old, i) /\ Searched(old[i], force) /\ lines[i].name # old[i].name
    BY <1>3, <1>4 DEF NewlyNamed
  <2>2. PICK g \in Catalogue : Takes(lines[i], g, eLine, old[i],
                                     Matches(old[i].nd, old[i].vd, indexLine, abbeLine))
    BY <1>3, <2>1
  <2>3. lines[i].cell \notin Stops
    <3>1. old[i].cell \notin Stops
      BY <2>1 DEF Searched, Stops
    <3> QED
      BY <1>3, <1>4, <3>1
  <2>4. lines[i].nd \in Nat
    <3> PICK row : row = lines[i]
      OBVIOUS
    <3>1. IsLine(row)
      BY <1>3, <1>4
    <3>2. row.nd \in Nat
      BY <3>1 DEF IsLine
    <3> QED
      BY <3>2
  <2>5. "e" \in {indexLine, abbeLine} => eLine
    BY Zenon
  <2>6. indexLine = index_line_value(args) /\ abbeLine = abbe_line_value(args)
    OBVIOUS
  <2> QED
    BY ONLY <2>2, <2>3, <2>4, <2>5, <2>6, TakenIsFound
<1> QED
  BY <1>2, <1>3, <1>4

-----------------------------------------------------------------------------
(* The glasses of the text, step by step. *)

LEMMA SameEnrichment ==
  ASSUME args' = args, NEW t
  PROVE  Enrichment(t)' = Enrichment(t)
BY DEF Enrichment, Given

LEMMA GlassStays ==
  ASSUME GlassInv, UNCHANGED <<text, args, command, given>>, pc' # "trial" \/ pc' = pc
  PROVE  GlassInv'
<1> SUFFICES ASSUME text # <<>>, args.values.optimize_trial = Absent \/ pc' = "trial", Enriches
             PROVE  /\ IsLens(given[Input].text[1])
                    /\ text[1] = Enrichment(given[Input].text[1])'
  BY DEF GlassInv, Enriches, Given, Input
<1>1. args.values.optimize_trial = Absent \/ pc = "trial"
  OBVIOUS
<1>2. IsLens(given[Input].text[1]) /\ text[1] = Enrichment(given[Input].text[1])
  BY <1>1 DEF GlassInv
<1> PICK t : t = given[Input].text[1]
  OBVIOUS
<1>3. Enrichment(given[Input].text[1])' = Enrichment(t)'
  BY DEF Input
<1> QED
  BY <1>2, <1>3, SameEnrichment

LEMMA GlassStep ==
  ASSUME KeepInv, LensInv, GlassInv, [Next]_toolVars
  PROVE  GlassInv'
<1>1. CASE Start
  BY <1>1 DEF Start, Fresh, GlassInv
<1>2. CASE FindGlasses \/ loadSpecText
  <2>1. /\ disk = given /\ specfile = Input /\ Readable(specfile)
        /\ UNCHANGED <<command, args, given>>
        /\ Enriches => text' = <<Enrichment(disk[specfile].text[1])>>
    BY <1>2 DEF FindGlasses, loadSpecText, KeepInv, GoTo, End, Enriches
  <2> PICK t : t = given[Input].text[1]
    OBVIOUS
  <2>2. IsLens(t)
    BY <2>1 DEF LensInv, LensesOnDisk, HoldsLens, Readable
  <2>3. t = given[Input].text[1]' /\ Enriches' = Enriches
    BY <2>1 DEF Input, Enriches, Given
  <2>4. Enriches => text'[1] = Enrichment(t)'
    <3>1. Enriches => text'[1] = Enrichment(t)
      BY <2>1
    <3> QED
      BY <2>1, <3>1, SameEnrichment
  <2>5. Enrichment(given[Input].text[1])' = Enrichment(t)'
    BY <2>3
  <2> QED
    BY <2>2, <2>3, <2>4, <2>5 DEF GlassInv
<1>3. CASE runOptimizationTrial
  <2>1. args.values.optimize_trial # Absent /\ pc' = "import" /\ args' = args
    BY <1>3 DEF runOptimizationTrial, KeepInv, GoTo
  <2> QED
    BY <2>1 DEF GlassInv
<1>4. CASE \/ Throw \/ Import \/ optimizeThicknesses \/ BuildModels \/ SavePrescription \/ SaveZmx
           \/ WriteOutput \/ SkipMaps \/ NextConfig \/ createREADME
  <2>1. UNCHANGED <<text, args, command, given>> /\ pc' # "trial"
    <3>1. CASE Throw \/ createREADME
      BY <3>1 DEF Throw, createREADME, End, lensVars
    <3>2. CASE Import \/ optimizeThicknesses \/ BuildModels
      BY <3>2 DEF Import, optimizeThicknesses, BuildModels, GoTo
    <3>3. CASE SavePrescription \/ SaveZmx \/ WriteOutput \/ SkipMaps \/ NextConfig
      BY <3>3 DEF SavePrescription, SaveZmx, WriteOutput, SkipMaps, NextConfig, GoTo
    <3> QED
      BY <1>4, <3>1, <3>2, <3>3
  <2> QED
    BY <2>1, GlassStays
<1>5. CASE UNCHANGED toolVars
  <2>1. UNCHANGED <<text, args, command, given, pc>>
    BY <1>5 DEF toolVars, lensVars
  <2> QED
    BY <2>1, GlassStays
<1> QED
  BY <1>1, <1>2, <1>3, <1>4, <1>5 DEF Next

-----------------------------------------------------------------------------
(* Lenses with other numbers of their surfaces. *)

WithSurfaces(p, replaced) == [p EXCEPT !.surfaces = replaced]
WithLens(l, p) == [l EXCEPT !.p = p]

\* Surfaces may be replaced by surfaces of the same types.
LEMMA OtherSurfaces ==
  ASSUME NEW p, LensOK(p), NEW replaced, replaced = [s \in DOMAIN p.surfaces |-> replaced[s]],
         \A s \in DOMAIN p.surfaces : /\ SurfaceOK(p, replaced[s])
                                      /\ replaced[s].type = p.surfaces[s].type,
         \A s, t \in DOMAIN p.surfaces :
           replaced[s].cell = "AS" /\ replaced[t].cell = "AS" =>
             replaced[s].diameterBy = replaced[t].diameterBy,
         NEW q, q = WithSurfaces(p, replaced)
  PROVE  /\ LensOK(q) /\ q.surfaces = replaced /\ q.names = p.names
         /\ DOMAIN q.surfaces = DOMAIN p.surfaces
<1> PICK odd, first, firstBy, names, old :
      odd = p.odd /\ first = p.first /\ firstBy = p.firstBy /\ names = p.names /\ old = p.surfaces
  OBVIOUS
<1>1. p = [odd |-> odd, first |-> first, firstBy |-> firstBy, names |-> names, surfaces |-> old]
  BY DEF LensOK
<1>2. IsList(old) /\ FormsOK(p)
  BY DEF LensOK
<1>3. q = [odd |-> odd, first |-> first, firstBy |-> firstBy, names |-> names,
           surfaces |-> replaced]
  <2>1. q = [p EXCEPT !.surfaces = replaced]
    BY DEF WithSurfaces
  <2> QED
    BY ONLY <1>1, <2>1
<1>4. /\ q.odd = odd /\ q.first = first /\ q.firstBy = firstBy /\ q.names = names
      /\ q.surfaces = replaced
      /\ q = [odd |-> q.odd, first |-> q.first, firstBy |-> q.firstBy, names |-> q.names,
              surfaces |-> q.surfaces]
  BY ONLY <1>3
<1>5. DOMAIN replaced = DOMAIN old
  OBVIOUS
<1>6. IsList(replaced)
  <2>1. Len(old) \in Nat /\ DOMAIN old = 1..Len(old)
    BY <1>2, ListIs
  <2>2. replaced = [s \in 1..Len(old) |-> replaced[s]]
    BY <2>1
  <2> QED
    BY <2>1, <2>2, ListMade
<1>7. \A s \in DOMAIN replaced : SurfaceOK(q, replaced[s])
  <2>1. q.names = p.names
    BY <1>4
  <2> SUFFICES ASSUME NEW s \in DOMAIN replaced  PROVE SurfaceOK(q, replaced[s])
    OBVIOUS
  <2>2. SurfaceOK(p, replaced[s])
    BY <1>5
  <2> QED
    BY ONLY <2>1, <2>2 DEF SurfaceOK, PerConfiguration
<1>8. FormsOK(q)
  <2>1. q.odd = p.odd /\ DOMAIN q.surfaces = DOMAIN p.surfaces
    BY <1>4, <1>5
  <2>2. \A s \in DOMAIN p.surfaces : q.surfaces[s].type = p.surfaces[s].type
    BY <1>4
  <2> QED
    BY ONLY <1>2, <2>1, <2>2 DEF FormsOK
<1>9. /\ odd \in Nat /\ IsList(names) /\ first > 0
      /\ firstBy = [c \in DOMAIN names |-> firstBy[c]] /\ \A c \in DOMAIN names : firstBy[c] > 0
  BY DEF LensOK
<1>10. LensOK(q)
  BY <1>4, <1>5, <1>6, <1>7, <1>8, <1>9 DEF LensOK
<1> QED
  BY <1>4, <1>5, <1>10

\* A lens with other numbers of its surfaces.
LEMMA ImportedAgain ==
  ASSUME NEW l, ImportedOK(l), NEW p, LensOK(p), DOMAIN p.surfaces = DOMAIN l.p.surfaces,
         \A s \in DOMAIN p.surfaces :
           /\ p.surfaces[s].cell = l.p.surfaces[s].cell
           /\ p.surfaces[s].cell = "CG" => p.surfaces[s].radius = 0
           /\ p.surfaces[s].cell # "AS" => p.surfaces[s].diameter \in Int,
         NEW out, out = WithLens(l, p)
  PROVE  ImportedOK(out) /\ out.p = p /\ out.media = l.media
<1> PICK old, media : old = l.p /\ media = l.media
  OBVIOUS
<1>1. l = [p |-> old, media |-> media]
  BY DEF ImportedOK
<1>2. out = [p |-> p, media |-> media]
  <2>1. out = [l EXCEPT !.p = p]
    BY DEF WithLens
  <2> QED
    BY ONLY <1>1, <2>1
<1>3. out.p = p /\ out.media = media /\ out = [p |-> out.p, media |-> out.media]
  BY ONLY <1>2
<1>4. /\ media = [s \in DOMAIN p.surfaces |-> media[s]]
      /\ \A s \in DOMAIN p.surfaces : Imported(media[s])
                                      /\ (p.surfaces[s].cell \in Stops => media[s].nd = 0)
  BY DEF ImportedOK
<1> QED
  BY <1>3, <1>4 DEF ImportedOK

WithRadius(l, radius) == [l EXCEPT !.p.surfaces[1].radius = radius]

\* What a trial may do to the first surface.
LEMMA RadiusMoved ==
  ASSUME NEW l, ImportedOK(l), l.p.surfaces # <<>>,
         NEW radius, radius = l.p.surfaces[1].radius \/ l.p.surfaces[1].cell = "R",
         NEW out, out = WithRadius(l, radius)
  PROVE  ImportedOK(out)
<1> PICK p, old, a : p = l.p /\ old = l.p.surfaces /\ a = l.p.surfaces[1]
  OBVIOUS
<1>1. LensOK(p) /\ IsList(old)
  BY DEF ImportedOK, LensOK
<1>2. Len(old) \in Nat /\ DOMAIN old = 1 .. Len(old) /\ Len(old) # 0
  BY <1>1, ListIs
<1>3. 1 \in DOMAIN old
  BY <1>2
<1>4. SurfaceOK(p, a) /\ a.cell = "CG" => a.radius = 0
  BY <1>3 DEF ImportedOK
<1> PICK b : b = [a EXCEPT !.radius = radius]
  OBVIOUS
<1> PICK replaced : replaced = [old EXCEPT ![1] = b]
  OBVIOUS
<1> PICK q : q = WithSurfaces(p, replaced)
  OBVIOUS
<1>5. out = WithLens(l, q)
  BY DEF WithLens, WithSurfaces, WithRadius
<1>6. replaced = [s \in DOMAIN old |-> replaced[s]] /\ replaced[1] = b
      /\ \A s \in DOMAIN old : s # 1 => replaced[s] = old[s]
  <2>1. old = [s \in DOMAIN old |-> old[s]]
    BY <1>1, <1>2, ListIs
  <2> QED
    BY ONLY <1>3, <2>1, replaced = [old EXCEPT ![1] = b]
<1>7. /\ b.cell = a.cell /\ b.radius = radius /\ b.diameter = a.diameter /\ b.type = a.type
      /\ b.diameterBy = a.diameterBy /\ SurfaceOK(p, b)
  <2>1. SurfaceOK(p, a)
    BY <1>1, <1>3 DEF LensOK
  <2> PICK cell, r, thick, thickBy, diameter, diameterBy, type, k, coeffs :
        /\ cell = a.cell /\ r = a.radius /\ thick = a.thick /\ thickBy = a.thickBy
        /\ diameter = a.diameter /\ diameterBy = a.diameterBy
        /\ type = a.type /\ k = a.k /\ coeffs = a.coeffs
    OBVIOUS
  <2>2. a = [cell |-> cell, radius |-> r, thick |-> thick, thickBy |-> thickBy,
             diameter |-> diameter, diameterBy |-> diameterBy,
             type |-> type, k |-> k, coeffs |-> coeffs]
    BY <2>1 DEF SurfaceOK, IsSurface
  <2>3. b = [cell |-> cell, radius |-> radius, thick |-> thick, thickBy |-> thickBy,
             diameter |-> diameter, diameterBy |-> diameterBy,
             type |-> type, k |-> k, coeffs |-> coeffs]
    BY ONLY <2>2, b = [a EXCEPT !.radius = radius]
  <2>4. /\ b.cell = cell /\ b.radius = radius /\ b.thick = thick /\ b.thickBy = thickBy
        /\ b.diameter = diameter /\ b.diameterBy = diameterBy
        /\ b.type = type /\ b.k = k /\ b.coeffs = coeffs
    BY ONLY <2>3
  <2>5. IsSurface(b)
    BY ONLY <2>3, <2>4 DEF IsSurface
  <2>6. b.cell \in {"AS", "FS"} => b.radius = 0
    BY <2>1, <2>4 DEF SurfaceOK
  <2>7. SurfaceOK(p, b)
    BY <2>1, <2>4, <2>5, <2>6 DEF SurfaceOK
  <2> QED
    BY <2>4, <2>7
<1>8. \A s \in DOMAIN old :
        /\ SurfaceOK(p, replaced[s]) /\ replaced[s].type = old[s].type
        /\ replaced[s].cell = old[s].cell /\ replaced[s].diameterBy = old[s].diameterBy
        /\ replaced[s].diameter = old[s].diameter
        /\ replaced[s].cell = "CG" => replaced[s].radius = 0
  <2> SUFFICES ASSUME NEW s \in DOMAIN old
               PROVE  /\ SurfaceOK(p, replaced[s]) /\ replaced[s].type = old[s].type
                      /\ replaced[s].cell = old[s].cell /\ replaced[s].diameterBy = old[s].diameterBy
                      /\ replaced[s].diameter = old[s].diameter
                      /\ replaced[s].cell = "CG" => replaced[s].radius = 0
    OBVIOUS
  <2>1. SurfaceOK(p, old[s]) /\ (old[s].cell = "CG" => old[s].radius = 0)
    BY DEF ImportedOK, LensOK
  <2>2. CASE s = 1
    BY <1>6, <1>7, <2>1, <2>2
  <2>3. CASE s # 1
    BY <1>6, <2>1, <2>3
  <2> QED
    BY <2>2, <2>3
<1>9. \A s, t \in DOMAIN old :
        replaced[s].cell = "AS" /\ replaced[t].cell = "AS" =>
          replaced[s].diameterBy = replaced[t].diameterBy
  BY <1>1, <1>8 DEF LensOK
<1>10. LensOK(q) /\ q.surfaces = replaced /\ DOMAIN q.surfaces = DOMAIN old
  <2>1. p.surfaces = old
    OBVIOUS
  <2>2. /\ replaced = [s \in DOMAIN p.surfaces |-> replaced[s]]
        /\ \A s \in DOMAIN p.surfaces : /\ SurfaceOK(p, replaced[s])
                                         /\ replaced[s].type = p.surfaces[s].type
        /\ \A s, t \in DOMAIN p.surfaces :
             replaced[s].cell = "AS" /\ replaced[t].cell = "AS" =>
               replaced[s].diameterBy = replaced[t].diameterBy
    BY ONLY <1>6, <1>8, <1>9, <2>1
  <2>3. q = WithSurfaces(p, replaced)
    OBVIOUS
  <2> QED
    BY ONLY <1>1, <2>1, <2>2, <2>3, OtherSurfaces
<1>11. \A s \in DOMAIN old : old[s].cell # "AS" => old[s].diameter \in Int
  BY DEF ImportedOK
<1>12. /\ DOMAIN q.surfaces = DOMAIN l.p.surfaces
       /\ \A s \in DOMAIN q.surfaces :
            /\ q.surfaces[s].cell = l.p.surfaces[s].cell
            /\ q.surfaces[s].cell = "CG" => q.surfaces[s].radius = 0
            /\ q.surfaces[s].cell # "AS" => q.surfaces[s].diameter \in Int
  <2>1. l.p.surfaces = old
    OBVIOUS
  <2> QED
    BY ONLY <1>8, <1>10, <1>11, <2>1
<1>13. ImportedOK(l)
  OBVIOUS
<1> QED
  BY ONLY <1>5, <1>10, <1>12, <1>13, ImportedAgain

-----------------------------------------------------------------------------
(* What the routine optimisation moves. *)

LEMMA ConfigurationNumbers ==
  ASSUME NEW p, LensOK(p)
  PROVE  /\ Len(p.names) \in Nat /\ Configurations(p) \subseteq Int
         /\ Len(p.names) > 1 => Configurations(p) = 1 .. Len(p.names)
         /\ ~(Len(p.names) > 1) => Configurations(p) = {1}
<1>1. IsList(p.names)
  BY DEF LensOK
<1>2. Len(p.names) \in Nat /\ DOMAIN p.names = 1 .. Len(p.names) /\ (p.names = <<>> <=> Len(p.names) = 0)
  BY <1>1, ListIs
<1>3. CASE p.names = <<>>
  BY <1>2, <1>3 DEF Configurations, Multi
<1>4. CASE p.names # <<>>
  <2>1. Configurations(p) = 1 .. Len(p.names)
    BY <1>2, <1>4 DEF Configurations, Multi
  <2>2. Len(p.names) # 0
    BY <1>2, <1>4
  <2>3. ~(Len(p.names) > 1) => Len(p.names) = 1
    BY <1>2, <2>2
  <2>4. 1 .. 1 = {1}
    OBVIOUS
  <2> QED
    BY <1>2, <2>1, <2>3, <2>4
<1> QED
  BY <1>3, <1>4

\* What the routine optimisation varies are air spaces.
LEMMA OptimizedAir ==
  ASSUME NEW l, ImportedOK(l)
  PROVE  /\ Optimized(l) \subseteq DOMAIN l.p.surfaces
         /\ Optimized(l) \subseteq Int /\ IsFiniteSet(Optimized(l))
         /\ \A s \in Optimized(l) :
              /\ l.media[s].nd = 0
              /\ l.p.surfaces[s].thickBy = <<>> => ~(Len(l.p.names) > 1)
<1> PICK p, n : p = l.p /\ n = Len(l.p.surfaces)
  OBVIOUS
<1>1. LensOK(p) /\ IsList(p.surfaces)
  BY DEF ImportedOK, LensOK
<1>2. n \in Nat /\ DOMAIN p.surfaces = 1 .. n
  BY <1>1, ListIs
<1> PICK interval : interval = 1 .. n
  OBVIOUS
<1>0. IsFiniteSet(interval)
  <2>1. IsFiniteSet(1 .. n)
    BY <1>2, FS_Interval
  <2> QED
    BY <2>1
<1>3. ASSUME Len(p.names) > 1
      PROVE  /\ Optimized(l) \subseteq 1 .. n
             /\ \A s \in Optimized(l) : l.media[s].nd = 0 /\ l.p.surfaces[s].thickBy # <<>>
  <2>1. Optimized(l) = findVariableThicknesses(l)
    BY <1>3 DEF Optimized
  <2> SUFFICES ASSUME NEW s \in findVariableThicknesses(l)
               PROVE  s \in 1 .. n /\ l.media[s].nd = 0 /\ l.p.surfaces[s].thickBy # <<>>
    BY <2>1
  <2>2. s \in 1 .. n /\ l.media[s].nd = 0 /\ variesByConfiguration(l.p.surfaces[s].thickBy)
    BY <1>2 DEF findVariableThicknesses, Airspace
  <2>3. DOMAIN <<>> = {}
    OBVIOUS
  <2> QED
    BY <2>2, <2>3 DEF variesByConfiguration
<1>4. ASSUME ~(Len(p.names) > 1)
      PROVE  /\ Optimized(l) \subseteq 1 .. n
             /\ \A s \in Optimized(l) : l.media[s].nd = 0
  <2>1. Optimized(l) = findBackFocusSurface(l)
    BY <1>4 DEF Optimized
  <2> DEFINE cover == {s \in DOMAIN l.p.surfaces : l.p.surfaces[s].cell = "CG"}
             blocks == {s \in cover : s - 1 \notin cover}
             candidate == IF cover = {} THEN Len(l.p.surfaces)
                          ELSE (CHOOSE s \in blocks : \A r \in blocks : r <= s) - 1
  <2>2. findBackFocusSurface(l) = IF candidate > 0 /\ Airspace(l, candidate) THEN {candidate} ELSE {}
    BY DEF findBackFocusSurface
  <2>3. candidate \in Int /\ candidate <= n
    <3>1. CASE cover = {}
      BY <1>2, <3>1
    <3>2. CASE cover # {}
      <4>1. cover \subseteq 1 .. n
        BY <1>2
      <4>2. cover \subseteq Nat
        BY <1>2, <4>1
      <4>3. PICK x \in cover : \A y \in cover : x <= y
        <5> HIDE DEF cover
        <5> QED
          BY <3>2, <4>2, LeastElement
      <4>4. x - 1 \notin cover
        <5> HIDE DEF cover
        <5>1. x \in Nat
          BY <4>2, <4>3
        <5> QED
          BY <4>3, <5>1
      <4>5. x \in blocks
        BY <4>4
      <4>6. blocks \subseteq 1 .. n
        BY <4>1
      <4>7. IsFiniteSet(blocks)
        <5> HIDE DEF blocks
        <5>1. blocks \in SUBSET interval
          BY <4>6
        <5> QED
          BY ONLY <1>0, <5>1, FS_Subset
      <4>8. \E s \in blocks : \A r \in blocks : r <= s
        <5> HIDE DEF blocks
        <5>1. blocks \in SUBSET Int /\ blocks # {}
          BY <1>2, <4>5, <4>6
        <5> QED
          BY <4>7, <5>1, GreatestExists
      <4>9. (CHOOSE s \in blocks : \A r \in blocks : r <= s) \in blocks
        <5> HIDE DEF blocks
        <5> QED
          BY <4>8
      <4> PICK b : b = CHOOSE s \in blocks : \A r \in blocks : r <= s
        OBVIOUS
      <4>10. candidate = b - 1
        BY <3>2
      <4>11. b \in 1 .. n
        <5> HIDE DEF blocks
        <5> QED
          BY <4>6, <4>9
      <4> HIDE DEF candidate
      <4> QED
        BY ONLY <1>2, <4>10, <4>11
    <3> QED
      BY <3>1, <3>2
  <2> HIDE DEF candidate
  <2> SUFFICES ASSUME NEW s \in findBackFocusSurface(l)
               PROVE  s \in 1 .. n /\ l.media[s].nd = 0
    BY <2>1
  <2>4. s = candidate /\ candidate > 0 /\ Airspace(l, candidate)
    BY <2>2
  <2>5. s \in 1 .. n
    BY <1>2, <2>3, <2>4
  <2> QED
    BY <2>4, <2>5 DEF Airspace
<1>5. Optimized(l) \subseteq 1 .. n
  BY <1>3, <1>4
<1>6. IsFiniteSet(Optimized(l))
  <2> PICK optimized : optimized = Optimized(l)
    OBVIOUS
  <2>1. optimized \in SUBSET interval
    BY <1>5
  <2>2. IsFiniteSet(optimized)
    BY ONLY <1>0, <2>1, FS_Subset
  <2> QED
    BY <2>2
<1>7. Optimized(l) \subseteq Int
  BY <1>2, <1>5
<1> QED
  BY <1>2, <1>3, <1>4, <1>5, <1>6, <1>7

\* The variables of a solve, and what it leaves of a lens.
ThicknessesOf(order, c) == [i \in DOMAIN order |-> <<"thickness", order[i] - 1, c - 1>>]

AirMoves(l, c, out) ==
  /\ ImportedOK(out) /\ out.media = l.media /\ out.p.names = l.p.names
  /\ DOMAIN out.p.surfaces = DOMAIN l.p.surfaces
  /\ \A s \in DOMAIN l.p.surfaces, e \in Configurations(l.p) :
       thicknessOf(out.p.surfaces[s], e) # thicknessOf(l.p.surfaces[s], e) =>
         s \in Optimized(l) /\ e = c

\* A solve of the routine optimisation moves air, in its configuration.
LEMMA ThicknessesSolved ==
  ASSUME NEW l, ImportedOK(l), NEW c \in Configurations(l.p), NEW changed,
         changed \subseteq Optimized(l),
         NEW order, order = Increasing(changed),
         NEW vs, vs = ThicknessesOf(order, c),
         NEW values, NEW q, q = WithValues(l.p, vs, values), NEW out, out = WithLens(l, q)
  PROVE  AirMoves(l, c, out)
<1> PICK p : p = l.p
  OBVIOUS
<1>1. LensOK(p) /\ ImportedOK(l)
  BY DEF ImportedOK
<1>2. /\ changed \in SUBSET Int /\ IsFiniteSet(changed)
      /\ \A s \in Optimized(l) : p.surfaces[s].thickBy = <<>> => ~(Len(p.names) > 1)
  <2> PICK varied : varied = Optimized(l)
    OBVIOUS
  <2>1. /\ varied \subseteq Int /\ IsFiniteSet(varied)
        /\ \A s \in varied : p.surfaces[s].thickBy = <<>> => ~(Len(p.names) > 1)
    BY <1>1, OptimizedAir
  <2>2. changed \in SUBSET varied
    OBVIOUS
  <2>3. IsFiniteSet(changed)
    BY ONLY <2>1, <2>2, FS_Subset
  <2> QED
    BY <2>1, <2>2, <2>3
<1>3. order \in Seq(changed)
  BY <1>2, IncreasingLists
<1>4. \A i \in DOMAIN order : order[i] \in changed /\ order[i] \in Int
  <2>1. \A i \in DOMAIN order : order[i] \in changed
    BY ONLY <1>3
  <2> QED
    BY ONLY <1>2, <2>1
<1>5. DOMAIN vs = DOMAIN order
  BY DEF ThicknessesOf
<1>6. \A i \in DOMAIN order : vs[i] = <<"thickness", order[i] - 1, c - 1>>
  BY DEF ThicknessesOf
<1>7. c \in Int /\ Configurations(p) \subseteq Int
  BY <1>1, ConfigurationNumbers
<1> PICK scenario : scenario = c - 1
  OBVIOUS
<1>8. VariablesOK(p, scenario, vs)
  <2> SUFFICES ASSUME NEW i \in DOMAIN vs
               PROVE  VariableOK(p, scenario, vs[i]) /\ vs[i] = <<vs[i][1], vs[i][2], vs[i][3]>>
    BY DEF VariablesOK
  <2> PICK v, m : v = vs[i] /\ m = order[i] - 1
    OBVIOUS
  <2>1. v = <<"thickness", m, scenario>>
    BY <1>5, <1>6
  <2>2. VariableOK(p, scenario, v) /\ v = <<v[1], v[2], v[3]>>
    BY ONLY <2>1 DEF VariableOK
  <2> QED
    BY <2>2
<1>9. /\ LensOK(q) /\ q.names = p.names /\ DOMAIN q.surfaces = DOMAIN p.surfaces
      /\ \A s \in DOMAIN p.surfaces : Solved(p, scenario, s, vs, p.surfaces[s], q.surfaces[s])
  <2>1. q = WithValues(p, vs, values)
    OBVIOUS
  <2> QED
    BY ONLY <1>1, <1>8, <2>1, SolvedLens
<1>10. ASSUME NEW s \in DOMAIN p.surfaces
       PROVE  /\ q.surfaces[s].cell = p.surfaces[s].cell
              /\ q.surfaces[s].radius = p.surfaces[s].radius
              /\ q.surfaces[s].diameter = p.surfaces[s].diameter
  <2>1. ~Varies(vs, <<"radius", s - 1, 0>>)
    BY ONLY <1>5, <1>6 DEF Varies
  <2> QED
    BY <1>9, <2>1 DEF Solved
<1>11. ASSUME NEW s \in DOMAIN p.surfaces, NEW e \in Configurations(p),
              thicknessOf(q.surfaces[s], e) # thicknessOf(p.surfaces[s], e)
       PROVE  s \in Optimized(l) /\ e = c
  <2>1. s \in Int
    <3>1. IsList(p.surfaces)
      BY <1>1 DEF LensOK
    <3>2. DOMAIN p.surfaces = 1 .. Len(p.surfaces) /\ Len(p.surfaces) \in Nat
      BY <3>1, ListIs
    <3> QED
      BY <3>2
  <2>2. \/ Varies(vs, <<"thickness", s - 1, e - 1>>)
        \/ p.surfaces[s].thickBy = <<>> /\ Varies(vs, <<"thickness", s - 1, scenario>>)
    BY <1>9, <1>11 DEF Solved
  <2>3. ASSUME NEW k, Varies(vs, <<"thickness", s - 1, k>>)
        PROVE  s \in changed /\ k = c - 1
    <3>1. PICK i \in DOMAIN order : vs[i] = <<"thickness", s - 1, k>>
      BY <1>5, <2>3 DEF Varies
    <3>2. <<"thickness", order[i] - 1, c - 1>> = <<"thickness", s - 1, k>>
      BY <1>6, <3>1
    <3>3. order[i] - 1 = s - 1 /\ k = c - 1
      BY ONLY <3>2
    <3> QED
      BY <1>4, <2>1, <3>3
  <2>4. CASE Varies(vs, <<"thickness", s - 1, e - 1>>)
    <3>1. s \in changed /\ e - 1 = c - 1
      BY <2>3, <2>4
    <3> QED
      BY <1>7, <3>1
  <2>5. CASE p.surfaces[s].thickBy = <<>> /\ Varies(vs, <<"thickness", s - 1, scenario>>)
    <3>1. s \in changed
      BY <2>3, <2>5
    <3>2. s \in Optimized(l)
      BY <3>1
    <3>3. ~(Len(p.names) > 1)
      BY <1>2, <2>5, <3>2
    <3>4. Configurations(p) = {1}
      BY <1>1, <3>3, ConfigurationNumbers
    <3> QED
      BY <3>2, <3>4
  <2> QED
    BY <2>2, <2>4, <2>5
<1>12. /\ DOMAIN q.surfaces = DOMAIN l.p.surfaces
       /\ \A s \in DOMAIN q.surfaces :
            /\ q.surfaces[s].cell = l.p.surfaces[s].cell
            /\ q.surfaces[s].cell = "CG" => q.surfaces[s].radius = 0
            /\ q.surfaces[s].cell # "AS" => q.surfaces[s].diameter \in Int
  <2>1. \A s \in DOMAIN p.surfaces :
          /\ p.surfaces[s].cell = "CG" => p.surfaces[s].radius = 0
          /\ p.surfaces[s].cell # "AS" => p.surfaces[s].diameter \in Int
    BY <1>1 DEF ImportedOK
  <2>2. l.p.surfaces = p.surfaces
    OBVIOUS
  <2> QED
    BY ONLY <1>9, <1>10, <2>1, <2>2
<1>13. ImportedOK(out) /\ out.p = q /\ out.media = l.media
  <2>1. out = WithLens(l, q)
    OBVIOUS
  <2> QED
    BY ONLY <1>1, <1>9, <1>12, <2>1, ImportedAgain
<1> QED
  BY <1>9, <1>11, <1>13 DEF AirMoves

-----------------------------------------------------------------------------
(* The apertures that are saved. *)

LEMMA ConfigurationsCounted ==
  ASSUME NEW p, LensOK(p)
  PROVE  \E n \in Nat \ {0} : Configurations(p) = 1 .. n
<1>1. CASE Len(p.names) > 1
  <2>1. Len(p.names) \in Nat \ {0} /\ Configurations(p) = 1 .. Len(p.names)
    BY <1>1, ConfigurationNumbers
  <2> QED
    BY <2>1
<1>2. CASE ~(Len(p.names) > 1)
  <2>1. Configurations(p) = {1}
    BY <1>2, ConfigurationNumbers
  <2>2. 1 .. 1 = {1}
    OBVIOUS
  <2> QED
    BY <2>1, <2>2
<1> QED
  BY <1>1, <1>2

LEMMA Quotient ==
  ASSUME NEW x \in Int, NEW h \in Nat \ {0}
  PROVE  (x \div h) \in Int /\ h * (x \div h) <= x /\ x < h * (x \div h) + h
OBVIOUS

\* round_to moves an aperture by half a unit of the last decimal at most.
LEMMA RoundsToNearest ==
  ASSUME NEW wide \in Int
  PROVE  round_to(wide) \in Int /\ AsLarge(round_to(wide), wide) /\ AsLarge(wide, round_to(wide))
<1> PICK x, h, q : x = 2 * wide + Grain /\ h = 2 * Grain /\ q = x \div h
  OBVIOUS
<1>1. x \in Int /\ h \in Nat \ {0} /\ Grain \in Nat
  BY SessionsAssumption
<1>2. q \in Int /\ h * q <= x /\ x < h * q + h
  BY <1>1, Quotient
<1>3. round_to(wide) = q * Grain
  BY DEF round_to
<1>4. h * q = 2 * (q * Grain) /\ q * Grain \in Int
  BY <1>1, <1>2
<1> QED
  BY <1>1, <1>2, <1>3, <1>4 DEF AsLarge

\* A shared aperture is the largest of the models', but for the rounding.
LEMMA SharedFits ==
  ASSUME NEW n \in Nat \ {0}, DOMAIN models = 1 .. n, NEW s,
         \A c \in 1 .. n : models[c][s] \in Int
  PROVE  /\ SharedAperture(s) \in Int
         /\ \A c \in 1 .. n : AsLarge(SharedAperture(s), models[c][s])
         /\ \E c \in 1 .. n : AsLarge(models[c][s], SharedAperture(s))
<1> PICK f : f = [c \in 1 .. n |-> SavedAperture(c, s)]
  OBVIOUS
<1> DEFINE S == {f[c] : c \in 1 .. n}
<1>0. \A c \in 1 .. n : f[c] = SavedAperture(c, s)
  OBVIOUS
<1>1. \A c \in 1 .. n : f[c] \in Int /\ AsLarge(f[c], models[c][s]) /\ AsLarge(models[c][s], f[c])
  BY <1>0, RoundsToNearest DEF SavedAperture
<1>2. S = {SavedAperture(c, s) : c \in DOMAIN models}
  BY <1>0
<1>3. SharedAperture(s) = Max(S)
  BY <1>2, Zenon DEF SharedAperture
<1>4. IsFiniteSet(S)
  BY ImageFinite
<1>5. S \in SUBSET Int
  BY <1>1
<1>6. f[1] \in S
  OBVIOUS
<1>7. \A c \in 1 .. n : f[c] \in S
  OBVIOUS
<1> HIDE DEF S
<1>8. \E x \in S : \A y \in S : y <= x
  BY <1>4, <1>5, <1>6, GreatestExists
<1>9. \E x \in S : \A y \in S : x >= y
  BY <1>5, <1>8
<1>10. Max(S) \in S /\ \A y \in S : Max(S) >= y
  BY <1>9 DEF Max
<1>11. PICK k \in 1 .. n : Max(S) = f[k]
  BY <1>10 DEF S
<1>12. \A c \in 1 .. n : AsLarge(f[k], models[c][s])
  <2> SUFFICES ASSUME NEW c \in 1 .. n  PROVE AsLarge(f[k], models[c][s])
    OBVIOUS
  <2>1. f[k] >= f[c]
    BY <1>7, <1>10, <1>11
  <2>2. Grain \in Nat
    BY SessionsAssumption
  <2> QED
    BY <1>1, <2>1, <2>2 DEF AsLarge
<1> QED
  BY <1>1, <1>3, <1>11, <1>12

WithDiameters(a, d1, by) == [a EXCEPT !.diameter = d1, !.diameterBy = by]

LEMMA DiametersReplaced ==
  ASSUME NEW p, NEW a, SurfaceOK(p, a), NEW d1, NEW by, PerConfiguration(p, by),
         by # <<>> => a.cell = "AS", NEW b, b = WithDiameters(a, d1, by)
  PROVE  /\ SurfaceOK(p, b) /\ b.cell = a.cell /\ b.radius = a.radius /\ b.type = a.type
         /\ b.thick = a.thick /\ b.thickBy = a.thickBy /\ b.diameter = d1 /\ b.diameterBy = by
<1> PICK cell, radius, thick, thickBy, diameter, diameterBy, type, k, coeffs :
      /\ cell = a.cell /\ radius = a.radius /\ thick = a.thick /\ thickBy = a.thickBy
      /\ diameter = a.diameter /\ diameterBy = a.diameterBy
      /\ type = a.type /\ k = a.k /\ coeffs = a.coeffs
  OBVIOUS
<1>1. a = [cell |-> cell, radius |-> radius, thick |-> thick, thickBy |-> thickBy,
           diameter |-> diameter, diameterBy |-> diameterBy,
           type |-> type, k |-> k, coeffs |-> coeffs]
  BY DEF SurfaceOK, IsSurface
<1>2. b = [cell |-> cell, radius |-> radius, thick |-> thick, thickBy |-> thickBy,
           diameter |-> d1, diameterBy |-> by,
           type |-> type, k |-> k, coeffs |-> coeffs]
  <2>1. b = [a EXCEPT !.diameter = d1, !.diameterBy = by]
    BY DEF WithDiameters
  <2> QED
    BY ONLY <1>1, <2>1
<1>3. /\ b.cell = cell /\ b.radius = radius /\ b.thick = thick /\ b.thickBy = thickBy
      /\ b.diameter = d1 /\ b.diameterBy = by
      /\ b.type = type /\ b.k = k /\ b.coeffs = coeffs
  BY ONLY <1>2
<1>4. IsSurface(b)
  BY ONLY <1>2, <1>3 DEF IsSurface
<1>5. SurfaceOK(p, b)
  BY <1>3, <1>4 DEF SurfaceOK
<1> QED
  BY <1>3, <1>5

WithDiameter(a, d1) == [a EXCEPT !.diameter = d1]

LEMMA DiameterReplaced ==
  ASSUME NEW p, NEW a, SurfaceOK(p, a), NEW d1, NEW b, b = WithDiameter(a, d1)
  PROVE  b = WithDiameters(a, d1, a.diameterBy)
<1> PICK cell, radius, thick, thickBy, diameter, diameterBy, type, k, coeffs :
      /\ cell = a.cell /\ radius = a.radius /\ thick = a.thick /\ thickBy = a.thickBy
      /\ diameter = a.diameter /\ diameterBy = a.diameterBy
      /\ type = a.type /\ k = a.k /\ coeffs = a.coeffs
  OBVIOUS
<1>1. a = [cell |-> cell, radius |-> radius, thick |-> thick, thickBy |-> thickBy,
           diameter |-> diameter, diameterBy |-> diameterBy,
           type |-> type, k |-> k, coeffs |-> coeffs]
  BY DEF SurfaceOK, IsSurface
<1>2. b = [cell |-> cell, radius |-> radius, thick |-> thick, thickBy |-> thickBy,
           diameter |-> d1, diameterBy |-> diameterBy,
           type |-> type, k |-> k, coeffs |-> coeffs]
  <2>1. b = [a EXCEPT !.diameter = d1]
    BY DEF WithDiameter
  <2> QED
    BY ONLY <1>1, <2>1
<1> PICK e : e = WithDiameters(a, d1, diameterBy)
  OBVIOUS
<1>3. e = [a EXCEPT !.diameter = d1, !.diameterBy = diameterBy]
  BY DEF WithDiameters
<1>4. e = [cell |-> cell, radius |-> radius, thick |-> thick, thickBy |-> thickBy,
           diameter |-> d1, diameterBy |-> diameterBy,
           type |-> type, k |-> k, coeffs |-> coeffs]
  BY ONLY <1>1, <1>3
<1>5. b = e
  BY ONLY <1>2, <1>4
<1> QED
  BY <1>5

\* The vignetting sets all aperture stops or none.
LEMMA StopsTogether ==
  ASSUME NEW p, NEW s \in DOMAIN p.surfaces, NEW t \in DOMAIN p.surfaces,
         p.surfaces[s].cell = "AS", p.surfaces[t].cell = "AS", s \in Targets(p)
  PROVE  t \in Targets(p)
BY DEF Targets

LEMMA TargetsAreSurfaces ==
  ASSUME NEW p
  PROVE  Targets(p) \subseteq DOMAIN p.surfaces
BY DEF Targets

\* What a surface is that has taken the models' apertures, and nothing else.
Opens(l, p, s, a, b) ==
  /\ SurfaceOK(p, b) /\ b.cell = a.cell /\ b.radius = a.radius /\ b.type = a.type
  /\ b.thick = a.thick /\ b.thickBy = a.thickBy
  /\ b.cell # "AS" => b.diameter \in Int
  /\ b.cell = "AS" => b.diameterBy = (IF Multi(l.p) THEN [c \in DOMAIN models |-> SavedAperture(c, s)]
                                      ELSE <<>>)
  /\ ApertureFits(b, s)

\* A surface that takes the apertures of the models.
LEMMA OpenedSurface ==
  ASSUME NEW l, l = lens, ImportedOK(l), ModelsOK(l.p, models),
         NEW s \in DOMAIN l.p.surfaces, s \in Targets(l.p),
         NEW p, p.names = l.p.names, NEW a, SurfaceOK(p, a), a.cell = l.p.surfaces[s].cell,
         NEW b, b = WithApertures(a, s)
  PROVE  Opens(l, p, s, a, b)
<1>1. LensOK(l.p)
  BY DEF ImportedOK
<1>2. PICK n \in Nat \ {0} : Configurations(l.p) = 1 .. n
  BY <1>1, ConfigurationsCounted
<1>3. DOMAIN models = 1 .. n /\ \A c \in 1 .. n : models[c][s] \in Int
  BY <1>2 DEF ModelsOK
<1>4. CASE a.cell # "AS"
  <2> PICK shared : shared = SharedAperture(s)
    OBVIOUS
  <2>1. b = WithDiameter(a, shared)
    BY <1>4 DEF WithApertures, WithDiameter
  <2>2. /\ shared \in Int
        /\ \A c \in 1 .. n : AsLarge(shared, models[c][s])
        /\ \E c \in 1 .. n : AsLarge(models[c][s], shared)
    BY <1>3, SharedFits
  <2>3. a.diameterBy = <<>>
    BY <1>4 DEF SurfaceOK
  <2> PICK none : none = <<>>
    OBVIOUS
  <2>4. b = WithDiameters(a, shared, none)
    BY <2>1, <2>3, DiameterReplaced
  <2>5. PerConfiguration(p, none)
    BY DEF PerConfiguration
  <2>6. /\ SurfaceOK(p, b) /\ b.cell = a.cell /\ b.radius = a.radius /\ b.type = a.type
        /\ b.thick = a.thick /\ b.thickBy = a.thickBy /\ b.diameter = shared /\ b.diameterBy = none
    BY <2>4, <2>5, DiametersReplaced
  <2>7. ApertureFits(b, s)
    <3>1. \A c \in 1 .. n : diameterOf(b, c) = shared
      BY <2>6 DEF diameterOf
    <3> QED
      BY <1>3, <1>4, <2>2, <2>6, <3>1 DEF ApertureFits
  <2> QED
    BY <1>4, <2>2, <2>6, <2>7 DEF Opens
<1>5. CASE a.cell = "AS"
  <2> PICK first, by :
        /\ first = SavedAperture(1, s)
        /\ by = IF Multi(l.p) THEN [c \in DOMAIN models |-> SavedAperture(c, s)] ELSE <<>>
    OBVIOUS
  <2>1. b = WithDiameters(a, first, by)
    BY <1>5 DEF WithApertures, WithDiameters
  <2>2. PerConfiguration(p, by) /\ \A c \in 1 .. n : IF by = <<>> THEN c = 1 ELSE by[c] = SavedAperture(c, s)
    <3>1. CASE Multi(l.p)
      <4>1. by = [c \in 1 .. n |-> SavedAperture(c, s)]
        BY <1>3, <3>1
      <4>2. DOMAIN by = 1 .. n /\ \A c \in 1 .. n : by[c] = SavedAperture(c, s)
        BY ONLY <4>1
      <4>3. by # <<>>
        <5>1. 1 \in DOMAIN by
          BY <1>2, <4>2
        <5>2. 1 \notin DOMAIN <<>>
          OBVIOUS
        <5> QED
          BY ONLY <5>1, <5>2
      <4>4. DOMAIN p.names = 1 .. n /\ p.names # <<>>
        BY <1>2, <3>1 DEF Configurations, Multi
      <4>5. by = [c \in DOMAIN p.names |-> by[c]]
        BY ONLY <4>1, <4>4
      <4> QED
        BY <4>2, <4>3, <4>4, <4>5 DEF PerConfiguration
    <3>2. CASE ~Multi(l.p)
      <4>1. by = <<>>
        BY <3>2
      <4>2. 1 .. n = {1}
        BY <1>2, <3>2 DEF Configurations
      <4> QED
        BY <4>1, <4>2 DEF PerConfiguration
    <3> QED
      BY <3>1, <3>2
  <2>3. PerConfiguration(p, by)
    BY <2>2
  <2>4. /\ SurfaceOK(p, b) /\ b.cell = a.cell /\ b.radius = a.radius /\ b.type = a.type
        /\ b.thick = a.thick /\ b.thickBy = a.thickBy /\ b.diameter = first /\ b.diameterBy = by
    BY <1>5, <2>1, <2>3, DiametersReplaced
  <2>5. ApertureFits(b, s)
    <3>1. \A c \in DOMAIN models : diameterOf(b, c) = SavedAperture(c, s)
      BY <1>3, <2>2, <2>4 DEF diameterOf
    <3>2. \A c \in DOMAIN models : /\ AsLarge(SavedAperture(c, s), models[c][s])
                                   /\ AsLarge(models[c][s], SavedAperture(c, s))
      BY <1>3, RoundsToNearest DEF SavedAperture
    <3> QED
      BY <1>5, <2>4, <3>1, <3>2 DEF ApertureFits
  <2> QED
    BY <1>5, <2>4, <2>5 DEF Opens
<1> QED
  BY <1>4, <1>5

\* What is saved is the lens, with the models' apertures.
LEMMA SavedLens ==
  ASSUME NEW l, l = lens, ImportedOK(l), ModelsOK(l.p, models),
         NEW saved, saved = prescriptionWithAnalysisApertures(l)
  PROVE  ImportedOK(saved) /\ SameLens(l, saved) /\ AperturesFit(saved)
<1> PICK copy : copy = createWeightedPrescription(l)
  OBVIOUS
<1>1. /\ ImportedOK(copy) /\ copy.p.names = l.p.names
      /\ DOMAIN copy.p.surfaces = DOMAIN l.p.surfaces
      /\ \A s \in DOMAIN l.p.surfaces :
           /\ copy.p.surfaces[s].cell = l.p.surfaces[s].cell
           /\ copy.p.surfaces[s].radius = l.p.surfaces[s].radius
           /\ SameMedium(l.media[s], copy.media[s])
           /\ \A c \in Configurations(l.p) :
                /\ thicknessOf(copy.p.surfaces[s], c) = thicknessOf(l.p.surfaces[s], c)
                /\ diameterOf(copy.p.surfaces[s], c) = diameterOf(l.p.surfaces[s], c)
  <2>1. ImportedOK(l) /\ copy = createWeightedPrescription(l)
    OBVIOUS
  <2> QED
    BY ONLY <2>1, LensReread
<1> PICK p, old : p = copy.p /\ old = copy.p.surfaces
  OBVIOUS
<1>2. LensOK(p) /\ IsList(old)
  <2>1. LensOK(p)
    BY <1>1 DEF ImportedOK
  <2>2. IsList(p.surfaces)
    BY <2>1 DEF LensOK
  <2> QED
    BY <2>1, <2>2
<1>0. PICK replaced : replaced = [s \in DOMAIN old |-> IF s \in Targets(l.p) THEN WithApertures(old[s], s)
                                                         ELSE old[s]]
  OBVIOUS
<1> PICK q : q = WithSurfaces(p, replaced)
  OBVIOUS
<1>3. saved = WithLens(copy, q)
  <2>1. saved = [copy EXCEPT !.p.surfaces =
                   [s \in DOMAIN @ |-> IF s \in Targets(l.p) THEN WithApertures(@[s], s) ELSE @[s]]]
    BY Zenon DEF prescriptionWithAnalysisApertures, createWeightedPrescription
  <2>2. saved = [copy EXCEPT !.p = [copy.p EXCEPT !.surfaces = replaced]]
    BY <1>0, <2>1
  <2> QED
    BY <2>2 DEF WithLens, WithSurfaces
<1>4. /\ DOMAIN replaced = DOMAIN old
      /\ replaced = [s \in DOMAIN old |-> replaced[s]]
      /\ \A s \in DOMAIN old : replaced[s] = IF s \in Targets(l.p) THEN WithApertures(old[s], s)
                                             ELSE old[s]
  BY <1>0
<1>5. ASSUME NEW s \in DOMAIN old
      PROVE  /\ SurfaceOK(p, replaced[s]) /\ replaced[s].cell = old[s].cell
             /\ replaced[s].radius = old[s].radius /\ replaced[s].type = old[s].type
             /\ replaced[s].thick = old[s].thick /\ replaced[s].thickBy = old[s].thickBy
             /\ replaced[s].cell # "AS" => replaced[s].diameter \in Int
             /\ ApertureFits(replaced[s], s)
  <2> PICK a, b : a = old[s] /\ b = replaced[s]
    OBVIOUS
  <2>1. /\ SurfaceOK(p, a) /\ a.cell = l.p.surfaces[s].cell /\ s \in DOMAIN l.p.surfaces
        /\ p.names = l.p.names
    BY <1>1, <1>2 DEF LensOK
  <2>2. a.cell # "AS" => a.diameter \in Int /\ a.diameterBy = <<>>
    BY <1>1, <2>1 DEF ImportedOK, SurfaceOK
  <2>3. CASE s \in Targets(l.p)
    <3>1. b = WithApertures(a, s)
      BY <1>4, <2>3
    <3>2. l = lens /\ ImportedOK(l) /\ ModelsOK(l.p, models)
      OBVIOUS
    <3>3. Opens(l, p, s, a, b)
      BY ONLY <2>1, <2>3, <3>1, <3>2, OpenedSurface, Zenon
    <3> QED
      BY <3>3 DEF Opens
  <2>4. CASE s \notin Targets(l.p)
    <3>1. b = a
      BY <1>4, <2>4
    <3>2. \A c \in DOMAIN models : c \in Configurations(l.p) /\ models[c][s] = diameterOf(l.p.surfaces[s], c)
      BY <2>1, <2>4 DEF ModelsOK
    <3>3. \A c \in DOMAIN models : diameterOf(a, c) = models[c][s]
      BY <1>1, <2>1, <3>2
    <3>5. ApertureFits(b, s)
      BY <2>4, <3>1, <3>3 DEF ApertureFits
    <3> QED
      BY <2>1, <2>2, <3>1, <3>5
  <2> QED
    BY <2>3, <2>4
<1>6. ASSUME NEW s \in DOMAIN old, NEW t \in DOMAIN old,
             replaced[s].cell = "AS", replaced[t].cell = "AS"
      PROVE  replaced[s].diameterBy = replaced[t].diameterBy
  <2>1. old[s].cell = "AS" /\ old[t].cell = "AS"
    BY <1>5, <1>6
  <2>2. l.p.surfaces[s].cell = "AS" /\ l.p.surfaces[t].cell = "AS"
        /\ s \in DOMAIN l.p.surfaces /\ t \in DOMAIN l.p.surfaces
    BY <1>1, <2>1
  <2>3. CASE s \in Targets(l.p)
    <3>1. t \in Targets(l.p)
      BY <2>2, <2>3, StopsTogether
    <3>2. \A c \in DOMAIN models : models[c][s] = models[c][t]
      BY <2>2, <2>3, <3>1 DEF ModelsOK
    <3>3. ASSUME NEW r \in DOMAIN old, old[r].cell = "AS", r \in Targets(l.p)
          PROVE  replaced[r].diameterBy =
                   IF Multi(l.p) THEN [c \in DOMAIN models |-> SavedAperture(c, r)] ELSE <<>>
      <4> PICK a, b : a = old[r] /\ b = replaced[r]
        OBVIOUS
      <4>1. /\ SurfaceOK(p, a) /\ a.cell = l.p.surfaces[r].cell /\ r \in DOMAIN l.p.surfaces
            /\ p.names = l.p.names
        BY <1>1, <1>2 DEF LensOK
      <4>2. b = WithApertures(a, r)
        BY <1>4, <3>3
      <4>3. l = lens /\ ImportedOK(l) /\ ModelsOK(l.p, models) /\ r \in Targets(l.p)
        BY <3>3
      <4>4. Opens(l, p, r, a, b)
        BY ONLY <4>1, <4>2, <4>3, OpenedSurface, Zenon
      <4> QED
        BY <3>3, <4>4 DEF Opens
    <3>4. [c \in DOMAIN models |-> SavedAperture(c, s)] = [c \in DOMAIN models |-> SavedAperture(c, t)]
      BY <3>2 DEF SavedAperture
    <3> QED
      BY <2>1, <2>3, <3>1, <3>3, <3>4
  <2>4. CASE s \notin Targets(l.p)
    <3>1. t \notin Targets(l.p)
      BY <2>2, <2>4, StopsTogether
    <3>2. replaced[s] = old[s] /\ replaced[t] = old[t]
      BY <1>4, <2>4, <3>1
    <3> QED
      BY <1>2, <2>1, <3>2 DEF LensOK
  <2> QED
    BY <2>3, <2>4
<1>7. LensOK(q) /\ q.surfaces = replaced /\ q.names = p.names /\ DOMAIN q.surfaces = DOMAIN old
  <2>1. p.surfaces = old /\ q = WithSurfaces(p, replaced)
    OBVIOUS
  <2>2. \A s \in DOMAIN old : SurfaceOK(p, replaced[s]) /\ replaced[s].type = old[s].type
    BY <1>5
  <2>3. \A s, t \in DOMAIN old :
          replaced[s].cell = "AS" /\ replaced[t].cell = "AS" =>
            replaced[s].diameterBy = replaced[t].diameterBy
    BY <1>6
  <2>4. replaced = [s \in DOMAIN p.surfaces |-> replaced[s]]
    BY <1>4
  <2> QED
    BY ONLY <1>2, <2>1, <2>2, <2>3, <2>4, OtherSurfaces
<1>8. \A s \in DOMAIN q.surfaces :
        /\ q.surfaces[s].cell = copy.p.surfaces[s].cell
        /\ q.surfaces[s].cell = "CG" => q.surfaces[s].radius = 0
        /\ q.surfaces[s].cell # "AS" => q.surfaces[s].diameter \in Int
  <2>1. \A s \in DOMAIN old : old[s].cell = "CG" => old[s].radius = 0
    BY <1>1 DEF ImportedOK
  <2> QED
    BY <1>5, <1>7, <2>1
<1>9. ImportedOK(saved) /\ saved.p = q /\ saved.media = copy.media
  <2>1. DOMAIN q.surfaces = DOMAIN copy.p.surfaces
    BY <1>7
  <2> QED
    BY ONLY <1>1, <1>3, <1>7, <1>8, <2>1, ImportedAgain
<1>10. SameLens(l, saved)
  <2> SUFFICES ASSUME NEW s \in DOMAIN l.p.surfaces
               PROVE  /\ l.p.surfaces[s].cell = saved.p.surfaces[s].cell
                      /\ l.p.surfaces[s].radius = saved.p.surfaces[s].radius
                      /\ SameMedium(l.media[s], saved.media[s])
                      /\ \A c \in Configurations(l.p) :
                           thicknessOf(l.p.surfaces[s], c) = thicknessOf(saved.p.surfaces[s], c)
    BY DEF SameLens
  <2>1. s \in DOMAIN old /\ saved.p.surfaces[s] = replaced[s]
    BY <1>1, <1>7, <1>9
  <2>2. \A c \in Configurations(l.p) : thicknessOf(replaced[s], c) = thicknessOf(old[s], c)
    BY <1>5, <2>1 DEF thicknessOf
  <2> QED
    BY <1>1, <1>5, <1>9, <2>1, <2>2
<1>11. AperturesFit(saved)
  BY <1>5, <1>7, <1>9 DEF AperturesFit
<1> QED
  BY <1>9, <1>10, <1>11

-----------------------------------------------------------------------------
(* Each step keeps the lens. *)

LEMMA LensFileHolds ==
  ASSUME NEW t, IsLens(t), NEW run, NEW file, file = LensFile(t, run)
  PROVE  HoldsLens(file)
<1>1. file.text = <<t>>
  BY DEF LensFile
<1>2. file.text[1] = t /\ file.text = <<file.text[1]>>
  BY ONLY <1>1
<1> QED
  BY <1>2 DEF HoldsLens

LEMMA OutputHoldsNothing ==
  ASSUME NEW c, NEW of, NEW file, file = OutputFile(c, of)
  PROVE  file.text = <<>>
BY DEF OutputFile

LEMMA LensesStay ==
  ASSUME LensesOnDisk, NEW path, NEW file, createOutputFile(path, file),
         file.text = <<>> \/ HoldsLens(file)
  PROVE  LensesOnDisk'
<1>1. /\ DOMAIN disk' = DOMAIN disk \cup {path}
      /\ \A p \in DOMAIN disk' : disk'[p] = file \/ (p \in DOMAIN disk /\ disk'[p] = disk[p])
  BY DEF createOutputFile
<1> QED
  BY <1>1 DEF LensesOnDisk

LEMMA SameTargets ==
  ASSUME args' = args, NEW p
  PROVE  Targets(p)' = Targets(p)
BY DEF Targets, vig_type

LEMMA SameApertureFits ==
  ASSUME UNCHANGED <<lens, models, args>>, NEW saved, saved = output', AperturesFit(saved)
  PROVE  AperturesFit(output)'
<1> PICK p : p = lens.p
  OBVIOUS
<1>1. Targets(p)' = Targets(p)
  BY SameTargets
<1> SUFFICES ASSUME NEW s \in DOMAIN output'.p.surfaces
             PROVE  ApertureFits(output.p.surfaces[s], s)'
  BY DEF AperturesFit
<1>2. ApertureFits(saved.p.surfaces[s], s)
  BY DEF AperturesFit
<1> QED
  BY <1>1, <1>2 DEF ApertureFits

LEMMA StartKeepsLens ==
  ASSUME LensInv, Start \/ Throw
  PROVE  LensInv'
<1>1. disk' = disk /\ pc' \in {"idle", "load"}
  BY DEF Start, Throw, End
<1>2. LensesOnDisk'
  BY <1>1 DEF LensInv, LensesOnDisk
<1> QED
  BY <1>1, <1>2 DEF LensInv, Steps

LEMMA FindKeepsLens ==
  ASSUME LensInv, FindGlasses
  PROVE  LensInv'
<1> PICK t, out : t = disk[specfile].text[1] /\ out = Enrichment(t)
  OBVIOUS
<1>1. IsLens(t)
  BY DEF FindGlasses, LensInv, LensesOnDisk, Readable, HoldsLens
<1>2. IsLens(out)
  BY <1>1, EnrichmentOf
<1>3. text'[1] = out /\ pc' = "idle"
  BY DEF FindGlasses, End
<1> PICK path, file :
      /\ path = IF args.values.outputFile # Absent THEN PathOf[args.values.outputFile.w]
                ELSE <<specfile[1], Name("specs", <<>>, ".txt")>>
      /\ file = LensFile(out, Run)
  OBVIOUS
<1>4. createOutputFile(path, file)
  BY <1>3 DEF FindGlasses
<1>5. LensesOnDisk'
  BY <1>2, <1>4, LensFileHolds, LensesStay DEF LensInv
<1> QED
  BY <1>3, <1>5 DEF LensInv, Steps

LEMMA LoadKeepsLens ==
  ASSUME LensInv, loadSpecText
  PROVE  LensInv'
<1> PICK t, out : t = disk[specfile].text[1] /\ out = text'[1]
  OBVIOUS
<1>1. IsLens(t)
  BY DEF loadSpecText, LensInv, LensesOnDisk, Readable, HoldsLens
<1>2. out = t \/ out = Enrichment(t)
  BY DEF loadSpecText
<1>3. IsLens(out)
  BY <1>1, <1>2, EnrichmentOf
<1>4. pc' \in {"trial", "import"}
  BY DEF loadSpecText, GoTo
<1>5. LensesOnDisk'
  <2>1. CASE Updates
    <3> PICK file : file = LensFile(out, Run)
      OBVIOUS
    <3>1. createOutputFile(specfile, file)
      BY <2>1 DEF loadSpecText
    <3> QED
      BY <1>3, <3>1, LensFileHolds, LensesStay DEF LensInv
  <2>2. CASE ~Updates
    <3>1. disk' = disk
      BY <2>2 DEF loadSpecText
    <3> QED
      BY <3>1 DEF LensInv, LensesOnDisk
  <2> QED
    BY <2>1, <2>2
<1> QED
  BY <1>3, <1>4, <1>5 DEF LensInv

LEMMA TrialKeepsLens ==
  ASSUME LensInv, runOptimizationTrial
  PROVE  LensInv'
<1> PICK t, use : t = text[1] /\ use = use_glass_types
  OBVIOUS
<1> PICK before : before = createPrescription(t, use)
  OBVIOUS
<1> PICK front : front = before.p.surfaces[1]
  OBVIOUS
<1>1. /\ pc = "trial" /\ pc' = "import" /\ Buildable(t.bench) /\ before.p.surfaces # <<>>
      /\ createOutputFile(specfile', LensFile(text'[1], Run))
  BY DEF runOptimizationTrial, GoTo
<1>2. \E trials : \E radius \in {front.radius} \cup {front.radius + step : step \in Moves(front)} :
        text' = <<Written(WithRadius(before, radius), trials)>>
  BY DEF runOptimizationTrial, WithRadius
<1>3. PICK trials, radius :
        /\ radius \in {front.radius} \cup {front.radius + step : step \in Moves(front)}
        /\ text' = <<Written(WithRadius(before, radius), trials)>>
  BY <1>2
<1>4. radius = front.radius \/ front.cell = "R"
  BY <1>3 DEF Moves
<1>5. IsLens(t)
  BY <1>1 DEF LensInv, Steps
<1>6. ImportedOK(before)
  BY <1>1, <1>5, LensRead
<1> PICK after : after = WithRadius(before, radius)
  OBVIOUS
<1>7. ImportedOK(after)
  BY <1>1, <1>4, <1>6, RadiusMoved
<1> PICK out : out = text'[1]
  OBVIOUS
<1>8. out = Written(after, trials)
  BY <1>3
<1>9. IsLens(out)
  BY <1>7, <1>8, LensWritten
<1> PICK file : file = LensFile(out, Run)
  OBVIOUS
<1>10. LensesOnDisk'
  <2> PICK path : path = specfile'
    OBVIOUS
  <2>1. createOutputFile(path, file)
    BY <1>1
  <2> QED
    BY <1>9, <2>1, LensFileHolds, LensesStay DEF LensInv
<1> QED
  BY <1>1, <1>9, <1>10 DEF LensInv

LEMMA SameUse ==
  ASSUME args' = args
  PROVE  use_glass_types' = use_glass_types
BY DEF use_glass_types, Given

LEMMA ImportKeepsLens ==
  ASSUME ReportInv, LensInv, Import
  PROVE  LensInv'
<1> PICK t, use, l : t = text[1] /\ use = use_glass_types /\ l = lens'
  OBVIOUS
<1>1. /\ pc = "import" /\ Buildable(t.bench) /\ pc' \in {"optimize", "models"}
      /\ UNCHANGED <<disk, text, config, args, moved>>
      /\ l = createPrescription(t, use)
  BY DEF Import, GoTo
<1>2. IsLens(t)
  BY <1>1 DEF LensInv, Steps
<1>3. ImportedOK(l)
  BY <1>1, <1>2, LensRead
<1>4. config = 1
  BY <1>1 DEF ReportInv, ShapeInv
<1>5. 1 \in Configurations(l.p)
  <2>1. LensOK(l.p)
    BY <1>3 DEF ImportedOK
  <2>2. PICK n \in Nat \ {0} : Configurations(l.p) = 1 .. n
    BY <2>1, ConfigurationsCounted
  <2> QED
    BY <2>2
<1>6. LensesOnDisk'
  BY <1>1 DEF LensInv, LensesOnDisk
<1>7. FromText'
  <2>1. use = use_glass_types'
    BY <1>1, SameUse
  <2>2. createPrescription(text[1], use_glass_types)' = l
    BY <1>1, <2>1
  <2>3. WithOtherAir(l)'
    BY DEF WithOtherAir
  <2> QED
    BY <2>2, <2>3 DEF FromText
<1> QED
  BY <1>1, <1>2, <1>3, <1>4, <1>5, <1>6, <1>7 DEF LensInv

\* What a solve leaves of the text: the air it varied is noted.
LEMMA OtherAirMoved ==
  ASSUME NEW start, NEW l, l = lens, NEW out, out = lens', WithOtherAir(start), NEW varied,
         LensOK(l.p), out.p.names = l.p.names, out.media = l.media,
         DOMAIN out.p.surfaces = DOMAIN l.p.surfaces,
         moved' = moved \cup {<<s, config>> : s \in varied},
         \A s \in varied : l.media[s].nd = 0,
         \A s \in DOMAIN l.p.surfaces, c \in Configurations(l.p) :
           thicknessOf(out.p.surfaces[s], c) # thicknessOf(l.p.surfaces[s], c) =>
             s \in varied /\ c = config
  PROVE  WithOtherAir(start)'
<1>1. /\ l.p.names = start.p.names /\ DOMAIN l.p.surfaces = DOMAIN start.p.surfaces
      /\ \A s \in DOMAIN start.p.surfaces, c \in Configurations(start.p) :
           thicknessOf(l.p.surfaces[s], c) # thicknessOf(start.p.surfaces[s], c)
             => <<s, c>> \in moved /\ l.media[s].nd = 0
  BY DEF WithOtherAir
<1>2. Configurations(l.p) = Configurations(start.p)
  BY <1>1 DEF Configurations, Multi
<1>3. ASSUME NEW s \in DOMAIN start.p.surfaces, NEW c \in Configurations(start.p),
             thicknessOf(out.p.surfaces[s], c) # thicknessOf(start.p.surfaces[s], c)
      PROVE  <<s, c>> \in moved' /\ out.media[s].nd = 0
  <2>1. CASE thicknessOf(l.p.surfaces[s], c) # thicknessOf(start.p.surfaces[s], c)
    BY <1>1, <2>1
  <2>2. CASE thicknessOf(out.p.surfaces[s], c) # thicknessOf(l.p.surfaces[s], c)
    <3>1. s \in varied /\ c = config
      BY <1>1, <1>2, <2>2
    <3> QED
      BY <3>1
  <2> QED
    BY <1>3, <2>1, <2>2
<1>4. out.p.names = start.p.names /\ DOMAIN out.p.surfaces = DOMAIN start.p.surfaces
  BY <1>1
<1> QED
  BY <1>3, <1>4 DEF WithOtherAir

LEMMA OptimizeKeepsLens ==
  ASSUME LensInv, optimizeThicknesses
  PROVE  LensInv'
<1> PICK l, out, start, varied : /\ l = lens /\ out = lens'
                                 /\ start = createPrescription(text[1], use_glass_types)
                                 /\ varied = Optimized(lens)
  OBVIOUS
<1>1. /\ pc = "optimize" /\ pc' \in {"optimize", "models"}
      /\ UNCHANGED <<disk, text, args>>
  BY DEF optimizeThicknesses, GoTo
<1>2. ImportedOK(l) /\ config \in Configurations(l.p) /\ FromText /\ IsLens(text[1])
  BY <1>1 DEF LensInv, Steps
<1>3. LensOK(l.p)
  BY <1>2 DEF ImportedOK
<1>4. createPrescription(text[1], use_glass_types)' = start
  <2> PICK use : use = use_glass_types
    OBVIOUS
  <2>1. use = use_glass_types'
    BY <1>1, SameUse
  <2> QED
    BY <1>1, <2>1
<1>5. WithOtherAir(start)
  BY <1>2 DEF FromText
<1>6. LensesOnDisk' /\ IsLens(text'[1])
  BY <1>1, <1>2 DEF LensInv, LensesOnDisk
<1>7. CASE varied = {}
  <2>1. UNCHANGED <<lens, moved>> /\ pc' = "models"
    BY <1>7 DEF optimizeThicknesses, GoTo
  <2>2. FromText'
    BY <1>4, <1>5, <2>1 DEF FromText, WithOtherAir
  <2> QED
    BY <1>2, <1>6, <2>1, <2>2 DEF LensInv
<1>8. CASE varied # {}
  <2>1. /\ moved' = moved \cup {<<s, config>> : s \in varied}
        /\ \E changed \in SUBSET varied :
             LET order == Increasing(changed)
             IN out = [l EXCEPT !.p =
                  WithValues(@, [i \in DOMAIN order |-> Variable(order[i])],
                             [i \in DOMAIN order |-> Thickness(lens, order[i]) + 1])]
        /\ IF config \in 1 .. Len(l.p.names) - 1
           THEN config' = config + 1 /\ pc' = "optimize" ELSE pc' = "models"
    BY <1>8 DEF optimizeThicknesses, GoTo
  <2>2. PICK changed \in SUBSET varied :
             LET order == Increasing(changed)
             IN out = [l EXCEPT !.p =
                  WithValues(@, [i \in DOMAIN order |-> Variable(order[i])],
                             [i \in DOMAIN order |-> Thickness(lens, order[i]) + 1])]
    BY <2>1
  <2> PICK c, order : c = config /\ order = Increasing(changed)
    OBVIOUS
  <2>3. PICK vs, values :
          /\ vs = ThicknessesOf(order, c)
          /\ values = [i \in DOMAIN order |-> Thickness(lens, order[i]) + 1]
    OBVIOUS
  <2> PICK q : q = WithValues(l.p, vs, values)
    OBVIOUS
  <2>4. out = WithLens(l, q)
    <3>1. out = [l EXCEPT !.p = WithValues(l.p, vs, values)]
      BY <2>2, <2>3 DEF Variable, ThicknessesOf
    <3> QED
      BY <3>1 DEF WithLens
  <2>5. /\ ImportedOK(l) /\ c \in Configurations(l.p) /\ changed \subseteq Optimized(l)
        /\ order = Increasing(changed)
        /\ vs = ThicknessesOf(order, c)
        /\ q = WithValues(l.p, vs, values) /\ out = WithLens(l, q)
    BY <1>2, <2>3, <2>4
  <2>6. /\ ImportedOK(out) /\ out.media = l.media /\ out.p.names = l.p.names
        /\ DOMAIN out.p.surfaces = DOMAIN l.p.surfaces
        /\ \A s \in DOMAIN l.p.surfaces, e \in Configurations(l.p) :
             thicknessOf(out.p.surfaces[s], e) # thicknessOf(l.p.surfaces[s], e) =>
               s \in Optimized(l) /\ e = c
    <3>1. AirMoves(l, c, out)
      BY ONLY <2>5, ThicknessesSolved
    <3> QED
      BY <3>1 DEF AirMoves
  <2>7. \A s \in varied : l.media[s].nd = 0
    BY <1>2, OptimizedAir
  <2>8. WithOtherAir(start)'
    <3>1. /\ l = lens /\ out = lens' /\ WithOtherAir(start)
          /\ LensOK(l.p) /\ out.p.names = l.p.names /\ out.media = l.media
          /\ DOMAIN out.p.surfaces = DOMAIN l.p.surfaces
          /\ moved' = moved \cup {<<s, config>> : s \in varied}
          /\ \A s \in varied : l.media[s].nd = 0
          /\ \A s \in DOMAIN l.p.surfaces, e \in Configurations(l.p) :
               thicknessOf(out.p.surfaces[s], e) # thicknessOf(l.p.surfaces[s], e) =>
                 s \in varied /\ e = config
      BY <1>3, <1>5, <2>1, <2>6, <2>7
    <3> QED
      BY ONLY <3>1, OtherAirMoved
  <2>9. FromText'
    BY <1>4, <2>8 DEF FromText
  <2>10. pc' = "optimize" => config' \in Configurations(out.p)
    <3> SUFFICES ASSUME pc' = "optimize"  PROVE config' \in Configurations(out.p)
      OBVIOUS
    <3>1. config \in 1 .. Len(l.p.names) - 1 /\ config' = config + 1
      BY <2>1
    <3>2. Len(l.p.names) \in Nat
      BY <1>3, ConfigurationNumbers
    <3>3. Len(l.p.names) > 1
      BY <3>1, <3>2
    <3>4. LensOK(out.p) /\ Len(out.p.names) > 1
      BY <2>6, <3>3 DEF ImportedOK
    <3>5. Configurations(out.p) = 1 .. Len(out.p.names)
      BY <3>4, ConfigurationNumbers
    <3> QED
      BY <2>6, <3>1, <3>2, <3>5
  <2> QED
    BY <1>1, <1>6, <2>6, <2>9, <2>10 DEF LensInv
<1> QED
  BY <1>7, <1>8

LEMMA ModelsKeepLens ==
  ASSUME LensInv, BuildModels
  PROVE  LensInv'
<1> PICK l : l = lens
  OBVIOUS
<1>1. /\ pc = "models" /\ pc' = "save" /\ UNCHANGED <<disk, text, lens, args>>
      /\ \E opening \in [Configurations(l.p) ->
                           IF Targets(l.p) = {} THEN {CHOOSE o \in Openings : TRUE} ELSE Openings] :
           models' = [c \in Configurations(l.p) |-> [s \in DOMAIN l.p.surfaces |->
                        IF s \in Targets(l.p) THEN opening[c]
                        ELSE diameterOf(l.p.surfaces[s], c)]]
  BY DEF BuildModels, GoTo
<1>2. PICK opening \in [Configurations(l.p) ->
                          IF Targets(l.p) = {} THEN {CHOOSE o \in Openings : TRUE} ELSE Openings] :
        models' = [c \in Configurations(l.p) |-> [s \in DOMAIN l.p.surfaces |->
                     IF s \in Targets(l.p) THEN opening[c]
                     ELSE diameterOf(l.p.surfaces[s], c)]]
  BY <1>1
<1>3. /\ DOMAIN models' = Configurations(l.p)
      /\ \A c \in Configurations(l.p), s \in DOMAIN l.p.surfaces :
           models'[c][s] = IF s \in Targets(l.p) THEN opening[c]
                           ELSE diameterOf(l.p.surfaces[s], c)
  BY <1>2
<1>4. \A c \in Configurations(l.p), s \in Targets(l.p) : opening[c] \in Int
  <2>1. Openings \subseteq Int
    BY SessionsAssumption
  <2> SUFFICES ASSUME NEW c \in Configurations(l.p), NEW s \in Targets(l.p)  PROVE opening[c] \in Int
    OBVIOUS
  <2>2. opening \in [Configurations(l.p) -> Openings]
    BY <1>2
  <2> QED
    BY <2>1, <2>2
<1>5. Targets(l.p)' = Targets(l.p) /\ Targets(l.p) \subseteq DOMAIN l.p.surfaces
  BY <1>1, SameTargets, TargetsAreSurfaces
<1>6. ModelsOK(l.p, models)'
  <2>1. \A c \in Configurations(l.p), s \in DOMAIN l.p.surfaces :
          IF s \in Targets(l.p)
          THEN models'[c][s] \in Int /\ \A t \in Targets(l.p) : models'[c][t] = models'[c][s]
          ELSE models'[c][s] = diameterOf(l.p.surfaces[s], c)
    BY <1>3, <1>4, <1>5
  <2> QED
    BY <1>3, <1>5, <2>1 DEF ModelsOK
<1>7. LensesOnDisk'
  BY <1>1 DEF LensInv, LensesOnDisk
<1>8. ModelsOK(lens.p, models)'
  BY <1>1, <1>6 DEF ModelsOK
<1> QED
  BY <1>1, <1>7, <1>8 DEF LensInv, Steps

LEMMA SaveKeepsLens ==
  ASSUME LensInv, SavePrescription
  PROVE  LensInv'
<1> PICK l, saved : l = lens /\ saved = prescriptionWithAnalysisApertures(lens)
  OBVIOUS
<1>1. /\ pc = "save" /\ pc' = "zmx" /\ UNCHANGED <<text, lens, models, args>>
      /\ output' = saved
  BY DEF SavePrescription, GoTo
<1>2. ImportedOK(l) /\ ModelsOK(l.p, models) /\ IsLens(text[1])
  BY <1>1 DEF LensInv, Steps
<1>3. ImportedOK(saved) /\ SameLens(l, saved) /\ AperturesFit(saved)
  BY <1>2, SavedLens
<1> PICK path, t, file :
      /\ path = getOutputFileWithPath(Name("prescription", <<>>, ".txt"))
      /\ t = Written(saved, <<>>) /\ file = LensFile(t, Run)
  OBVIOUS
<1>4. createOutputFile(path, file)
  BY <1>1 DEF SavePrescription, prescriptionOutput
<1> PICK trials : trials = <<>>
  OBVIOUS
<1>5. IsLens(t)
  <2>1. t = Written(saved, trials)
    OBVIOUS
  <2> QED
    BY <1>3, <2>1, LensWritten
<1>6. LensesOnDisk'
  BY <1>4, <1>5, LensFileHolds, LensesStay DEF LensInv
<1>7. AperturesFit(output)'
  BY <1>1, <1>3, SameApertureFits
<1> QED
  BY <1>1, <1>2, <1>3, <1>6, <1>7 DEF LensInv

LEMMA ZmxKeepsLens ==
  ASSUME LensInv, SaveZmx
  PROVE  LensInv'
<1>1. /\ pc = "zmx" /\ pc' = "report" /\ UNCHANGED <<text, lens>>
      /\ weighted' = createWeightedPrescription(lens)
      /\ createOutputFile(getOutputFileWithPath(replaceExtension(specfile[2], ".zmx")),
                          OutputFile(0, "prescription"))
  BY DEF SaveZmx, GoTo
<1>2. LensesOnDisk'
  <2> PICK path, file :
        /\ path = getOutputFileWithPath(replaceExtension(specfile[2], ".zmx"))
        /\ file = OutputFile(0, "prescription")
    OBVIOUS
  <2>1. createOutputFile(path, file) /\ file.text = <<>>
    BY <1>1, OutputHoldsNothing
  <2> QED
    BY <2>1, LensesStay DEF LensInv
<1>3. IsLens(text[1]) /\ ImportedOK(lens)
  BY <1>1 DEF LensInv, Steps
<1>4. weighted' = createWeightedPrescription(lens')
  BY <1>1
<1> QED
  BY <1>1, <1>2, <1>3, <1>4 DEF LensInv

LEMMA ReportKeepsLens ==
  ASSUME LensInv, WriteOutput \/ SkipMaps \/ NextConfig \/ createREADME
  PROVE  LensInv'
<1>1. /\ pc \in {"report", "readme"} /\ pc' \in {"report", "readme", "idle"}
      /\ pc' = "report" => pc = "report"
      /\ UNCHANGED <<text, lens, weighted>>
  <2>1. CASE WriteOutput \/ SkipMaps \/ NextConfig
    BY <2>1 DEF WriteOutput, SkipMaps, NextConfig, GoTo
  <2>2. CASE createREADME
    BY <2>2 DEF createREADME, End, lensVars
  <2> QED
    BY <2>1, <2>2
<1>2. LensesOnDisk'
  <2>1. CASE WriteOutput
    <3> PICK path, file :
          /\ path = getOutputFileWithPath(suffixed_name(Head(todo).stem, Suffix, Head(todo).ext))
          /\ file = OutputFile(config, Head(todo).of)
      OBVIOUS
    <3>1. createOutputFile(path, file) /\ file.text = <<>>
      BY <2>1, OutputHoldsNothing DEF WriteOutput
    <3> QED
      BY <3>1, LensesStay DEF LensInv
  <2>2. CASE createREADME
    <3> PICK path, file :
          /\ path = getOutputFileWithPath(Name("README", <<>>, ".md"))
          /\ file = [OutputFile(0, "report") EXCEPT !.links = links \cup Resources]
      OBVIOUS
    <3>1. createOutputFile(path, file)
      BY <2>2 DEF createREADME
    <3>2. file.text = <<>>
      BY DEF OutputFile
    <3> QED
      BY <3>1, <3>2, LensesStay DEF LensInv
  <2>3. CASE SkipMaps \/ NextConfig
    <3>1. disk' = disk
      BY <2>3 DEF SkipMaps, NextConfig
    <3> QED
      BY <3>1 DEF LensInv, LensesOnDisk
  <2> QED
    BY <2>1, <2>2, <2>3
<1>3. IsLens(text[1])
  BY <1>1 DEF LensInv, Steps
<1>4. pc' = "report" => ImportedOK(lens) /\ weighted = createWeightedPrescription(lens)
  BY <1>1 DEF LensInv
<1> QED
  BY <1>1, <1>2, <1>3, <1>4 DEF LensInv

LEMMA WaitingKeepsLens ==
  ASSUME LensInv, UNCHANGED toolVars
  PROVE  LensInv'
<1>1. UNCHANGED <<pc, disk, text, lens, config, moved, models, output, weighted, args>>
  BY DEF toolVars, lensVars
<1>2. LensesOnDisk'
  BY <1>1 DEF LensInv, LensesOnDisk
<1>3. FromText => FromText'
  <2> PICK use : use = use_glass_types
    OBVIOUS
  <2>1. use = use_glass_types'
    BY <1>1, SameUse
  <2> QED
    BY <1>1, <2>1 DEF FromText, WithOtherAir
<1>4. ModelsOK(lens.p, models) => ModelsOK(lens.p, models)'
  <2> PICK p : p = lens.p
    OBVIOUS
  <2>1. Targets(p)' = Targets(p)
    BY <1>1, SameTargets
  <2> QED
    BY <1>1, <2>1 DEF ModelsOK
<1>5. AperturesFit(output) => AperturesFit(output)'
  <2> PICK saved : saved = output
    OBVIOUS
  <2> QED
    BY <1>1, SameApertureFits
<1> QED
  BY <1>1, <1>2, <1>3, <1>4, <1>5 DEF LensInv

LEMMA LensStep ==
  ASSUME ReportInv, LensInv, [Next]_toolVars
  PROVE  LensInv'
BY StartKeepsLens, FindKeepsLens, LoadKeepsLens, TrialKeepsLens, ImportKeepsLens,
   OptimizeKeepsLens, ModelsKeepLens, SaveKeepsLens, ZmxKeepsLens, ReportKeepsLens,
   WaitingKeepsLens DEF Next

LEMMA LensKnown ==
  ASSUME LensInv
  PROVE  PrescriptionIsTheLensAnalysed
<1>1. ASSUME pc \in {"optimize", "models"}
      PROVE  OnlyVariedAirMoves
  <2> PICK start : start = createPrescription(text[1], use_glass_types)
    OBVIOUS
  <2>1. WithOtherAir(start)
    BY <1>1 DEF LensInv, FromText
  <2>2. \A m : m.nd = 0 => Medium(m) = Air
    BY DEF Medium
  <2>3. \A s \in DOMAIN start.p.surfaces, c \in Configurations(start.p) :
          thicknessOf(lens.p.surfaces[s], c) # thicknessOf(start.p.surfaces[s], c)
            => <<s, c>> \in moved /\ Medium(lens.media[s]) = Air
    BY <2>1, <2>2 DEF WithOtherAir
  <2> QED
    BY <2>3 DEF OnlyVariedAirMoves
<1>2. ASSUME NEW l, ImportedOK(l), NEW copy, copy = createWeightedPrescription(l)
      PROVE  SameLens(l, copy) /\ SameApertures(l, copy)
  <2>1. \A s \in DOMAIN l.p.surfaces :
          /\ copy.p.surfaces[s].cell = l.p.surfaces[s].cell
          /\ copy.p.surfaces[s].radius = l.p.surfaces[s].radius
          /\ SameMedium(l.media[s], copy.media[s])
          /\ \A c \in Configurations(l.p) :
               /\ thicknessOf(copy.p.surfaces[s], c) = thicknessOf(l.p.surfaces[s], c)
               /\ diameterOf(copy.p.surfaces[s], c) = diameterOf(l.p.surfaces[s], c)
    BY ONLY <1>2, LensReread
  <2> QED
    BY <2>1 DEF SameLens, SameApertures
<1>3. ASSUME pc = "zmx"
      PROVE  /\ SameLens(lens, output) /\ AperturesFit(output)
             /\ SameLens(output, Reread(output, TRUE)) /\ SameApertures(output, Reread(output, TRUE))
  <2> PICK l : l = output
    OBVIOUS
  <2>1. ImportedOK(l) /\ SameLens(lens, output) /\ AperturesFit(output)
    BY <1>3 DEF LensInv
  <2> PICK copy : copy = createWeightedPrescription(l)
    OBVIOUS
  <2>2. SameLens(l, copy) /\ SameApertures(l, copy)
    BY <1>2, <2>1
  <2>3. copy = Reread(output, TRUE)
    BY Zenon DEF createWeightedPrescription
  <2> QED
    BY <2>1, <2>2, <2>3, Zenon
<1>4. ASSUME pc = "report"
      PROVE  SameLens(lens, weighted) /\ SameApertures(lens, weighted)
  <2> PICK l : l = lens
    OBVIOUS
  <2>1. ImportedOK(l) /\ weighted = createWeightedPrescription(l)
    BY <1>4 DEF LensInv
  <2> QED
    BY <1>2, <2>1
<1> QED
  BY <1>1, <1>3, <1>4, Zenon DEF PrescriptionIsTheLensAnalysed

LEMMA FirstLenses ==
  ASSUME Init
  PROVE  LensInv /\ GlassInv
<1>1. LensesOnDisk
  BY SessionsAssumption DEF Init, LensesOnDisk
<1>2. pc = "idle" /\ text = <<>>
  BY DEF Init
<1> QED
  BY <1>1, <1>2 DEF LensInv, GlassInv, Steps

(***************************************************************************)
(* The prescription is the lens that is analysed: for any commands and     *)
(* files, any catalogue and any apertures, createPrescription's lens is the*)
(* lens of the text but for the air that runDefaultOptimizations varied,   *)
(* the prescription that is saved and read back is that lens, with the     *)
(* apertures its models' vignetting has set to the nearest unit of their   *)
(* last decimal, and so, with its own, is the copy the weighted MTFs are   *)
(* made from - but rows with the index of air that name a glass, which are *)
(* written as the glass.  The invariant follows the text: a lens           *)
(* on the disk, given glasses, moved by a trial or written by a run can be *)
(* read again, so that the round trip through to_opt_bench_str applies to  *)
(* the lens after every solve and to the one that is saved.                *)
(***************************************************************************)
THEOREM LensIsTheTexts == Spec => []PrescriptionIsTheLensAnalysed
<1>1. Init => ReportInv /\ LensInv
  BY EmptySeq, FirstLenses
     DEF Init, ReportInv, ShapeInv, TodoInv, LinksInv, ReportsAreOfTheirRun, Steps
<1>2. ReportInv /\ LensInv /\ [Next]_toolVars => ReportInv' /\ LensInv'
  BY ReportStep, LensStep
<1>3. LensInv => PrescriptionIsTheLensAnalysed
  BY LensKnown
<1> QED
  BY <1>1, <1>2, <1>3, PTL DEF Spec

(***************************************************************************)
(* Assigned glasses are found again: for any catalogue whose glasses are   *)
(* not near air, a row that enrich named leads the import to that one      *)
(* glass, no exact match is of a catalogue that is preferred, the numbers  *)
(* of a row converted from the e line are the glass's own, and assigning   *)
(* again changes nothing.  The text is what the disk held with its glasses *)
(* until a trial writes it anew; the sorted matches put the exact one of   *)
(* the first catalogue first, and what the row is searched by does not     *)
(* change when it is not named.                                            *)
(***************************************************************************)
THEOREM AssignedGlassesAreFound == Spec => []GlassesAreFoundAgain
<1>1. Init => ReportInv /\ KeepInv /\ LensInv /\ GlassInv
  BY EmptySeq, FirstLenses
     DEF Init, ReportInv, ShapeInv, TodoInv, LinksInv, ReportsAreOfTheirRun, Steps,
         KeepInv, RunsKeepOtherFiles
<1>2. ReportInv /\ KeepInv /\ LensInv /\ GlassInv /\ [Next]_toolVars
        => ReportInv' /\ KeepInv' /\ LensInv' /\ GlassInv'
  <2> SUFFICES ASSUME ReportInv, KeepInv, LensInv, GlassInv, [Next]_toolVars
               PROVE  ReportInv' /\ KeepInv' /\ LensInv' /\ GlassInv'
    OBVIOUS
  <2>1. ReportInv' /\ LensInv'
    BY ReportStep, LensStep
  <2>2. KeepInv'
    BY LoadKeepsFiles, TrialKeepsFiles, SavesKeepFiles, OthersKeepFiles DEF Next
  <2>3. GlassInv'
    BY GlassStep
  <2> QED
    BY <2>1, <2>2, <2>3
<1>3. GlassInv => GlassesAreFoundAgain
  BY GlassesKnown
<1> QED
  BY <1>1, <1>2, <1>3, PTL DEF Spec
=============================================================================
