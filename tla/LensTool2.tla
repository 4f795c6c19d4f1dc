----------------------------- MODULE LensTool2 -----------------------------
(***************************************************************************)
(* The command-line tools: LensTool2::run from the words of its command to *)
(* the report it leaves on the disk, with the routine optimisation of air  *)
(* spaces, and glassfinder.  Commands are given one after another on the   *)
(* same disk, so that a report is written over what earlier runs left.     *)
(* Every step that analyses or writes may throw, which ends the run with   *)
(* the files written so far; a file itself is written whole.               *)
(*                                                                         *)
(* A path is a directory and a name, a name its stem, suffix and extension;*)
(* what a directory word and a specfile word mean is a CONSTANT.  A file   *)
(* is a lens text - the Optical Bench text of Prescription (bench), the    *)
(* lines its glasses are in and the outdir of each trial - or an output,   *)
(* which stands for the run, the configuration and the model it is from,   *)
(* or a report with its links.                                             *)
(***************************************************************************)
EXTENDS Args, GlassFinder, OptimizationBuilder

CONSTANTS Sessions,    \* the commands that are typed, a program and groups of words each,
                       \* and the disk there is to begin with
          PathOf,      \* the path a word of the command line means
          Openings,    \* the diameters the vignetting may give a model's surfaces
          Grain        \* a unit of the last decimal an aperture is saved with, in the
                       \* units diameters are counted in

VARIABLES
  commands,       \* the commands that are left
  command, args,  \* the one that is running and its options
  pc,
  disk,           \* path -> file
  outcomes,       \* history: how the runs so far ended
  given,          \* history: the disk this run found
  specfile,       \* arguments.specfile, as a path
  text,           \* specText
  lens,           \* the prescription and the media its surfaces were imported with
  config,         \* the configuration being worked on
  moved,          \* history: <<surface, configuration>> the routine optimisation has varied
  models,         \* the diameters in the analysis model of each configuration
  output,         \* outputPrescription, like lens
  weighted,       \* prescriptionForWeightedMTF, like lens
  todo,           \* the files left for this configuration
  links           \* SB: what the report links to so far

lensVars == <<text, lens, config, moved, models, output, weighted, todo, links>>
toolVars == <<commands, command, args, pc, disk, outcomes, given, specfile, lensVars>>

-----------------------------------------------------------------------------
(* Files and their names. *)

Name(stem, suffix, ext) == [stem |-> stem, suffix |-> suffix, ext |-> ext]
suffixed_name(stem, suffix, ext) == Name(stem, suffix, ext)
replaceExtension(name, ext) == Name(name.stem, name.suffix, ext)
getOutputPathChangeExt(name, part) == Name(name.stem, name.suffix \o <<part>>, ".txt")

Run == Len(outcomes) + 1
LensFile(t, run) == [text |-> <<t>>, run |-> run, config |-> 0, of |-> "prescription", links |-> {}]
OutputFile(c, of) == [text |-> <<>>, run |-> Run, config |-> c, of |-> of, links |-> {}]

outdir == args.values.outdir
Given(flag) == flag \in args.flags

\* A mistake: an output beside the specfile, wherever the others go.
BesideTheSpecfile(name) == <<specfile[1], name>>

getOutputFileWithPath(name) ==
  <<IF outdir = Absent THEN specfile[1] ELSE PathOf[outdir.w][1], name>>

createOutputFile(path, file) ==
  disk' = [p \in DOMAIN disk \cup {path} |-> IF p = path THEN file ELSE disk[p]]

\* A mistake: the outputs of the second configuration replace the first's.
NoSuffix(p, c) == <<>>

ConfigSuffix(p, c) == IF Multi(p) THEN << <<"-", c - 1>> >> ELSE <<>>

-----------------------------------------------------------------------------
(* Lens texts with their glasses. *)

LensRows(lines) ==
  LET rows == Increasing({i \in DOMAIN lines : InLensData(lines, i) /\ lines[i].cell # "none"})
  IN [s \in DOMAIN rows |-> lines[rows[s]]]

createPrescription(t, use_glass_types) ==
  [p |-> build_prescription(t.bench),
   media |-> [s \in DOMAIN t.bench.rows |-> import_medium(LensRows(t.lines)[s], use_glass_types)]]

LensDataHeader == [section |-> LensData, cell |-> "none", rest |-> <<>>, nd |-> 0, vd |-> 0,
                   name |-> NoName, catalog |-> NoCatalog]

\* A prescription's text, and the sections of trials written behind it.
Written(l, trials) ==
  [bench |-> to_opt_bench_str(l.p),
   lines |-> <<LensDataHeader>> \o
     [s \in DOMAIN l.p.surfaces |-> medium_to_opt_bench_row(l.p.surfaces[s].cell, l.media[s])],
   trials |-> trials]

Reread(l, use_glass_types) == createPrescription(Written(l, <<>>), use_glass_types)

\* Texts that can be read: the lines of a text's glasses are its rows.
Stops == {"AS", "FS"}

IsLine(row) ==
  /\ row = [section |-> row.section, cell |-> row.cell, rest |-> row.rest, nd |-> row.nd,
             vd |-> row.vd, name |-> row.name, catalog |-> row.catalog]
  /\ IsList(row.rest) /\ row.nd \in Nat /\ row.vd \in Nat

IsLens(t) ==
  /\ t = [bench |-> t.bench, lines |-> t.lines, trials |-> t.trials]
  /\ IsText(t.bench)
  /\ IsList(t.lines) /\ \A i \in DOMAIN t.lines : IsLine(t.lines[i])
  /\ DOMAIN LensRows(t.lines) = DOMAIN t.bench.rows
  /\ \A s \in DOMAIN t.bench.rows :
       /\ LensRows(t.lines)[s].cell \in Stops <=> t.bench.rows[s].cell \in Stops
       /\ t.bench.rows[s].cell # "AS" => t.bench.rows[s].diameter \in Int

HoldsLens(file) == file.text = <<file.text[1]>> /\ IsLens(file.text[1])

ASSUME SessionsAssumption ==
  /\ Openings \subseteq Nat /\ Grain \in Nat \ {0}
  /\ \A session \in Sessions : \A path \in DOMAIN session.disk :
       session.disk[path].text # <<>> => HoldsLens(session.disk[path])

-----------------------------------------------------------------------------
(* A command and its end. *)

Fresh ==
  /\ text' = <<>> /\ lens' = <<>> /\ config' = 1 /\ moved' = {} /\ models' = <<>>
  /\ output' = <<>> /\ weighted' = <<>> /\ todo' = <<>> /\ links' = {}

Words(c) == FlattenSeq(c.groups)

\* What main runs; the other command lines end with a message.
Accepted(c) ==
  LET parsed == parseArguments(Words(c))
  IN /\ ArgumentsParse(Words(c))
     /\ parsed.values.specfile # Absent
     /\ c.program = "lenstool2" /\ "--update-specfile" \in parsed.flags
          => "--assign-glass-types" \in parsed.flags

Start ==
  /\ pc = "idle" /\ commands # <<>>
  /\ commands' = Tail(commands)
  /\ command' = Head(commands)
  /\ given' = disk
  /\ Fresh /\ UNCHANGED disk
  /\ IF Accepted(command')
     THEN /\ args' = parseArguments(Words(command'))
          /\ specfile' = PathOf[args'.values.specfile.w]
          /\ pc' = "load"
          /\ UNCHANGED outcomes
     ELSE /\ args' = <<>> /\ specfile' = <<>> /\ pc' = "idle"
          /\ outcomes' = Append(outcomes, "usage")

End(outcome) ==
  /\ pc' = "idle"
  /\ outcomes' = Append(outcomes, outcome)
  /\ UNCHANGED <<commands, command, args, given, specfile>>

\* An exception, wherever a file cannot be read or written, a lens cannot be
\* built or traced or a trial cannot be run.
Throw ==
  /\ pc # "idle"
  /\ End("failed")
  /\ UNCHANGED <<disk, lensVars>>

\* A step of LensTool2::run.
GoTo(label) ==
  /\ pc' = label
  /\ UNCHANGED <<commands, command, args, outcomes, given>>

Readable(path) == path \in DOMAIN disk /\ disk[path].text # <<>>

Enrichment(t) ==
  [t EXCEPT !.lines = enrich(@, Given("--force"), index_line_value(args), abbe_line_value(args))]

\* GlassFinder::run.
FindGlasses ==
  /\ pc = "load" /\ command.program = "glassfinder" /\ Readable(specfile)
  /\ text' = <<Enrichment(disk[specfile].text[1])>>
  /\ createOutputFile(IF args.values.outputFile # Absent THEN PathOf[args.values.outputFile.w]
                      ELSE <<specfile[1], Name("specs", <<>>, ".txt")>>,
                      LensFile(text'[1], Run))
  /\ End("done")
  /\ UNCHANGED <<lens, config, moved, models, output, weighted, todo, links>>

\* A mistake: the input is replaced whenever glasses are assigned.
AlwaysUpdates == Given("--assign-glass-types")

Updates == Given("--assign-glass-types") /\ Given("--update-specfile")

loadSpecText ==
  /\ pc = "load" /\ command.program = "lenstool2" /\ Readable(specfile)
  /\ LET onDisk == disk[specfile].text[1]
     IN text' = <<IF Given("--assign-glass-types") THEN Enrichment(onDisk) ELSE onDisk>>
  /\ IF Updates THEN createOutputFile(specfile, LensFile(text'[1], Run)) ELSE UNCHANGED disk
  /\ GoTo(IF args.values.optimize_trial # Absent THEN "trial" ELSE "import")
  /\ UNCHANGED <<specfile, lens, config, moved, models, output, weighted, todo, links>>

use_glass_types == ~Given("--dont-use-glass-types")

-----------------------------------------------------------------------------
(* A trial or a pipeline of the text, as Pipeline details it; here it moves *)
(* the first radius or leaves the lens as it is.                            *)

Stages(trials, n) == IF trials[n].stages = <<>> THEN {n} ELSE Range(trials[n].stages)

CanRun(trials, n) ==
  n \in DOMAIN trials /\ \A stage \in Stages(trials, n) :
                            stage \in DOMAIN trials /\ trials[stage].stages = <<>>

TrialDirectory(trial) ==
  IF outdir # Absent THEN PathOf[outdir.w][1] ELSE specfile[1] \o trial.outdir

\* What a trial may move the radius of a surface by, besides nothing.
Moves(surface) == IF surface.cell = "R" THEN {1} ELSE {}

runOptimizationTrial ==
  /\ pc = "trial"
  /\ LET t == text[1]
         n == args.values.optimize_trial.n
         trial == t.trials[n]
         before == createPrescription(t, use_glass_types)
         front == before.p.surfaces[1]
         kept == {n} \cup Stages(t.trials, n)
     IN /\ CanRun(t.trials, n) /\ Buildable(t.bench) /\ before.p.surfaces # <<>>
        /\ \E radius \in {front.radius} \cup {front.radius + step : step \in Moves(front)} :
             text' = <<Written([before EXCEPT !.p.surfaces[1].radius = radius],
                               [k \in kept |-> t.trials[k]])>>
        /\ specfile' = <<TrialDirectory(trial),
                         getOutputPathChangeExt(specfile[2],
                           <<IF trial.stages = <<>> THEN "-trial" ELSE "-pipeline", n>>)>>
        /\ createOutputFile(specfile', LensFile(text'[1], Run))
  /\ GoTo("import")
  /\ UNCHANGED <<lens, config, moved, models, output, weighted, todo, links>>

Import ==
  /\ pc = "import" /\ Buildable(text[1].bench)
  /\ lens' = createPrescription(text[1], use_glass_types)
  /\ GoTo(IF Given("--optimize") THEN "optimize" ELSE "models")
  /\ UNCHANGED <<specfile, disk, text, config, moved, models, output, weighted, todo, links>>

-----------------------------------------------------------------------------
(* runDefaultOptimizations: the air spaces, for one configuration after     *)
(* the other.                                                               *)

Airspace(l, s) == l.media[s].nd = 0

findBackFocusSurface(l) ==
  LET cover == {s \in DOMAIN l.p.surfaces : l.p.surfaces[s].cell = "CG"}
      blocks == {s \in cover : s - 1 \notin cover}
      candidate == IF cover = {} THEN Len(l.p.surfaces)
                   ELSE (CHOOSE s \in blocks : \A r \in blocks : r <= s) - 1
  IN IF candidate > 0 /\ Airspace(l, candidate) THEN {candidate} ELSE {}

variesByConfiguration(thicknesses) ==
  \E c \in DOMAIN thicknesses : thicknesses[c] # thicknesses[1]

\* A mistake: glass is varied with the air.
AllVariableThicknesses(l) ==
  {s \in DOMAIN l.p.surfaces : variesByConfiguration(l.p.surfaces[s].thickBy)}

findVariableThicknesses(l) ==
  {s \in DOMAIN l.p.surfaces : variesByConfiguration(l.p.surfaces[s].thickBy) /\ Airspace(l, s)}

Optimized(l) == IF Len(l.p.names) > 1 THEN findVariableThicknesses(l) ELSE findBackFocusSurface(l)

Variable(s) == <<"thickness", s - 1, config - 1>>
Thickness(l, s) == valueOf(l.p, Variable(s))

\* optimizeThicknesses, for one configuration: its constraints refuse a
\* thickness that is nought, and the solver moves what it will.
optimizeThicknesses ==
  /\ pc = "optimize"
  /\ IF Optimized(lens) = {}
     THEN /\ GoTo("models")
          /\ config' = 1
          /\ UNCHANGED <<lens, moved>>
     ELSE /\ \A s \in Optimized(lens) : Thickness(lens, s) # 0
          /\ \E changed \in SUBSET Optimized(lens) :
               LET order == Increasing(changed)
               IN lens' = [lens EXCEPT !.p =
                    WithValues(@, [i \in DOMAIN order |-> Variable(order[i])],
                               [i \in DOMAIN order |-> Thickness(lens, order[i]) + 1])]
          /\ moved' = moved \cup {<<s, config>> : s \in Optimized(lens)}
          /\ IF config \in 1 .. Len(lens.p.names) - 1
             THEN config' = config + 1 /\ GoTo("optimize")
             ELSE config' = 1 /\ GoTo("models")
  /\ UNCHANGED <<specfile, disk, text, models, output, weighted, todo, links>>

-----------------------------------------------------------------------------
(* The analysis models and what is saved of their apertures. *)

vig_type == args.values.vig_type.w

\* The surfaces whose apertures the models' vignetting sets.
Targets(p) ==
  CASE vig_type = "SetStopAperture" -> {s \in DOMAIN p.surfaces : p.surfaces[s].cell = "AS"}
    [] vig_type \in {"SetApertures", "SetFnum"} -> DOMAIN p.surfaces
    [] OTHER -> {}

\* createSystem, for every configuration.
BuildModels ==
  /\ pc = "models"
  /\ \E opening \in [Configurations(lens.p) ->
                      IF Targets(lens.p) = {} THEN {CHOOSE o \in Openings : TRUE} ELSE Openings] :
       models' = [c \in Configurations(lens.p) |-> [s \in DOMAIN lens.p.surfaces |->
                    IF s \in Targets(lens.p) THEN opening[c]
                    ELSE diameterOf(lens.p.surfaces[s], c)]]
  /\ GoTo("save")
  /\ UNCHANGED <<specfile, disk, text, lens, config, moved, output, weighted, todo, links>>

\* A mistake: what lies behind the last decimal is cut off.
cut_to(diameter) == (diameter \div Grain) * Grain

\* To the nearest unit of the last decimal, a half up.
round_to(diameter) == ((2 * diameter + Grain) \div (2 * Grain)) * Grain

\* What update_apertures_from takes from a model.
SavedAperture(c, s) == round_to(models[c][s])

\* A mistake: a shared aperture is what the last configuration left.
LastAperture(s) == SavedAperture(Len(models), s)

SharedAperture(s) == Max({SavedAperture(c, s) : c \in DOMAIN models})

\* Glass has one aperture for every configuration, the stop one for each.
WithApertures(surface, s) ==
  IF surface.cell # "AS" THEN [surface EXCEPT !.diameter = SharedAperture(s)]
  ELSE [surface EXCEPT !.diameter = SavedAperture(1, s),
                       !.diameterBy = IF Multi(lens.p) THEN [c \in DOMAIN models |-> SavedAperture(c, s)]
                                      ELSE <<>>]

prescriptionWithAnalysisApertures(l) ==
  LET copy == Reread(l, TRUE)
  IN [copy EXCEPT !.p.surfaces = [s \in DOMAIN @ |->
        IF s \in Targets(l.p) THEN WithApertures(@[s], s) ELSE @[s]]]

prescriptionOutput(l) == Written(l, <<>>)

SavePrescription ==
  /\ pc = "save" /\ CanWrite(lens.p)
  /\ output' = prescriptionWithAnalysisApertures(lens)
  /\ createOutputFile(getOutputFileWithPath(Name("prescription", <<>>, ".txt")),
                      LensFile(prescriptionOutput(output'), Run))
  /\ GoTo("zmx")
  /\ UNCHANGED <<specfile, text, lens, config, moved, models, weighted, todo, links>>

createWeightedPrescription(l) == Reread(l, TRUE)

-----------------------------------------------------------------------------
(* The outputs of one configuration, in the order they are written. *)

Out(stem, ext, of) == [stem |-> stem, ext |-> ext, of |-> of]
If(flag, outputs) == IF Given(flag) THEN outputs ELSE <<>>

doLayoutDiagrams ==
  <<Out("layout-fan", ".svg", "output"), Out("layoutonly", ".svg", "output"),
    Out("layout", ".svg", "output")>>

generateSpotDiagrams ==
  <<Out("spot-report", ".txt", "analysis"), Out("spot", ".svg", "analysis"),
    Out("spot-semi-skew", ".svg", "analysis"), Out("spot-skew", ".svg", "analysis")>>

PupilMaps(stems, of) == [i \in DOMAIN stems |-> Out(stems[i], ".svg", of)]

generatePupilMaps ==
  <<Out("pupil-report", ".txt", "analysis")>>
    \o PupilMaps(<<"pupil", "pupil-semi-skew", "pupil-skew">>, "analysis")

\* The second is of the wavelengths only the weighted model has.
MonochromaticMTFs(of) ==
  If("--output-wavelength-mtfs",
     <<Out("mtf-fld", ".svg", of)>>
       \o IF of = "weighted" THEN <<Out("mtf-fld-weighted", ".svg", of)>> ELSE <<>>)

generateMTFs(outname, of) ==
  MonochromaticMTFs(of) \o <<Out(outname, ".svg", of), Out(outname, ".csv", of)>>

generateRayAberrationPlots ==
  <<Out("rayabbr", ".svg", "analysis"), Out("opdabbr", ".svg", "analysis")>>

generateDiffractionMTFs(outname, of) == <<Out(outname, ".svg", of), Out(outname, ".csv", of)>>

generateContrastPupilMaps ==
  PupilMaps(<<"contrast-pupil", "contrast-pupil-semi-skew", "contrast-pupil-skew">>, "weighted")

ConfigOutputs ==
  <<Out("vig", ".txt", "analysis"), Out("paraxial", ".txt", "analysis")>>
  \o doLayoutDiagrams \o generateSpotDiagrams
  \o If("--output-pupil-maps", generatePupilMaps)
  \o generateMTFs("mtf", "analysis")
  \o If("--output-ray-aberration-plots", generateRayAberrationPlots)
  \o If("--output-diffraction-mtf", generateDiffractionMTFs("mtf-diffraction", "analysis"))
  \o generateMTFs("mtf-w", "weighted")
  \o If("--output-wavelength-mtf-report",
        <<Out("mtf-w-wavelength-report", ".txt", "weighted")>>)
  \o If("--output-contrast-report", <<Out("contrast-report-w", ".txt", "weighted")>>)
  \o If("--output-contrast-pupil-maps", generateContrastPupilMaps)
  \o If("--output-diffraction-mtf", generateDiffractionMTFs("mtf-diffraction-w", "weighted"))

\* A link of the report: a file beside it, and what the report says it shows.
Link(stem, suffix, c, of) == [name |-> suffixed_name(stem, suffix, ".svg"), config |-> c, of |-> of]

addLayoutsToREADME(suffix, c) ==
  {Link("layoutonly", suffix, c, "output"), Link("layout", suffix, c, "output")}
addSpotDiagramsToREADME(suffix, c) ==
  {Link(stem, suffix, c, "analysis") : stem \in {"spot", "spot-semi-skew", "spot-skew"}}
addMTFsToREADME(suffix, c) ==
  {Link("mtf", suffix, c, "analysis"), Link("mtf-w", suffix, c, "weighted")}

\* The Zemax file, and the start of the report.
SaveZmx ==
  /\ pc = "zmx"
  /\ createOutputFile(getOutputFileWithPath(replaceExtension(specfile[2], ".zmx")),
                      OutputFile(0, "prescription"))
  /\ weighted' = createWeightedPrescription(lens)
  /\ todo' = ConfigOutputs
  /\ GoTo("report")
  /\ UNCHANGED <<specfile, text, lens, config, moved, models, output, links>>

Suffix == ConfigSuffix(lens.p, config)

WriteOutput ==
  /\ pc = "report" /\ todo # <<>>
  /\ createOutputFile(getOutputFileWithPath(suffixed_name(Head(todo).stem, Suffix, Head(todo).ext)),
                      OutputFile(config, Head(todo).of))
  /\ todo' = Tail(todo)
  /\ GoTo("report")
  /\ UNCHANGED <<specfile, text, lens, config, moved, models, output, weighted, links>>

\* A field whose bundle cannot be bounded costs its own pupil map; a contrast
\* that cannot be evaluated at any frequency costs all the contrast maps.
SkipMaps ==
  /\ pc = "report" /\ todo # <<>>
  /\ \/ /\ Head(todo).stem \in {"pupil", "pupil-semi-skew", "pupil-skew"}
        /\ todo' = Tail(todo)
     \/ /\ Head(todo).stem = "contrast-pupil"
        /\ todo' = SubSeq(todo, 4, Len(todo))
  /\ GoTo("report")
  /\ UNCHANGED <<specfile, disk, text, lens, config, moved, models, output, weighted, links>>

NextConfig ==
  /\ pc = "report" /\ todo = <<>>
  /\ links' = links \cup addLayoutsToREADME(Suffix, config)
                   \cup addSpotDiagramsToREADME(Suffix, config)
                   \cup addMTFsToREADME(Suffix, config)
  /\ IF config \in 1 .. Len(lens.p.names) - 1
     THEN config' = config + 1 /\ todo' = ConfigOutputs /\ GoTo("report")
     ELSE UNCHANGED <<config, todo>> /\ GoTo("readme")
  /\ UNCHANGED <<specfile, disk, text, lens, moved, models, output, weighted>>

Resources ==
  {[name |-> Name("prescription", <<>>, ".txt"), config |-> 0, of |-> "prescription"],
   [name |-> replaceExtension(specfile[2], ".zmx"), config |-> 0, of |-> "prescription"]}

createREADME ==
  /\ pc = "readme"
  /\ createOutputFile(getOutputFileWithPath(Name("README", <<>>, ".md")),
                      [OutputFile(0, "report") EXCEPT !.links = links \cup Resources])
  /\ End("done")
  /\ UNCHANGED lensVars

-----------------------------------------------------------------------------
Init ==
  /\ \E session \in Sessions : commands = session.commands /\ disk = session.disk
  /\ given = disk
  /\ command = <<>> /\ args = <<>> /\ specfile = <<>>
  /\ pc = "idle" /\ outcomes = <<>>
  /\ text = <<>> /\ lens = <<>> /\ config = 1 /\ moved = {} /\ models = <<>>
  /\ output = <<>> /\ weighted = <<>> /\ todo = <<>> /\ links = {}

Next ==
  \/ Start \/ Throw \/ FindGlasses \/ loadSpecText \/ runOptimizationTrial \/ Import
  \/ optimizeThicknesses \/ BuildModels \/ SavePrescription \/ SaveZmx
  \/ WriteOutput \/ SkipMaps \/ NextConfig \/ createREADME

Spec == Init /\ [][Next]_toolVars

-----------------------------------------------------------------------------
(* What the tools promise. *)

(***************************************************************************)
(* The report of a run that ended well links to files that this run wrote, *)
(* each from the configuration and the model the report says, whatever an  *)
(* earlier or a failed run left beside them.                               *)
(***************************************************************************)
ReportPath == getOutputFileWithPath(Name("README", <<>>, ".md"))

ReportsAreOfTheirRun ==
  pc = "idle" /\ outcomes # <<>> /\ command.program = "lenstool2"
    /\ outcomes[Len(outcomes)] = "done" =>
    \A link \in disk[ReportPath].links :
      LET path == getOutputFileWithPath(link.name)
      IN /\ path \in DOMAIN disk
         /\ disk[path].run = Len(outcomes)
         /\ disk[path].config = link.config /\ disk[path].of = link.of

(***************************************************************************)
(* A run changes no file outside its output directory - the one it is      *)
(* given, or its specfile's or its trial's - and replaces no lens there but*)
(* one that has the name of an output, the result of its trial, and with   *)
(* --update-specfile its input (the comment in LensTool2::run on the Zemax *)
(* file).                                                                  *)
(***************************************************************************)
Input == PathOf[args.values.specfile.w]
Changed == {path \in DOMAIN disk : path \notin DOMAIN given \/ disk[path] # given[path]}

\* What the command itself says may be replaced.
Replaceable(path) ==
  \/ Input = path /\ {"--assign-glass-types", "--update-specfile"} \subseteq args.flags
  \/ args.values.optimize_trial # Absent /\ path = specfile

NamedLikeAnOutput(name) ==
  \/ name \in {Name("prescription", <<>>, ".txt"), Name("README", <<>>, ".md"),
               replaceExtension(specfile[2], ".zmx")}
  \/ \E o \in Range(ConfigOutputs) : name.stem = o.stem /\ name.ext = o.ext

RunsKeepOtherFiles ==
  args # <<>> /\ command.program = "lenstool2" =>
    \A path \in {q \in Changed : ~Replaceable(q)} :
      /\ path[1] = IF outdir # Absent THEN PathOf[outdir.w][1] ELSE specfile[1]
      /\ path \in DOMAIN given /\ given[path].text # <<>> => NamedLikeAnOutput(path[2])

(***************************************************************************)
(* The lens that is analysed is the lens of the text, but for the air      *)
(* spaces the routine optimisation varied, each in its own configuration;  *)
(* and what is saved of it and what the weighted MTFs are computed from    *)
(* are that lens, in every configuration, with its media - but a row with  *)
(* the index of air that names a glass, which is air to the analysis       *)
(* models, is written as the glass.  The apertures the vignetting has set  *)
(* are saved to the nearest unit of their last decimal: the stop's are     *)
(* those of the models, and glass has the largest of them, each within     *)
(* half a unit; the others are saved as they are.                          *)
(***************************************************************************)
NamedAir(m) == m.nd = 100000 /\ m.name # NoName

SameMedium(m, n) ==
  Medium(n) = IF NamedAir(m)
              THEN [glass |-> glass_by_catalog_name(m.catalog, m.name), nd |-> 0, vd |-> 0]
              ELSE Medium(m)

SameLens(a, b) ==
  \A s \in DOMAIN a.p.surfaces :
    /\ a.p.surfaces[s].cell = b.p.surfaces[s].cell
    /\ a.p.surfaces[s].radius = b.p.surfaces[s].radius
    /\ SameMedium(a.media[s], b.media[s])
    /\ \A c \in Configurations(a.p) :
         thicknessOf(a.p.surfaces[s], c) = thicknessOf(b.p.surfaces[s], c)

SameApertures(a, b) ==
  \A s \in DOMAIN a.p.surfaces, c \in Configurations(a.p) :
    diameterOf(a.p.surfaces[s], c) = diameterOf(b.p.surfaces[s], c)

OnlyVariedAirMoves ==
  LET start == createPrescription(text[1], use_glass_types)
  IN \A s \in DOMAIN start.p.surfaces, c \in Configurations(start.p) :
       thicknessOf(lens.p.surfaces[s], c) # thicknessOf(start.p.surfaces[s], c)
         => <<s, c>> \in moved /\ Medium(lens.media[s]) = Air

\* Whether an aperture is as large as another, but for the rounding.
AsLarge(a, b) == 2 * b <= 2 * a + Grain

ApertureFits(surface, s) ==
  IF s \notin Targets(lens.p) THEN \A c \in DOMAIN models : diameterOf(surface, c) = models[c][s]
  ELSE /\ \A c \in DOMAIN models : AsLarge(diameterOf(surface, c), models[c][s])
       /\ IF surface.cell = "AS"
          THEN \A c \in DOMAIN models : AsLarge(models[c][s], diameterOf(surface, c))
          ELSE \E c \in DOMAIN models : AsLarge(models[c][s], diameterOf(surface, c))

AperturesFit(saved) ==
  \A s \in DOMAIN saved.p.surfaces : ApertureFits(saved.p.surfaces[s], s)

PrescriptionIsTheLensAnalysed ==
  /\ pc \in {"optimize", "models"} => OnlyVariedAirMoves
  /\ pc = "zmx" =>
       /\ SameLens(lens, output) /\ AperturesFit(output)
       /\ SameLens(output, Reread(output, TRUE)) /\ SameApertures(output, Reread(output, TRUE))
  /\ pc = "report" => SameLens(lens, weighted) /\ SameApertures(lens, weighted)

(***************************************************************************)
(* Once glasses are assigned, the names lead the import to one glass, one  *)
(* of the preferred catalogue where several match exactly; a row converted *)
(* from the e line has the glass's own numbers; and assigning again        *)
(* changes nothing.                                                        *)
(***************************************************************************)
NewlyNamed(i) ==
  InLensData(text[1].lines, i) /\ Searched(given[Input].text[1].lines[i], Given("--force"))
    /\ text[1].lines[i].name # given[Input].text[1].lines[i].name

PreferredGlass(g, row) ==
  \A m \in Matches(row.nd, row.vd, index_line_value(args), abbe_line_value(args)) :
    m.exact => catalog_rank(g.catalog) <= catalog_rank(m.glass.catalog)

FoundAgain(row, before) ==
  LET found == glass_by_catalog_name(get_catalog_name(row.catalog), row.name)
  IN /\ Cardinality(found) = 1
     /\ Medium(import_medium(row, TRUE)).glass = found
     /\ \A g \in found :
          /\ PreferredGlass(g, before)
          /\ "e" \in {index_line_value(args), abbe_line_value(args)}
               => row.nd = g.nd /\ row.vd = g.vd

GlassesAreFoundAgain ==
  text # <<>> /\ pc \in {"idle", "trial", "import"}
    /\ (args.values.optimize_trial = Absent \/ pc = "trial")
    /\ (command.program = "glassfinder" \/ Given("--assign-glass-types")) =>
    /\ \A i \in DOMAIN text[1].lines :
         NewlyNamed(i) => FoundAgain(text[1].lines[i], given[Input].text[1].lines[i])
    /\ ~Given("--force") => Enrichment(text[1]) = text[1]

(***************************************************************************)
(* A command that gives no option twice, an option with its value together,*)
(* means the same in any other order of its options - except that where    *)
(* --optimize without a trial comes right before -o it takes that for the  *)
(* number of its trial, -o having one dash only, and the command is        *)
(* refused.                                                                *)
(***************************************************************************)
Exchanged(c, i, j) == [c EXCEPT !.groups[i] = c.groups[j], !.groups[j] = c.groups[i]]

\* What a group of words sets.
Setting(group) ==
  IF Len(group) > 1 THEN FieldOf[group[1].w]
  ELSE IF group[1].w \in {"--real-ray-aiming", "--paraxial-ray-aiming"} THEN "real_ray_aiming"
  ELSE group[1].w

NothingTwice(c) == \A i, j \in DOMAIN c.groups : Setting(c.groups[i]) = Setting(c.groups[j]) => i = j

TakesTheOutputForATrial(c) ==
  \E i \in 1 .. Len(c.groups) - 1 :
    c.groups[i] = <<Word("--optimize")>> /\ c.groups[i + 1][1] = Word("-o")

OrderOfOptionsIsFree ==
  pc = "load" /\ NothingTwice(command) =>
    \A i, j \in DOMAIN command.groups :
      LET other == Exchanged(command, i, j)
      IN IF TakesTheOutputForATrial(other) THEN ~ArgumentsParse(Words(other))
         ELSE Accepted(other) /\ parseArguments(Words(other)) = args
=============================================================================
