----------------------------- MODULE MCLensTool -----------------------------
(* Commands and files for LensTool2: a prime and a zoom of three surfaces    *)
(* and a stop, and a catalogue in which numbers have an exact glass, several,*)
(* none but a near one, several near ones, or nothing.                       *)
EXTENDS LensTool2

Glass_(catalog, label, nd, ne, vd, ve) ==
  [catalog |-> catalog, label |-> label, nd |-> nd, ne |-> ne, vd |-> vd, ve |-> ve]

\* Labels 1 and 4 are twins of two makers, 2 has two makers too.
MCCatalogue ==
  {Glass_("Schott", 1, 151680, 151872, 6417, 6396), Glass_("Hoya", 4, 151681, 151872, 6410, 6390),
   Glass_("Schott", 2, 180610, 181184, 4090, 4063), Glass_("CDGM", 2, 181600, 182017, 4657, 4632),
   Glass_("Ohara", 3, 170000, 170556, 3000, 2980), Glass_("Hikari", 5, 170300, 170861, 3010, 2990)}

MCSpellings == "schott" :> "Schott" @@ [c \in {catalog_priority[i] : i \in 1 .. 7} |-> c]

Line(cell, nd, vd, name, catalog) ==
  [section |-> "", cell |-> cell, rest |-> <<>>, nd |-> nd, vd |-> vd, name |-> name,
   catalog |-> catalog]
Section(title) == [LensDataHeader EXCEPT !.section = title]

\* A row like lens data in another section, and the lens.
Lines(front, rear) ==
  <<Section("variable distances"), Line("7", 151680, 6417, 0, ""), LensDataHeader, front,
    Line("AS", 0, 0, 0, ""), rear, Section("constants"), Line("9", 180610, 4090, 0, "")>>

NoGlass == Line("1", 0, 0, 0, "")
Exact == Line("1", 151680, 6417, 0, "")
ExactE == Line("1", 151872, 6417, 0, "")
Named == Line("1", 180610, 4090, 2, "schott")
Misnamed == Line("1", 180610, 4090, 2, "Acme")
NamedAtIndexOne == Line("1", 100000, 0, 2, "schott")
Near == [Line("1", 180700, 4090, 0, "") EXCEPT !.rest = << <<>>, << <<>> >> >>]
Ambiguous == Line("1", 170150, 3005, 0, "")

-----------------------------------------------------------------------------
R(id, cell, var, thickness, diameter) ==
  [id |-> id, cell |-> cell, radius |-> 0, var |-> var, thickness |-> thickness,
   diameter |-> diameter]
NoStages == <<>>
Trial(stages, subdirectory) == [stages |-> stages, outdir |-> subdirectory]
MCTrials == 0 :> Trial(<<>>, <<>>) @@ 1 :> Trial(<<>>, <<"sub">>) @@ 2 :> Trial(<<0, 1, 0>>, <<>>)

Prime(front, cell) ==
  [bench |-> [odd |-> 0, a2 |-> FALSE, variables |-> FirstOrder :> <<50>>, asph |-> <<>>,
              rows |-> <<R(1, "R", NoVar, 2, 8), R(2, "AS", NoVar, 3, 4),
                         R(3, IF cell = "CG" THEN cell ELSE "R", NoVar, 30, 8)>>,
              scenarios |-> <<>>, names |-> <<>>],
   trials |-> MCTrials, lines |-> Lines(front, [NoGlass EXCEPT !.cell = cell])]

\* The glass of the zoom varies too, and an air space that is the same at first.
Zoom(front, scenarios) ==
  [Prime(front, "3") EXCEPT
     !.bench.variables = FirstOrder :> <<50, 60, 70>> @@ d(1) :> <<2, 3, 2>> @@ d(2) :> <<3, 5, 3>>
                     @@ Bf :> <<30, 31, 30>> @@ ApertureDiameter :> <<4, 5, 4>>,
     !.bench.rows = <<R(1, "R", d(1), 0, 8), R(2, "AS", d(2), 0, 4), R(3, "R", Bf, 0, 8)>>,
     !.bench.scenarios = scenarios, !.bench.names = [i \in DOMAIN scenarios |-> i]]

Home == <<"home">>
LensPath == <<Home, Name("lens", <<>>, ".txt")>>
ZoomPath == <<Home, Name("zoom", <<>>, ".txt")>>
PrescriptionPath == <<Home, Name("prescription", <<>>, ".txt")>>
TrialPath == <<Home, Name("lens", << <<"-trial", 0>> >>, ".txt")>>

MCPathOf ==
  [w \in {"lens.txt", "zoom.txt", "prescription.txt", "lens-trial0.txt", "specs.txt", "reports",
          "home"} |->
     CASE w = "lens.txt" -> LensPath [] w = "zoom.txt" -> ZoomPath
       [] w = "prescription.txt" -> PrescriptionPath [] w = "lens-trial0.txt" -> TrialPath
       [] w = "specs.txt" -> <<Home, Name("specs", <<>>, ".txt")>>
       [] w = "home" -> <<Home, Name("", <<>>, "")>>
       [] w = "reports" -> << <<"reports">>, Name("", <<>>, "")>>]

Disk(lens_, zoom) == LensPath :> LensFile(lens_, 0) @@ ZoomPath :> LensFile(zoom, 0)

Disks ==
  {Disk(Prime(front, "3"), Zoom(Named, <<0, 1>>)) : front \in {Exact, ExactE, Misnamed, Near, Ambiguous}}
PlainDisk == Disk(Prime(Near, "3"), Zoom(Named, <<0, 1>>))
AirDisk == Disk(Prime(NamedAtIndexOne, "3"), Zoom(NamedAtIndexOne, <<0, 1>>))
CoverDisk == Disk(Prime(NoGlass, "CG"), Zoom(NoGlass, <<2, 1, 0>>))
\* In quarters of the last decimal: one is rounded down to 4, one up to 12.
MCOpenings == {5, 11}

-----------------------------------------------------------------------------
Flag(f) == <<Word(f)>>
Give(option, text_) == <<Word(option), Word(text_)>>
Lens == Give("--specfile", "lens.txt")
ZoomFile == Give("--specfile", "zoom.txt")
To == Give("--outdir", "reports")
To_o == Give("-o", "zoom.txt")
Optimize == Flag("--optimize")
TrialNumber(n) == <<Word("--optimize"), Number(n)>>
Vig(type) == Give("--vig-type", type)
E_ == Give("--index-line", "e")
Assign == Flag("--assign-glass-types")
Update == Flag("--update-specfile")

Tool(groups) == [program |-> "lenstool2", groups |-> groups]
Finder(groups) == [program |-> "glassfinder", groups |-> groups]

Everything ==
  <<Lens, Flag("--output-pupil-maps"), Flag("--output-wavelength-mtfs"),
    Flag("--output-ray-aberration-plots"), Flag("--output-diffraction-mtf"),
    Flag("--output-wavelength-mtf-report"), Flag("--output-contrast-report"),
    Flag("--output-contrast-pupil-maps")>>

\* One command alone, with what it may choose.
Alone ==
  {Tool(<<ZoomFile, Optimize>>), Tool(<<ZoomFile, Vig("SetApertures")>>),
   Tool(<<ZoomFile, Vig("SetFnum"), To>>),
   Tool(<<ZoomFile, Vig("SetStopAperture")>>), Tool(<<Optimize, Lens, Vig("SetFnum")>>),
   Tool(<<Lens, Flag("--paraxial-ray-aiming"), Vig("None"), Optimize>>),
   Tool(<<Lens, To_o, Optimize>>), Tool(<<Lens, Optimize, To_o>>), Finder(<<ZoomFile, Lens>>),
   Tool(<<Lens, Update>>), Tool(<<Lens, TrialNumber(-1)>>), Tool(<<Assign>>)}

\* Two after each other.
Pairs ==
  {<<Tool(<<Lens>>), Tool(<<Lens, TrialNumber(0)>>)>>,
   <<Tool(<<Lens, To>>), Tool(<<ZoomFile, To>>)>>,
   <<Tool(<<ZoomFile>>), Tool(<<Give("--specfile", "prescription.txt")>>)>>,
   <<Tool(<<Lens, TrialNumber(0)>>), Tool(<<Give("--specfile", "lens-trial0.txt"), TrialNumber(0), To>>)>>}

\* Glasses: assigned once and again, in the tool and in the finder, and the
\* wrong number of a trial.
GlassRuns ==
  {<<Finder(<<Lens>> \o line_ \o force), Finder(<<Give("--specfile", "specs.txt")>> \o line_)>> :
     line_ \in {<<>>, <<E_>>, <<E_, Give("--abbe-line", "e")>>}, force \in {<<>>, <<Flag("--force")>>}}
  \cup {<<Tool(<<Assign, E_, Lens, Update>>), Tool(<<Lens, Assign, Flag("--dont-use-glass-types")>>)>>,
        <<Tool(<<Assign, Lens, TrialNumber(1)>>)>>, <<Tool(<<Lens, Assign, TrialNumber(2), To>>)>>,
        <<Finder(<<Lens, To_o>>), Tool(<<ZoomFile>>)>>}

On(disk_, sequences) == {[commands |-> c, disk |-> disk_] : c \in sequences}

MCSessions ==
  On(PlainDisk, Pairs) \cup On(PlainDisk, {<<Tool(Everything)>>})
  \cup On(CoverDisk, {<<c>> : c \in Alone}) \cup On(PlainDisk, {<<c>> : c \in Alone})
  \cup On(AirDisk, {<<Tool(<<Lens>>)>>, <<Tool(<<ZoomFile, Flag("--dont-use-glass-types")>>)>>})
  \cup UNION {On(disk_, GlassRuns) : disk_ \in Disks}
=============================================================================
