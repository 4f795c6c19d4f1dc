----------------------------- MODULE MCPipeline -----------------------------
(* Files for Pipeline: small lenses in each form the format has, and menus   *)
(* for the lines of their trials.                                            *)
EXTENDS Pipeline

Lens(odd, a2, variableRows, rows, asph, scenarios) ==
  [odd |-> odd, a2 |-> a2,
   variables |-> [name \in {row[1] : row \in variableRows} |->
                    (CHOOSE row \in variableRows : row[1] = name)[2]],
   rows |-> rows, asph |-> asph, scenarios |-> scenarios,
   names |-> [i \in DOMAIN scenarios |-> i]]

R(id, cell, radius, var, thickness) ==
  [id |-> id, cell |-> cell, radius |-> radius, var |-> var, thickness |-> thickness,
   diameter |-> 4]

\* A singlet, the stop and a rear surface.
Plain == <<R(1, "R", 50, NoVar, 2), R(2, "AS", 0, NoVar, 3), R(3, "R", -50, NoVar, 30)>>
Asph(id, k, data) == [id |-> id, k |-> k, data |-> data]
One == {<<FirstOrder, <<50>> >>}

Spheres == Lens(0, FALSE, One, Plain, <<>>, <<>>)
EvenLens == Lens(0, FALSE, One, Plain, <<Asph(1, 1, <<3, 4>>)>>, <<>>)
A2Lens == Lens(0, TRUE, One, Plain, <<Asph(3, 0, <<2, 3>>)>>, <<>>)
RadialLens == Lens(1, FALSE, One, Plain, <<Asph(1, 0, <<3, 4, 6>>)>>, <<>>)
CoverLens == Lens(0, FALSE, One, Append(SubSeq(Plain, 1, 2), R(3, "CG", 0, NoVar, 30)), <<>>, <<>>)

\* Three scenarios in the file, two of them configured, in another order.
ZoomRows == <<R(1, "R", 50, <<"Zoom", 0>>, 0), R(2, "AS", 0, NoVar, 3), R(3, "R", -50, Bf, 0)>>
ZoomVariables == {<<FirstOrder, <<50, 60, 70>> >>, << <<"Zoom", 0>>, <<1, 2, 5>> >>,
                  <<Bf, <<30, 31, 32>> >>, <<ApertureDiameter, <<4, 5, 6>> >>}
ZoomLens == Lens(0, FALSE, ZoomVariables, ZoomRows, <<Asph(3, 0, <<3>>)>>, <<2, 0>>)
PickedLens == Lens(0, FALSE, ZoomVariables, ZoomRows, <<>>, <<1>>)

-----------------------------------------------------------------------------
Job(lens, headers, number, ofPipeline, menus) ==
  [text |-> lens, lens |-> [s \in DOMAIN lens.rows |-> lens.rows[s].cell],
   headers |-> headers, number |-> number, stages |-> ofPipeline, menus |-> menus]

Trial1 == << <<"trial", 1>> >>
TwoStages == << <<"trial", 1>>, <<"trial", 2>>, <<"pipeline", 7>> >>

Or(row) == {Absent, row}
N(key, nums) == numbers(key, 0, nums)
Fields == {N("fields", <<0, 2>>)}
RayGoal == {N("goal ray-aberrations", <<1>>)}
Select(key, word, nums) == line(key, 0, word, nums, <<>>)
Aspheric(s, indices, scales) == line("vary aspherics", s, "", indices, scales)

\* Contrast goals, their weights, balance and settings.
ContrastMenu ==
  <<{N("fields", <<0, 2>>), N("fields", <<0, 1, 2>>)}, {N("wavelengths", <<3>>)},
    {N("goal contrast", <<20>>), N("goal contrast", <<20, 40>>)},
    Or(N("goal contrast sag", <<2, 1>>)),
    Or(numbers("goal contrast sag", 40, <<1, 2>>)),
    {Absent, N("goal contrast tan", <<3, 1>>), N("goal contrast tan", <<1, 1>>)},
    Or(numbers("goal contrast tan", 20, <<1, 1>>)),
    {Absent, line("goal contrast balance", 0, "all", <<>>, <<>>),
     line("goal contrast balance", 0, "except", <<2>>, <<4>>),
     line("goal contrast balance", 0, "flags", <<0, 0>>, <<>>),
     line("goal contrast balance", 0, "flags", <<0, 1>>, <<>>)},
    {Absent, N("goal contrast sampling", <<2, 3>>), N("goal contrast sampling", <<1, 2>>)},
    Or(N("goal contrast calibrate", <<1>>)),
    Or(N("goal contrast exit-pupil-aiming", <<1>>))>>

\* Spot goals and the pattern they are taken over.
SpotMenu ==
  <<Fields, {N("wavelengths", <<2, 3>>)}, Or(N("goal spot-rms", <<3, 4>>)), Or(N("goal spot-rms weights", <<1, 2>>)),
    {Absent, N("goal spot-max-radius", <<3, 4>>)}, Or(N("goal spot-max-radius weights", <<2, 2>>)),
    {Absent, N("goal spot-deviation", <<1, 1>>)},
    Or(N("goal spot-deviation x", <<1, 2>>)), Or(N("goal spot-deviation y", <<2, 2>>)),
    {Absent, line("goal spot sampling gaussian", 0, "", <<2, 3>>, <<1>>),
     N("goal spot sampling gaussian", <<2, 2>>)},
    Or(N("goal spot sampling hexapolar", <<4>>)),
    Or(N("check-spot-apertures", <<0>>)), Or(numbers("goal mtf sag", 20, <<50, 40>>)),
    Or(numbers("goal mtf tan", 20, <<50, 30>>))>>

\* MTF goals at two frequencies, and the settings outside the goals.
MtfMenu ==
  <<Or(N("configuration", <<1>>)), Fields,
    {Absent, line("vignetting", 0, "none", <<>>, <<>>), line("vignetting", 0, "none", <<>>, <<1>>)},
    Or(N("solver ftol", <<2>>)),
    {numbers("goal mtf sag", 20, <<50, 40>>)}, {numbers("goal mtf tan", 20, <<50, 30>>)},
    {Absent, numbers("goal mtf sag", 10, <<50, 40>>), numbers("goal mtf sag", 20, <<9, 9>>)},
    Or(numbers("goal mtf tan", 10, <<60, 60>>)),
    {Absent, numbers("goal mtf weights", 20, <<2, 1>>), numbers("goal mtf weights", 20, <<2>>)},
    Or(numbers("goal mtf sag weights", 20, <<1, 3>>)),
    {Absent, numbers("goal mtf tan weights", 20, <<2, 1>>)},
    Or(N("wavelengths", <<3>>)),
    Or(line("goal paraxial", 9, "", <<8>>, <<>>)),
    Or(line("goal paraxial", 0, "", <<51>>, <<2>>)),
    Or(Select("vary curvatures", "except", <<0>>))>>

\* The first stage of a pipeline, and the second.
VaryFirst(configuration) ==
  <<Fields, {N("configuration", <<configuration>>)}, Or(N("goal ray-aberrations", <<1>>)),
    {Select("vary curvatures", "all", <<>>), Select("vary curvatures", "list", <<2>>)},
    {Absent, Select("vary thicknesses", "list", <<0>>)},
    {Absent, Aspheric(0, <<1>>, <<0>>), Aspheric(0, <<3, -1>>, <<0, 0>>),
     Aspheric(2, <<2, 4>>, <<5, 5>>)}, {N("constrain edges", <<1>>)}>>

VarySecond ==
  <<Fields, RayGoal, {Absent, Select("vary thicknesses", "all", <<>>)},
    Or(N("vary aspherics existing", <<>>)),
    {Absent, Aspheric(0, <<1>>, <<0>>), Aspheric(2, <<-1, 2>>, <<0, 0>>)}>>

\* Sections the tool refuses: numbers used twice, a stage that is a pipeline
\* or is missing, no stages.
Refused ==
  {Job(Spheres, headers, 7, named_stages, [n \in {1, 7} |-> <<Fields>>]) :
     headers \in {<< <<"trial", 7>>, <<"pipeline", 7>> >>, << <<"trial", 1>>, <<"trial", 1>> >>,
                  << <<"pipeline", 7>>, <<"pipeline", 8>> >>},
     named_stages \in {<<8>>, <<1>>, <<>>}}

Pair(lens, configuration) ==
  Job(lens, TwoStages, 7, <<1, 2>>, <<VaryFirst(configuration), VarySecond>>)

\* Trials of spot goals alone.
SpotJobs == {Job(Spheres, Trial1, 1, <<>>, <<SpotMenu>>)}

\* The last job's second stage is followed by the first again.
MCJobs ==
  SpotJobs
  \cup {Job(Spheres, Trial1, 1, <<>>, <<ContrastMenu>>), Job(ZoomLens, Trial1, 1, <<>>, <<MtfMenu>>)}
  \cup {Pair(lens, 0) : lens \in {EvenLens, A2Lens, CoverLens, PickedLens}}
  \cup {Pair(ZoomLens, 1), [Pair(RadialLens, 0) EXCEPT !.stages = <<1, 2, 1>>]}
  \cup Refused

MCCrossings == {{}, {0}}

\* No ray, some of every pattern, all of the second field.
Rays ==
  {<<pattern, f, w, sample, o>> : pattern \in {"gauss", "fan"}, f \in 1..3, w \in 1..2,
                                  sample \in 0..5, o \in 0..2}
  \cup {<<"contrast", f, w, <<i, sample>>, o>> : f \in 1..3, w \in 1..2, i \in 1..2,
                                              sample \in 0..5, o \in 0..2}
SampleOf(ray) == IF ray[1] = "contrast" THEN ray[4][2] ELSE ray[4]

MCFailures ==
  {{}, {ray \in Rays : (ray[2] + ray[3] + SampleOf(ray) + ray[5]) % 5 = 0},
   {ray \in Rays : ray[2] = 2}}
=============================================================================
