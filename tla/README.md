# Verification of rayoptics-cpp

TLA+ models of rayoptics-cpp: the caches, parallel lists, searches, solvers,
retries and restores in it, the programs that string its analyses together, the
texts that travel between its tools, and the numerical algorithms that can be
evaluated exactly. TLC checks them on small instances, and TLAPS proofs show the
results that hold for every size. Paths below are relative to `src/`.

- [1. The system](#1-the-system)
- [2. Modules and how they correspond to the code](#2-modules-and-how-they-correspond-to-the-code)
- [3. What is checked](#3-what-is-checked)
- [4. What is proved](#4-what-is-proved)
- [5. Findings and observations](#5-findings-and-observations)
- [6. What is abstracted, what is left out](#6-what-is-abstracted-what-is-left-out)
- [7. Plan](#7-plan)

## 1. The system

rayoptics-cpp traces rays through lens systems, analyses the image (spots, fans,
contrast, diffraction MTF) and optimises prescriptions. It is a single-threaded
C++20 port of a Java program (Beam42), itself following the Python RayOptics.
What makes it hard is therefore not concurrency but **shared mutable state under
long call sequences, with exceptions in the middle**: every component keeps
references into the state of another, and one call's leavings are the next
call's input.

| Component | State | Operations | Interacts with | Hard, and what makes it correct |
|---|---|---|---|---|
| Path cache (`include/redukti/rayoptics/seq/PathCache.h`) | ring of slots, `next_` | `find`, `store`, `clear` | callers hold references into it while tracing | a store overwrites a slot whose reference may be held. Correct when a held reference reads the path it was given for. |
| Sequential model (`src/rayoptics/seq/SequentialModel.cpp`, list helpers in `util/Lists.h`) | seven parallel lists (`ifcs`, `gaps`, `lcl_tfrms`, `gbl_tfrms`, `rndx`, `z_dir`, `wvlns`), `stop_surface`, `cur_surface`, the cache | `insert`, `add_surface`, `set_stop`, `update_model`, `apply_scale_factor_over`, `path`, `reverse_path` | read by every trace | lists drift apart; derived values and cached paths go stale. Correct when a cached path of an updated model is the one a fresh traversal builds. |
| Least-squares solver (`src/optim/LMDer.cpp`, `mathlib/MinPack.cpp`) | prescription and `Analysis`, both shared with the caller | residuals, Jacobian with step reduction, restore, driver loop, final recomputation | builds a new model per evaluation | probes that fail half-way leave a foreign design behind; retries; budgets; goals that throw. Correct when the caller is shown the accepted design. |
| Ray trace and vignetting search (`raytr/RayTrace.cpp`, `raytr/VigCalc.cpp`) | the ray under construction; `rel_p1`, `clip_indx`, counters | `trace_raw` and its exceptions; search along edges, bisection | path in, full or partial ray out, in a loop | partial rays of different lengths are indexed by surface. Correct when the search ends and returns the limiting ray. |
| Field set-up caches and analysis drivers (`specs/Field.h`, `raytr/Trace.cpp`, `specs/OpticalSpecs.cpp`, `src/analysis/*`) | per field: `aim_info`/`z_enp`, `chief_ray`, `ref_sphere`, vignetting | aim, set up, vignette, update; spot, fan, contrast, diffraction | written and read by every analysis, in sequence on one model | an analysis finds another's set-up and must not use it as its own: wavelength, image point, sphere, pupil. |
| Ray aiming (`raytr/Trace.cpp`, `raytr/Wideangle.cpp`, `MinPack::hybrd`) | search state, the field's pupil | `aim_chief_ray`, `find_real_enp`, `find_edge`, secant, Brent, `hybrd` | set-up, trace | rays fail anywhere in the search. Correct when the pupil found is the one whose ray meets the stop centre, and aiming again finds it again. |
| Optimization: trials, builder, pipelines (`src/optim/Optimization*.cpp`, `Goals.cpp`) | settings, variables, goals, the text carried between stages | read a trial, build, solve, write back, run a pipeline | solver, prescription, analyses | settings and designs must survive text; goals read results by position. |
| Prescription (`src/spec/Prescription.cpp`, `src/importers/*`) | surfaces, scenarios, variable distances, coefficients | parse, print, copy, set | builder, tools | the column of a coefficient depends on the whole file. |
| Command-line tools (`src/tools/*`) | options, files on disk | `LensTool2::run`, `glassfinder` | everything | files of other runs and of runs that threw lie in the same directory. |
| Paraxial model (`src/rayoptics/parax/*`) | first-order data, paraxial rays | update, scale, third order | sequential model, specifications | mirrors, floating stop, ten kinds of specification. Correct when the rays obey refraction and the data describe those rays. |
| Numerical library (`src/mathlib/*`) | local; interpolated sets rebuild lazily | FFT, QR steps, curves | solvers, MTF, glass | algorithms with many special cases. Correct against their definitions. |
| Surface profiles (`include/redukti/rayoptics/elem/profiles/*`, `Surface.h`) | curvature, conic, coefficients | intersect, normal, `apply_scale_factor`; `bend`, `reflect` | trace, builder | formulas that agree only for the lenses one tries first. Correct when a ray meets the surface the equation describes, on the side it comes from, and leaves by the laws of refraction and reflection, scaled or not. |
| Wavefront mathematics (`raytr/WaveAbr.cpp`, `raytr/Analyses.cpp`) | chief ray and reference sphere at the field; what a refocus keeps | `trace_wavefront`, `focus_wavefront`, `eval_wavefront`, fans | set-up, contrast, diffraction | a sphere or, for a pupil far away, a plane; one computation or two halves with a refocus between. Correct when every path difference is that of the paths light takes to the reference. |
| Contrast analysis (`src/analysis/ContrastAnalysis.cpp`, `ExitPupilAiming.cpp`) | samples, their validity, the means | `generate_quadrature`, `aim`, `trace_triplets`, `center_residuals` | set-up, goals, reports | three rays to a sample, any of which may be vignetted, fail or not be found. Correct when samples lie in the pupil, realise the frequency and count completely or not at all. |
| Drawing, number formatting | local | output | - | not modelled. |

`PROJECT.json` lists the components with their sources and what is modelled of
each, and the hazards - the places where a test would hardly reach - each at its
line with the properties that guard it.

## 2. Modules and how they correspond to the code

```
BoundedFifo <--refines-- PathCache <-- PathCacheClient                    SequentialModelProofs
                             ^               ^
SequentialModel -------------+               |                            SequentialModelProofs
     ^   (MCSequentialModel)                 |
     +-- FirstOrder <-- MCFirstOrder         |
             |                               |
PrimeField <-+                               |
    ^------- PrimeCircle <-- FourierTransform <-- DiffractionMTF <--+
    |             ^--------- LeastSquares <-------------------------+
    |             ^--------- SurfaceProfile <-----------------------+
    |             ^--------- WaveAbr <------------------------------+-- MCLibrary
    ^--------------------- Interpolated1d <-------------------------+
                           Contrast <-------------------------------+
Descent <--refines-- LMDer                                                LMDerProofs
RayTrace <-- VigCalc <-- MCVigCalc                                        VigCalcProofs
FieldSetup                                                                FieldSetupProofs
EnpSearch, Hybrd <-- Aiming <-- MCAiming                                  AimingProofs
Ascending <-- Prescription <-----------+                                  PrescriptionProofs
Ascending <-- OptimizationTrial <------+-- OptimizationBuilder <--+           |
                                          Analyses <----+-- Pipeline <-- MCPipeline   PipelineProofs
        Args, GlassFinder, OptimizationBuilder <-- LensTool2 <-- MCLensTool           LensToolProofs
```

An arrow points at the module that is extended. The MC modules give constants
their values; the Proofs modules extend the module beside them, and PipelineProofs and
LensToolProofs also PrescriptionProofs.

**PathCache** has the ring (`slots`, `next_`) with `Find`, `Store` and `Clear` as
operators. **PathCacheClient** adds the callers: a `Hit` or a `Miss` hands out a
reference that stays held until a `Release`, and `Invalidate` clears. **BoundedFifo**
is what the ring promises: a queue that forgets its oldest entry.

**SequentialModel** has the lists of the class as sequences and one action per public
method: `AddSurface`, `InsertSurface`, `SetStop`, `UpdateModel` (the whole of it,
including the clear at its end), `ApplyScaleFactor`, and `path()` in its three outcomes
`PathHit`, `PathMiss`, `PathThrows`. Changing the wavelength list stands for
`WvlSpec::set_from_list`. A transform is a distance and a direction along the axis.
The cache is PathCache itself; Python's slices are as `Lists.h` computes them.

**FirstOrder** adds to those actions what an update or a scaling recomputes: the
paraxial trace, the floating stop, the two rays a pair of specifications asks for, the
first-order data and the reduced system, and the Seidel contribution of each surface. Its numbers are those of a prime field (**PrimeField**): a formula of sums,
products and quotients that is wrong is wrong there too, and nothing is rounded.

**LMDer** is a solve: `GetSolver` and `Solve` are the checks before it, `Initial`
the residuals at the start, `Base`, `Forward`, `Backward`, `Column` and `Restore` are
`buildJacobian` with its step reduction, `Gradient`, `Accept`, `Reject`, `RejectNaN`
the driver between two calls of `fcn`, `Final` the recomputation at the end.
`prescription` and `analysis` are the objects shared with the caller; the analysis has
three parts because `Analysis::compute` replaces them one after the other. **Descent**
is what a solve promises: improve or stay, show the best design, change nothing when
refused.

**RayTrace** is `trace_raw`: `Begin` to the object, one `TraceStep` per surface
(`Miss`, `Blocked`, `TIR`, `Pass`, `EndOfPath`). **VigCalc** contains it: `TryRay`
starts a trace, `Tracing` runs it, and the outcomes of a trace are the branches of
`calc_vignetted_ray` and its bisection twin. `Iterate` is `iterate_pupil_ray` with
the secant search reduced to where it can end.

**FieldSetup** has the caches of every field, and the pupil value, first-order data and
vignetting factors they were computed for. What runs on a model is a list of passes
(`build`, `programs`), a pass is a list of steps (`spot`, `trace_fan`, `contrast`,
`diffraction`, ...), and a step sets a field up for a wavelength and keeps the result or
not, traces a pupil ray, establishes vignetting, or updates the model. `SetUp` is
`setup_pupil_coords`/`get_chief_ray_pkg` with the callers' assignments to the field.

**EnpSearch** is `find_real_enp` for a wide-angle field: `Reuse` or `Trace` its old
pupil, `Probe` in both directions from the paraxial pupil until two rays straddle the
stop centre (with the halvings of `find_edge` when a ray is lost), `Estimate` by the
secant method, Brent's method behind it, and `AimAgain` when the model is updated.
**Hybrd** is MINPACK's `hybrd` as the two-dimensional aiming drives it. **Aiming** is
`aim_chief_ray` and `eval_real_image_ht`: which of the searches a field goes to, and what
becomes of its result.

**Prescription** is the lens with its aspheric terms, its text in the Optical Bench format,
and the import. **OptimizationTrial** is a `[trial n]` section: the reader line by line, the
settings, the section written back. **Ascending** is the order in which both visit surfaces,
powers and gaps. **OptimizationBuilder** is `build()`: terms, checks,
variables, goals, slots. **Analyses** says which rays the analyses keep and what a goal
reads when rays are lost. **Pipeline** is `runOptimizationTrial`: each stage builds its
prescription from the text the stage before left, varies and solves it, and writes it.

**Args**, **GlassFinder** and **LensTool2** are the command-line tools: the words of a
command, the search of the glass catalogue, and `LensTool2::run` on a disk that earlier
runs have written to, where every step may throw. Diameters are counted in parts of the last
decimal an aperture is saved with, `Grain` of them to a unit, and `round_to` is the code's rounding.

**FourierTransform** is `fftpack`'s mixed-radix transform over a prime field whose circle
(**PrimeCircle**) has the roots of unity, **DiffractionMTF** the pixels of the pupil, PSF and
MTF around it. **LeastSquares** has `qrfac`, `qrsolv`, `lmpar`, `qform`, `dogleg`,
`r1updt` and `r1mpyq`; **Interpolated1d** the sample sets and the curves through them.

**SurfaceProfile** has spheres, conics with even and with radial polynomials: `Scale` is
`Surface::apply_scale_factor`, `TraceSurface` what `trace_raw` does at one surface
(`intersect`, `normal`, `bend` or `reflect`). A sphere is intersected by the formula; for an
asphere the iteration of `intersect_spencer` is reduced to where it may end: on the surface, in
an exception, or anywhere on the ray after a thousand steps.

**WaveAbr** is one field of a system whose rays are traced: `eval_wavefront` computes path
differences at once, `trace_wavefront` keeps their first half, `focus_wavefront` finishes it for
another focus and image point, `trace_fan` is what a fan's or a spot's callback does. Vectors are
triples of the prime field (**PrimeCircle**); a number counts as positive when it is a square,
which picks one of the two roots where the code's `sqrt` does.

**Contrast** has three behaviours: `Generate` places a request's quadrature points in the overlap
of three vignetted pupils; `WithoutSphere`, `FirstEvaluation`, `Aim` and `Search` are `ExitPupilAiming::aim` with
each traced ray failing, missing the reference sphere or ending at some level from its target;
`Sampled` and `Centred` make samples and centred residuals of the triplets.

## 3. What is checked

| Run | Question and properties | Bounds and size |
|---|---|---|
| `PathsCurrent` | Edits, updates, scalings, wavelength changes and path requests in any order. `CachedPathsCurrent`: between an update and the next edit every cached path is what a fresh traversal builds. `PathsDescribeTheLens`: it gives each gap the index of its medium at the wavelength asked for and its thickness, and the reverse path retraces it. | 3 interfaces, 2 media, 2 spectra, 3 requests (one with no wavelength), capacity 1 so that every second miss evicts; 151,373 states |
| `solve` | Every solve. `CallersSeeTheAccepted`: the caller is shown the accepted design, and only faulty goals throw; `NoProbeLeaks`: a Jacobian leaves the base design; `QuotientsSpanTheirProbes`: a derivative is divided by the distance its values span; `Terminates`; `ImplementsDescent`. | 2 designs, 2 variables, 2 goals, 2 step reductions, limit of 3 evaluations: one reduced and one unreduced variable, a rejected and an accepted trial; 291,620 |
| `Vignetting` | Both searches in every lens. `ReturnsItsRay`: the ray returned belongs to the factor; `FindsLimitingRay`: it passes every aperture and none beyond it does; `Terminates`. | up to 3 surfaces and an image from nine kinds, any stop; 6 and 3 iterations, more than surfaces; 476,327 |
| `FieldSetups` | Every program of analyses after every way of establishing vignetting. `ChiefFollowsAim`, `SphereFollowsChief`, `OpdInTracedWavelength`: no cache of another analysis is used as one's own; `SamplesFindTheirFields`: who samples the pupil finds fields aimed and vignetted for the pupil the model has. | 2 fields, 3 wavelengths, every set of chief rays that can be aimed, wide-angle or not; 855,824 |
| `Aimings` | Every way a chief ray is aimed. `SearchFindsPupil`: the interval is between rays that trace and straddle the centre, and a centre in reach is found; `AimingIsStable`: aiming again finds it again; `AimedRayIsReturned`, `HybridStops`, `HybridNeverWorse` of the two-dimensional search. | 12 trials in steps of 7, 8 samples, 6 halvings, beams narrow to wide on either side, aimed twice; 3 points, every landscape, `maxfev` 14; 94,300 |
| `Pipelines` | Trials assembled line by line, pipelines of two and three stages. `TrialsTravel`: a section written back resolves to the same settings; `DesignTravels`: a stage starts from the lens the stage before left, at the end nothing has moved but what a trial varies, and a coefficient that is varied goes with the same power in every stage; `EdgesGuarded`; `GoalsHaveTheirAnalysis`; `ResidualsKeepTheirRay`: a goal reads its own ray whichever are lost. | spherical, even, A2, radial, cover-glass and zoom lenses; powers to 10, two relative field heights, small default samplings, three sets of lost rays; 194,930 |
| `FirstOrders` | Every lens and mirror of two surfaces, edited, updated, scaled. `RaysObeyFirstOrderOptics`; `FirstOrderFitsTogether`: the data are of the system asked for and of one system, and the Seidel sums agree with an independent form of them; `RecomputingKeepsTheRays`. | stop anywhere or floating, three pairs of specifications; once updated, one edit between updates, scaled once and then no edits; 16,950 |
| `Library` | One part per behaviour. `HeldReferencesValid`, `ImplementsFifo` of the cache; `TransformsFormTheImage`: the transform is the transform by definition and the MTF the pupil's autocorrelation; `StepsSolve`: the solvers' steps satisfy the equations that define them; `CurvesAreAsDocumented`; `SurfacesBendRays`: rays meet the designed surface and leave by the laws of refraction and reflection; `OpdIsPathDifference`: a path difference is that of the paths to the reference sphere or plane; `ContrastSamplesThePupil`: points fill the overlap, realise the frequency, are aimed at the nearest ray found, and count completely or not at all. | capacity 3, 5 keys, 2 values; 25 lengths to 105 with every kind of factor in several orders, unit and generic input, both directions; pupils of 2 to 6 in arrays of 4 to 15; some 700 problems up to 3 x 3, deficient ones included; 5 abscissas, 3 operations on a set, copies and evaluations among them: evaluate, copy, change; evaluate, change, evaluate; spheres, conics and aspheres scaled up to twice; three systems, three foci; 4 halvings, 2 iterations of 2 line searches; 587,052 |
| `Reports` | Commands of `lenstool2` and `glassfinder`, alone and one after another on one disk, any step of which may throw. `ReportsAreOfTheirRun`; `RunsKeepOtherFiles`; `PrescriptionIsTheLensAnalysed`: what is saved is that lens, its apertures the models' to the last decimal, and a row of air that names a glass the one exception; `GlassesAreFoundAgain`; `OrderOfOptionsIsFree`, but where `--optimize` takes `-o` for a trial's number. | a prime and zooms of two and three configurations; a catalogue in which numbers have one, several, near or no glasses; two openings, one rounded down and one up; rows of index 1.0 that name a glass; `--optimize` and `-o` in both orders; 65,843 |
| `InvalidationDoc`, `AimDoc`, `LostRaysDoc` | statements of comments that the code does not keep; see section 5 | as small as shows them |

Why the bounds are enough. The cache's behaviour depends on its capacity only through
the age of a slot, so a ring of three that wraps twice meets every case; a lens of three
interfaces has an inner one with a gap on both sides; two fields and three wavelengths
have one that is central and two that are not; a solve of two variables has one whose
probe fails and one whose does not. Where a bound could still hide something the
theorems of section 4 close the gap. The lengths of transforms meet every pass (2, 3,
4, 5, 7 and the general one) first, last and between others. Twelve trials reach past both
ends of the beams, whose position is varied unit by unit.

Every property of a passing run has a mutant in `PROJECT.json`: a change a plausible
bug would make to a mapped definition, under which the run must fail.

**Fairness.** `LMDer` and `VigCalc` state `WF_vars(Next)`: one thread runs the
call, and every function it calls returns or throws. Nothing is assumed about which
branch is taken, so termination rests on the counters alone. `Aiming` states weak fairness
of the two-dimensional search for the same reason. The other modules state safety only:
nothing obliges a user to make another call.

**Deadlock.** `solve`, `FieldSetups`, `Pipelines`, `Library` and `Reports` say
`CHECK_DEADLOCK FALSE` because a solve, the life of a model, a pipeline, a computation and a
session of commands end; in `FieldSetup` a field that cannot be aimed without wide-angle
aiming throws out of the program. `VigCalc` has an explicit `Returned` step, so a search that
got stuck would be reported, and so has `Aiming`.

## 4. What is proved

All proofs are for any values of the constants that satisfy the named `ASSUME`s of
the modules, which the runs evaluate too. Each follows the same plan: an inductive
invariant, `Init` establishes it, one step per action keeps it, and the property follows.

**SequentialModelProofs** (any number of interfaces, any positive capacity), for the cache and for
the model that uses it.
- `RingTypeCorrect`, `ReferencesStayValid`, `RingWellFormed`, `RingImplementsFifo`. Invariant:
  `ClientTypeOK /\ RingInv /\ HeldReferencesValid`. `RingInv` is needed because validity of a
  reference is a statement about *age*: it says that the ring fills from its first slot, holds no
  key twice, and that a slot's distance from `next_` is its age.
- `ListsStayInStep`, `PathsStayCurrent`, `InnerStopFollows`. Invariant: lengths of all lists
  (`ListsOK`), positions inside them (`IndicesOK`), the cache's types (`CacheOK`), the rest
  (`RestOK`); and that while the model is updated every entry of the cache is `BuildPath`
  of its key.
- `PathsMatchTheLens` adds `DerivedCurrent` - between an update and the next edit `rndx`,
  `z_dir` and the transforms are those of the present gaps and interact modes - and
  `KeysKnown`: a cached key's wavelength is in the list its entry was built with, or no
  wavelength was given. The path property needs both, because `path()` turns a
  wavelength into a position in `wvlns` and reads `rndx` there. `RequestAssumption` and
  `WvlsAssumption` say what a request and a spectrum are.

**LMDerProofs** (any designs, merits, goals, limits).
- `SolveTypeCorrect`, `SolveReportsAccepted`, `JacobianLeavesNoProbe`,
  `OnlyFaultyGoalsThrow`, `EvaluationBudget`, `SolveImplementsDescent`. Invariant: `StartInv`
  (nothing has changed before the search starts), `AcceptedInv` (an accepted design
  computes, and its merit is `fnorm`), `BudgetInv`, `ShownInv`. The refinement maps the
  accepted design to the abstract best; every action is an abstract step or a stutter.
- `QuotientsMatchTheirProbes` from `StepInv`: the step in use is `FullStep` halved as often as
  the attempt counter says, and a forward value kept for a backward probe was taken with the
  full step of this variable. `HalvingAssumption`: the full step can be halved that often,
  as a double can.

**VigCalcProofs** (any lens, any root finder results). `TypeCorrect`, `RaysAligned`,
`TracesFailFirst`, `OpdMatchesRay`, `ReturnsTracedRay`, `LimitFound`,
`BisectionKeepsBracket`. Invariant: `BaseInv` - the lens does not change, the ray is
the one its coordinate traces so far, the book-keeping of the loop - with `LimitInv`
(every edge the search moved to excludes nothing that traces) and `BracketInv`.

**FieldSetupProofs** (any number of fields and wavelengths).
- `AimTheorem`, `SphereTheorem`, `WavelengthTheorem`. Invariant: shapes, chief ray
  follows aim, sphere follows chief ray, and what was computed last. It does not mention
  `stages`, so these three hold for *any order of passes*, whatever programs are added.
- `SamplesTheorem` does depend on the programs, and is proved for every program of LensTool2
  and `Analysis` and every way of vignetting. Its invariant `OpeningOK` says of the steps
  still to be run (`TodoInv`, `StageInv`) that whoever samples the pupil comes behind the
  update, the aiming and the vignetting it needs, and of the model what has been
  established (`StampInv`, `OpeningInv`, `AimInv`). A pass is built by flattening sequences of
  steps per field and wavelength; what is needed of each step is a fact about the pass
  (`PassOK`) carried through `FlattenSeq`.

**AimingProofs** (any lenses, step, trials, halvings and samples).
- `SolutionsHaveTheirRay` and `HybridDescends` from the shapes and the property itself.
- `SearchFindsThePupil`. Invariant `PupilInv`: `EnpInv` (rays the search remembers have traced;
  the interval is straddled), and for a search no ray of which missed the first surface,
  the *phase* it is in - `Opening`, `Forward`, `Crossed`, and after a turn `Below` or `Above`
  the root - with how many trials are left to reach the other side. That is why
  `InReach` asks that the centre be within `MaxTrials - 2` steps: the turn costs two.
  `find_edge`'s loop is a recursive function; that it exists, keeps an inner ray that traces and an
  outer one that does not, and ends one unit apart (`UnitAssumption`) is proved too.
- `PupilsStay`. The search is a function of the lens: its states are in the least set
  `Reached` closed under `After`, one state per trial, so that one search ends like another
  (`OneEnd`). From this `StableInv`, that whatever the field kept is that end.

**PrescriptionProofs** (any lens), on which the next two rest.
- `LensIsReadBack`: a lens that satisfies `LensOK` can be written, and is imported again as the
  same lens, with any number of surfaces, configurations, terms and odd terms.
  `LensOK` is what every lens the importer builds satisfies (`ImportedLens`) and what
  varying and solving keep: forms of asphere that one file can hold together, per-configuration values for all
  configurations or none, and one aperture diameter for every stop row. It is needed
  because the text has one odd count, one A2 flag and one aperture variable for the whole
  file: a lens that mixed forms would be read back as another. `ColumnsAreTheListedPowers` is its lemma for
  the columns of the odd terms.

**PipelineProofs** (any file, trials and stages, any outcome of a solve).
- `GapsAreGuarded`, `AnalysisServesGoals`, `ResidualsKeepTheirRays`. Invariant: `SectionsOK`
  (sections read are of the trials named), `StageOK`, `SolveOK` (variables, goals and analysis
  of a solve are those `build()` makes of its settings).
- `DesignsTravel` adds `DInv`: the accepted trials name surfaces of the lens (`SectionsAccepted`), what
  is in the text is readable (`TextOK`), the design of each phase is `LensOK` and is the one written
  before, and each surface is the file's but for what some trial of the stages so far varies
  (`DesignOK`), and a term that was named by an index still has the power it was named for
  (`NamedOK`), whether its surface is still a sphere, an even asphere or has become a radial one.
- `PipelineAssumption` says what a file that has been split into sections is: an odd count, rows with
  one of the four cells, menus for the trial headers, as many numbers on a line as its key takes.

**LensToolProofs** (any specfile, directories, options, catalogue).
- `ReportsLinkToTheirRun`. Invariant `ReportInv`: shapes, `TodoInv` (what is still to be drawn is
  what the options and configurations ask for, one model per output name) and `LinksInv`
  (a link of the report is to a picture that has been recorded as drawn by this run, from
  the configuration its suffix says). A picture on the disk may be of another run, so the
  property follows only from what this run has recorded.
- `RunsKeepFiles` from `KeepInv`: a file differs from what the run found only if the run names it.
- `LensIsTheTexts` adds `LensInv`. Every text on the disk is one that can be read (`LensesOnDisk`),
  because a run may read what any run before it has written; so is the text in memory, after
  glasses were assigned in it (`EnrichedLens`) and after a trial wrote another (`LensWritten`). The
  lens built from it satisfies `ImportedOK`: `LensOK` of the prescription, glasses that can be
  written, no glass behind a stop row, a plane cover glass. It is the text's lens with other air
  (`FromText`) while the optimizations move air spaces, one configuration after the other. The
  models have a diameter for each surface they set, and the lens's own for every other (`ModelsOK`).
  An aperture is rounded before the largest is taken, so that what is saved may be smaller than
  what a model needs; `RoundsToNearest` bounds it by half a unit of the last decimal for every
  `Grain`, `SharedFits` carries that through the maximum, and `ApertureFits` claims this and no
  more. The round trip is
  `LensIsReadBack` for the prescription; for a medium it is that the importer finds under the
  name that is written the glass the name was written for, also where the row had the index of air
  and so was air to the models (`SameMedium`).
- `AssignedGlassesAreFound` adds `GlassInv`: until a trial runs, the text is the enrichment of the
  file at the start of the run, and that file can be read. The property needs that
  `find_glasses` puts first a match that none is sooner than (`FirstInOrder`, by counting how many
  matches are sooner than one), that an exact one is then of the catalogue preferred most
  (`FirstFound`), that the catalogue has one glass of its name (`TakenIsFound`), and that a row whose
  glass stays open gets the same candidates when it is enriched again (`EnrichedRow`). That a file
  read now may be one that an earlier run left is where it takes `KeepInv` and `LensInv`.
- `CatalogueAssumption` says of the glass table: finite, a glass is known by its catalogue and
  label, none has an index near air's, the names of its catalogues are spelt as they are known.
  `SessionsAssumption` says of the files a session begins with that those with a lens in
  them can be read (`IsLens`): lines and rows correspond, and apertures but a stop's are numbers;
  and of diameters that they are counted in whole parts of a decimal, of which `Grain` make one.
- TLC finds `LensInv`, `GlassInv`, `ReportInv` and `KeepInv` true in every state of `Reports`.

**Theorems that no run states as they are** (`RingTypeCorrect`, `RingWellFormed`,
`ListsStayInStep`, `InnerStopFollows`, `SolveTypeCorrect`, `OnlyFaultyGoalsThrow`,
`EvaluationBudget`, `TypeCorrect`, `RaysAligned`, `TracesFailFirst`, `OpdMatchesRay`,
`BisectionKeepsBracket`, `ColumnsAreTheListedPowers`, `LensIsReadBack`) say for every instance what a small
one cannot show, or what the proofs above rest on.

**Recursion in proofs.** The library's induction theorems that take an operator as a
parameter cannot be instantiated here. Where a proof needs induction over a list or a count -
`find_edge`'s halvings, the flattened passes, the paths built segment by segment - it takes
the least element of the set of counterexamples, which `WellFoundedInduction` gives for `<`
on the naturals, and shows that it is not one.

**Only model-checked:**
- `Terminates` (twice) and `HybridStops`: liveness under fairness, beyond the prover.
- `TransformsFormTheImage`, `StepsSolve`, `CurvesAreAsDocumented`, `SurfacesBendRays`,
  `OpdIsPathDifference`, `RaysObeyFirstOrderOptics`, `FirstOrderFitsTogether`,
  `RecomputingKeepsTheRays`: algebra modulo a prime with folds over matrices, factors and
  interfaces. The backends have no decision procedure for it.
- `ContrastSamplesThePupil`: it counts the points of a pattern and folds weights over them.
- `TrialsTravel`: the reader's cases against each line the writer can produce.
- `OrderOfOptionsIsFree`: it rests on a fold over the permuted words of a command.

## 5. Findings and observations

Three statements of the repository are refuted by a run:

1. **`InvalidationDoc`** (bug). `apply_scale_factor_over` rewrites the transforms and does
   not clear the path cache (`src/rayoptics/seq/SequentialModel.cpp:406`);
   `SequentialModel.h` says every writer of the copied arrays has to. A path traced
   before the scaling is served after it until the next update.
2. **`AimDoc`** (bug). A chief ray that cannot be aimed is caught and logged
   (`OpticalSpecs.cpp:73-78`), leaving the field without the `aim_info` that `Field.h:83`
   says is populated and that `OpticalSpecs.cpp:193` dereferences for every ray traced next.
3. **`LostRaysDoc`**. `SpotIntercepts.h:22` says every consumer tests `valid`;
   `Histogram::accumulate` does not (`src/analysis/Histogram.cpp:59`) and converts the NaN of a
   failed ray to an index when spot-deviation and MTF goals meet in one trial.

Observations made on the way that no run refutes.

*Sequential model and solver.* `insert` moves the stop only while `stop_surface <
num_ifcs - 2` (`SequentialModel.cpp:262`): a surface added before a stop that is the last
surface leaves `stop_surface` at another surface. What a goal throws leaves `solve`
(`LMDer.cpp:153`, `:270`), where `Goals.cpp:41-43` speaks of a `BIGVAL` residual. With an
evaluation limit of one `lmder` makes two evaluations. When R is singular MINPACK's
`dogleg` perturbs its diagonal, so that its step need not have the bound's length.

*Fields, rays, vignetting.* `Field.h:93-97` calls the cached chief ray one "traced in the
central wavelength", but a fan leaves the one of its last wavelength
(`SequentialModel.cpp:690`), harmless in the programs that exist. `VigCalc.h:97` announces a
`TraceError` where `VigCalc.cpp:595-601` falls back to 0.9 of the coordinate. The greatest
spot radius of a field that no ray passes is 0 (`SpotAnalysis.cpp:156-174`). A failed
ray's MTF goal reads 1.0 in `GoalMTFProxy`.

*Aiming.* A failed ray counts as height zero (`Wideangle.cpp:246`, `:255`), so a pupil kept from
an earlier aiming whose ray now fails is taken for a good one, and a search can turn
round twice (`:358-359`). A step that lands exactly on the stop centre - counted also from
where the search steps past the vertex, where it is nudged by a tenth of a step - may be
passed over, and another ray returned. A centre closer to the beam's edge than
the six halvings of `find_edge` resolve is not found. These are the preconditions of
`FindsPupil`.

*Paraxial model.* Image-space field specifications are wrong when the image is not in air;
an image-space EPD uses the object-side distance (`FirstOrder.cpp:122`); real image heights are
not scaled (`FieldSpec.cpp:150`), and a floating stop stays behind when scaling and, with the
object at the first surface, is found another way on the second update; the second-order aspheric
coefficient does not enter the power; the direct NA, f-number and EPD branches of
`compute_first_order` are dead behind `derive_parax_params`. `ParaxTypes.h:163` says
`red = -1/m`; the code gives `m * red = 1`. `exp_dist` (`FirstOrder.cpp:239-240`) is
documented as counted from the last interface (`ParaxTypes.h:104`, `ParaxHelper.h:41`) and used
so (`Trace.cpp:414`, `Wideangle.cpp:705`), which is true only with the image surface at the
paraxial image.

*Surfaces and wavefronts.* `Spherical::intersect` divides zero by zero when a ray starts on the
sphere and heads the other way; `intersect_spencer` returns wherever it is after a thousand
steps, without a sign of it; with a negative scale `RadialPolynomial::apply_scale_factor` turns
its odd terms the wrong way (only positive factors are checked). `focus_wavefront` does not leave
its sphere at the field (`Analyses.cpp:141-175`), and throws `bad_cast` when the new sphere is a
plane and the old one was not, or the reverse. When its denominator is zero the exit pupil term is
0 rather than an error. The path difference for a plane adds the path before the image without its
index (`WaveAbr.cpp:604-616`), and for an image point off the chief ray is not the limit of the one
for a sphere: `OpdIsPathDifference` claims the plane only for an image in air. The
contrast calibration shifts by the frequency in waves where `ExitPupilAiming` divides by the image
index.

*Optimization and text.* The CG row's varied curvature is lost in the text. Field lists that repeat
a height do not round-trip through `balance all except`. `toTrial` with max-radius goals writes a
hexapolar line the reader did not need. `vary aspherics existing` can gain variables when the
result is run again, and a file declaring `AsphericalOddCount` without having an asphere cannot
be run again on its own output (`LensTool2.h:160` against `OptimizationBuilder.cpp:315-324`).
A zoom's varied air spaces are looked up anew per configuration, so that one that became equal
drops out.

*Numerical library.* The upper seed of `get_y_range` is the smallest positive number
(`DataSet.cpp`); linear interpolation of one sample reads out of range; too few samples
throw.

*Tools.* An e-line file stays half converted when rows are ambiguous, unmatched, already named
or cover glass, although `GlassFinder.h:37-48` says "left consistently on the d line"; the importer
and `GlassFinder` disagree on the case of `[lens data]` and on `#` lines; a row of index 1.0 with a
glass name is air to the analysis models, but is saved as that glass, and so are the weighted MTFs of
a lens with it (`SameMedium` states the exception). An aperture set by vignetting is rounded to the
nearest ten-thousandth before it is saved (`Prescription.cpp:481-487`, `:533-534`), which may be
smaller than the one the model found by half of that, so that a limiting ray of the analysis can be clipped
by the saved lens. A specfile or another lens named like an output
(`prescription.txt`, `vig.txt`, ...) is overwritten without `--outdir`, losing its trials. A failed
later run leaves an earlier `README.md` pointing at the new run's files; mono-MTF files are written
twice and the weighted model's stay. `--optimize -o x` throws, as "-o" does not begin with two
dashes (`Args.cpp:160`), where `-o x --optimize` is accepted: `OrderOfOptionsIsFree` has this as its one
exception; `--specfile`, `-o`, `--outdir` and `--reference` swallow the next word whatever it is;
`--scenario` without a value throws `bad_optional_access`; `parse_mtf_freqs` truncates to `int`.
`findBackFocusSurface` walks past non-cover surfaces to any cover glass, where its comment speaks of
the trailing block, so that a front plate gives -1.

## 6. What is abstracted, what is left out

- **Reals.** The merit of a design is an integer, `Big` exactly when a goal is unusable.
  Evaluation is a function of the design, because every evaluation rebuilds the model from the
  prescription. In `LMDer` and `Hybrd` the linear algebra proposes *any* step, including one
  with a NaN, and the convergence tests may hold after any trial; `LeastSquares` shows what the
  algebra does. Modules over `PrimeField` keep the formulas and lose rounding and order: where
  the code compares magnitudes, `LeastSquares` compares arbitrary ranks, so that its results may not
  depend on which column is the pivot. In `SurfaceProfile` and `WaveAbr` a square is positive
  and the root of one the square among the two; a point whose roots the field does not have is
  not considered (`Faces`, `Measured`).
- **Contrast.** The pupil is a grid of `Radius` units, the contraction's bisection has `Halvings`
  steps (60 in the code), aiming `MaxIterations` of `LineSearches` (10 of 8); a ray's error is
  one of four levels, of which 0 is the target's tolerance and `acceptable` good enough.
- **Optics.** In `VigCalc` a ray is its coordinate on one half axis of the pupil; a surface is the
  interval it lets through and the rays it misses or reflects. The secant search ends at
  the edge on the side it started from, unless the surface is one on which it does not
  converge: then it ends anywhere. In `EnpSearch` a lens is a beam, what lies outside it, and
  one root of the height at the stop or two. Phantom interfaces and obscurations, which no
  importer creates, are left out.
- **Set-up.** A ray stands for the wavelength and aim it was traced with, a sphere for its
  chief ray and the image point it is centred on. Two contrast frequencies stand for the
  list of them. An `IllegalArgument` of a contrast map is caught between frequencies
  (`GiveUp`); other exceptions end the model.
- **Transforms** in the sequential model are distances and directions along the axis: decentres
  and tilts are not modelled. Paraxial apertures and angles are given by their slopes.
- **Text.** A file is its sections, a number stands for itself because it is printed to read back
  as the same double - but apertures set by vignetting, which are rounded first, as in the code; a word is one value however it may be spelt. Units, titles, comments and
  error messages are left out, and so are the `vignetting` arguments and wavelength names of a
  trial, which are opaque words.
- **Images.** Moduli of the PSF are kept squared and not scaled to the largest; the limit that
  `--diffraction-pupil-rays` puts on the array is left out.
- **Catalogue.** A constant whose labels are unique in a catalogue, as those of the table in
  `GlassCatalog.cpp` are. A trial may move the radius of the first surface, if it is an ordinary
  one; `Pipeline` has everything else a trial does.

Not modelled: glass dispersion; MINPACK drivers
nothing calls; quadrature tables, which are data; the Zemax exporter, drawing, SVG and
configuration reports, and Java-compatible number formatting, which are output; the tests. The
definitions in `map` stand for about three tenths of the lines of the implementation; most of the
rest is this, the header files' declarations, and the glass table.

## 7. Plan

The order of work was: path cache and sequential model; solver; ray trace and vignetting;
field set-up; type invariants and main safety invariants of these; prescription, trials and
pipelines; aiming; paraxial model; numerical library; tools; the invariants of aiming, set-up,
paths and tools for every size; the saved prescription and the assigned glasses for every
lens and catalogue. What is left, by what it would say:

1. `TrialsTravel` as a theorem: the reader applied to each line the writer produces.
2. The Gaussian quadrature's pupil points, and decentred systems in `WaveAbr`.
3. The rows of wavefront and transverse aberrations derived from the Seidel sums.
