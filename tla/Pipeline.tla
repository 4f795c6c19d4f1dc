------------------------------ MODULE Pipeline ------------------------------
(***************************************************************************)
(* LensTool2::runOptimizationTrial: the file's sections are indexed, every *)
(* trial the pipeline names is read once, and then each stage builds the   *)
(* prescription from the text the stage before left, varies and solves it, *)
(* and writes it out as the next stage's text.  A trial asked for by its   *)
(* own number is a pipeline of one stage.                                  *)
(*                                                                         *)
(* job is the file and the number asked for: the lens text and its radius  *)
(* column, the section headers, the pipeline's stages and, for each trial, *)
(* the choices for each line of its section; they are made as the line is  *)
(* read, which is before anything depends on them.                         *)
(***************************************************************************)
EXTENDS OptimizationBuilder, Analyses

CONSTANTS Jobs,
          Crossings,   \* the sets of gaps that may be crossed at the edge
          Failures     \* the sets of rays that may fail

LinesOf(file) ==
  UNION {UNION {file.menus[n][i] : i \in DOMAIN file.menus[n]} : n \in DOMAIN file.menus}

\* A [trial] header starts a section; the parser of a line sees to numbers,
\* to a ring and a spoke count for a sampling and to one configuration.
Samplings == {"goal spot sampling gaussian", "goal contrast sampling"}

ASSUME PipelineAssumption ==
  /\ {DEFAULT_GAUSSIAN_QUADRATURE_RINGS, DEFAULT_GAUSSIAN_QUADRATURE_SPOKES,
      DEFAULT_CONTRAST_RINGS, DEFAULT_CONTRAST_SPOKES} \subseteq Nat
  /\ NUM_TRANSVERSE_RAYS \in Nat /\ RAY_FAN_SAMPLES \in 0..NUM_TRANSVERSE_RAYS
  /\ \A file \in Jobs :
       /\ file.number \in Nat /\ file.stages \in Seq(Nat)
       /\ IsText(file.text)
       /\ file.lens = [s \in DOMAIN file.text.rows |-> file.text.rows[s].cell]
       /\ \A i \in DOMAIN file.headers :
            file.headers[i][1] = "trial" => file.headers[i][2] \in DOMAIN file.menus
       /\ \A row \in LinesOf(file) :
            /\ row.nums \in Seq(Int)
            /\ row.key[1] \in Samplings => Len(row.nums) = 2
            /\ row.key[1] = "configuration" => Len(row.nums) = 1

VARIABLES job, pc,
          stages,      \* the trials to run, in order
          pending,     \* the trials still to be read, the first being read
          at,          \* the line of its section
          sections,    \* the lines accepted of each trial
          stage,       \* the stage being run
          text,        \* the lens text it is given
          design,      \* the prescription it builds, <<>> before
          variables, goals,
          left,        \* the prescription the last solve left, <<>> before
          varied,      \* history: the parameters varied so far
          named        \* history: <<surface, index, power>> the trials named

vars == <<job, pc, stages, pending, at, sections, stage, text, design, variables, goals, left,
          varied, named>>

Absent == numbers("", 0, <<>>)
Trials == {job.headers[i][2] : i \in {j \in DOMAIN job.headers : job.headers[j][1] = "trial"}}
Pipelines == {job.headers[i][2] : i \in {j \in DOMAIN job.headers : job.headers[j][1] = "pipeline"}}
Configuration(n) == toConfiguration(sections[n])
Current == Configuration(stages[stage])

Init ==
  /\ job \in Jobs /\ pc = "index"
  /\ stages = <<>> /\ pending = <<>> /\ at = 1 /\ sections = <<>>
  /\ stage = 1 /\ text = job.text /\ design = <<>> /\ left = <<>>
  /\ variables = <<>> /\ goals = {} /\ varied = {} /\ named = {}

Fail(possible) ==
  /\ ~possible
  /\ pc' = "failed"
  /\ UNCHANGED <<job, stages, pending, at, sections, stage, text, design, variables, goals, left,
                 varied, named>>

-----------------------------------------------------------------------------
SectionIndex ==
  /\ Distinct(job.headers)
  /\ Trials \cap Pipelines = {}

IsPipeline == job.number \in Pipelines

\* The numbers a run works through, and whether readPipeline accepts them.
Named == IF IsPipeline THEN job.stages ELSE <<job.number>>

distinctTrials == Increasing(Range(Named))

readPipeline ==
  LET accepted == SectionIndex /\ Named # <<>> /\ Range(Named) \subseteq Trials
  IN /\ pc = "index"
     /\ \/ /\ accepted
           /\ stages' = Named /\ pending' = distinctTrials
           /\ sections' = [n \in Range(Named) |-> <<>>]
           /\ pc' = "read"
           /\ UNCHANGED <<job, at, stage, text, design, variables, goals, left, varied, named>>
        \/ Fail(accepted)

Reading == Head(pending)

readLine ==
  /\ pc = "read" /\ at \in DOMAIN job.menus[Reading]
  /\ \E row \in job.menus[Reading][at] :
       LET accepted == row = Absent \/ read(job.lens, sections[Reading], row)
       IN \/ /\ accepted
             /\ sections' = IF row = Absent THEN sections
                            ELSE [sections EXCEPT ![Reading] = Append(@, row)]
             /\ at' = at + 1
             /\ UNCHANGED <<job, pc, stages, pending, stage, text, design, variables, goals, left,
                            varied, named>>
          \/ Fail(accepted)

finishTrial ==
  LET accepted == finish(sections[Reading]) /\ Resolves(sections[Reading])
  IN /\ pc = "read" /\ at \notin DOMAIN job.menus[Reading]
     /\ \/ /\ accepted
           /\ pending' = Tail(pending) /\ at' = 1
           /\ pc' = IF Len(pending) = 1 THEN "create" ELSE "read"
           /\ UNCHANGED <<job, stages, sections, stage, text, design, variables, goals, left,
                          varied, named>>
        \/ Fail(accepted)

createBuilder ==
  LET accepted == Buildable(text) /\ apply(build_prescription(text), Current, job.lens)
  IN /\ pc = "create"
     /\ \/ /\ accepted
           /\ design' = <<build_prescription(text)>> /\ pc' = "build"
           /\ UNCHANGED <<job, stages, pending, at, sections, stage, text, variables, goals, left,
                          varied, named>>
        \/ Fail(accepted)

\* A varied parameter as it is remembered, a coefficient by its power.
Parameter(p, variable) ==
  IF variable[1] = "coefficient"
  THEN <<"coefficient", variable[2], powerOf(Surface(p, variable[2]).type, variable[3])>>
  ELSE variable

CanBuild(p, q, c, vs, gs) ==
  /\ validate(p, c) /\ CanConstrain(q, c, vs) /\ Cardinality(gs) >= Len(vs) /\ CanConfigure(c)

build ==
  LET p == design[1]
      q == WithExplicitTerms(p, Current.asphericTerms)
      vs == buildVariables(p, Current)
  IN /\ pc = "build"
     /\ \E crossed \in Crossings :
          LET gs == buildGoals(q, Current, vs, crossed)
              accepted == CanBuild(p, q, Current, vs, gs)
          IN \/ /\ accepted
                /\ design' = <<q>> /\ variables' = vs /\ goals' = gs /\ pc' = "solve"
                /\ varied' = varied \cup {Parameter(q, vs[i]) : i \in DOMAIN vs}
                /\ named' = named \cup
                     {<<term[1], term[2], powerOf(asphereTypeOf(p, term[1]), term[2])>> :
                        term \in {t \in Range(Current.asphericTerms) : t[2] >= 0}}
                /\ UNCHANGED <<job, stages, pending, at, sections, stage, text, left>>
             \/ Fail(accepted)

\* The values a solve may leave in the variables: where they were, all moved,
\* or all moved but one aspheric term that has gone to zero.
Outcomes(p, vs) ==
  LET start == [i \in DOMAIN vs |-> valueOf(p, vs[i])]
      moved == [i \in DOMAIN vs |-> start[i] + 10]
  IN {start, moved}
     \cup {[moved EXCEPT ![i] = 0] : i \in {j \in DOMAIN vs : vs[j][1] \in {"conic", "coefficient"}}}

\* What the analysis of the current trial makes of the rays that fail.
Evaluated(lost) ==
  compute(configureAnalysis(Current), DOMAIN Current.fields, DOMAIN Current.wavelengths,
          NUM_TRANSVERSE_RAYS, lost)

\* A solve does not start from a design that fails a contrast ray.
solveTrial ==
  /\ pc = "solve"
  /\ \E lost \in Failures :
       LET accepted == validateInitialContrastSamples(Evaluated(lost))
       IN \/ /\ accepted
             /\ \E values \in Outcomes(design[1], variables) :
                  left' = <<WithValues(design[1], variables, values)>>
             /\ pc' = "carry"
             /\ UNCHANGED <<job, stages, pending, at, sections, stage, text, design, variables,
                            goals, varied, named>>
          \/ Fail(accepted)

\* to_opt_bench_str throws when it cannot write; DesignTravels says it can.
carriedForward ==
  /\ pc = "carry" /\ CanWrite(left[1])
  /\ text' = to_opt_bench_str(left[1])
  /\ stage' = IF stage < Len(stages) THEN stage + 1 ELSE stage
  /\ pc' = IF stage < Len(stages) THEN "create" ELSE "written"
  /\ design' = <<>> /\ variables' = <<>> /\ goals' = {}
  /\ UNCHANGED <<job, stages, pending, at, sections, left, varied, named>>

Next == \/ readPipeline \/ readLine \/ finishTrial
        \/ createBuilder \/ build \/ solveTrial \/ carriedForward

Spec == Init /\ [][Next]_vars
-----------------------------------------------------------------------------
(* A trial as it is written reads back as the trial that was run: accepted, *)
(* with the same settings.  A maximum-radius goal implies the hexapolar     *)
(* pattern, which the writer states and the settings need not.  Field lists *)
(* that repeat a height are left out: balance names a field by its height.  *)
(* Code: OptimizationConfiguration::toTrial against Reader::read, finish    *)
(* and toConfiguration.                                                     *)
Resolved(c) == [c EXCEPT !.useHexapolar = @ \/ c.spotMaxRadius # <<>>]

TrialsTravel ==
  pc = "create" /\ stage = 1 =>
    \A n \in DOMAIN sections :
      LET c == Configuration(n)
      IN Distinct(c.fields) =>
           /\ Parses(job.lens, toTrial(c))
           /\ Resolved(toConfiguration(toTrial(c))) = Resolved(c)

(* What a lens is: the two prescriptions agree on it for every configuration *)
(* and every power of r, in whatever form they keep it.                      *)
MaxPower == 10

SameSurface(a, b, configurations) ==
  /\ a.cell = b.cell
  /\ a.cell # "CG" => a.radius = b.radius
  /\ a.k = b.k
  /\ \A power \in 1..MaxPower :
       Term(a.type, a.coeffs, power) = Term(b.type, b.coeffs, power)
  /\ \A c \in configurations : /\ thicknessOf(a, c) = thicknessOf(b, c)
                                /\ diameterOf(a, c) = diameterOf(b, c)

(* A stage starts from the lens the stage before left: nothing is lost in   *)
(* the text between them, whatever form the coefficients had and however    *)
(* the scenarios were numbered; and a lens that was solved can be written.  *)
(* The radius of a cover-glass row is not part of the text.                 *)
(* Code: Prescription::to_opt_bench_str and build_prescription.             *)
TextKeepsTheLens ==
  /\ pc = "carry" => CanWrite(left[1])
  /\ pc = "create" /\ left # <<>> => Buildable(text)
  /\ pc = "build" /\ left # <<>> =>
       LET p == left[1]
           q == design[1]
       IN /\ p.names = q.names
          /\ \A c \in Configurations(p) : firstOf(p, c) = firstOf(q, c)
          /\ Len(p.surfaces) = Len(q.surfaces)
          /\ \A s \in DOMAIN p.surfaces :
               SameSurface(p.surfaces[s], q.surfaces[s], Configurations(p))

(* The lens at the end of a pipeline differs from the lens of the file only *)
(* in what its trials varied: another configuration's spaces, another       *)
(* surface's shape and the other terms of a varied asphere are the file's.  *)
(* Code: the Var classes' write_to_prescription and LensTool2::solveTrial,  *)
(* with the text between the stages.                                        *)
UnvariedStays ==
    LET p == build_prescription(job.text)
        q == build_prescription(text)
        shared(a) == a.thickBy = <<>>
    IN \A s \in DOMAIN p.surfaces :
         LET a == p.surfaces[s]
             b == q.surfaces[s]
         IN /\ a.radius = b.radius \/ <<"radius", s - 1, 0>> \in varied
            /\ a.k = b.k \/ <<"conic", s - 1, 0>> \in varied
            /\ \A power \in 1..MaxPower :
                 \/ Term(a.type, a.coeffs, power) = Term(b.type, b.coeffs, power)
                 \/ <<"coefficient", s - 1, power>> \in varied
            /\ \A c \in Configurations(p) :
                 /\ diameterOf(a, c) = diameterOf(b, c)
                 /\ \/ thicknessOf(a, c) = thicknessOf(b, c)
                    \/ <<"thickness", s - 1, c - 1>> \in varied
                    \/ /\ shared(a)
                       /\ \E other \in Configurations(p) :
                            <<"thickness", s - 1, other - 1>> \in varied

(* A term a trial names by its index stands for the same power of r at      *)
(* every stage, also once an earlier stage has made the surface aspheric    *)
(* and the text has changed the form of the file's aspheres.  A file that   *)
(* declares odd terms without having an asphere loses this: its varied      *)
(* spheres become even aspheres, and are written in the odd form.           *)
(* Code: OptimizationBuilder::asphereTypeOf and powerOf, the file's         *)
(* AsphericalOddCount.                                                      *)
DeclaresUnusedOddTerms ==
  job.text.odd > 0 /\ ~has_radial_aspheric(build_prescription(job.text))

TermsKeepTheirPower ==
  \A a, b \in named : a[1] = b[1] /\ a[2] = b[2] => a[3] = b[3] \/ DeclaresUnusedOddTerms

(* A design goes through a pipeline unharmed: from stage to stage as text,  *)
(* to the end but for what was varied, and with terms of the same power.    *)
DesignTravels ==
  /\ TextKeepsTheLens
  /\ pc = "written" => UnvariedStays
  /\ TermsKeepTheirPower

(* With the edges constrained, no varied parameter can close a gap whose    *)
(* edge has no goal: the gap a thickness is, and the gaps on both sides of  *)
(* a surface whose shape is varied.                                         *)
(* Code: OptimizationBuilder::edgeAffectedGaps and buildGoals.              *)
Moves(variable, gap) ==
  variable[2] = gap \/ (variable[1] # "thickness" /\ variable[2] - 1 = gap)

EdgesGuarded ==
  pc = "solve" /\ Current.edgeConstraint # <<>> =>
    \E crossed \in Crossings :
      \A gap \in 0..(Len(design[1].surfaces) - 2) :
        <<"edge", gap, 0, 0, 0>> \in goals
          <=> /\ \E i \in DOMAIN variables : Moves(variables[i], gap)
              /\ is_constrainable(design[1], Current.scenario, crossed, gap)

(* Every goal of a solve reads something its analysis computes: spots and   *)
(* MTF are switched on, the sample a goal reads is one of the pattern's,    *)
(* per-ray goals keep failed rays in place, and a maximum radius is taken   *)
(* over the hexapolar pattern.                                              *)
(* Code: OptimizationConfiguration::effectiveAnalysis, configureAnalysis    *)
(* and OptimizationBuilder::buildGoals.                                     *)
Computed(analysis, goal) ==
  LET kind == goal[1]
  IN /\ kind \in {"mtf", "rms", "deviation", "max_radius"} => analysis.spots
     /\ kind = "mtf" => analysis.mtf /\ goal[4] \in analysis.mtfFrequencies
     /\ kind = "deviation" => /\ ~analysis.hexapolar /\ analysis.retainFailedRays
                              /\ goal[4] < analysis.gaussian[1] * analysis.gaussian[2]
     /\ kind = "max_radius" => analysis.hexapolar
     /\ kind = "ray" => analysis.rays
     /\ kind \in {"contrast", "balance"} => goal[4][1] <= analysis.contrasts
     /\ kind = "contrast" => goal[4][2] < analysis.contrastSampling[1] * analysis.contrastSampling[2]

GoalsHaveTheirAnalysis ==
  pc = "solve" => LET analysis == configureAnalysis(Current)
                  IN \A goal \in goals : Computed(analysis, goal)

(* A residual is of one ray for as long as a solve runs: whichever rays a    *)
(* trial design loses, a goal of one sample is of the ray it was built for,  *)
(* in the wavelength and direction it was built for, or is Big because that  *)
(* ray, or a partner of it, is lost.                                         *)
(* Code: the patterns of Trace and ContrastAnalysis with append_if_none,     *)
(* SpotIntercepts, and GoalSpotDeviation, GoalRayAberration, GoalContrast.   *)
Expected(goal, lost) ==
  LET f == goal[2]
      w == goal[3]
      rays == CASE goal[1] = "deviation" -> << <<"gauss", f, w, goal[4], 0>> >>
                [] goal[1] = "ray" -> << <<"fan", f, w, goal[4], goal[5]>> >>
                [] OTHER -> <<ContrastRay(f, w, goal[4][1], goal[4][2], 0),
                              ContrastRay(f, w, goal[4][1], goal[4][2], goal[5]),
                              ContrastRay(f, w, goal[4][1], goal[4][2], 3 - goal[5])>>
  IN IF Range(rays) \cap lost # {} THEN Big
     ELSE IF goal[1] = "contrast" THEN <<rays[1], rays[2]>> ELSE rays[1]

Value(results, goal) ==
  CASE goal[1] = "deviation" -> GoalSpotDeviation(results, goal)
    [] goal[1] = "ray" -> GoalRayAberration(results, goal)
    [] OTHER -> GoalContrast(results, goal)

ResidualsKeepTheirRay ==
  pc = "solve" =>
    \A lost \in Failures :
      LET results == Evaluated(lost)
      IN \A goal \in {g \in goals : g[1] \in {"deviation", "ray", "contrast"}} :
           Value(results, goal) = Expected(goal, lost)

(* "Invalid entries are NaN, which is why every consumer tests `valid'       *)
(* before touching them." (SpotIntercepts.h:22): the histogram an MTF is     *)
(* taken from holds the rays that arrived and no other.                      *)
(* Code: Histogram::accumulate.                                              *)
ConsumersTestValid ==
  pc = "solve" /\ configureAnalysis(Current).mtf =>
    \A lost \in Failures, NaNIsZero \in BOOLEAN :
      \A f \in DOMAIN Current.fields, w \in DOMAIN Current.wavelengths :
        accumulate(Evaluated(lost).spots[f][w], NaNIsZero) \cap lost = {}
=============================================================================
