--------------------------- MODULE PipelineProofs ---------------------------
(* For any lenses, sections, pipelines and outcomes of the solves: a lens   *)
(* goes through the text between two stages unharmed, nothing changes in it  *)
(* but what a trial varies, and a term that trials name by its index is the  *)
(* same power of r in all of them; the goals of a solve are those its        *)
(* settings ask for, so the analysis computes what each of them reads, and   *)
(* no gap a varied parameter can close is without its edge goal.             *)
EXTENDS Pipeline, PrescriptionProofs

Lines == UNION {LinesOf(file) : file \in Jobs}

SectionsOK ==
  /\ job \in Jobs
  /\ \A n \in DOMAIN sections : n \in DOMAIN job.menus /\ sections[n] \in Seq(Lines)

StageOK ==
  /\ pc = "index" => stage = 1
  /\ pc \notin {"index", "failed"} =>
       /\ stages \in Seq(Nat) /\ stage \in DOMAIN stages
       /\ Range(stages) = DOMAIN sections

\* What build() leaves for the solve.
SolveOK ==
  pc = "solve" =>
    /\ \E crossed \in Crossings : goals = buildGoals(design[1], Current, variables, crossed)
    /\ Current.spotDeviation # <<>> => Current.spotMaxRadius = <<>>

IInv == SectionsOK /\ StageOK /\ SolveOK

-----------------------------------------------------------------------------
(* Sections and their settings *)

LEMMA LinesTyped ==
  ASSUME NEW row \in Lines
  PROVE  /\ row.nums \in Seq(Int)
         /\ row.key[1] \in Samplings => Len(row.nums) = 2
         /\ row.key[1] = "configuration" => Len(row.nums) = 1
<1>1. PICK file \in Jobs : row \in LinesOf(file)
  BY DEF Lines
<1> QED
  BY <1>1, PipelineAssumption

LEMMA RowGiven ==
  ASSUME NEW S, NEW rows \in Seq(S), NEW key, Has(rows, key)
  PROVE  Row(rows, key) \in S /\ Row(rows, key).key = key
<1>1. PICK i \in DOMAIN rows : rows[i].key = key
  BY DEF Has
<1> DEFINE j == CHOOSE k \in DOMAIN rows : rows[k].key = key
<1>2. j \in DOMAIN rows /\ rows[j].key = key
  BY <1>1
<1>3. rows[j] \in S
  BY <1>2
<1> QED
  BY <1>2, <1>3 DEF Row

\* The product of a sampling's counts is the number of its rays.
LEMMA SamplingGiven ==
  ASSUME NEW rows \in Seq(Lines), NEW name \in Samplings,
         Has(rows, <<name, 0>>)
  PROVE  Row(rows, <<name, 0>>).nums[1] * Row(rows, <<name, 0>>).nums[2] \in Int
<1> DEFINE row == Row(rows, <<name, 0>>)
<1>1. row \in Lines /\ row.key = <<name, 0>>
  BY RowGiven
<1>2. row.nums \in Seq(Int) /\ Len(row.nums) = 2
  BY <1>1, LinesTyped
<1> HIDE DEF row
<1>3. row.nums[1] \in Int /\ row.nums[2] \in Int
  BY <1>2
<1>4. row.nums[1] * row.nums[2] \in Int
  BY <1>3
<1> QED
  BY <1>4 DEF row

LEMMA DefaultSamplings ==
  /\ DEFAULT_GAUSSIAN_QUADRATURE_RINGS * DEFAULT_GAUSSIAN_QUADRATURE_SPOKES \in Int
  /\ DEFAULT_CONTRAST_RINGS * DEFAULT_CONTRAST_SPOKES \in Int
<1>1. /\ DEFAULT_GAUSSIAN_QUADRATURE_RINGS \in Nat /\ DEFAULT_GAUSSIAN_QUADRATURE_SPOKES \in Nat
      /\ DEFAULT_CONTRAST_RINGS \in Nat /\ DEFAULT_CONTRAST_SPOKES \in Nat
  BY PipelineAssumption
<1> QED
  BY <1>1

LEMMA SettingsTyped ==
  ASSUME NEW rows \in Seq(Lines)
  PROVE  LET c == toConfiguration(rows)
         IN /\ c.gaussian[1] * c.gaussian[2] \in Int
            /\ c.contrastSampling[1] * c.contrastSampling[2] \in Int
            /\ \A i \in DOMAIN c.contrastGoals : i \in 1..Len(c.contrastGoals) /\ Len(c.contrastGoals) \in Nat
<1> DEFINE c == toConfiguration(rows)
           gaussian == "goal spot sampling gaussian"
           contrast == "goal contrast sampling"
<1>1. gaussian \in Samplings /\ contrast \in Samplings
  BY DEF Samplings
<1>2. c.gaussian[1] * c.gaussian[2] \in Int
  <2>1. c.gaussian = IF Has(rows, <<gaussian, 0>>) THEN Row(rows, <<gaussian, 0>>).nums
                     ELSE <<DEFAULT_GAUSSIAN_QUADRATURE_RINGS, DEFAULT_GAUSSIAN_QUADRATURE_SPOKES>>
    BY DEF toConfiguration
  <2>2. CASE Has(rows, <<gaussian, 0>>)
    BY <1>1, <2>1, <2>2, SamplingGiven
  <2>3. CASE ~Has(rows, <<gaussian, 0>>)
    <3>1. c.gaussian = <<DEFAULT_GAUSSIAN_QUADRATURE_RINGS, DEFAULT_GAUSSIAN_QUADRATURE_SPOKES>>
      BY <2>1, <2>3
    <3> QED
      BY <3>1, DefaultSamplings
  <2> QED
    BY <2>2, <2>3
<1>3. c.contrastSampling[1] * c.contrastSampling[2] \in Int
  <2>1. c.contrastSampling = IF Has(rows, <<contrast, 0>>) THEN Row(rows, <<contrast, 0>>).nums
                             ELSE <<DEFAULT_CONTRAST_RINGS, DEFAULT_CONTRAST_SPOKES>>
    BY DEF toConfiguration
  <2>2. CASE Has(rows, <<contrast, 0>>)
    BY <1>1, <2>1, <2>2, SamplingGiven
  <2>3. CASE ~Has(rows, <<contrast, 0>>)
    <3>1. c.contrastSampling = <<DEFAULT_CONTRAST_RINGS, DEFAULT_CONTRAST_SPOKES>>
      BY <2>1, <2>3
    <3> QED
      BY <3>1, DefaultSamplings
  <2> QED
    BY <2>2, <2>3
<1>4. Frequencies(rows) \in Seq(Int)
  <2>1. CASE Has(rows, <<"goal contrast", 0>>)
    <3>1. Row(rows, <<"goal contrast", 0>>) \in Lines
      BY <2>1, RowGiven
    <3> QED
      BY <2>1, <3>1, LinesTyped DEF Frequencies
  <2>2. CASE ~Has(rows, <<"goal contrast", 0>>)
    <3>1. Frequencies(rows) = <<>>
      BY <2>2 DEF Frequencies
    <3> QED
      BY <3>1
  <2> QED
    BY <2>1, <2>2
<1>5. \A i \in DOMAIN c.contrastGoals : i \in 1..Len(c.contrastGoals) /\ Len(c.contrastGoals) \in Nat
  <2> DEFINE goal(f) ==
        [frequency |-> f,
         sag |-> weightsFor(rows, <<"goal contrast sag", f>>, <<"goal contrast sag", 0>>),
         tan |-> weightsFor(rows, <<"goal contrast tan", f>>, <<"goal contrast tan", 0>>)]
  <2>1. c.contrastGoals = [i \in DOMAIN Frequencies(rows) |-> goal(Frequencies(rows)[i])]
    BY DEF toConfiguration
  <2> HIDE DEF goal, c
  <2>2. DOMAIN Frequencies(rows) = 1..Len(Frequencies(rows)) /\ Len(Frequencies(rows)) \in Nat
    BY <1>4
  <2>3. Len(c.contrastGoals) = Len(Frequencies(rows))
    BY <2>1, <2>2
  <2> QED
    BY <2>1, <2>2, <2>3
<1> QED
  BY <1>2, <1>3, <1>5

-----------------------------------------------------------------------------
(* Goals and the analysis *)

\* What each goal presupposes of the settings.
Origin(goal, p, c, vs, crossed) ==
  /\ goal[1] = "mtf" => \E i \in DOMAIN c.mtfGoals : goal[4] = c.mtfGoals[i].frequency
  /\ goal[1] = "rms" => c.spotRms # <<>>
  /\ goal[1] = "deviation" => c.spotDeviation # <<>> /\ goal[4] \in SampleNumbers(c.gaussian)
  /\ goal[1] = "max_radius" => c.spotMaxRadius # <<>>
  /\ goal[1] = "ray" => c.rayAberrations = TRUE /\ goal[4] \in 0..(RAY_FAN_SAMPLES - 1)
  /\ goal[1] = "contrast" =>
       goal[4][1] \in DOMAIN c.contrastGoals /\ goal[4][2] \in SampleNumbers(c.contrastSampling)
  /\ goal[1] = "balance" => goal[4][1] \in DOMAIN c.contrastGoals /\ goal[4][2] = 0
  /\ goal[1] = "edge" => goal \in ConstraintGoals(p, c, vs, crossed)
  /\ goal[1] \in {"deviation", "ray", "contrast"} =>
       goal[2] \in DOMAIN c.fields /\ goal[3] \in DOMAIN c.wavelengths /\ goal[5] \in Directions

LEMMA GoalOrigin ==
  ASSUME NEW p, NEW c, NEW vs, NEW crossed,
         NEW goal \in buildGoals(p, c, vs, crossed)
  PROVE  Origin(goal, p, c, vs, crossed)
<1>1. CASE goal \in ConstraintGoals(p, c, vs, crossed)
  <2>1. goal[1] \in {"thickness", "edge", "curvature"}
    BY <1>1 DEF ConstraintGoals
  <2> QED
    BY <1>1, <2>1 DEF Origin
<1>2. CASE goal \in MtfGoals(c)
  BY <1>2 DEF MtfGoals, Origin
<1>3. CASE goal \in ContrastGoals(c)
  <2>1. PICK i \in DOMAIN c.contrastGoals : goal \in OneContrast(c, i)
    BY <1>3 DEF ContrastGoals
  <2> QED
    BY <2>1 DEF OneContrast, Origin
<1>4. CASE goal \in BalanceGoals(c)
  BY <1>4 DEF BalanceGoals, Origin
<1>5. CASE goal \in RmsGoals(c) \cup MaxRadiusGoals(c) \cup RayGoals(c)
  <2>1. CASE goal \in RmsGoals(c)
    BY <2>1 DEF RmsGoals, Origin
  <2>2. CASE goal \in MaxRadiusGoals(c)
    BY <2>2 DEF MaxRadiusGoals, Origin
  <2>3. CASE goal \in RayGoals(c)
    <3>1. /\ c.rayAberrations = TRUE /\ goal[1] = "ray"
          /\ goal[2] \in DOMAIN c.fields /\ goal[3] \in DOMAIN c.wavelengths
          /\ goal[4] \in 0..(RAY_FAN_SAMPLES - 1) /\ goal[5] \in Directions
      BY <2>3 DEF RayGoals
    <3> QED
      BY <3>1 DEF Origin
  <2> QED
    BY <1>5, <2>1, <2>2, <2>3
<1>6. CASE goal \in DeviationGoals(c)
  BY <1>6 DEF DeviationGoals, Origin
<1>7. CASE goal \in ParaxialGoals(c)
  BY <1>7 DEF ParaxialGoals, Origin
<1> QED
  BY <1>1, <1>2, <1>3, <1>4, <1>5, <1>6, <1>7 DEF buildGoals

\* An edge goal belongs to a gap that a varied parameter moves.
LEMMA EdgeGoals ==
  ASSUME NEW p, NEW c, NEW vs, NEW crossed, c.edgeConstraint # <<>>, NEW gap
  PROVE  <<"edge", gap, 0, 0, 0>> \in buildGoals(p, c, vs, crossed)
           <=> /\ \E i \in DOMAIN vs : Moves(vs[i], gap)
               /\ is_constrainable(p, c.scenario, crossed, gap)
<1> DEFINE goal == <<"edge", gap, 0, 0, 0>>
<1>1. goal \in ConstraintGoals(p, c, vs, crossed)
        <=> gap \in edgeAffectedGaps(vs) /\ is_constrainable(p, c.scenario, crossed, gap)
  BY DEF ConstraintGoals
<1>2. gap \in edgeAffectedGaps(vs) <=> \E i \in DOMAIN vs : Moves(vs[i], gap)
  BY DEF edgeAffectedGaps, Moves
<1>3. goal \in buildGoals(p, c, vs, crossed) <=> goal \in ConstraintGoals(p, c, vs, crossed)
  <2>1. ASSUME goal \in buildGoals(p, c, vs, crossed)
        PROVE  goal \in ConstraintGoals(p, c, vs, crossed)
    BY <2>1, GoalOrigin DEF Origin
  <2> QED
    BY <2>1 DEF buildGoals
<1> QED
  BY <1>1, <1>2, <1>3

\* The analysis computes what a goal presupposes, if the settings exclude
\* deviation goals beside a maximum radius.
LEMMA OriginComputed ==
  ASSUME NEW rows \in Seq(Lines), NEW p, NEW vs, NEW crossed,
         toConfiguration(rows).spotDeviation # <<>> => toConfiguration(rows).spotMaxRadius = <<>>,
         NEW goal, Origin(goal, p, toConfiguration(rows), vs, crossed)
  PROVE  Computed(configureAnalysis(toConfiguration(rows)), goal)
<1> DEFINE c == toConfiguration(rows)
           analysis == configureAnalysis(c)
<1>1. /\ c.gaussian[1] * c.gaussian[2] \in Int
      /\ c.contrastSampling[1] * c.contrastSampling[2] \in Int
      /\ \A i \in DOMAIN c.contrastGoals : i \in 1..Len(c.contrastGoals) /\ Len(c.contrastGoals) \in Nat
  BY SettingsTyped
<1>2. Origin(goal, p, c, vs, crossed) /\ (c.spotDeviation # <<>> => c.spotMaxRadius = <<>>)
  OBVIOUS
<1> HIDE DEF c
<1>3. goal[1] = "mtf" => /\ analysis.spots /\ analysis.mtf
                         /\ goal[4] \in analysis.mtfFrequencies
  <2>1. SUFFICES ASSUME goal[1] = "mtf"
                 PROVE  /\ analysis.spots /\ analysis.mtf
                        /\ goal[4] \in analysis.mtfFrequencies
    OBVIOUS
  <2>2. PICK i \in DOMAIN c.mtfGoals : goal[4] = c.mtfGoals[i].frequency
    BY <1>2, <2>1 DEF Origin
  <2>3. c.mtfGoals # <<>>
    BY <2>2
  <2> QED
    BY <2>2, <2>3 DEF configureAnalysis, effectiveAnalysis
<1>4. goal[1] = "rms" => analysis.spots
  BY <1>2 DEF Origin, configureAnalysis, effectiveAnalysis
<1>5. goal[1] = "deviation" =>
        /\ analysis.spots /\ ~analysis.hexapolar /\ analysis.retainFailedRays
        /\ goal[4] < analysis.gaussian[1] * analysis.gaussian[2]
  <2>1. SUFFICES ASSUME goal[1] = "deviation"
                 PROVE  /\ analysis.spots /\ ~analysis.hexapolar /\ analysis.retainFailedRays
                        /\ goal[4] < analysis.gaussian[1] * analysis.gaussian[2]
    OBVIOUS
  <2>2. c.spotDeviation # <<>> /\ goal[4] \in SampleNumbers(c.gaussian)
    BY <1>2, <2>1 DEF Origin
  <2>3. analysis.spots /\ ~analysis.hexapolar /\ analysis.retainFailedRays
    BY <2>2 DEF configureAnalysis, effectiveAnalysis
  <2>4. analysis.gaussian = c.gaussian
    BY DEF configureAnalysis
  <2>5. goal[4] < analysis.gaussian[1] * analysis.gaussian[2]
    BY <1>1, <2>2, <2>4 DEF SampleNumbers
  <2> QED
    BY <2>3, <2>5
<1>6. goal[1] = "max_radius" => analysis.spots /\ analysis.hexapolar
  BY <1>2 DEF Origin, configureAnalysis, effectiveAnalysis
<1>7. goal[1] = "ray" => analysis.rays
  BY <1>2 DEF Origin, configureAnalysis, effectiveAnalysis
<1>8. goal[1] \in {"contrast", "balance"} => goal[4][1] <= analysis.contrasts
  BY <1>1, <1>2 DEF Origin, configureAnalysis
<1>9. goal[1] = "contrast" => goal[4][2] < analysis.contrastSampling[1] * analysis.contrastSampling[2]
  BY <1>1, <1>2 DEF Origin, SampleNumbers, configureAnalysis
<1> HIDE DEF analysis
<1> QED
  BY <1>3, <1>4, <1>5, <1>6, <1>7, <1>8, <1>9 DEF c, analysis, Computed

-----------------------------------------------------------------------------
(* Rays and the goals that read them *)

LEMMA ItemFields ==
  ASSUME NEW ray, NEW lost
  PROVE  Item(ray, lost).ray = ray /\ Item(ray, lost).valid = (ray \notin lost)
BY DEF Item

\* In a pattern that keeps its failed rays, a place holds its own ray.
LEMMA GaussianPlace ==
  ASSUME NEW f, NEW w, NEW lost, NEW N \in Int, NEW sample \in 0..(N - 1), NEW items,
         items = [i \in 1..N |-> Item(<<"gauss", f, w, i - 1, 0>>, lost)]
  PROVE  At(items, sample)
           = IF <<"gauss", f, w, sample, 0>> \in lost THEN Big ELSE <<"gauss", f, w, sample, 0>>
<1> DEFINE ray == <<"gauss", f, w, sample, 0>>
<1>1. sample + 1 \in 1..N /\ (sample + 1) - 1 = sample
  OBVIOUS
<1>2. sample + 1 \in DOMAIN items /\ items[sample + 1] = Item(ray, lost)
  BY <1>1
<1> HIDE DEF ray
<1>3. items[sample + 1].ray = ray /\ items[sample + 1].valid = (ray \notin lost)
  BY <1>2, ItemFields
<1>4. At(items, sample) = IF ray \in lost THEN Big ELSE ray
  BY <1>2, <1>3 DEF At
<1> QED
  BY <1>4 DEF ray

LEMMA FanPlace ==
  ASSUME NEW f, NEW xy, NEW w, NEW lost, NEW sample \in 0..(RAY_FAN_SAMPLES - 1), NEW items,
         items = [i \in 1..NUM_TRANSVERSE_RAYS |-> Item(<<"fan", f, w, i - 1, xy>>, lost)]
  PROVE  At(items, sample)
           = IF <<"fan", f, w, sample, xy>> \in lost THEN Big ELSE <<"fan", f, w, sample, xy>>
<1> DEFINE ray == <<"fan", f, w, sample, xy>>
<1>1. sample + 1 \in 1..NUM_TRANSVERSE_RAYS /\ (sample + 1) - 1 = sample
  BY PipelineAssumption
<1>2. sample + 1 \in DOMAIN items /\ items[sample + 1] = Item(ray, lost)
  BY <1>1
<1> HIDE DEF ray
<1>3. items[sample + 1].ray = ray /\ items[sample + 1].valid = (ray \notin lost)
  BY <1>2, ItemFields
<1>4. At(items, sample) = IF ray \in lost THEN Big ELSE ray
  BY <1>2, <1>3 DEF At
<1> QED
  BY <1>4 DEF ray

LEMMA ContrastPlace ==
  ASSUME NEW f, NEW w, NEW i, NEW lost, NEW sampling, sampling[1] * sampling[2] \in Int,
         NEW sample \in SampleNumbers(sampling)
  PROVE  LET samples == trace_triplets(f, w, i, sampling, lost)
         IN /\ sample + 1 \in DOMAIN samples
            /\ samples[sample + 1].rays = [o \in 0..2 |-> ContrastRay(f, w, i, sample, o)]
            /\ samples[sample + 1].valid
                 <=> \A o \in 0..2 : ContrastRay(f, w, i, sample, o) \notin lost
<1>1. sample + 1 \in 1..(sampling[1] * sampling[2]) /\ (sample + 1) - 1 = sample
  BY DEF SampleNumbers
<1> QED
  BY <1>1 DEF trace_triplets

-----------------------------------------------------------------------------
(* What the lines of a trial vary *)

\* The lines the reader accepts for a lens.
Accepted(lens) == {row \in Lines : LineAccepted(lens, row)}

LEMMA AcceptedTyped ==
  ASSUME NEW lens, NEW row \in Accepted(lens)
  PROVE  /\ row.nums \in Seq(Int) /\ LineAccepted(lens, row)
         /\ row.key[1] = "configuration" => Len(row.nums) = 1
BY LinesTyped DEF Accepted

LEMMA RowsGiven ==
  ASSUME NEW S, NEW rows \in Seq(S), NEW key
  PROVE  Rows(rows, key) \in Seq({row \in S : row.key[1] = key})
<1> DEFINE T == {i \in DOMAIN rows : rows[i].key[1] = key}
           given == Increasing(T)
           K == {row \in S : row.key[1] = key}
<1>1. Len(rows) \in Nat /\ DOMAIN rows = 1..Len(rows) /\ \A i \in DOMAIN rows : rows[i] \in S
  OBVIOUS
<1>2. given \in Seq(T)
  <2>1. T \in SUBSET (1..Len(rows))
    BY <1>1
  <2> HIDE DEF T
  <2> QED
    BY <1>1, <2>1, 1 \in Int, IncreasingElements
<1>3. DOMAIN given = 1..Len(given) /\ Len(given) \in Nat /\ \A n \in DOMAIN given : given[n] \in T
  <2> HIDE DEF given, T
  <2> QED
    BY <1>2, SeqIsList
<1>4. \A i \in T : rows[i] \in K
  BY <1>1
<1>5. Rows(rows, key) = [n \in DOMAIN given |-> rows[given[n]]]
  BY DEF Rows
<1> HIDE DEF given, T, K
<1>6. /\ Rows(rows, key) = [n \in 1..Len(given) |-> Rows(rows, key)[n]]
      /\ \A n \in 1..Len(given) : Rows(rows, key)[n] \in K
  BY <1>3, <1>4, <1>5
<1>7. Rows(rows, key) \in Seq(K)
  BY <1>3, <1>6, SeqMade
<1> QED
  BY <1>7 DEF K

\* Terms as they stand on the lines: surface, index, scale.
TermSet == UNION {{<<row.key[2], row.nums[j], row.extra[j]>> : j \in DOMAIN row.nums} : row \in Lines}

LEMMA TermSetTyped == \A t \in TermSet : t[2] \in Int
<1> SUFFICES ASSUME NEW row \in Lines, NEW j \in DOMAIN row.nums PROVE row.nums[j] \in Int
  BY DEF TermSet
<1>1. row.nums \in Seq(Int)
  BY LinesTyped
<1> QED
  BY <1>1

LEMMA TermsGiven ==
  ASSUME NEW lens, NEW rows \in Seq(Accepted(lens))
  PROVE  toConfiguration(rows).asphericTerms \in Seq(TermSet)
<1> DEFINE given == Rows(rows, "vary aspherics")
           of(row) == [j \in DOMAIN row.nums |-> <<row.key[2], row.nums[j], row.extra[j]>>]
           parts == [i \in DOMAIN given |-> of(given[i])]
<1>1. toConfiguration(rows).asphericTerms = FlattenSeq(parts)
  BY DEF toConfiguration
<1>2. given \in Seq(Lines)
  <2>1. given \in Seq({row \in Accepted(lens) : row.key[1] = "vary aspherics"})
    BY RowsGiven
  <2>2. {row \in Accepted(lens) : row.key[1] = "vary aspherics"} \subseteq Lines
    BY DEF Accepted
  <2> HIDE DEF given
  <2> QED
    BY <2>1, <2>2, SeqMonotonic
<1>3. DOMAIN given = 1..Len(given) /\ Len(given) \in Nat /\ \A i \in DOMAIN given : given[i] \in Lines
  <2> HIDE DEF given
  <2> QED
    BY <1>2, SeqIsList
<1>4. \A row \in Lines : of(row) \in Seq(TermSet)
  <2> SUFFICES ASSUME NEW row \in Lines PROVE of(row) \in Seq(TermSet)
    OBVIOUS
  <2>1. row.nums \in Seq(Int)
    BY LinesTyped
  <2>2. Len(row.nums) \in Nat /\ DOMAIN row.nums = 1..Len(row.nums)
    BY <2>1
  <2>3. \A j \in 1..Len(row.nums) : of(row)[j] \in TermSet
    <3> SUFFICES ASSUME NEW j \in DOMAIN row.nums PROVE of(row)[j] \in TermSet
      BY <2>2
    <3>1. of(row)[j] = <<row.key[2], row.nums[j], row.extra[j]>>
      OBVIOUS
    <3> HIDE DEF of
    <3> QED
      BY <3>1 DEF TermSet
  <2>4. of(row) = [j \in 1..Len(row.nums) |-> of(row)[j]]
    BY <2>2
  <2> HIDE DEF of
  <2> QED
    BY <2>2, <2>3, <2>4, SeqMade
<1> HIDE DEF given, of
<1>5. parts \in Seq(Seq(TermSet))
  <2>1. \A i \in 1..Len(given) : parts[i] \in Seq(TermSet)
    BY <1>3, <1>4
  <2>2. parts = [i \in 1..Len(given) |-> parts[i]]
    BY <1>3
  <2> HIDE DEF parts
  <2> QED
    BY <1>3, <2>1, <2>2, SeqMade
<1> HIDE DEF parts
<1> QED
  BY <1>1, <1>5, FlattenTyped

LEMMA ScenarioGiven ==
  ASSUME NEW lens, NEW rows \in Seq(Accepted(lens))
  PROVE  toConfiguration(rows).scenario \in Nat
<1> DEFINE key == <<"configuration", 0>>
<1>1. toConfiguration(rows).scenario = IF Has(rows, key) THEN Row(rows, key).nums[1] ELSE 0
  BY DEF toConfiguration
<1>2. CASE Has(rows, key)
  <2>1. Row(rows, key) \in Accepted(lens) /\ Row(rows, key).key = key
    BY <1>2, RowGiven
  <2>2. key[1] = "configuration"
    OBVIOUS
  <2> DEFINE row == Row(rows, key)
  <2> HIDE DEF row
  <2>3. row.nums \in Seq(Int) /\ LineAccepted(lens, row) /\ Len(row.nums) = 1
    BY <2>1, <2>2, AcceptedTyped DEF row
  <2>4. NonNegative(row.nums)
    BY <2>1, <2>2, <2>3 DEF LineAccepted, row
  <2>5. 1 \in DOMAIN row.nums /\ row.nums[1] \in Int
    BY <2>3
  <2>6. row.nums[1] \in Nat
    BY <2>4, <2>5 DEF NonNegative
  <2> QED
    BY <1>1, <1>2, <2>6 DEF row
<1>3. CASE ~Has(rows, key)
  BY <1>1, <1>3
<1> QED
  BY <1>2, <1>3

LEMMA NothingListed == <<>> \in Seq(Int) /\ DOMAIN <<>> = {}
OBVIOUS

\* A selection lists surfaces of the lens, for the curvatures no stop.
LEMMA SelectionGiven ==
  ASSUME NEW lens, NEW rows \in Seq(Accepted(lens)),
         NEW key \in {"vary curvatures", "vary thicknesses"}
  PROVE  LET listed == SelectionOf(rows, key).listed
         IN /\ listed \in Seq(Int)
            /\ key = "vary curvatures" =>
                 \A i \in DOMAIN listed : lens[listed[i] + 1] \notin {"AS", "FS"}
<1> DEFINE row == Row(rows, <<key, 0>>)
           listed == SelectionOf(rows, key).listed
<1>1. /\ ~Has(rows, <<key, 0>>) => listed = <<>>
      /\ Has(rows, <<key, 0>>) => listed = IF row.word = "list" THEN row.nums ELSE <<>>
  BY DEF SelectionOf
<1>2. Has(rows, <<key, 0>>) => row \in Accepted(lens) /\ row.key = <<key, 0>>
  BY RowGiven
<1> HIDE DEF row, listed
<1>3. CASE listed = <<>>
  BY <1>3, NothingListed DEF listed
<1>4. CASE listed # <<>>
  <2>1. Has(rows, <<key, 0>>) /\ listed = row.nums /\ row.word = "list"
    BY <1>1, <1>4
  <2>2. row \in Accepted(lens) /\ row.key[1] = key
    <3>1. <<key, 0>>[1] = key
      OBVIOUS
    <3> QED
      BY <1>2, <2>1, <3>1
  <2>3. row.nums \in Seq(Int) /\ LineAccepted(lens, row)
    BY <2>2, AcceptedTyped
  <2>4. key = "vary curvatures" => selection(lens, row, TRUE)
    BY <2>2, <2>3 DEF LineAccepted
  <2>5. key = "vary curvatures" =>
          \A i \in DOMAIN row.nums : lens[row.nums[i] + 1] \notin {"AS", "FS"}
    BY <2>1, <2>4 DEF selection, surfaces
  <2> QED
    BY <2>1, <2>3, <2>5 DEF listed
<1> QED
  BY <1>3, <1>4

Kinds == {"radius", "thickness", "conic", "coefficient"}
Allowed(p, scenario) == {v \in Kinds \X Int \X Int : VariableOK(p, scenario, v)}

LEMMA AllowedOK ==
  ASSUME NEW p, NEW scenario, NEW vs \in Seq(Allowed(p, scenario))
  PROVE  VariablesOK(p, scenario, vs)
<1> SUFFICES ASSUME NEW i \in DOMAIN vs
             PROVE  VariableOK(p, scenario, vs[i]) /\ vs[i] = <<vs[i][1], vs[i][2], vs[i][3]>>
  BY DEF VariablesOK
<1>1. vs[i] \in Allowed(p, scenario)
  OBVIOUS
<1> QED
  BY <1>1 DEF Allowed

LEMMA NonZeroTerm ==
  ASSUME NEW type, NEW coeffs, TermsOK(type, coeffs), NEW i \in DOMAIN coeffs, coeffs[i] # 0
  PROVE  HasTerm(type, i - 1) /\ i - 1 \in Int
<1>1. i \in Nat /\ i >= 1
  BY ListIs DEF TermsOK
<1>2. type # Spherical
  <2>1. DOMAIN <<>> = {}
    OBVIOUS
  <2> QED
    BY <2>1 DEF TermsOK
<1>3. type = Even => i >= 2
  BY <1>1 DEF TermsOK
<1>4. type = Radial => i >= 3
  BY <1>1 DEF TermsOK
<1>5. type \in {Even, EvenA2, Radial}
  BY <1>2 DEF TermsOK
<1> QED
  BY <1>1, <1>3, <1>4, <1>5 DEF HasTerm, Even, EvenA2, Radial

\* Making spheres aspheric makes no surface a stop.
LEMMA StopsKept ==
  ASSUME NEW p, LensOK(p), NEW terms, TermsAccepted(p, terms), NEW s \in SurfaceNumbers(p)
  PROVE  IsStop(WithExplicitTerms(p, terms), s) <=> IsStop(p, s)
<1> DEFINE q == WithExplicitTerms(p, terms)
<1>1. s + 1 \in DOMAIN p.surfaces
  BY SurfaceNumbersAre DEF LensOK
<1>2. SameButForm(p.surfaces[s + 1], q.surfaces[s + 1])
  BY <1>1, ExplicitSurface
<1> QED
  BY <1>2 DEF IsStop, Surface, SameButForm

CellsOf(p) == [s \in DOMAIN p.surfaces |-> p.surfaces[s].cell]

LEMMA CurvaturesAllowed ==
  ASSUME NEW p, LensOK(p), NEW lens, lens = CellsOf(p),
         NEW rows \in Seq(Accepted(lens)), NEW c, c = toConfiguration(rows),
         NEW terms, TermsAccepted(p, terms), NEW scenario,
         Range(c.curvatures.listed) \subseteq SurfaceNumbers(p)
  PROVE  CurvatureVariables(p, c) \in Seq(Allowed(WithExplicitTerms(p, terms), scenario))
<1> DEFINE q == WithExplicitTerms(p, terms)
           all == {s \in SurfaceNumbers(p) : ~IsStop(p, s) /\ Surface(p, s).radius # 0
                                             /\ s \notin Range(c.curvatures.except)}
           moving == IF c.curvatures.all THEN Increasing(all) ELSE c.curvatures.listed
           vs == [i \in DOMAIN moving |-> <<"radius", moving[i], 0>>]
           free == {s \in SurfaceNumbers(p) : ~IsStop(p, s)}
<1>1. CurvatureVariables(p, c) = vs
  BY DEF CurvatureVariables
<1>2. SurfaceNumbers(p) = 0..(Len(p.surfaces) - 1) /\ Len(p.surfaces) \in Nat /\ IsList(p.surfaces)
  BY SurfaceNumbersAre DEF LensOK
<1>3. Increasing(all) \in Seq(free)
  <2>1. all \in SUBSET (0..Len(p.surfaces)) /\ all \subseteq free
    BY <1>2
  <2> HIDE DEF all, free
  <2>2. Increasing(all) \in Seq(all)
    BY <1>2, <2>1, 0 \in Int, IncreasingElements
  <2> QED
    BY <2>1, <2>2, SeqMonotonic
<1>4. c.curvatures.listed \in Seq(free)
  <2> DEFINE listed == c.curvatures.listed
  <2>1. c.curvatures = SelectionOf(rows, "vary curvatures")
    BY DEF toConfiguration
  <2>2. listed \in Seq(Int) /\ \A i \in DOMAIN listed : lens[listed[i] + 1] \notin {"AS", "FS"}
    <3>1. "vary curvatures" \in {"vary curvatures", "vary thicknesses"}
      OBVIOUS
    <3> QED
      BY <2>1, <3>1, SelectionGiven
  <2>3. \A i \in DOMAIN listed : listed[i] \in SurfaceNumbers(p)
    BY DEF Range
  <2> HIDE DEF listed
  <2>4. \A i \in DOMAIN listed : listed[i] \in free
    <3> SUFFICES ASSUME NEW i \in DOMAIN listed PROVE ~IsStop(p, listed[i])
      BY <2>3
    <3>1. listed[i] + 1 \in DOMAIN p.surfaces
      BY <1>2, <2>3, SurfaceNumbersAre
    <3>2. lens[listed[i] + 1] = p.surfaces[listed[i] + 1].cell
      BY <3>1 DEF CellsOf
    <3> QED
      BY <2>2, <3>2 DEF IsStop, Surface
  <2>5. Len(listed) \in Nat /\ DOMAIN listed = 1..Len(listed)
        /\ listed = [i \in 1..Len(listed) |-> listed[i]]
    BY <2>2
  <2> HIDE DEF free
  <2>6. listed \in Seq(free)
    BY <2>4, <2>5, SeqMade
  <2> QED
    BY <2>6 DEF listed
<1>5. moving \in Seq(free)
  <2> HIDE DEF free, all
  <2> QED
    BY <1>3, <1>4
<1>6. \A s \in free : <<"radius", s, 0>> \in Allowed(q, scenario)
  <2> SUFFICES ASSUME NEW s \in free PROVE <<"radius", s, 0>> \in Allowed(q, scenario)
    OBVIOUS
  <2>1. s \in Int /\ ~IsStop(q, s)
    BY <1>2, StopsKept
  <2> HIDE DEF q
  <2>2. VariableOK(q, scenario, <<"radius", s, 0>>)
    BY <2>1 DEF VariableOK
  <2>3. <<"radius", s, 0>> \in Kinds \X Int \X Int
    BY <2>1 DEF Kinds
  <2> QED
    BY <2>2, <2>3 DEF Allowed
<1> HIDE DEF moving, free, q
<1>7. DOMAIN moving = 1..Len(moving) /\ Len(moving) \in Nat /\ \A i \in DOMAIN moving : moving[i] \in free
  BY <1>5, SeqIsList
<1>8. vs = [i \in 1..Len(moving) |-> vs[i]] /\ \A i \in 1..Len(moving) : vs[i] \in Allowed(q, scenario)
  BY <1>6, <1>7
<1> HIDE DEF vs
<1>9. vs \in Seq(Allowed(q, scenario))
  BY <1>7, <1>8, SeqMade
<1> QED
  BY <1>1, <1>9 DEF q

LEMMA ThicknessesAllowed ==
  ASSUME NEW p, LensOK(p), NEW lens,
         NEW rows \in Seq(Accepted(lens)), NEW c, c = toConfiguration(rows), NEW q
  PROVE  ThicknessVariables(p, c) \in Seq(Allowed(q, c.scenario))
<1> DEFINE all == {s \in SurfaceNumbers(p) : thicknessOf(Surface(p, s), c.scenario + 1) # 0
                                             /\ s \notin Range(c.thicknesses.except)}
           moving == IF c.thicknesses.all THEN Increasing(all) ELSE c.thicknesses.listed
           vs == [i \in DOMAIN moving |-> <<"thickness", moving[i], c.scenario>>]
<1>1. ThicknessVariables(p, c) = vs
  BY DEF ThicknessVariables
<1>2. SurfaceNumbers(p) = 0..(Len(p.surfaces) - 1) /\ Len(p.surfaces) \in Nat
  BY SurfaceNumbersAre DEF LensOK
<1>3. Increasing(all) \in Seq(Int)
  <2>1. all \in SUBSET (0..Len(p.surfaces)) /\ all \subseteq Int
    BY <1>2
  <2> HIDE DEF all
  <2>2. Increasing(all) \in Seq(all)
    BY <1>2, <2>1, 0 \in Int, IncreasingElements
  <2> QED
    BY <2>1, <2>2, SeqMonotonic
<1>4. c.thicknesses.listed \in Seq(Int)
  <2>1. c.thicknesses = SelectionOf(rows, "vary thicknesses")
    BY DEF toConfiguration
  <2>2. "vary thicknesses" \in {"vary curvatures", "vary thicknesses"}
    OBVIOUS
  <2> QED
    BY <2>1, <2>2, SelectionGiven
<1>5. moving \in Seq(Int)
  <2> HIDE DEF all
  <2> QED
    BY <1>3, <1>4
<1>6. c.scenario \in Int
  BY ScenarioGiven
<1>7. \A s \in Int : <<"thickness", s, c.scenario>> \in Allowed(q, c.scenario)
  <2> SUFFICES ASSUME NEW s \in Int PROVE <<"thickness", s, c.scenario>> \in Allowed(q, c.scenario)
    OBVIOUS
  <2>1. VariableOK(q, c.scenario, <<"thickness", s, c.scenario>>)
    BY DEF VariableOK
  <2>2. <<"thickness", s, c.scenario>> \in Kinds \X Int \X Int
    BY <1>6 DEF Kinds
  <2> QED
    BY <2>1, <2>2 DEF Allowed
<1> HIDE DEF moving
<1>8. DOMAIN moving = 1..Len(moving) /\ Len(moving) \in Nat /\ \A i \in DOMAIN moving : moving[i] \in Int
  BY <1>5, SeqIsList
<1>9. vs = [i \in 1..Len(moving) |-> vs[i]] /\ \A i \in 1..Len(moving) : vs[i] \in Allowed(q, c.scenario)
  BY <1>7, <1>8
<1> HIDE DEF vs
<1>10. vs \in Seq(Allowed(q, c.scenario))
  BY <1>8, <1>9, SeqMade
<1> QED
  BY <1>1, <1>10

\* The coefficients of a surface that are not zero, each as a variable.
HeldTerms(p, s) ==
  LET held == Increasing({i \in DOMAIN Surface(p, s).coeffs : Surface(p, s).coeffs[i] # 0})
  IN [i \in DOMAIN held |-> <<"coefficient", s, held[i] - 1>>]

HeldConic(p, s) == IF Surface(p, s).k # 0 THEN << <<"conic", s, 0>> >> ELSE <<>>

LEMMA HeldAllowed ==
  ASSUME NEW p, LensOK(p), NEW terms, TermsAccepted(p, terms), NEW scenario,
         NEW s \in SurfaceNumbers(p), Touches(terms, s + 1) = {}
  PROVE  /\ HeldConic(p, s) \in Seq(Allowed(WithExplicitTerms(p, terms), scenario))
         /\ HeldTerms(p, s) \in Seq(Allowed(WithExplicitTerms(p, terms), scenario))
<1> DEFINE q == WithExplicitTerms(p, terms)
           a == p.surfaces[s + 1]
           S == {i \in DOMAIN a.coeffs : a.coeffs[i] # 0}
           held == Increasing(S)
           A == Allowed(q, scenario)
<1>1. s + 1 \in DOMAIN p.surfaces /\ Surface(p, s) = a /\ s \in Nat
  BY SurfaceNumbersAre DEF LensOK
<1>2. q.surfaces[s + 1] = a
  BY <1>1, ExplicitSurface
<1>3. Surface(q, s) = a
  BY <1>2 DEF Surface
<1>4. SurfaceOK(p, a) /\ TermsOK(a.type, a.coeffs)
  BY <1>1 DEF LensOK, SurfaceOK
<1> HIDE DEF q
<1>5. HeldConic(p, s) \in Seq(A)
  <2>1. CASE a.k # 0
    <3>1. a.type # Spherical
      BY <1>4, <2>1 DEF SurfaceOK
    <3>2. VariableOK(q, scenario, <<"conic", s, 0>>)
      BY <1>3, <3>1 DEF VariableOK
    <3>3. <<"conic", s, 0>> \in Kinds \X Int \X Int
      BY <1>1 DEF Kinds
    <3>4. <<"conic", s, 0>> \in A
      BY <3>2, <3>3 DEF Allowed
    <3>5. HeldConic(p, s) = << <<"conic", s, 0>> >>
      BY <1>1, <2>1 DEF HeldConic
    <3> HIDE DEF A, a
    <3> QED
      BY <3>4, <3>5
  <2>2. CASE a.k = 0
    <3>1. HeldConic(p, s) = <<>>
      BY <1>1, <2>2 DEF HeldConic
    <3> HIDE DEF A, a
    <3> QED
      BY <3>1
  <2> QED
    BY <2>1, <2>2
<1>6. \A i \in S : <<"coefficient", s, i - 1>> \in A
  <2> SUFFICES ASSUME NEW i \in DOMAIN a.coeffs, a.coeffs[i] # 0
               PROVE  <<"coefficient", s, i - 1>> \in A
    OBVIOUS
  <2> HIDE DEF a
  <2>1. HasTerm(a.type, i - 1) /\ i - 1 \in Int
    BY <1>4, NonZeroTerm
  <2>2. VariableOK(q, scenario, <<"coefficient", s, i - 1>>)
    BY <1>3, <2>1 DEF VariableOK
  <2>3. <<"coefficient", s, i - 1>> \in Kinds \X Int \X Int
    BY <1>1, <2>1 DEF Kinds
  <2> QED
    BY <2>2, <2>3 DEF Allowed
<1>7. held \in Seq(S)
  <2>1. Len(a.coeffs) \in Nat /\ DOMAIN a.coeffs = 1..Len(a.coeffs)
    BY <1>4, ListIs DEF TermsOK
  <2>2. S \in SUBSET (1..Len(a.coeffs))
    BY <2>1
  <2> HIDE DEF S, a
  <2> QED
    BY <2>1, <2>2, 1 \in Int, IncreasingElements
<1>8. HeldTerms(p, s) = [i \in DOMAIN held |-> <<"coefficient", s, held[i] - 1>>]
  BY <1>1 DEF HeldTerms
<1> HIDE DEF held, S, A
<1>9. DOMAIN held = 1..Len(held) /\ Len(held) \in Nat /\ \A i \in DOMAIN held : held[i] \in S
  BY <1>7, SeqIsList
<1>10. /\ HeldTerms(p, s) = [i \in 1..Len(held) |-> HeldTerms(p, s)[i]]
       /\ \A i \in 1..Len(held) : HeldTerms(p, s)[i] \in A
  BY <1>6, <1>8, <1>9
<1>11. HeldTerms(p, s) \in Seq(A)
  BY <1>9, <1>10, SeqMade
<1> QED
  BY <1>5, <1>11 DEF A, q

LEMMA ExistingAllowed ==
  ASSUME NEW p, LensOK(p), NEW c, TermsAccepted(p, c.asphericTerms), NEW scenario
  PROVE  ExistingAspherics(p, c)
           \in Seq(Allowed(WithExplicitTerms(p, c.asphericTerms), scenario))
<1> DEFINE terms == c.asphericTerms
           A == Allowed(WithExplicitTerms(p, terms), scenario)
           explicit == {terms[i][1] : i \in DOMAIN terms}
           free == SurfaceNumbers(p) \ explicit
           moving == Increasing(free)
           of(s) == HeldConic(p, s) \o HeldTerms(p, s)
           parts == [i \in DOMAIN moving |-> of(moving[i])]
<1>1. ExistingAspherics(p, c) = IF c.existingAspherics THEN FlattenSeq(parts) ELSE <<>>
  BY DEF ExistingAspherics, HeldConic, HeldTerms
<1>2. moving \in Seq(free)
  <2>1. SurfaceNumbers(p) = 0..(Len(p.surfaces) - 1) /\ Len(p.surfaces) \in Nat
    BY SurfaceNumbersAre DEF LensOK
  <2>2. free \in SUBSET (0..Len(p.surfaces))
    BY <2>1
  <2> HIDE DEF free
  <2> QED
    BY <2>1, <2>2, 0 \in Int, IncreasingElements
<1>3. \A s \in free : of(s) \in Seq(A)
  <2> SUFFICES ASSUME NEW s \in free PROVE of(s) \in Seq(A)
    OBVIOUS
  <2>1. s \in SurfaceNumbers(p) /\ (s + 1) - 1 = s
    BY SurfaceNumbersAre DEF LensOK
  <2>2. Touches(terms, s + 1) = {}
    BY <2>1 DEF Touches
  <2>3. HeldConic(p, s) \in Seq(A) /\ HeldTerms(p, s) \in Seq(A)
    BY <2>1, <2>2, HeldAllowed
  <2> HIDE DEF A
  <2> QED
    BY <2>3, ConcatProperties
<1> HIDE DEF moving, of, A, free
<1>4. DOMAIN moving = 1..Len(moving) /\ Len(moving) \in Nat /\ \A i \in DOMAIN moving : moving[i] \in free
  BY <1>2, SeqIsList
<1>5. parts = [i \in 1..Len(moving) |-> parts[i]] /\ \A i \in 1..Len(moving) : parts[i] \in Seq(A)
  BY <1>3, <1>4
<1> HIDE DEF parts
<1>6. parts \in Seq(Seq(A))
  BY <1>4, <1>5, SeqMade
<1>7. FlattenSeq(parts) \in Seq(A)
  BY <1>6, FlattenTyped
<1>8. <<>> \in Seq(A)
  OBVIOUS
<1>9. ExistingAspherics(p, c) \in Seq(A)
  BY ONLY <1>1, <1>7, <1>8
<1> QED
  BY <1>9 DEF A

LEMMA ExplicitAllowed ==
  ASSUME NEW p, LensOK(p), NEW c, TermsAccepted(p, c.asphericTerms), NEW scenario
  PROVE  ExplicitAspherics(c) \in Seq(Allowed(WithExplicitTerms(p, c.asphericTerms), scenario))
<1> DEFINE terms == c.asphericTerms
           q == WithExplicitTerms(p, terms)
           A == Allowed(q, scenario)
           vs == ExplicitAspherics(c)
<1>1. Len(terms) \in Nat /\ DOMAIN terms = 1..Len(terms)
  BY ListIs DEF TermsAccepted
<1>2. \A i \in DOMAIN terms :
        vs[i] = IF terms[i][2] < 0 THEN <<"conic", terms[i][1], 0>>
                ELSE <<"coefficient", terms[i][1], terms[i][2]>>
  BY DEF ExplicitAspherics
<1>3. vs = [i \in 1..Len(terms) |-> vs[i]]
  BY <1>1 DEF ExplicitAspherics
<1>4. ASSUME NEW i \in DOMAIN terms
      PROVE  vs[i] \in A
  <2> DEFINE s == terms[i][1]
             type == asphereTypeOf(p, s)
  <2>1. /\ terms[i][2] \in Int /\ s \in SurfaceNumbers(p)
        /\ terms[i][2] >= 0 => HasTerm(type, terms[i][2])
    BY DEF TermsAccepted
  <2>2. s + 1 \in DOMAIN p.surfaces /\ s \in Int /\ (s + 1) - 1 = s
    BY <2>1, SurfaceNumbersAre DEF LensOK
  <2>3. i \in Touches(terms, s + 1)
    BY <2>2 DEF Touches
  <2>4. q.surfaces[s + 1].type = type
    BY <2>2, <2>3, ExplicitSurface
  <2>5. Surface(q, s).type = type
    BY <2>4 DEF Surface
  <2>6. type # Spherical
    <3>1. Shaped(type)
      BY <2>2, TypeTaken
    <3> QED
      BY <3>1 DEF Shaped, Spherical, Even, EvenA2, Radial
  <2> HIDE DEF q, type, s
  <2>7. CASE terms[i][2] < 0
    <3>1. vs[i] = <<"conic", s, 0>>
      BY <1>2, <2>7 DEF s
    <3>2. VariableOK(q, scenario, <<"conic", s, 0>>)
      BY <2>5, <2>6 DEF VariableOK
    <3>3. <<"conic", s, 0>> \in Kinds \X Int \X Int
      BY <2>2 DEF Kinds
    <3> QED
      BY <3>1, <3>2, <3>3 DEF Allowed
  <2>8. CASE ~(terms[i][2] < 0)
    <3>1. vs[i] = <<"coefficient", s, terms[i][2]>>
      BY <1>2, <2>8 DEF s
    <3>0. HasTerm(type, terms[i][2])
      BY <2>1, <2>8
    <3>2. VariableOK(q, scenario, <<"coefficient", s, terms[i][2]>>)
      BY <2>1, <2>5, <3>0 DEF VariableOK
    <3>3. <<"coefficient", s, terms[i][2]>> \in Kinds \X Int \X Int
      BY <2>1, <2>2 DEF Kinds
    <3> QED
      BY <3>1, <3>2, <3>3 DEF Allowed
  <2> QED
    BY <2>7, <2>8
<1> HIDE DEF vs, A, q
<1>5. vs \in Seq(A)
  BY <1>1, <1>3, <1>4, SeqMade
<1> QED
  BY <1>5 DEF vs, A, q

\* What is varied is what the settings and the prescription allow.
LEMMA BuiltVariables ==
  ASSUME NEW p, LensOK(p), NEW lens, lens = CellsOf(p),
         NEW rows \in Seq(Accepted(lens)), NEW c, c = toConfiguration(rows),
         TermsAccepted(p, c.asphericTerms), validate(p, c)
  PROVE  VariablesOK(WithExplicitTerms(p, c.asphericTerms), c.scenario, buildVariables(p, c))
<1> DEFINE q == WithExplicitTerms(p, c.asphericTerms)
           A == Allowed(q, c.scenario)
<1>1. Range(c.curvatures.listed) \subseteq SurfaceNumbers(p)
  BY DEF validate, validateSurfaces
<1>2. CurvatureVariables(p, c) \in Seq(A)
  BY <1>1, CurvaturesAllowed
<1>3. ThicknessVariables(p, c) \in Seq(A)
  BY ThicknessesAllowed
<1>4. ExistingAspherics(p, c) \in Seq(A)
  BY ExistingAllowed
<1>5. ExplicitAspherics(c) \in Seq(A)
  BY ExplicitAllowed
<1> HIDE DEF A
<1>6. buildVariables(p, c) \in Seq(A)
  <2>1. \A a, b \in Seq(A) : a \o b \in Seq(A)
    BY ConcatProperties
  <2> QED
    BY <1>2, <1>3, <1>4, <1>5, <2>1 DEF buildVariables
<1> QED
  BY <1>6, AllowedOK DEF A, q

\* apply() has checked the terms of the settings.
LEMMA TermsChecked ==
  ASSUME NEW p, NEW lens, NEW rows \in Seq(Accepted(lens)), NEW c, c = toConfiguration(rows),
         apply(p, c, lens)
  PROVE  TermsAccepted(p, c.asphericTerms)
<1> DEFINE terms == c.asphericTerms
<1>1. terms \in Seq(TermSet)
  BY TermsGiven
<1>2. \A i \in DOMAIN terms : addAsphericTerm(p, terms[i], SubSeq(terms, 1, i - 1))
  BY DEF apply
<1> HIDE DEF terms
<1>3. IsList(terms) /\ \A i \in DOMAIN terms : terms[i] \in TermSet
  BY <1>1, SeqIsList
<1>4. \A i \in DOMAIN terms : terms[i][2] \in Int
  BY <1>3, TermSetTyped
<1>5. TermsAccepted(p, terms)
  BY <1>2, <1>3, <1>4 DEF TermsAccepted, addAsphericTerm
<1> QED
  BY <1>5 DEF terms

\* The trial's configuration is one the lens has.
LEMMA ScenarioConfigured ==
  ASSUME NEW p, LensOK(p), NEW c, c.scenario \in Nat, validate(p, c)
  PROVE  c.scenario + 1 \in Configurations(p)
<1> DEFINE n == Len(p.names)
           S == {1, Len(p.firstBy)} \cup {Len(p.surfaces[s].thickBy) : s \in DOMAIN p.surfaces}
<1>1. n \in Nat /\ DOMAIN p.names = 1..n /\ (p.names = <<>> <=> n = 0)
  BY ListIs DEF LensOK
<1>2. Len(p.firstBy) = n
  <2>1. p.firstBy = [e \in 1..n |-> p.firstBy[e]]
    BY <1>1 DEF LensOK
  <2> HIDE DEF n
  <2> QED
    BY <1>1, <2>1, ListMade
<1>3. \A s \in DOMAIN p.surfaces : Len(p.surfaces[s].thickBy) \in {0, n}
  <2> SUFFICES ASSUME NEW s \in DOMAIN p.surfaces PROVE Len(p.surfaces[s].thickBy) \in {0, n}
    OBVIOUS
  <2> DEFINE by == p.surfaces[s].thickBy
  <2>1. PerConfiguration(p, by)
    BY DEF LensOK, SurfaceOK
  <2> HIDE DEF by, n
  <2>2. CASE by = <<>>
    BY <2>2 DEF by
  <2>3. CASE by # <<>>
    <3>1. by = [e \in 1..n |-> by[e]]
      BY <1>1, <2>1, <2>3 DEF PerConfiguration
    <3>2. Len(by) = n
      BY <1>1, <3>1, ListMade
    <3> QED
      BY <3>2 DEF by
  <2> QED
    BY <2>2, <2>3
<1> HIDE DEF n
<1>4. S \subseteq {0, 1, n} /\ 1 \in S /\ n \in S
  BY <1>2, <1>3
<1>5. scenarioCount(p) = Max(S)
  BY DEF scenarioCount
<1> HIDE DEF S
<1>6. PICK x \in S : \A y \in S : y <= x
  <2>1. n <= 1 => 1 \in S /\ \A y \in S : y <= 1
    BY <1>1, <1>4
  <2>2. n > 1 => n \in S /\ \A y \in S : y <= n
    BY <1>1, <1>4
  <2> QED
    BY <1>1, <2>1, <2>2
<1>7. Max(S) \in S /\ \A y \in S : Max(S) >= y
  <2>1. \A y \in S : x >= y
    BY <1>1, <1>4, <1>6
  <2> QED
    BY <2>1 DEF Max
<1>8. scenarioCount(p) \in {1, n} /\ scenarioCount(p) >= n /\ scenarioCount(p) >= 1
  <2> DEFINE m == Max(S)
  <2>1. m \in {0, 1, n} /\ m >= 1 /\ m >= n
    BY <1>4, <1>7
  <2> HIDE DEF m
  <2>2. m \in {1, n}
    BY <1>1, <2>1
  <2> QED
    BY <1>5, <2>1, <2>2 DEF m
<1>9. c.scenario # 0 => c.scenario < scenarioCount(p)
  BY DEF validate
<1> DEFINE scenario == c.scenario
<1> HIDE DEF scenario
<1>10. scenario \in Nat /\ (scenario # 0 => scenario < scenarioCount(p))
  BY <1>9 DEF scenario
<1>11. CASE n = 0
  <2>1. scenario = 0
    BY <1>8, <1>10, <1>11
  <2>2. scenario + 1 = 1
    BY <2>1
  <2>3. Configurations(p) = {1}
    BY <1>1, <1>11 DEF Configurations, Multi
  <2> QED
    BY <2>2, <2>3 DEF scenario
<1>12. CASE n # 0
  <2>1. scenario < n
    BY <1>1, <1>8, <1>10, <1>12
  <2>2. scenario + 1 \in 1..n
    BY <1>1, <1>10, <2>1
  <2>3. Configurations(p) = 1..n
    BY <1>1, <1>12 DEF Configurations, Multi
  <2> QED
    BY <2>2, <2>3 DEF scenario
<1> QED
  BY <1>11, <1>12

-----------------------------------------------------------------------------
(* From the file to the design of a stage *)

\* A surface b that differs from a only in what has been varied.
UnvariedSurface(p0, s, a, b, done) ==
  /\ b.cell = a.cell
  /\ b.radius = a.radius \/ <<"radius", s - 1, 0>> \in done
  /\ b.k = a.k \/ <<"conic", s - 1, 0>> \in done
  /\ \A power \in Nat \ {0} :
       \/ Term(b.type, b.coeffs, power) = Term(a.type, a.coeffs, power)
       \/ <<"coefficient", s - 1, power>> \in done
  /\ \A c \in Configurations(p0) :
       /\ diameterOf(b, c) = diameterOf(a, c)
       /\ \/ thicknessOf(b, c) = thicknessOf(a, c)
          \/ <<"thickness", s - 1, c - 1>> \in done
          \/ /\ a.thickBy = <<>>
             /\ \E other \in Configurations(p0) : <<"thickness", s - 1, other - 1>> \in done
  /\ b.thickBy = <<>> => a.thickBy = <<>> \/ Configurations(p0) = {1}

UnvariedLens(p0, p, done) ==
  /\ p.names = p0.names /\ DOMAIN p.surfaces = DOMAIN p0.surfaces
  /\ \A s \in DOMAIN p0.surfaces : UnvariedSurface(p0, s, p0.surfaces[s], p.surfaces[s], done)

HasRadialTerms(p) ==
  \E s \in DOMAIN p.surfaces : p.surfaces[s].type = Radial /\ p.surfaces[s].coeffs # <<>>

\* The file's form of aspheres is kept, and the odd form has a surface in it.
FormKept(file, p) ==
  /\ p.odd > 0 <=> file.odd > 0
  /\ file.odd > 0 /\ has_radial_aspheric(build_prescription(file)) => HasRadialTerms(p)

Travelled(file, p, done) ==
  LensOK(p) /\ UnvariedLens(build_prescription(file), p, done) /\ FormKept(file, p)

LEMMA ConfigurationsNamed ==
  ASSUME NEW p, NEW q, q.names = p.names
  PROVE  Configurations(q) = Configurations(p)
BY DEF Configurations, Multi

LEMMA FileTravelled ==
  ASSUME NEW file, IsText(file), Buildable(file), NEW done
  PROVE  Travelled(file, build_prescription(file), done)
<1> DEFINE p == build_prescription(file)
<1>1. LensOK(p)
  BY ImportedLens
<1>2. \A s \in DOMAIN p.surfaces : UnvariedSurface(p, s, p.surfaces[s], p.surfaces[s], done)
  <2> HIDE DEF p
  <2> QED
    BY DEF UnvariedSurface
<1>3. p.odd = file.odd /\ DOMAIN p.surfaces = DOMAIN file.rows
      /\ \A s \in DOMAIN file.rows : p.surfaces[s] = import_surface(file, s)
  BY DEF build_prescription
<1>4. has_radial_aspheric(p) => HasRadialTerms(p)
  <2> SUFFICES ASSUME NEW s \in DOMAIN p.surfaces, p.surfaces[s].type = Radial
               PROVE  p.surfaces[s].coeffs # <<>>
    BY DEF has_radial_aspheric, HasRadialTerms
  <2> HIDE DEF p
  <2>1. s \in DOMAIN file.rows /\ p.surfaces[s] = import_surface(file, s)
    BY <1>3
  <2> QED
    BY <2>1, ImportedSurfaceOK
<1> HIDE DEF p
<1>5. UnvariedLens(p, p, done)
  BY <1>2 DEF UnvariedLens
<1> QED
  BY <1>1, <1>3, <1>4, <1>5 DEF Travelled, FormKept, p

LEMMA DoneGrows ==
  ASSUME NEW file, NEW p, NEW done, NEW more, Travelled(file, p, done), done \subseteq more
  PROVE  Travelled(file, p, more)
<1> DEFINE p0 == build_prescription(file)
<1>1. UnvariedLens(p0, p, done) /\ LensOK(p) /\ FormKept(file, p)
  BY DEF Travelled
<1> HIDE DEF p0
<1>2. \A s \in DOMAIN p0.surfaces : UnvariedSurface(p0, s, p0.surfaces[s], p.surfaces[s], more)
  <2> SUFFICES ASSUME NEW s \in DOMAIN p0.surfaces
               PROVE  UnvariedSurface(p0, s, p0.surfaces[s], p.surfaces[s], more)
    OBVIOUS
  <2>1. UnvariedSurface(p0, s, p0.surfaces[s], p.surfaces[s], done)
    BY <1>1 DEF UnvariedLens
  <2> QED
    BY <2>1 DEF UnvariedSurface
<1>3. UnvariedLens(p0, p, more)
  BY <1>1, <1>2 DEF UnvariedLens
<1> QED
  BY <1>1, <1>3 DEF Travelled, p0

LEMMA OddFormKept ==
  ASSUME NEW p, LensOK(p)
  PROVE  odd_count(p) > 0 <=> p.odd > 0
<1>1. /\ odd_count(p) \in Nat /\ p.odd \in Nat /\ p.odd <= odd_count(p)
      /\ p.odd = 0 => odd_count(p) = 0
  BY OddCountCovers DEF LensOK
<1> QED
  BY <1>1

LEMMA TextTravelled ==
  ASSUME NEW file, NEW p, NEW done, Travelled(file, p, done)
  PROVE  Travelled(file, build_prescription(to_opt_bench_str(p)), done)
<1> DEFINE p0 == build_prescription(file)
           copy == to_opt_bench_str(p)
           q == build_prescription(copy)
<1>1. UnvariedLens(p0, p, done) /\ LensOK(p) /\ FormKept(file, p)
  BY DEF Travelled
<1>2. /\ LensOK(q) /\ q.names = p.names /\ DOMAIN q.surfaces = DOMAIN p.surfaces
      /\ \A s \in DOMAIN p.surfaces : Alike(p, p.surfaces[s], q.surfaces[s])
  BY <1>1, LensIsReadBack
<1>3. /\ q.odd = copy.odd
      /\ DOMAIN p.surfaces = DOMAIN copy.rows
      /\ \A s \in DOMAIN p.surfaces : q.surfaces[s] = import_surface(copy, s)
  <2>1. q.surfaces = [s \in DOMAIN copy.rows |-> import_surface(copy, s)] /\ q.odd = copy.odd
    BY DEF build_prescription
  <2>2. DOMAIN copy.rows = DOMAIN p.surfaces
    BY <1>1, WrittenShape
  <2> HIDE DEF q, copy
  <2> QED
    BY <2>1, <2>2
<1>4. q.odd > 0 <=> p.odd > 0
  <2>1. copy.odd = odd_count(p)
    BY <1>1, WrittenShape
  <2> QED
    BY <1>1, <1>3, <2>1, OddFormKept
<1>5. \A s \in DOMAIN p.surfaces :
        /\ q.surfaces[s].cell = "CG" => q.surfaces[s].radius = 0
        /\ q.surfaces[s].thickBy = <<>> => p.surfaces[s].thickBy = <<>> \/ Configurations(p) = {1}
        /\ p.odd > 0 /\ p.surfaces[s].coeffs # <<>> =>
             q.surfaces[s].type = Radial /\ q.surfaces[s].coeffs # <<>>
  <2> SUFFICES ASSUME NEW s \in DOMAIN p.surfaces
               PROVE  LET b == import_surface(copy, s)
                      IN /\ b.cell = "CG" => b.radius = 0
                         /\ b.thickBy = <<>> =>
                              p.surfaces[s].thickBy = <<>> \/ Configurations(p) = {1}
                         /\ p.odd > 0 /\ p.surfaces[s].coeffs # <<>> =>
                              b.type = Radial /\ b.coeffs # <<>>
    BY <1>3
  <2>1. import_surface(copy, s).cell = "CG" => import_surface(copy, s).radius = 0
    BY ImportedSurface
  <2> QED
    BY <1>1, <2>1, ShapeReadBack, ValuesReadBack
<1>6. \A s \in DOMAIN p0.surfaces : p0.surfaces[s].cell = "CG" => p0.surfaces[s].radius = 0
  <2>1. p0.surfaces = [s \in DOMAIN file.rows |-> import_surface(file, s)]
    BY DEF build_prescription
  <2>2. \A s : import_surface(file, s).cell = "CG" => import_surface(file, s).radius = 0
    BY ImportedSurface
  <2> HIDE DEF p0
  <2> QED
    BY <2>1, <2>2
<1>7. Configurations(p) = Configurations(p0) /\ p.names = p0.names
      /\ DOMAIN p.surfaces = DOMAIN p0.surfaces
  BY <1>1, ConfigurationsNamed DEF UnvariedLens
<1> HIDE DEF p0, q, copy
<1>8. \A s \in DOMAIN p0.surfaces : UnvariedSurface(p0, s, p0.surfaces[s], q.surfaces[s], done)
  <2> SUFFICES ASSUME NEW s \in DOMAIN p0.surfaces
               PROVE  UnvariedSurface(p0, s, p0.surfaces[s], q.surfaces[s], done)
    OBVIOUS
  <2> DEFINE a == p0.surfaces[s]
             e == p.surfaces[s]
             b == q.surfaces[s]
  <2>1. UnvariedSurface(p0, s, a, e, done) /\ Alike(p, e, b)
    BY <1>1, <1>2, <1>7 DEF UnvariedLens
  <2>2. /\ a.cell = "CG" => a.radius = 0
        /\ b.cell = "CG" => b.radius = 0
        /\ b.thickBy = <<>> => e.thickBy = <<>> \/ Configurations(p0) = {1}
    BY <1>5, <1>6, <1>7
  <2> HIDE DEF a, e, b
  <2>3. b.cell = a.cell /\ e.cell = a.cell
    BY <2>1 DEF UnvariedSurface, Alike
  <2>4. b.radius = a.radius \/ <<"radius", s - 1, 0>> \in done
    BY <2>1, <2>2, <2>3 DEF UnvariedSurface, Alike
  <2>5. b.k = a.k \/ <<"conic", s - 1, 0>> \in done
    BY <2>1 DEF UnvariedSurface, Alike
  <2>6. \A power \in Nat \ {0} :
          \/ Term(b.type, b.coeffs, power) = Term(a.type, a.coeffs, power)
          \/ <<"coefficient", s - 1, power>> \in done
    BY <2>1 DEF UnvariedSurface, Alike
  <2>7. \A c \in Configurations(p0) :
          diameterOf(b, c) = diameterOf(e, c) /\ thicknessOf(b, c) = thicknessOf(e, c)
    BY <1>7, <2>1 DEF Alike
  <2>8. \A c \in Configurations(p0) :
       /\ diameterOf(e, c) = diameterOf(a, c)
       /\ \/ thicknessOf(e, c) = thicknessOf(a, c)
          \/ <<"thickness", s - 1, c - 1>> \in done
          \/ /\ a.thickBy = <<>>
             /\ \E other \in Configurations(p0) : <<"thickness", s - 1, other - 1>> \in done
    BY <2>1 DEF UnvariedSurface
  <2>9. \A c \in Configurations(p0) :
       /\ diameterOf(b, c) = diameterOf(a, c)
       /\ \/ thicknessOf(b, c) = thicknessOf(a, c)
          \/ <<"thickness", s - 1, c - 1>> \in done
          \/ /\ a.thickBy = <<>>
             /\ \E other \in Configurations(p0) : <<"thickness", s - 1, other - 1>> \in done
    BY <2>7, <2>8
  <2>10. b.thickBy = <<>> => a.thickBy = <<>> \/ Configurations(p0) = {1}
    BY <2>1, <2>2 DEF UnvariedSurface
  <2>11. UnvariedSurface(p0, s, a, b, done)
    BY <2>3, <2>4, <2>5, <2>6, <2>9, <2>10 DEF UnvariedSurface
  <2> QED
    BY <2>11 DEF a, b
<1>9. UnvariedLens(p0, q, done)
  BY <1>2, <1>7, <1>8 DEF UnvariedLens
<1>10. p.odd > 0 /\ HasRadialTerms(p) => HasRadialTerms(q)
  BY <1>2, <1>5 DEF HasRadialTerms
<1>11. FormKept(file, q)
  BY <1>1, <1>4, <1>10 DEF FormKept
<1> QED
  BY <1>2, <1>9, <1>11 DEF Travelled, p0, q, copy

LEMMA ExplicitTravelled ==
  ASSUME NEW file, NEW p, NEW done, Travelled(file, p, done), NEW terms, TermsAccepted(p, terms)
  PROVE  Travelled(file, WithExplicitTerms(p, terms), done)
<1> DEFINE p0 == build_prescription(file)
           q == WithExplicitTerms(p, terms)
<1>1. UnvariedLens(p0, p, done) /\ LensOK(p) /\ FormKept(file, p)
  BY DEF Travelled
<1>2. /\ LensOK(q) /\ q.odd = p.odd /\ q.names = p.names
      /\ DOMAIN q.surfaces = DOMAIN p.surfaces
      /\ \A s \in DOMAIN p.surfaces : SameButForm(p.surfaces[s], q.surfaces[s])
  BY <1>1, ExplicitLens
<1> HIDE DEF p0, q
<1>3. p.names = p0.names /\ DOMAIN p.surfaces = DOMAIN p0.surfaces
  BY <1>1 DEF UnvariedLens
<1>4. \A s \in DOMAIN p0.surfaces : UnvariedSurface(p0, s, p0.surfaces[s], q.surfaces[s], done)
  <2> SUFFICES ASSUME NEW s \in DOMAIN p0.surfaces
               PROVE  UnvariedSurface(p0, s, p0.surfaces[s], q.surfaces[s], done)
    OBVIOUS
  <2> DEFINE a == p0.surfaces[s]
             e == p.surfaces[s]
             b == q.surfaces[s]
  <2>1. UnvariedSurface(p0, s, a, e, done) /\ SameButForm(e, b)
    BY <1>1, <1>2, <1>3 DEF UnvariedLens
  <2> HIDE DEF a, e, b
  <2>2. /\ b.cell = e.cell /\ b.radius = e.radius /\ b.k = e.k /\ b.thickBy = e.thickBy
        /\ \A power \in Nat \ {0} : Term(b.type, b.coeffs, power) = Term(e.type, e.coeffs, power)
    BY <2>1 DEF SameButForm
  <2>3. \A c : diameterOf(b, c) = diameterOf(e, c) /\ thicknessOf(b, c) = thicknessOf(e, c)
    BY <2>1 DEF SameButForm, diameterOf, thicknessOf
  <2>4. UnvariedSurface(p0, s, a, b, done)
    BY <2>1, <2>2, <2>3 DEF UnvariedSurface
  <2> QED
    BY <2>4 DEF a, b
<1>5. UnvariedLens(p0, q, done)
  BY <1>2, <1>3, <1>4 DEF UnvariedLens
<1>6. HasRadialTerms(p) => HasRadialTerms(q)
  BY <1>2 DEF HasRadialTerms, SameButForm
<1>7. FormKept(file, q)
  BY <1>1, <1>2, <1>6 DEF FormKept
<1> QED
  BY <1>2, <1>5, <1>7 DEF Travelled, p0, q

\* What a solve varies is remembered.
Remembered(p, vs, done) == \A i \in DOMAIN vs : Parameter(p, vs[i]) \in done

LEMMA SolvedTravelled ==
  ASSUME NEW file, NEW p, NEW done, Travelled(file, p, done),
         NEW scenario \in Nat, scenario + 1 \in Configurations(p),
         NEW vs, VariablesOK(p, scenario, vs), Remembered(p, vs, done), NEW values
  PROVE  Travelled(file, WithValues(p, vs, values), done)
<1> DEFINE p0 == build_prescription(file)
           q == WithValues(p, vs, values)
<1>1. UnvariedLens(p0, p, done) /\ LensOK(p) /\ FormKept(file, p)
  BY DEF Travelled
<1>2. /\ LensOK(q) /\ q.odd = p.odd /\ q.names = p.names
      /\ DOMAIN q.surfaces = DOMAIN p.surfaces
      /\ \A s \in DOMAIN p.surfaces : Solved(p, scenario, s, vs, p.surfaces[s], q.surfaces[s])
  BY <1>1, SolvedLens
<1> HIDE DEF p0, q
<1>3. p.names = p0.names /\ DOMAIN p.surfaces = DOMAIN p0.surfaces
      /\ Configurations(p) = Configurations(p0)
  BY <1>1, ConfigurationsNamed DEF UnvariedLens
<1>4. ASSUME NEW parameter, Varies(vs, parameter), parameter[1] # "coefficient"
      PROVE  parameter \in done
  <2>1. PICK i \in DOMAIN vs : vs[i] = parameter
    BY <1>4 DEF Varies
  <2>2. Parameter(p, vs[i]) = parameter
    BY <1>4, <2>1 DEF Parameter
  <2> QED
    BY <2>2 DEF Remembered
<1>5. ASSUME NEW s \in DOMAIN p.surfaces, NEW index \in Int, Varies(vs, <<"coefficient", s - 1, index>>)
      PROVE  <<"coefficient", s - 1, powerOf(p.surfaces[s].type, index)>> \in done
  <2>1. PICK i \in DOMAIN vs : vs[i] = <<"coefficient", s - 1, index>>
    BY <1>5 DEF Varies
  <2>2. Surface(p, s - 1) = p.surfaces[s]
    BY <1>1, SurfaceNumbersAre DEF LensOK
  <2>3. Parameter(p, vs[i]) = <<"coefficient", s - 1, powerOf(p.surfaces[s].type, index)>>
    BY <2>1, <2>2 DEF Parameter
  <2> QED
    BY <2>3 DEF Remembered
<1>6. \A s \in DOMAIN p0.surfaces : UnvariedSurface(p0, s, p0.surfaces[s], q.surfaces[s], done)
  <2> SUFFICES ASSUME NEW s \in DOMAIN p0.surfaces
               PROVE  UnvariedSurface(p0, s, p0.surfaces[s], q.surfaces[s], done)
    OBVIOUS
  <2> DEFINE a == p0.surfaces[s]
             e == p.surfaces[s]
             b == q.surfaces[s]
  <2>1. UnvariedSurface(p0, s, a, e, done) /\ Solved(p, scenario, s, vs, e, b)
    BY <1>1, <1>2, <1>3 DEF UnvariedLens
  <2>2. /\ Varies(vs, <<"radius", s - 1, 0>>) => <<"radius", s - 1, 0>> \in done
        /\ Varies(vs, <<"conic", s - 1, 0>>) => <<"conic", s - 1, 0>> \in done
        /\ \A n : Varies(vs, <<"thickness", s - 1, n>>) => <<"thickness", s - 1, n>> \in done
    BY <1>4
  <2>3. \A index \in Int : Varies(vs, <<"coefficient", s - 1, index>>) =>
          <<"coefficient", s - 1, powerOf(e.type, index)>> \in done
    BY <1>3, <1>5
  <2> HIDE DEF a, e, b
  <2>4. /\ b.cell = a.cell
        /\ b.radius = a.radius \/ <<"radius", s - 1, 0>> \in done
        /\ b.k = a.k \/ <<"conic", s - 1, 0>> \in done
    BY <2>1, <2>2 DEF UnvariedSurface, Solved
  <2>5. \A power \in Nat \ {0} :
       \/ Term(b.type, b.coeffs, power) = Term(a.type, a.coeffs, power)
       \/ <<"coefficient", s - 1, power>> \in done
    <3> SUFFICES ASSUME NEW power \in Nat \ {0}
                 PROVE  \/ Term(b.type, b.coeffs, power) = Term(a.type, a.coeffs, power)
                        \/ <<"coefficient", s - 1, power>> \in done
      OBVIOUS
    <3>1. \/ Term(b.type, b.coeffs, power) = Term(e.type, e.coeffs, power)
          \/ \E index \in Int : /\ Varies(vs, <<"coefficient", s - 1, index>>)
                                /\ powerOf(e.type, index) = power
      BY <2>1 DEF Solved
    <3>2. \/ Term(e.type, e.coeffs, power) = Term(a.type, a.coeffs, power)
          \/ <<"coefficient", s - 1, power>> \in done
      BY <2>1 DEF UnvariedSurface
    <3>3. (\E index \in Int : /\ Varies(vs, <<"coefficient", s - 1, index>>)
                               /\ powerOf(e.type, index) = power)
            => <<"coefficient", s - 1, power>> \in done
      BY <2>3
    <3> QED
      BY ONLY <3>1, <3>2, <3>3
  <2>6. \A c : diameterOf(b, c) = diameterOf(e, c)
    BY <2>1 DEF Solved, diameterOf
  <2>7. ASSUME NEW c \in Configurations(p0)
        PROVE  \/ thicknessOf(b, c) = thicknessOf(a, c)
               \/ <<"thickness", s - 1, c - 1>> \in done
               \/ /\ a.thickBy = <<>>
                  /\ \E other \in Configurations(p0) : <<"thickness", s - 1, other - 1>> \in done
    <3>1. \/ thicknessOf(b, c) = thicknessOf(e, c)
          \/ <<"thickness", s - 1, c - 1>> \in done
          \/ e.thickBy = <<>> /\ <<"thickness", s - 1, scenario>> \in done
      BY <1>3, <2>1, <2>2 DEF Solved
    <3>2. CASE e.thickBy = <<>> /\ <<"thickness", s - 1, scenario>> \in done
      <4>1. a.thickBy = <<>> \/ Configurations(p0) = {1}
        BY <2>1, <3>2 DEF UnvariedSurface
      <4>2. (scenario + 1) - 1 = scenario /\ scenario + 1 \in Configurations(p0)
        BY <1>3
      <4>3. Configurations(p0) = {1} => c = scenario + 1
        BY <4>2
      <4> QED
        BY <3>2, <4>1, <4>2, <4>3
    <3>3. CASE thicknessOf(b, c) = thicknessOf(e, c)
      BY <2>1, <3>3 DEF UnvariedSurface
    <3> QED
      BY <3>1, <3>2, <3>3
  <2>8. b.thickBy = <<>> => a.thickBy = <<>> \/ Configurations(p0) = {1}
    BY <2>1 DEF UnvariedSurface, Solved
  <2>9. \A c \in Configurations(p0) : diameterOf(b, c) = diameterOf(a, c)
    BY <2>1, <2>6 DEF UnvariedSurface
  <2>10. UnvariedSurface(p0, s, a, b, done)
    BY <2>4, <2>5, <2>7, <2>8, <2>9 DEF UnvariedSurface
  <2> QED
    BY <2>10 DEF a, b
<1>7. UnvariedLens(p0, q, done)
  BY <1>2, <1>3, <1>6 DEF UnvariedLens
<1>8. HasRadialTerms(p) => HasRadialTerms(q)
  BY <1>2 DEF HasRadialTerms, Solved
<1>9. FormKept(file, q)
  BY <1>1, <1>2, <1>8 DEF FormKept
<1> QED
  BY <1>2, <1>7, <1>9 DEF Travelled, p0, q

DeclaresUnused(file) == file.odd > 0 /\ ~has_radial_aspheric(build_prescription(file))

\* The power a term's index stands for in a file.
PowerInFile(file, index) == IF file.odd > 0 THEN index + 1 ELSE 2 * (index + 1)

NamedPower(file, a) == a[3] = PowerInFile(file, a[2]) \/ DeclaresUnused(file)

\* What a stage is given: the file's text, or a text written of a lens that
\* differs from the file's in what has been varied.
Given(file, content, before, done) ==
  \/ before = <<>> /\ content = file
  \/ /\ before # <<>> /\ content = to_opt_bench_str(before[1])
     /\ Travelled(file, before[1], done)

Ready(p, c, vs, done) ==
  /\ VariablesOK(p, c.scenario, vs) /\ Remembered(p, vs, done)
  /\ c.scenario \in Nat /\ c.scenario + 1 \in Configurations(p)

LEMMA GivenIsLens ==
  ASSUME NEW file, IsText(file), NEW content, NEW before, NEW done,
         Given(file, content, before, done), Buildable(content)
  PROVE  IsText(content) /\ Travelled(file, build_prescription(content), done)
<1>1. CASE before = <<>> /\ content = file
  BY <1>1, FileTravelled
<1>2. CASE /\ before # <<>> /\ content = to_opt_bench_str(before[1])
           /\ Travelled(file, before[1], done)
  <2>1. LensOK(before[1])
    BY <1>2 DEF Travelled
  <2> QED
    BY <1>2, <2>1, WrittenShape, TextTravelled
<1> QED
  BY <1>1, <1>2 DEF Given

LEMMA TravelledCells ==
  ASSUME NEW file, NEW p, NEW done, Travelled(file, p, done)
  PROVE  CellsOf(p) = [s \in DOMAIN file.rows |-> file.rows[s].cell]
<1> DEFINE p0 == build_prescription(file)
<1>1. /\ DOMAIN p.surfaces = DOMAIN p0.surfaces
      /\ \A s \in DOMAIN p0.surfaces : p.surfaces[s].cell = p0.surfaces[s].cell
  BY DEF Travelled, UnvariedLens, UnvariedSurface
<1>2. p0.surfaces = [s \in DOMAIN file.rows |-> import_surface(file, s)]
  BY DEF build_prescription
<1>3. \A s : import_surface(file, s).cell = file.rows[s].cell
  BY ImportedSurface
<1> HIDE DEF p0
<1>4. /\ DOMAIN p.surfaces = DOMAIN file.rows
      /\ \A s \in DOMAIN file.rows : p.surfaces[s].cell = file.rows[s].cell
  BY <1>1, <1>2, <1>3
<1> QED
  BY <1>4 DEF CellsOf

\* A term that a trial names has the file's form, whatever stage names it.
LEMMA TermsFollowTheFile ==
  ASSUME NEW file, NEW p, NEW done, Travelled(file, p, done),
         NEW content, IsText(content), p = build_prescription(content),
         NEW s \in SurfaceNumbers(p), NEW index
  PROVE  NamedPower(file, <<s, index, powerOf(asphereTypeOf(p, s), index)>>)
<1> DEFINE type == asphereTypeOf(p, s)
<1>1. LensOK(p) /\ FormKept(file, p)
  BY DEF Travelled
<1>2. s + 1 \in DOMAIN p.surfaces /\ (s + 1) - 1 = s /\ Surface(p, s) = p.surfaces[s + 1]
  BY <1>1, SurfaceNumbersAre DEF LensOK
<1>3. p.odd = content.odd /\ DOMAIN p.surfaces = DOMAIN content.rows
      /\ \A t \in DOMAIN content.rows : p.surfaces[t] = import_surface(content, t)
  BY DEF build_prescription
<1>4. p.odd > 0 => \A t \in DOMAIN p.surfaces : p.surfaces[t].type \in {Spherical, Radial}
  <2> SUFFICES ASSUME p.odd > 0, NEW t \in DOMAIN p.surfaces
               PROVE  p.surfaces[t].type \in {Spherical, Radial}
    OBVIOUS
  <2>1. RowType(content.odd, content.a2) = Radial
    BY <1>3 DEF RowType
  <2>2. import_surface(content, t).type \in {Spherical, RowType(content.odd, content.a2)}
    BY <1>3, ImportedSurfaceOK
  <2> QED
    BY <1>3, <2>1, <2>2
<1>5. CASE DeclaresUnused(file)
  BY <1>5 DEF NamedPower
<1>6. CASE ~DeclaresUnused(file) /\ file.odd > 0
  <2>1. HasRadialTerms(p) /\ p.odd > 0
    BY <1>1, <1>6 DEF FormKept, DeclaresUnused
  <2>2. has_radial_aspheric(p)
    BY <2>1 DEF HasRadialTerms, has_radial_aspheric
  <2>3. type = Radial
    BY <1>2, <1>4, <2>1, <2>2 DEF asphereTypeOf
  <2> QED
    BY <1>6, <2>3 DEF NamedPower, PowerInFile, powerOf
<1>7. CASE ~(file.odd > 0)
  <2>1. p.odd = 0
    BY <1>1, <1>7 DEF FormKept, LensOK
  <2>2. type # Radial
    <3>1. asphereTypeOf(p, (s + 1) - 1) # Radial
      BY <1>1, <1>2, <2>1, TypeTaken
    <3> QED
      BY <1>2, <3>1
  <2> QED
    BY <1>7, <2>2 DEF NamedPower, PowerInFile, powerOf
<1> QED
  BY <1>5, <1>6, <1>7

\* What build() makes of a prescription and a trial.
LEMMA BuiltDesign ==
  ASSUME NEW file, NEW lens, lens = [s \in DOMAIN file.rows |-> file.rows[s].cell],
         NEW p, NEW done, Travelled(file, p, done),
         NEW content, IsText(content), p = build_prescription(content),
         NEW rows \in Seq(Accepted(lens)), NEW c, c = toConfiguration(rows),
         apply(p, c, lens), validate(p, c),
         NEW q, q = WithExplicitTerms(p, c.asphericTerms),
         NEW vs, vs = buildVariables(p, c), NEW more, done \subseteq more, Remembered(q, vs, more)
  PROVE  /\ Travelled(file, q, more) /\ Ready(q, c, vs, more)
         /\ \A i \in DOMAIN c.asphericTerms :
              LET term == c.asphericTerms[i]
              IN NamedPower(file, <<term[1], term[2], powerOf(asphereTypeOf(p, term[1]), term[2])>>)
<1>1. LensOK(p) /\ lens = CellsOf(p)
  BY TravelledCells DEF Travelled
<1>2. TermsAccepted(p, c.asphericTerms)
  BY TermsChecked
<1>3. Travelled(file, q, more)
  BY <1>2, ExplicitTravelled, DoneGrows
<1>4. VariablesOK(q, c.scenario, vs)
  BY <1>1, <1>2, BuiltVariables
<1>5. c.scenario \in Nat
  BY ScenarioGiven
<1>6. c.scenario + 1 \in Configurations(q)
  <2>1. c.scenario + 1 \in Configurations(p)
    BY <1>1, <1>5, ScenarioConfigured
  <2>2. q.names = p.names
    BY <1>1, <1>2, ExplicitLens
  <2> QED
    BY <2>1, <2>2, ConfigurationsNamed
<1>7. \A i \in DOMAIN c.asphericTerms : c.asphericTerms[i][1] \in SurfaceNumbers(p)
  BY <1>2 DEF TermsAccepted
<1> QED
  BY <1>3, <1>4, <1>5, <1>6, <1>7, TermsFollowTheFile DEF Ready

-----------------------------------------------------------------------------
(* The invariant *)

LEMMA InitOK == Init => IInv
BY DEF Init, IInv, SectionsOK, StageOK, SolveOK

LEMMA NamedTrials ==
  ASSUME job \in Jobs, Range(Named) \subseteq Trials
  PROVE  Named \in Seq(Nat) /\ Range(Named) \subseteq DOMAIN job.menus
<1>1. job.number \in Nat /\ job.stages \in Seq(Nat)
  BY PipelineAssumption
<1>2. Trials \subseteq DOMAIN job.menus
  BY PipelineAssumption DEF Trials
<1> QED
  BY <1>1, <1>2 DEF Named

LEMMA ReadPipelineOK == ASSUME IInv, readPipeline PROVE IInv'
<1>1. CASE pc' = "failed"
  BY <1>1 DEF readPipeline, Fail, IInv, SectionsOK, StageOK, SolveOK
<1>2. CASE pc' = "read"
  <2>1. /\ Named # <<>> /\ Range(Named) \subseteq Trials
        /\ stages' = Named /\ sections' = [n \in Range(Named) |-> <<>>]
        /\ job' = job /\ stage' = stage /\ pc = "index"
    BY <1>2 DEF readPipeline, Fail
  <2>2. Named \in Seq(Nat) /\ Range(Named) \subseteq DOMAIN job.menus
    BY <2>1, NamedTrials DEF IInv, SectionsOK
  <2>3. stage = 1 /\ 1 \in DOMAIN Named
    BY <2>1, <2>2 DEF IInv, StageOK
  <2> QED
    BY <1>2, <2>1, <2>2, <2>3 DEF IInv, SectionsOK, StageOK, SolveOK
<1> QED
  BY <1>1, <1>2 DEF readPipeline, Fail

LEMMA ReadLineOK == ASSUME IInv, readLine PROVE IInv'
<1>1. CASE pc' = "failed"
  BY <1>1 DEF readLine, Fail, IInv, SectionsOK, StageOK, SolveOK
<1>2. CASE pc' = "read"
  <2>1. PICK row \in job.menus[Reading][at] :
          /\ sections' = IF row = Absent THEN sections
                         ELSE [sections EXCEPT ![Reading] = Append(@, row)]
          /\ UNCHANGED <<job, pc, stages, stage>>
    BY <1>2 DEF readLine, Fail
  <2>2. DOMAIN sections' = DOMAIN sections
    BY <2>1
  <2>3. ASSUME NEW n \in DOMAIN sections
        PROVE  n \in DOMAIN job.menus /\ sections'[n] \in Seq(Lines)
    <3>1. n \in DOMAIN job.menus /\ sections[n] \in Seq(Lines) /\ job \in Jobs
      BY DEF IInv, SectionsOK
    <3>2. CASE n = Reading /\ row # Absent
      <4>1. row \in LinesOf(job)
        BY <3>1, <3>2 DEF LinesOf, readLine
      <4>2. row \in Lines
        BY <3>1, <4>1 DEF Lines
      <4> QED
        BY <2>1, <3>1, <3>2, <4>2
    <3>3. CASE n # Reading \/ row = Absent
      BY <2>1, <3>1, <3>3
    <3> QED
      BY <3>1, <3>2, <3>3
  <2> QED
    BY <1>2, <2>1, <2>2, <2>3 DEF IInv, SectionsOK, StageOK, SolveOK, readLine
<1> QED
  BY <1>1, <1>2 DEF readLine, Fail

\* build() is where the goals come from, and it has validated the settings.
LEMMA BuildOK == ASSUME IInv, build PROVE IInv'
<1>1. CASE pc' = "failed"
  BY <1>1 DEF build, Fail, IInv, SectionsOK, StageOK, SolveOK
<1>2. CASE pc' # "failed"
  <2> DEFINE p == design[1]
             q == WithExplicitTerms(p, Current.asphericTerms)
             vs == buildVariables(p, Current)
  <2>1. PICK crossed \in Crossings :
          LET gs == buildGoals(q, Current, vs, crossed)
          IN /\ CanBuild(p, q, Current, vs, gs)
             /\ design' = <<q>> /\ variables' = vs /\ goals' = gs /\ pc' = "solve"
             /\ UNCHANGED <<job, stages, sections, stage>>
    BY <1>2 DEF build, Fail
  <2>2. Current' = Current
    BY <2>1 DEF Current, Configuration
  <2>3. goals' = buildGoals(design'[1], Current', variables', crossed)
    BY <2>1, <2>2
  <2>4. Current.spotDeviation # <<>> => Current.spotMaxRadius = <<>>
    BY <2>1 DEF CanBuild, validate
  <2>5. SectionsOK' /\ StageOK'
    BY <2>1 DEF IInv, SectionsOK, StageOK, build
  <2>6. SolveOK'
    BY <2>2, <2>3, <2>4 DEF SolveOK
  <2> QED
    BY <2>5, <2>6 DEF IInv
<1> QED
  BY <1>1, <1>2

\* The other steps do not lead to a solve and keep to the stages there are.
LEMMA OtherOK ==
  ASSUME IInv, finishTrial \/ createBuilder \/ solveTrial \/ carriedForward
  PROVE  IInv'
<1>1. job' = job /\ stages' = stages /\ sections' = sections /\ pc' # "solve" /\ pc' # "index"
  BY DEF finishTrial, createBuilder, solveTrial, carriedForward, Fail
<1>2. pc' # "failed" => pc \notin {"index", "failed"} /\ stage' \in DOMAIN stages
  BY DEF finishTrial, createBuilder, solveTrial, carriedForward, Fail, IInv, StageOK
<1> QED
  BY <1>1, <1>2 DEF IInv, SectionsOK, StageOK, SolveOK

LEMMA StepOK == IInv /\ [Next]_vars => IInv'
<1> SUFFICES ASSUME IInv, [Next]_vars PROVE IInv'
  OBVIOUS
<1>1. CASE UNCHANGED vars
  <2>1. Current' = Current
    BY <1>1 DEF vars, Current, Configuration
  <2> QED
    BY <1>1, <2>1 DEF vars, IInv, SectionsOK, StageOK, SolveOK
<1> QED
  BY <1>1, ReadPipelineOK, ReadLineOK, BuildOK, OtherOK DEF Next

LEMMA IInvHolds == Spec => []IInv
BY InitOK, StepOK, PTL DEF Spec

-----------------------------------------------------------------------------
(* The design through the stages *)

\* Beside IInv: every line kept was accepted for the lens of the file; the
\* text, the design and what a solve leaves have travelled from the file with
\* nothing but varied parameters changed; and a term that was named has the
\* power that the file's form, read without any stage, gives its index.
SectionsAccepted == \A n \in DOMAIN sections : sections[n] \in Seq(Accepted(job.lens))

TextOK ==
  /\ pc \in {"index", "read"} => left = <<>> /\ text = job.text
  /\ pc \in {"create", "build", "solve", "written"} => Given(job.text, text, left, varied)
  /\ pc = "written" => left # <<>>
  /\ pc = "carry" => left # <<>> /\ Travelled(job.text, left[1], varied)

DesignOK ==
  /\ pc = "build" => /\ design[1] = build_prescription(text) /\ Buildable(text)
                     /\ apply(design[1], Current, job.lens)
  /\ pc = "solve" => /\ Travelled(job.text, design[1], varied)
                     /\ Ready(design[1], Current, variables, varied)

NamedOK == \A a \in named : NamedPower(job.text, a)

DInv == SectionsAccepted /\ TextOK /\ DesignOK /\ NamedOK

LEMMA DesignInit == Init => DInv
BY DEF Init, DInv, SectionsAccepted, TextOK, DesignOK, NamedOK

LEMMA JobGiven ==
  ASSUME job \in Jobs
  PROVE  IsText(job.text) /\ job.lens = [s \in DOMAIN job.text.rows |-> job.text.rows[s].cell]
BY PipelineAssumption

LEMMA DesignFails ==
  ASSUME DInv, NEW possible, Fail(possible)
  PROVE  DInv'
BY DEF Fail, DInv, SectionsAccepted, TextOK, DesignOK, NamedOK

LEMMA DesignReadPipeline == ASSUME DInv, readPipeline PROVE DInv'
<1>1. CASE pc' = "read"
  <2>1. /\ sections' = [n \in Range(Named) |-> <<>>] /\ pc = "index"
        /\ UNCHANGED <<job, left, text, named>>
    BY <1>1 DEF readPipeline, Fail
  <2> QED
    BY <1>1, <2>1 DEF DInv, SectionsAccepted, TextOK, DesignOK, NamedOK
<1>2. CASE pc' # "read"
  BY <1>2, DesignFails DEF readPipeline
<1> QED
  BY <1>1, <1>2

LEMMA DesignReadLine == ASSUME IInv, DInv, readLine PROVE DInv'
<1>1. CASE pc' = "read"
  <2>1. PICK row \in job.menus[Reading][at] :
          /\ row = Absent \/ read(job.lens, sections[Reading], row)
          /\ sections' = IF row = Absent THEN sections
                         ELSE [sections EXCEPT ![Reading] = Append(@, row)]
          /\ UNCHANGED <<job, pc, left, text, named>>
    BY <1>1 DEF readLine, Fail
  <2>2. DOMAIN sections' = DOMAIN sections
    BY <2>1
  <2>3. ASSUME NEW n \in DOMAIN sections
        PROVE  sections'[n] \in Seq(Accepted(job.lens))
    <3>1. n \in DOMAIN job.menus /\ sections[n] \in Seq(Accepted(job.lens)) /\ job \in Jobs
      BY DEF IInv, SectionsOK, DInv, SectionsAccepted
    <3>2. CASE n = Reading /\ row # Absent
      <4>1. row \in LinesOf(job)
        BY <3>1, <3>2 DEF LinesOf, readLine
      <4>2. row \in Accepted(job.lens)
        BY <2>1, <3>1, <3>2, <4>1 DEF Lines, Accepted, read
      <4>3. sections'[n] = Append(sections[n], row)
        BY <2>1, <3>2
      <4> QED
        BY <3>1, <4>2, <4>3
    <3>3. CASE n # Reading \/ row = Absent
      BY <2>1, <3>1, <3>3
    <3> QED
      BY <3>2, <3>3
  <2>4. SectionsAccepted'
    BY <2>1, <2>2, <2>3 DEF SectionsAccepted
  <2> QED
    BY <1>1, <2>1, <2>4 DEF DInv, TextOK, DesignOK, NamedOK
<1>2. CASE pc' # "read"
  BY <1>2, DesignFails DEF readLine
<1> QED
  BY <1>1, <1>2

LEMMA DesignFinishTrial == ASSUME DInv, finishTrial PROVE DInv'
<1>1. CASE pc' \in {"create", "read"}
  <2>1. /\ pc = "read"
        /\ UNCHANGED <<job, sections, left, text, named, varied>>
    BY <1>1 DEF finishTrial, Fail
  <2>2. TextOK'
    BY <1>1, <2>1 DEF DInv, TextOK, Given
  <2> QED
    BY <1>1, <2>1, <2>2 DEF DInv, SectionsAccepted, DesignOK, NamedOK
<1>2. CASE pc' \notin {"create", "read"}
  BY <1>2, DesignFails DEF finishTrial
<1> QED
  BY <1>1, <1>2

LEMMA DesignCreateBuilder == ASSUME DInv, createBuilder PROVE DInv'
<1>1. CASE pc' = "build"
  <2>1. /\ pc = "create" /\ Buildable(text) /\ apply(build_prescription(text), Current, job.lens)
        /\ design' = <<build_prescription(text)>>
        /\ UNCHANGED <<job, stages, sections, stage, left, text, named, varied>>
    BY <1>1 DEF createBuilder, Fail
  <2>2. design'[1] = build_prescription(text) /\ Current' = Current
    BY <2>1 DEF Current, Configuration
  <2>3. TextOK'
    BY <1>1, <2>1 DEF DInv, TextOK
  <2>4. DesignOK'
    BY <1>1, <2>1, <2>2 DEF DesignOK
  <2> QED
    BY <2>1, <2>3, <2>4 DEF DInv, SectionsAccepted, NamedOK
<1>2. CASE pc' # "build"
  BY <1>2, DesignFails DEF createBuilder
<1> QED
  BY <1>1, <1>2

LEMMA CurrentRows ==
  ASSUME IInv, DInv, pc \notin {"index", "failed"}
  PROVE  /\ sections[stages[stage]] \in Seq(Accepted(job.lens))
         /\ Current = toConfiguration(sections[stages[stage]])
<1>1. stages[stage] \in DOMAIN sections
  BY DEF IInv, StageOK, Range
<1> QED
  BY <1>1 DEF DInv, SectionsAccepted, Current, Configuration

LEMMA DesignBuild == ASSUME IInv, DInv, build PROVE DInv'
<1>1. CASE pc' = "solve"
  <2> DEFINE p == design[1]
             c == Current
             q == WithExplicitTerms(p, c.asphericTerms)
             vs == buildVariables(p, c)
             new == {Parameter(q, vs[i]) : i \in DOMAIN vs}
             terms == {t \in Range(c.asphericTerms) : t[2] >= 0}
  <2>1. /\ pc = "build" /\ validate(p, c)
        /\ design' = <<q>> /\ variables' = vs /\ varied' = varied \cup new
        /\ named' = named \cup
             {<<term[1], term[2], powerOf(asphereTypeOf(p, term[1]), term[2])>> : term \in terms}
        /\ UNCHANGED <<job, stages, sections, stage, text, left>>
    BY <1>1 DEF build, Fail, CanBuild
  <2>2. /\ p = build_prescription(text) /\ Buildable(text) /\ apply(p, c, job.lens)
        /\ Given(job.text, text, left, varied)
    BY <2>1 DEF DInv, DesignOK, TextOK
  <2>3. IsText(job.text) /\ job.lens = [s \in DOMAIN job.text.rows |-> job.text.rows[s].cell]
    BY JobGiven DEF IInv, SectionsOK
  <2>4. IsText(text) /\ Travelled(job.text, p, varied)
    BY <2>2, <2>3, GivenIsLens
  <2>5. PICK rows \in Seq(Accepted(job.lens)) : c = toConfiguration(rows)
    BY <2>1, CurrentRows
  <2>6. Current' = c /\ design'[1] = q
    BY <2>1 DEF Current, Configuration
  <2> HIDE DEF p, c
  <2>7. Remembered(q, vs, varied')
    BY <2>1 DEF Remembered
  <2>8. varied \subseteq varied'
    BY <2>1
  <2> HIDE DEF new
  <2>9. PICK more : more = varied'
    OBVIOUS
  <2>10. /\ Travelled(job.text, q, more) /\ Ready(q, c, vs, more)
         /\ \A i \in DOMAIN c.asphericTerms :
              LET term == c.asphericTerms[i]
              IN NamedPower(job.text,
                            <<term[1], term[2], powerOf(asphereTypeOf(p, term[1]), term[2])>>)
    <3>1. Remembered(q, vs, more) /\ varied \subseteq more
      BY <2>7, <2>8, <2>9
    <3>2. PICK lens : lens = job.lens
      OBVIOUS
    <3>3. PICK file : file = job.text
      OBVIOUS
    <3>4. /\ rows \in Seq(Accepted(lens)) /\ apply(p, c, lens) /\ validate(p, c)
          /\ lens = [s \in DOMAIN file.rows |-> file.rows[s].cell]
          /\ Travelled(file, p, varied)
      BY <2>1, <2>2, <2>3, <2>4, <2>5, <3>2, <3>3
    <3>5. /\ Travelled(file, q, more) /\ Ready(q, c, vs, more)
          /\ \A i \in DOMAIN c.asphericTerms :
              LET term == c.asphericTerms[i]
              IN NamedPower(file, <<term[1], term[2], powerOf(asphereTypeOf(p, term[1]), term[2])>>)
      BY <2>2, <2>4, <2>5, <3>1, <3>4, BuiltDesign
    <3> QED
      BY <3>3, <3>5
  <2> HIDE DEF q, vs
  <2>11. DesignOK'
    BY <1>1, <2>1, <2>6, <2>9, <2>10 DEF DesignOK
  <2>12. Given(job.text, text, left, more)
    BY <2>2, <2>8, <2>9, DoneGrows DEF Given
  <2>13. TextOK'
    BY <1>1, <2>1, <2>9, <2>12 DEF TextOK
  <2>14. NamedOK'
    <3>1. \A t \in terms : NamedPower(job.text, <<t[1], t[2], powerOf(asphereTypeOf(p, t[1]), t[2])>>)
      BY <2>10 DEF Range
    <3> HIDE DEF terms
    <3> QED
      BY <2>1, <3>1 DEF NamedOK, DInv
  <2>15. SectionsAccepted'
    BY <2>1 DEF SectionsAccepted, DInv
  <2> QED
    BY <2>11, <2>13, <2>14, <2>15 DEF DInv
<1>2. CASE pc' # "solve"
  BY <1>2, DesignFails DEF build
<1> QED
  BY <1>1, <1>2

LEMMA DesignSolveTrial == ASSUME DInv, solveTrial PROVE DInv'
<1>1. CASE pc' = "carry"
  <2>1. PICK values \in Outcomes(design[1], variables) :
          left' = <<WithValues(design[1], variables, values)>>
    BY <1>1 DEF solveTrial, Fail
  <2>2. pc = "solve" /\ UNCHANGED <<job, sections, named, varied>>
    BY <1>1 DEF solveTrial, Fail
  <2>3. Travelled(job.text, design[1], varied) /\ Ready(design[1], Current, variables, varied)
    BY <2>2 DEF DInv, DesignOK
  <2>4. Travelled(job.text, WithValues(design[1], variables, values), varied)
    <3>1. PICK file, p, c, vs, done :
            file = job.text /\ p = design[1] /\ c = Current /\ vs = variables /\ done = varied
      OBVIOUS
    <3>2. Travelled(file, p, done) /\ Ready(p, c, vs, done)
      BY <2>3, <3>1
    <3>3. Travelled(file, WithValues(p, vs, values), done)
      BY <3>2, SolvedTravelled DEF Ready
    <3> QED
      BY <3>1, <3>3
  <2>5. left' # <<>> /\ left'[1] = WithValues(design[1], variables, values)
    BY <2>1
  <2>6. TextOK'
    BY <1>1, <2>2, <2>4, <2>5 DEF TextOK
  <2> QED
    BY <1>1, <2>2, <2>6 DEF DInv, SectionsAccepted, DesignOK, NamedOK
<1>2. CASE pc' # "carry"
  BY <1>2, DesignFails DEF solveTrial
<1> QED
  BY <1>1, <1>2

LEMMA DesignCarriedForward == ASSUME DInv, carriedForward PROVE DInv'
<1>1. /\ pc = "carry" /\ pc' \in {"create", "written"} /\ text' = to_opt_bench_str(left[1])
      /\ UNCHANGED <<job, sections, left, varied, named>>
  BY DEF carriedForward
<1>2. left # <<>> /\ Travelled(job.text, left[1], varied)
  BY <1>1 DEF DInv, TextOK
<1>3. Given(job.text', text', left', varied')
  BY <1>1, <1>2 DEF Given
<1>4. TextOK'
  BY <1>1, <1>2, <1>3 DEF TextOK
<1> QED
  BY <1>1, <1>4 DEF DInv, SectionsAccepted, DesignOK, NamedOK

LEMMA DesignStep == IInv /\ DInv /\ [Next]_vars => DInv'
<1> SUFFICES ASSUME IInv, DInv, [Next]_vars PROVE DInv'
  OBVIOUS
<1>1. CASE UNCHANGED vars
  <2>1. Current' = Current
    BY <1>1 DEF vars, Current, Configuration
  <2> QED
    BY <1>1, <2>1 DEF vars, DInv, SectionsAccepted, TextOK, DesignOK, NamedOK
<1> QED
  BY <1>1, DesignReadPipeline, DesignReadLine, DesignFinishTrial, DesignCreateBuilder, DesignBuild, DesignSolveTrial,
     DesignCarriedForward DEF Next

LEMMA DInvHolds == Spec => []DInv
BY DesignInit, DesignStep, IInvHolds, PTL DEF Spec

LEMMA KeptText == IInv /\ DInv => TextKeepsTheLens
<1> SUFFICES ASSUME IInv, DInv PROVE TextKeepsTheLens
  OBVIOUS
<1>1. ASSUME pc = "carry" PROVE CanWrite(left[1])
  <2>1. Travelled(job.text, left[1], varied)
    BY <1>1 DEF DInv, TextOK
  <2> QED
    BY <2>1, LensIsReadBack DEF Travelled
<1>2. ASSUME pc \in {"create", "build"}, left # <<>>
      PROVE  text = to_opt_bench_str(left[1]) /\ LensOK(left[1])
  BY <1>2 DEF DInv, TextOK, Given, Travelled
<1>3. ASSUME pc = "create", left # <<>> PROVE Buildable(text)
  BY <1>2, <1>3, LensIsReadBack
<1>4. ASSUME pc = "build", left # <<>>
      PROVE  LET p == left[1]
                 q == design[1]
             IN /\ p.names = q.names
                /\ \A c \in Configurations(p) : firstOf(p, c) = firstOf(q, c)
                /\ Len(p.surfaces) = Len(q.surfaces)
                /\ \A s \in DOMAIN p.surfaces :
                     SameSurface(p.surfaces[s], q.surfaces[s], Configurations(p))
  <2>1. PICK p, q : p = left[1] /\ q = design[1]
    OBVIOUS
  <2>2. LensOK(p) /\ q = build_prescription(to_opt_bench_str(p))
    BY <1>2, <1>4, <2>1 DEF DInv, DesignOK
  <2>3. /\ LensOK(q) /\ q.names = p.names /\ DOMAIN q.surfaces = DOMAIN p.surfaces
        /\ \A c \in Configurations(p) : firstOf(q, c) = firstOf(p, c)
        /\ \A s \in DOMAIN p.surfaces : Alike(p, p.surfaces[s], q.surfaces[s])
    BY <2>2, LensIsReadBack
  <2>4. Len(p.surfaces) = Len(q.surfaces)
    <3>1. /\ Len(p.surfaces) \in Nat /\ DOMAIN p.surfaces = 1..Len(p.surfaces)
          /\ Len(q.surfaces) \in Nat /\ DOMAIN q.surfaces = 1..Len(q.surfaces)
      BY <2>2, <2>3, ListIs DEF LensOK
    <3> QED
      BY <2>3, <3>1
  <2>5. \A s \in DOMAIN p.surfaces :
          SameSurface(p.surfaces[s], q.surfaces[s], Configurations(p))
    <3>1. \A power \in 1..MaxPower : power \in Nat \ {0}
      BY DEF MaxPower
    <3> QED
      BY <2>3, <3>1 DEF Alike, SameSurface
  <2> QED
    BY <2>1, <2>3, <2>4, <2>5
<1> QED
  BY <1>1, <1>3, <1>4 DEF TextKeepsTheLens

LEMMA KeptUnvaried == DInv /\ pc = "written" => UnvariedStays
<1> SUFFICES ASSUME DInv, pc = "written" PROVE UnvariedStays
  OBVIOUS
<1>1. PICK file, content, p, done :
        file = job.text /\ content = text /\ p = left[1] /\ done = varied
  OBVIOUS
<1>2. content = to_opt_bench_str(p) /\ Travelled(file, p, done)
  BY <1>1 DEF DInv, TextOK, Given
<1> DEFINE p0 == build_prescription(file)
           q == build_prescription(content)
<1>3. UnvariedLens(p0, q, done)
  BY <1>2, TextTravelled DEF Travelled
<1> HIDE DEF p0, q
<1>4. ASSUME NEW s \in DOMAIN p0.surfaces
      PROVE  LET a == p0.surfaces[s]
                 b == q.surfaces[s]
             IN /\ a.radius = b.radius \/ <<"radius", s - 1, 0>> \in done
                /\ a.k = b.k \/ <<"conic", s - 1, 0>> \in done
                /\ \A power \in 1..MaxPower :
                     \/ Term(a.type, a.coeffs, power) = Term(b.type, b.coeffs, power)
                     \/ <<"coefficient", s - 1, power>> \in done
                /\ \A c \in Configurations(p0) :
                     /\ diameterOf(a, c) = diameterOf(b, c)
                     /\ \/ thicknessOf(a, c) = thicknessOf(b, c)
                        \/ <<"thickness", s - 1, c - 1>> \in done
                        \/ /\ a.thickBy = <<>>
                           /\ \E other \in Configurations(p0) :
                                <<"thickness", s - 1, other - 1>> \in done
  <2>1. UnvariedSurface(p0, s, p0.surfaces[s], q.surfaces[s], done)
    BY <1>3 DEF UnvariedLens
  <2>2. \A power \in 1..MaxPower : power \in Nat \ {0}
    BY DEF MaxPower
  <2> QED
    BY <2>1, <2>2 DEF UnvariedSurface
<1> QED
  BY <1>1, <1>4 DEF UnvariedStays, p0, q

LEMMA KeptPowers == DInv => TermsKeepTheirPower
<1> SUFFICES ASSUME DInv, NEW a \in named, NEW b \in named, a[1] = b[1], a[2] = b[2]
             PROVE  a[3] = b[3] \/ DeclaresUnusedOddTerms
  BY DEF TermsKeepTheirPower
<1>1. NamedPower(job.text, a) /\ NamedPower(job.text, b)
  BY DEF DInv, NamedOK
<1> QED
  BY <1>1 DEF NamedPower, DeclaresUnused, DeclaresUnusedOddTerms

-----------------------------------------------------------------------------
(* Results *)

\* The design that leaves a stage is the design the next one starts from, what
\* no trial varied is at the end as the file has it, and the terms keep their
\* powers, for any file, any trials and any outcome of their solves
\* (to_opt_bench_str, build_prescription, the Var classes, asphereTypeOf).
THEOREM DesignsTravel == Spec => []DesignTravels
<1>1. IInv /\ DInv => DesignTravels
  BY KeptText, KeptUnvaried, KeptPowers DEF DesignTravels
<1> QED
  BY <1>1, IInvHolds, DInvHolds, PTL

\* With the edges constrained, a gap that a varied thickness is or that a
\* varied shape bounds has its edge goal, and no other gap has one, for any
\* number of surfaces and variables (OptimizationBuilder::edgeAffectedGaps,
\* buildGoals).
THEOREM GapsAreGuarded == Spec => []EdgesGuarded
<1>1. IInv => EdgesGuarded
  <2> SUFFICES ASSUME IInv, pc = "solve", Current.edgeConstraint # <<>>
               PROVE  \E crossed \in Crossings :
                        \A gap \in 0..(Len(design[1].surfaces) - 2) :
                          <<"edge", gap, 0, 0, 0>> \in goals
                            <=> /\ \E i \in DOMAIN variables : Moves(variables[i], gap)
                                /\ is_constrainable(design[1], Current.scenario, crossed, gap)
    BY DEF EdgesGuarded
  <2>1. PICK crossed \in Crossings : goals = buildGoals(design[1], Current, variables, crossed)
    BY DEF IInv, SolveOK
  <2> QED
    BY <2>1, EdgeGoals
<1> QED
  BY <1>1, IInvHolds, PTL

\* Whatever a trial asks for, no goal reads a spot, a sample, an MTF
\* frequency or a contrast that the analysis is not set up to compute
\* (OptimizationConfiguration::effectiveAnalysis, configureAnalysis).
THEOREM AnalysisServesGoals == Spec => []GoalsHaveTheirAnalysis
<1>1. IInv => GoalsHaveTheirAnalysis
  <2> SUFFICES ASSUME IInv, pc = "solve", NEW goal \in goals
               PROVE  Computed(configureAnalysis(Current), goal)
    BY DEF GoalsHaveTheirAnalysis
  <2>1. PICK crossed \in Crossings : goals = buildGoals(design[1], Current, variables, crossed)
    BY DEF IInv, SolveOK
  <2>2. sections[stages[stage]] \in Seq(Lines)
    BY DEF IInv, SectionsOK, StageOK, Range
  <2>3. Current = toConfiguration(sections[stages[stage]])
    BY DEF Current, Configuration
  <2>4. Origin(goal, design[1], Current, variables, crossed)
    BY <2>1, GoalOrigin
  <2>5. Current.spotDeviation # <<>> => Current.spotMaxRadius = <<>>
    BY DEF IInv, SolveOK
  <2> QED
    BY <2>2, <2>3, <2>4, <2>5, OriginComputed
<1> QED
  BY <1>1, IInvHolds, PTL

\* Whatever rays the trial designs of a solve lose, the value of a goal of one
\* sample is made from the ray the goal was built for, or is Big because that
\* ray, or a partner of it, is lost: no residual moves to another ray
\* (Trace, ContrastAnalysis and the goals of one ray).
THEOREM ResidualsKeepTheirRays == Spec => []ResidualsKeepTheirRay
<1>1. IInv => ResidualsKeepTheirRay
  <2> SUFFICES ASSUME IInv, pc = "solve", NEW lost \in Failures, NEW goal \in goals,
                      goal[1] \in {"deviation", "ray", "contrast"}
               PROVE  Value(Evaluated(lost), goal) = Expected(goal, lost)
    BY DEF ResidualsKeepTheirRay
  <2> DEFINE rows == sections[stages[stage]]
             c == Current
             analysis == configureAnalysis(c)
             results == Evaluated(lost)
             f == goal[2]
             w == goal[3]
             o == goal[5]
  <2>1. PICK crossed \in Crossings : goals = buildGoals(design[1], c, variables, crossed)
    BY DEF IInv, SolveOK
  <2>2. rows \in Seq(Lines) /\ c = toConfiguration(rows)
    BY DEF IInv, SectionsOK, StageOK, Range, Current, Configuration
  <2>3. Origin(goal, design[1], c, variables, crossed)
    BY <2>1, GoalOrigin
  <2>4. Computed(analysis, goal)
    BY <2>2, <2>3, OriginComputed DEF IInv, SolveOK
  <2>5. /\ c.gaussian[1] * c.gaussian[2] \in Int
        /\ c.contrastSampling[1] * c.contrastSampling[2] \in Int
    BY <2>2, SettingsTyped
  <2>6. /\ analysis.gaussian = c.gaussian /\ analysis.contrastSampling = c.contrastSampling
        /\ analysis.contrasts = Len(c.contrastGoals)
    BY DEF configureAnalysis
  <2>7. results = compute(analysis, DOMAIN c.fields, DOMAIN c.wavelengths, NUM_TRANSVERSE_RAYS, lost)
    BY DEF Evaluated
  <2>8. f \in DOMAIN c.fields /\ w \in DOMAIN c.wavelengths /\ o \in 1..2
    BY <2>3 DEF Origin, Directions, Sagittal, Tangential
  <2> HIDE DEF c, analysis, results
  <2>9. CASE goal[1] = "deviation"
    <3> DEFINE sample == goal[4]
               ray == <<"gauss", f, w, sample, 0>>
               N == c.gaussian[1] * c.gaussian[2]
               items == results.spots[f][w]
    <3>1. N \in Int /\ sample \in 0..(N - 1)
      BY <2>3, <2>5, <2>9 DEF Origin, SampleNumbers
    <3>2. items = trace_gaussian_quadrature(f, w, c.gaussian, TRUE, lost)
      BY <2>4, <2>6, <2>7, <2>8, <2>9 DEF Computed, compute, SpotsOf
    <3>3. items = [i \in 1..N |-> Item(<<"gauss", f, w, i - 1, 0>>, lost)]
      BY <3>2 DEF trace_gaussian_quadrature, Kept
    <3>4. Value(results, goal) = At(items, sample)
      BY <2>9 DEF Value, GoalSpotDeviation
    <3>5. Expected(goal, lost) = IF ray \in lost THEN Big ELSE ray
      BY <2>9 DEF Expected, Range
    <3> HIDE DEF items, sample, N, f, w
    <3>6. At(items, sample) = IF ray \in lost THEN Big ELSE ray
      BY <3>1, <3>3, GaussianPlace
    <3> QED
      BY <3>4, <3>5, <3>6 DEF results
  <2>10. CASE goal[1] = "ray"
    <3> DEFINE sample == goal[4]
               ray == <<"fan", f, w, sample, o>>
               items == results.fans[f][o][w]
    <3>1. sample \in 0..(RAY_FAN_SAMPLES - 1)
      BY <2>3, <2>10 DEF Origin
    <3>2. items = trace_fan(f, o, w, NUM_TRANSVERSE_RAYS, TRUE, lost)
      BY <2>4, <2>7, <2>8, <2>10 DEF Computed, compute
    <3>3. items = [i \in 1..NUM_TRANSVERSE_RAYS |-> Item(<<"fan", f, w, i - 1, o>>, lost)]
      BY <3>2 DEF trace_fan, Kept
    <3>4. Value(results, goal) = At(items, sample)
      BY <2>10 DEF Value, GoalRayAberration
    <3>5. Expected(goal, lost) = IF ray \in lost THEN Big ELSE ray
      BY <2>10 DEF Expected, Range
    <3> HIDE DEF items, sample, f, w, o
    <3>6. At(items, sample) = IF ray \in lost THEN Big ELSE ray
      BY <3>1, <3>3, FanPlace
    <3> QED
      BY <3>4, <3>5, <3>6 DEF results
  <2>11. CASE goal[1] = "contrast"
    <3> DEFINE i == goal[4][1]
               sample == goal[4][2]
               ray(e) == ContrastRay(f, w, i, sample, e)
    <3>1. i \in DOMAIN c.contrastGoals /\ sample \in SampleNumbers(c.contrastSampling)
      BY <2>3, <2>11 DEF Origin
    <3>2. i \in 1..analysis.contrasts
      BY <2>2, <2>6, <3>1, SettingsTyped
    <3>3. results.contrasts[i][f][w] = trace_triplets(f, w, i, c.contrastSampling, lost)
      BY <2>6, <2>7, <2>8, <3>2 DEF compute
    <3>4. LET samples == results.contrasts[i][f][w]
          IN /\ sample + 1 \in DOMAIN samples
             /\ samples[sample + 1].rays = [e \in 0..2 |-> ray(e)]
             /\ samples[sample + 1].valid <=> \A e \in 0..2 : ray(e) \notin lost
      BY <2>5, <3>1, <3>3, ContrastPlace
    <3>5. GoalContrast(results, goal)
            = IF \A e \in 0..2 : ray(e) \notin lost THEN <<ray(0), ray(o)>> ELSE Big
      <4> DEFINE samples == results.contrasts[i][f][w]
      <4>1. GoalContrast(results, goal)
              = IF samples[sample + 1].valid
                THEN <<samples[sample + 1].rays[0], samples[sample + 1].rays[o]>> ELSE Big
        BY <3>4 DEF GoalContrast
      <4>2. samples[sample + 1].rays[0] = ray(0) /\ samples[sample + 1].rays[o] = ray(o)
        <5>1. samples[sample + 1].rays = [e \in 0..2 |-> ray(e)]
          BY <3>4
        <5>2. 0 \in 0..2 /\ o \in 0..2
          BY <2>8
        <5> HIDE DEF samples, sample, ray
        <5> QED
          BY <5>1, <5>2
      <4> QED
        BY <3>4, <4>1, <4>2
    <3>6. Value(results, goal) = GoalContrast(results, goal)
      BY <2>11 DEF Value
    <3>7. Expected(goal, lost)
            = IF \A e \in 0..2 : ray(e) \notin lost THEN <<ray(0), ray(o)>> ELSE Big
      <4> DEFINE rays == <<ray(0), ray(o), ray(3 - o)>>
      <4>1. Range(rays) = {ray(0), ray(o), ray(3 - o)}
        BY DEF Range
      <4>2. \A e \in 0..2 : e = 0 \/ e = o \/ e = 3 - o
        BY <2>8
      <4>3. o \in 0..2 /\ 3 - o \in 0..2 /\ 0 \in 0..2
        BY <2>8
      <4> HIDE DEF ray
      <4>4. Range(rays) \cap lost = {} <=> \A e \in 0..2 : ray(e) \notin lost
        BY <4>1, <4>2, <4>3
      <4>5. Expected(goal, lost)
              = IF Range(rays) \cap lost # {} THEN Big ELSE <<rays[1], rays[2]>>
        BY <2>11 DEF Expected, ray
      <4> QED
        BY <4>4, <4>5
    <3> QED
      BY <3>5, <3>6, <3>7 DEF results
  <2> QED
    BY <2>9, <2>10, <2>11 DEF results
<1> QED
  BY <1>1, IInvHolds, PTL
=============================================================================
