------------------------- MODULE OptimizationTrial -------------------------
(***************************************************************************)
(* A [trial n] section: the reader that accepts it line by line, the       *)
(* settings it resolves to, and the section written back from settings.    *)
(*                                                                         *)
(* A line is [key, word, nums, extra].  Its key is the one the reader's    *)
(* `once' remembers, with the number that is part of it (a surface, a      *)
(* frequency, a paraxial quantity); word is its keyword argument, nums its *)
(* numbers and extra what may follow them.  Relative lengths (a field's    *)
(* height, the inner pupil radius) are counted in units of 1 / FullField,  *)
(* wavelengths are numbered, and a solver setting of 0 is the solver's own *)
(* default.  The reader's state is the sequence of the lines it has        *)
(* accepted.                                                               *)
(***************************************************************************)
EXTENDS Ascending, SequencesExt, FiniteSetsExt

CONSTANTS FullField,
          DEFAULT_HEXAPOLAR_RAYS,
          DEFAULT_GAUSSIAN_QUADRATURE_RINGS, DEFAULT_GAUSSIAN_QUADRATURE_SPOKES,
          DEFAULT_CONTRAST_RINGS, DEFAULT_CONTRAST_SPOKES,
          NOMINAL_BALANCE_WEIGHT

line(key, number, word, nums, extra) ==
  [key |-> <<key, number>>, word |-> word, nums |-> nums, extra |-> extra]

numbers(key, number, nums) == line(key, number, "", nums, <<>>)

Has(rows, key) == \E i \in DOMAIN rows : rows[i].key = key
Row(rows, key) == rows[CHOOSE i \in DOMAIN rows : rows[i].key = key]

\* The lines of a keyword that may be given for several numbers, in order.
Rows(rows, key) ==
  LET given == Increasing({i \in DOMAIN rows : rows[i].key[1] = key})
  IN [n \in DOMAIN given |-> rows[given[n]]]

Distinct(seq) == Cardinality(Range(seq)) = Len(seq)
Ones(n) == [i \in 1..n |-> 1]
standardFiveColor == <<1, 2, 3, 4, 5>>
allOnes(values) == \A i \in DOMAIN values : values[i] = 1

-----------------------------------------------------------------------------
(* Reading one line. *)

\* Weights checked against the fields when the section is finished.
PerFieldWeights == {"goal contrast sag", "goal contrast tan", "goal mtf weights",
                    "goal mtf sag weights", "goal mtf tan weights", "goal spot-rms weights",
                    "goal spot-max-radius weights", "goal spot-deviation",
                    "goal spot-deviation x", "goal spot-deviation y"}
PerFieldTargets == {"goal mtf sag", "goal mtf tan", "goal spot-rms", "goal spot-max-radius"}

ContrastSettings == {"goal contrast sag", "goal contrast tan", "goal contrast balance",
                     "goal contrast sampling", "goal contrast calibrate",
                     "goal contrast exit-pupil-aiming", "goal contrast centering"}
MtfRows == {"goal mtf sag", "goal mtf tan", "goal mtf weights", "goal mtf sag weights",
            "goal mtf tan weights"}

Positive(nums) == nums # <<>> /\ \A i \in DOMAIN nums : nums[i] > 0
NonNegative(nums) == \A i \in DOMAIN nums : nums[i] >= 0

fieldList(row) ==
  row.nums # <<>> /\ row.nums[1] = 0 /\ \A i \in DOMAIN row.nums : row.nums[i] \in 0..FullField

wavelengthSet(row) == Positive(row.nums)

SolverTolerances == {"solver ftol", "solver xtol", "solver gtol"}

surfaces(lens, listed, curvature) ==
  /\ Distinct(listed)
  /\ \A i \in DOMAIN listed : /\ listed[i] \in 0..(Len(lens) - 1)
                              /\ curvature => lens[listed[i] + 1] \notin {"AS", "FS"}

selection(lens, row, curvature) ==
  surfaces(lens, row.nums, curvature /\ row.word = "list")

\* nums are the term indices, -1 for K, and extra their scales, 0 for none.
aspherics(lens, row) ==
  /\ row.key[2] \in 0..(Len(lens) - 1)
  /\ row.nums # <<>> /\ Distinct(row.nums)
  /\ \A i \in DOMAIN row.nums : /\ row.nums[i] >= -1
                                /\ row.extra[i] >= 0
                                /\ row.nums[i] = -1 => row.extra[i] = 0

Constraints == {"constrain curvatures", "constrain thicknesses", "constrain edges"}

\* extra is the weight of the balance.
contrastGoal(row) ==
  LET key == row.key[1]
  IN /\ key = "goal contrast" => Positive(row.nums) /\ Distinct(row.nums)
     /\ key \in {"goal contrast sag", "goal contrast tan"} => row.nums # <<>> /\ row.key[2] >= 0
     /\ key = "goal contrast sampling" => Positive(row.nums) /\ row.nums[2] >= 3
     /\ key = "goal contrast balance" =>
          (row.word = "all" \/ row.nums # <<>>) /\ NonNegative(row.extra)

mtfGoal(row) == row.key[2] > 0 /\ row.nums # <<>>

\* extra is the inner pupil radius.
spotSampling(row) ==
  Positive(row.nums) /\ (row.key[1] = "goal spot sampling gaussian" => NonNegative(row.extra))

\* Whether the reader accepts the line by itself; lens is the radius column.
LineAccepted(lens, row) ==
  LET key == row.key[1]
  IN /\ key = "configuration" => NonNegative(row.nums)
     /\ key = "fields" => fieldList(row)
     /\ key = "wavelengths" => wavelengthSet(row)
     /\ key \in SolverTolerances => NonNegative(row.nums)
     /\ key = "solver max-evaluations" => Positive(row.nums)
     /\ key = "vary curvatures" => selection(lens, row, TRUE)
     /\ key = "vary thicknesses" => selection(lens, row, FALSE)
     /\ key = "vary aspherics" => aspherics(lens, row)
     /\ key \in Constraints => NonNegative(row.nums)
     /\ key = "goal contrast" \/ key \in ContrastSettings => contrastGoal(row)
     /\ key \in MtfRows => mtfGoal(row)
     /\ key \in {"goal spot sampling gaussian", "goal spot sampling hexapolar"} => spotSampling(row)
     /\ key = "goal paraxial" => NonNegative(row.extra)

once(rows, key) == ~Has(rows, key)

\* Reader::read refuses the section at a line this is false of.
read(lens, rows, row) == once(rows, row.key) /\ LineAccepted(lens, row)

-----------------------------------------------------------------------------
(* The checks that need the whole section. *)

FieldsOf(rows) == Row(rows, <<"fields", 0>>).nums
Frequencies(rows) ==
  IF Has(rows, <<"goal contrast", 0>>) THEN Row(rows, <<"goal contrast", 0>>).nums ELSE <<>>

checkPerField(rows, row) ==
  /\ row.key[1] \in PerFieldWeights \cup PerFieldTargets => Len(row.nums) = Len(FieldsOf(rows))
  /\ row.key[1] \in PerFieldWeights => \A i \in DOMAIN row.nums : row.nums[i] >= 0
  /\ row.key[1] \in {"goal mtf sag", "goal mtf tan"} =>
       \A i \in DOMAIN row.nums : row.nums[i] \in 0..100
  /\ row.key[1] \in {"goal spot-rms", "goal spot-max-radius"} =>
       \A i \in DOMAIN row.nums : row.nums[i] >= 0

DeviationRows(rows) ==
  {key \in {"goal spot-deviation", "goal spot-deviation x", "goal spot-deviation y"} :
     Has(rows, <<key, 0>>)}

finish(rows) ==
  LET has(key) == Has(rows, <<key, 0>>)
  IN /\ has("fields")
     /\ \A i \in DOMAIN rows :
          LET row == rows[i]
          IN /\ checkPerField(rows, row)
             /\ row.key[1] \in ContrastSettings => has("goal contrast")
             /\ row.key[1] \in {"goal contrast sag", "goal contrast tan"} /\ row.key[2] # 0 =>
                  row.key[2] \in Range(Frequencies(rows))
             /\ row.key[1] \in MtfRows =>
                  Has(rows, <<"goal mtf sag", row.key[2]>>) /\ Has(rows, <<"goal mtf tan", row.key[2]>>)
     /\ has("goal spot-rms weights") => has("goal spot-rms")
     /\ has("goal spot-max-radius weights") => has("goal spot-max-radius")
     /\ DeviationRows(rows) \in {{}, {"goal spot-deviation"},
                                 {"goal spot-deviation x", "goal spot-deviation y"}}
     /\ DeviationRows(rows) # {} =>
          ~has("goal spot sampling hexapolar") /\ ~has("goal spot-max-radius")

\* Whether toConfiguration resolves the section, or throws.
Resolves(rows) ==
  /\ Has(rows, <<"goal contrast balance", 0>>) =>
       LET row == Row(rows, <<"goal contrast balance", 0>>)
       IN /\ row.word = "except" => \A i \in DOMAIN row.nums : row.nums[i] \in Range(FieldsOf(rows))
          /\ row.word = "flags" => Len(row.nums) = Len(FieldsOf(rows))
  /\ Has(rows, <<"goal spot sampling gaussian", 0>>) =>
       LET row == Row(rows, <<"goal spot sampling gaussian", 0>>)
       IN row.nums[2] >= 3 /\ \A i \in DOMAIN row.extra : row.extra[i] < FullField

-----------------------------------------------------------------------------
(* Resolving the section to settings. *)

\* all except clears, for each value, the last field that has it
balanceFlags(rows) ==
  LET row == Row(rows, <<"goal contrast balance", 0>>)
      fields == FieldsOf(rows)
      lastWith(value) == Max({f \in DOMAIN fields : fields[f] = value})
  IN CASE row.word = "all" -> [f \in DOMAIN fields |-> TRUE]
       [] row.word = "except" ->
            [f \in DOMAIN fields |-> f \notin {lastWith(row.nums[i]) : i \in DOMAIN row.nums}]
       [] OTHER -> [f \in DOMAIN fields |-> row.nums[f] = 1]

weightsFor(rows, specific, general) ==
  IF Has(rows, specific) THEN Row(rows, specific).nums
  ELSE IF Has(rows, general) THEN Row(rows, general).nums
  ELSE Ones(Len(FieldsOf(rows)))

\* MTF goals keep the order in which a row first names their frequency.
MtfFrequencies(rows) ==
  LET given == SelectSeq(rows, LAMBDA row : row.key[1] \in MtfRows)
      firsts == SelectSeq([i \in DOMAIN given |-> i],
                          LAMBDA i : \A j \in 1..(i - 1) : given[j].key[2] # given[i].key[2])
  IN [n \in DOMAIN firsts |-> given[firsts[n]].key[2]]

SelectionOf(rows, key) ==
  LET row == Row(rows, <<key, 0>>)
  IN IF ~Has(rows, <<key, 0>>) THEN [all |-> FALSE, listed |-> <<>>, except |-> <<>>]
     ELSE [all |-> row.word # "list",
           listed |-> IF row.word = "list" THEN row.nums ELSE <<>>,
           except |-> IF row.word = "except" THEN row.nums ELSE <<>>]

toConfiguration(rows) ==
  LET Given(key) == IF Has(rows, <<key, 0>>) THEN <<Row(rows, <<key, 0>>).nums>> ELSE <<>>
      Value(key, default) == IF Has(rows, <<key, 0>>) THEN Row(rows, <<key, 0>>).nums[1] ELSE default
      Word(key, default) == IF Has(rows, <<key, 0>>) THEN Row(rows, <<key, 0>>).word ELSE default
      YesNo(key, default) == IF Has(rows, <<key, 0>>) THEN Row(rows, <<key, 0>>).nums = <<1>> ELSE default
      Spots(key, weights) ==
        [i \in DOMAIN Given(key) |-> [targets |-> Given(key)[i],
           weights |-> IF Given(weights) = <<>> THEN Ones(Len(Given(key)[i])) ELSE Given(weights)[1]]]
      terms(row) == [i \in DOMAIN row.nums |-> <<row.key[2], row.nums[i], row.extra[i]>>]
      asphericRows == Rows(rows, "vary aspherics")
      sampling == Given("goal contrast sampling")
      gaussian == Given("goal spot sampling gaussian")
      inner == IF gaussian = <<>> THEN <<>> ELSE Row(rows, <<"goal spot sampling gaussian", 0>>).extra
      balance == Has(rows, <<"goal contrast balance", 0>>)
      balanceExtra == Row(rows, <<"goal contrast balance", 0>>).extra
      paraxial == Rows(rows, "goal paraxial")
      deviation(direction) ==
        IF DeviationRows(rows) = {"goal spot-deviation"} THEN Given("goal spot-deviation")[1]
        ELSE Given(direction)[1]
  IN [description |-> Word("description", ""),
      outdir |-> Word("outdir", ""),
      scenario |-> Value("configuration", 0),
      fields |-> FieldsOf(rows),
      wavelengths |-> IF Has(rows, <<"wavelengths", 0>>) THEN Given("wavelengths")[1]
                      ELSE standardFiveColor,
      vigType |-> Word("vignetting", "set-pupil"),
      freezeVignetting |-> Has(rows, <<"vignetting", 0>>) /\ Row(rows, <<"vignetting", 0>>).extra # <<>>,
      checkSpotApertures |-> YesNo("check-spot-apertures", TRUE),
      ftol |-> Value("solver ftol", 0), xtol |-> Value("solver xtol", 0),
      gtol |-> Value("solver gtol", 0), maxEvaluations |-> Value("solver max-evaluations", 0),
      curvatures |-> SelectionOf(rows, "vary curvatures"),
      thicknesses |-> SelectionOf(rows, "vary thicknesses"),
      existingAspherics |-> Has(rows, <<"vary aspherics existing", 0>>),
      asphericTerms |-> FlattenSeq([i \in DOMAIN asphericRows |-> terms(asphericRows[i])]),
      curvatureConstraint |-> Given("constrain curvatures"),
      thicknessConstraint |-> Given("constrain thicknesses"),
      edgeConstraint |-> Given("constrain edges"),
      contrastGoals |->
        [i \in DOMAIN Frequencies(rows) |->
           LET f == Frequencies(rows)[i]
           IN [frequency |-> f,
               sag |-> weightsFor(rows, <<"goal contrast sag", f>>, <<"goal contrast sag", 0>>),
               tan |-> weightsFor(rows, <<"goal contrast tan", f>>, <<"goal contrast tan", 0>>)]],
      contrastSampling |-> IF sampling = <<>> THEN <<DEFAULT_CONTRAST_RINGS, DEFAULT_CONTRAST_SPOKES>>
                           ELSE sampling[1],
      calibrateContrast |-> YesNo("goal contrast calibrate", FALSE),
      exitPupilAiming |-> YesNo("goal contrast exit-pupil-aiming", FALSE),
      centerContrast |-> YesNo("goal contrast centering", FALSE),
      balanceFields |-> IF balance THEN <<balanceFlags(rows)>> ELSE <<>>,
      balanceWeight |-> IF balance /\ balanceExtra # <<>> THEN balanceExtra[1] ELSE NOMINAL_BALANCE_WEIGHT,
      mtfGoals |->
        [i \in DOMAIN MtfFrequencies(rows) |->
           LET f == MtfFrequencies(rows)[i]
           IN [frequency |-> f,
               sag |-> Row(rows, <<"goal mtf sag", f>>).nums,
               tan |-> Row(rows, <<"goal mtf tan", f>>).nums,
               sagWeights |-> weightsFor(rows, <<"goal mtf sag weights", f>>, <<"goal mtf weights", f>>),
               tanWeights |-> weightsFor(rows, <<"goal mtf tan weights", f>>, <<"goal mtf weights", f>>)]],
      spotRms |-> Spots("goal spot-rms", "goal spot-rms weights"),
      spotMaxRadius |-> Spots("goal spot-max-radius", "goal spot-max-radius weights"),
      spotDeviation |-> IF DeviationRows(rows) = {} THEN <<>>
                        ELSE <<deviation("goal spot-deviation x"), deviation("goal spot-deviation y")>>,
      gaussian |-> IF gaussian = <<>>
                   THEN <<DEFAULT_GAUSSIAN_QUADRATURE_RINGS, DEFAULT_GAUSSIAN_QUADRATURE_SPOKES>>
                   ELSE gaussian[1],
      innerRadius |-> IF inner = <<>> THEN 0 ELSE inner[1],
      useHexapolar |-> Has(rows, <<"goal spot sampling hexapolar", 0>>),
      hexapolarRays |-> Value("goal spot sampling hexapolar", DEFAULT_HEXAPOLAR_RAYS),
      rayAberrations |-> YesNo("goal ray-aberrations", FALSE),
      paraxialGoals |-> [i \in DOMAIN paraxial |->
                           <<paraxial[i].key[2], paraxial[i].nums[1],
                             IF paraxial[i].extra = <<>> THEN 1 ELSE paraxial[i].extra[1]>>]]

-----------------------------------------------------------------------------
(* What the analysis has to compute for the goals. *)

\* A mistake: the spots an MTF goal is computed from are forgotten.
AnalysisWithoutMtfSpots(c, customMaximumRadius) ==
  [spots |-> c.spotRms # <<>> \/ c.spotMaxRadius # <<>> \/ c.spotDeviation # <<>>,
   rayAberrations |-> c.rayAberrations,
   mtf |-> c.mtfGoals # <<>>,
   hexapolar |-> c.spotDeviation = <<>> /\ (c.useHexapolar \/ c.spotMaxRadius # <<>>),
   retainFailedRays |-> c.spotDeviation # <<>>]

effectiveAnalysis(c, customMaximumRadius) ==
  [spots |-> \/ c.spotRms # <<>> \/ c.spotMaxRadius # <<>>
             \/ c.spotDeviation # <<>> \/ c.mtfGoals # <<>>,
   rayAberrations |-> c.rayAberrations,
   mtf |-> c.mtfGoals # <<>>,
   hexapolar |-> /\ c.spotDeviation = <<>>
                 /\ c.useHexapolar \/ c.spotMaxRadius # <<>> \/ customMaximumRadius,
   retainFailedRays |-> c.spotDeviation # <<>>]

-----------------------------------------------------------------------------
(* Writing the section. *)

When(condition, row) == IF condition THEN <<row>> ELSE <<>>
yesNo(value) == IF value THEN <<1>> ELSE <<0>>

SelectionLine(key, s) ==
  IF s.all
  THEN <<line(key, 0, IF s.except = <<>> THEN "all" ELSE "except", s.except, <<>>)>>
  ELSE When(s.listed # <<>>, line(key, 0, "list", s.listed, <<>>))

\* One line per surface, in the order of the surfaces' first terms.
AsphericLines(terms) ==
  LET firsts == SelectSeq([i \in DOMAIN terms |-> i],
                          LAMBDA i : \A j \in 1..(i - 1) : terms[j][1] # terms[i][1])
      of(s) == SelectSeq(terms, LAMBDA term : term[1] = s)
  IN [n \in DOMAIN firsts |->
        LET row == of(terms[firsts[n]][1])
        IN line("vary aspherics", terms[firsts[n]][1], "",
                [i \in DOMAIN row |-> row[i][2]], [i \in DOMAIN row |-> row[i][3]])]

\* A mistake: the first frequency's weights taken for all of them.
FirstContrastWeights(key, goals, weights) ==
  When(~allOnes(weights[1]), numbers(key, 0, weights[1]))

\* contrastWeights: a general line when every frequency has the same weights.
contrastWeights(key, goals, weights) ==
  IF \A i \in DOMAIN goals : weights[i] = weights[1]
  THEN When(~allOnes(weights[1]), numbers(key, 0, weights[1]))
  ELSE FlattenSeq([i \in DOMAIN goals |->
         When(~allOnes(weights[i]), numbers(key, goals[i].frequency, weights[i]))])

BalanceLine(c) ==
  LET flags == c.balanceFields[1]
      balance == IF \A f \in DOMAIN flags : flags[f] THEN <<"all", <<>> >>
                 ELSE IF \A f \in DOMAIN flags : ~flags[f]
                 THEN <<"flags", [f \in DOMAIN flags |-> 0]>>
                 ELSE LET left == SelectSeq([f \in DOMAIN flags |-> f], LAMBDA f : ~flags[f])
                      IN <<"except", [i \in DOMAIN left |-> c.fields[left[i]]]>>
  IN line("goal contrast balance", 0, balance[1], balance[2], <<c.balanceWeight>>)

ContrastLines(c) ==
  LET goals == c.contrastGoals
  IN IF goals = <<>> THEN <<>>
     ELSE <<numbers("goal contrast", 0, [i \in DOMAIN goals |-> goals[i].frequency])>>
          \o contrastWeights("goal contrast sag", goals, [i \in DOMAIN goals |-> goals[i].sag])
          \o contrastWeights("goal contrast tan", goals, [i \in DOMAIN goals |-> goals[i].tan])
          \o (IF c.balanceFields = <<>> THEN <<>> ELSE <<BalanceLine(c)>>)
          \o <<numbers("goal contrast sampling", 0, c.contrastSampling),
               numbers("goal contrast calibrate", 0, yesNo(c.calibrateContrast)),
               numbers("goal contrast exit-pupil-aiming", 0, yesNo(c.exitPupilAiming)),
               numbers("goal contrast centering", 0, yesNo(c.centerContrast))>>

MtfLines(goal) ==
  LET f == goal.frequency
  IN <<numbers("goal mtf sag", f, goal.sag), numbers("goal mtf tan", f, goal.tan)>>
     \o IF goal.sagWeights = goal.tanWeights
        THEN When(~allOnes(goal.sagWeights), numbers("goal mtf weights", f, goal.sagWeights))
        ELSE When(~allOnes(goal.sagWeights), numbers("goal mtf sag weights", f, goal.sagWeights))
             \o When(~allOnes(goal.tanWeights), numbers("goal mtf tan weights", f, goal.tanWeights))

spotGoals(key, weights, goals) ==
  IF goals = <<>> THEN <<>>
  ELSE <<numbers(key, 0, goals[1].targets)>>
       \o When(~allOnes(goals[1].weights), numbers(weights, 0, goals[1].weights))

SpotLines(c) ==
  LET configuredHexapolar == c.useHexapolar \/ c.spotMaxRadius # <<>>
      effective == effectiveAnalysis(c, FALSE)
      deviation == c.spotDeviation
  IN spotGoals("goal spot-rms", "goal spot-rms weights", c.spotRms)
     \o spotGoals("goal spot-max-radius", "goal spot-max-radius weights", c.spotMaxRadius)
     \o (IF deviation = <<>> THEN <<>>
         ELSE IF deviation[1] = deviation[2]
         THEN <<numbers("goal spot-deviation", 0, deviation[1])>>
         ELSE <<numbers("goal spot-deviation x", 0, deviation[1]),
                numbers("goal spot-deviation y", 0, deviation[2])>>)
     \o When(\/ c.gaussian # <<DEFAULT_GAUSSIAN_QUADRATURE_RINGS, DEFAULT_GAUSSIAN_QUADRATURE_SPOKES>>
             \/ c.innerRadius # 0
             \/ effective.spots /\ ~configuredHexapolar,
             line("goal spot sampling gaussian", 0, "", c.gaussian,
                  IF c.innerRadius # 0 THEN <<c.innerRadius>> ELSE <<>>))
     \o When(configuredHexapolar, numbers("goal spot sampling hexapolar", 0, <<c.hexapolarRays>>))

toTrial(c) ==
  LET configuredHexapolar == c.useHexapolar \/ c.spotMaxRadius # <<>>
      effective == effectiveAnalysis(c, FALSE)
      weight(key, value) == IF value = <<>> THEN <<>> ELSE <<numbers(key, 0, value[1])>>
  IN When(c.description # "", line("description", 0, c.description, <<>>, <<>>))
     \o When(c.outdir # "", line("outdir", 0, c.outdir, <<>>, <<>>))
     \o <<numbers("configuration", 0, <<c.scenario>>),
          numbers("fields", 0, c.fields),
          numbers("wavelengths", 0, c.wavelengths),
          line("vignetting", 0, c.vigType, <<>>, IF c.freezeVignetting THEN <<1>> ELSE <<>>)>>
     \o When(~c.checkSpotApertures \/ (effective.spots /\ ~configuredHexapolar),
             numbers("check-spot-apertures", 0, yesNo(c.checkSpotApertures)))
     \o When(c.ftol # 0, numbers("solver ftol", 0, <<c.ftol>>))
     \o When(c.xtol # 0, numbers("solver xtol", 0, <<c.xtol>>))
     \o When(c.gtol # 0, numbers("solver gtol", 0, <<c.gtol>>))
     \o When(c.maxEvaluations # 0, numbers("solver max-evaluations", 0, <<c.maxEvaluations>>))
     \o SelectionLine("vary curvatures", c.curvatures)
     \o SelectionLine("vary thicknesses", c.thicknesses)
     \o When(c.existingAspherics, numbers("vary aspherics existing", 0, <<>>))
     \o AsphericLines(c.asphericTerms)
     \o weight("constrain curvatures", c.curvatureConstraint)
     \o weight("constrain thicknesses", c.thicknessConstraint)
     \o weight("constrain edges", c.edgeConstraint)
     \o ContrastLines(c)
     \o FlattenSeq([i \in DOMAIN c.mtfGoals |-> MtfLines(c.mtfGoals[i])])
     \o SpotLines(c)
     \o <<numbers("goal ray-aberrations", 0, yesNo(c.rayAberrations))>>
     \o [i \in DOMAIN c.paraxialGoals |->
           line("goal paraxial", c.paraxialGoals[i][1], "", <<c.paraxialGoals[i][2]>>,
                IF c.paraxialGoals[i][3] # 1 THEN <<c.paraxialGoals[i][3]>> ELSE <<>>)]

\* A whole section is read: the lines one by one, then the final checks.
Parses(lens, rows) ==
  /\ \A i \in DOMAIN rows : read(lens, SubSeq(rows, 1, i - 1), rows[i])
  /\ finish(rows) /\ Resolves(rows)
=============================================================================
