---------------------------- MODULE Prescription ----------------------------
(***************************************************************************)
(* The lens prescription and the Optical Bench text it is read from and    *)
(* written to: build_prescription and its import helpers, and              *)
(* to_opt_bench_str.                                                       *)
(*                                                                         *)
(* A text is a record of its sections.  text.variables maps the names of   *)
(* [variable distances] to their values, one per scenario of the file;     *)
(* <<"Focal Length", 0>> stands for the three first-order rows the reader  *)
(* demands for every configuration, and <<"d", i>> for the rows the writer *)
(* names after a surface.  Numbers are printed so that they read back as   *)
(* the same double, so a value stands for itself; glass is left out.       *)
(* Surfaces are counted from 1.                                            *)
(*                                                                         *)
(* A coefficient vector is a sequence: coefficient index i of the code is  *)
(* element i + 1.  An even asphere's index i is the term r^(2(i+1)), a     *)
(* radial one's r^(i+1).  The file leaves terms out: an even asphere's A2, *)
(* and of a radial one everything below A3 and the odd powers beyond the   *)
(* declared AsphericalOddCount, so the column a term is written in depends *)
(* on what the whole file declares.                                        *)
(***************************************************************************)
EXTENDS Ascending, Functions

-----------------------------------------------------------------------------
(* Aspheric coefficients. *)

Spherical == 0
Even == 1
EvenA2 == 2
Radial == 3

\* Optimizable term indices: powerOf throws for the others.
HasTerm(type, index) ==
  index >= (CASE type = Radial -> 2 [] type = EvenA2 -> 0 [] OTHER -> 1)

powerOf(type, index) == IF type = Radial THEN index + 1 ELSE 2 * (index + 1)

\* What the polynomial of a surface holds at a power of r.
Term(type, coeffs, power) ==
  IF \E i \in 1..Len(coeffs) : powerOf(type, i - 1) = power
  THEN coeffs[CHOOSE i \in 1..Len(coeffs) : powerOf(type, i - 1) = power]
  ELSE 0

-----------------------------------------------------------------------------
(* Writing a row. *)

Listed(odd, power) == power % 2 = 0 \/ (power - 1) \div 2 <= odd

\* The odd count a radial surface needs for its non-zero terms.
required_odd_count(type, coeffs) ==
  LET kept == {i \in 1..(Len(coeffs) \div 2) : 2 * i + 1 <= Len(coeffs) /\ coeffs[2 * i + 1] # 0}
  IN IF type # Radial THEN 0
     ELSE IF kept = {} THEN 1 ELSE CHOOSE i \in kept : \A j \in kept : j <= i

\* "Optical Bench odd format cannot represent an A2 term"
Writable(odd, type, coeffs) ==
  odd > 0 /\ type # Radial /\ Len(coeffs) > 0 => coeffs[1] = 0

Highest(type, coeffs) == IF type = Radial THEN Len(coeffs) ELSE 2 * Len(coeffs)

Powers(odd, type, coeffs) ==
  Increasing({power \in 3..Highest(type, coeffs) : Listed(odd, power)})

Columns(odd, type, coeffs) ==
  IF odd > 0
  THEN LET powers == Powers(odd, type, coeffs)
       IN [n \in 1..Len(powers) |-> Term(type, coeffs, powers[n])]
  ELSE SubSeq(coeffs, (CASE type = Even -> 2 [] type = Radial -> 3 [] OTHER -> 1), Len(coeffs))

-----------------------------------------------------------------------------
(* Reading a row. *)

\* A3, A4, ... through the declared odd terms, then even powers only.
radial_power(odd, n) == IF n \div 2 < odd THEN n + 3 ELSE 2 * (n - odd) + 4

\* The type every aspheric row of a file is given.
RowType(odd, a2) == IF odd > 0 THEN Radial ELSE IF a2 THEN EvenA2 ELSE Even

get_coeffs(odd, type, data) ==
  LET length == IF Len(data) = 0 THEN 2 ELSE radial_power(odd, Len(data) - 1)
  IN CASE type = Radial ->
            [p \in 1..length |->
               IF \E n \in 1..Len(data) : radial_power(odd, n - 1) = p
               THEN data[CHOOSE n \in 1..Len(data) : radial_power(odd, n - 1) = p] ELSE 0]
       [] type = Even -> <<0>> \o data
       [] OTHER -> data

-----------------------------------------------------------------------------
(* What the importer's sections are, whatever the file says in them. *)

IsList(seq) == seq \in Seq(Range(seq))
Cells == {"R", "AS", "FS", "CG"}

IsText(text) ==
  /\ text.odd \in Nat
  /\ IsList(text.rows) /\ IsList(text.asph) /\ IsList(text.scenarios) /\ IsList(text.names)
  /\ \A a \in DOMAIN text.asph : IsList(text.asph[a].data)
  /\ \A s \in DOMAIN text.rows : text.rows[s].cell \in Cells

-----------------------------------------------------------------------------
(* Names of [variable distances]. *)

NoVar == <<"", 0>>
FirstOrder == <<"Focal Length", 0>>
Bf == <<"Bf", 0>>
ApertureDiameter == <<"Aperture Diameter", 0>>
d(id) == <<"d", id>>

-----------------------------------------------------------------------------
(* Reading. *)

\* The report's scenarios, <<>> when it selects no configurations.
configured_scenarios(text) ==
  IF Len(text.names) = Len(text.scenarios) THEN text.scenarios ELSE <<>>

scenario_of_configuration(text, configuration) ==
  IF configured_scenarios(text) = <<>> THEN configuration
  ELSE configured_scenarios(text)[configuration + 1]

HasValue(text, name, scenario) ==
  name \in DOMAIN text.variables /\ scenario + 1 \in DOMAIN text.variables[name]

require_value(text, name, scenario) == text.variables[name][scenario + 1]

\* The scenarios whose values the file must give.
NeededScenarios(text) ==
  {scenario_of_configuration(text, 0)}
    \cup {configured_scenarios(text)[i] : i \in DOMAIN configured_scenarios(text)}

ThicknessVariable(row) == {row.var} \ {NoVar}

\* Only the aperture stop's diameter may be a variable.
DiameterVariable(text, row) ==
  IF row.cell = "AS" THEN {ApertureDiameter} \cap DOMAIN text.variables ELSE {}

\* The importer and build_prescription throw for the other texts.
Buildable(text) ==
  /\ \A a \in DOMAIN text.asph : \E s \in DOMAIN text.rows : text.rows[s].id = text.asph[a].id
  /\ \A scenario \in NeededScenarios(text) :
       /\ HasValue(text, FirstOrder, scenario)
       /\ require_value(text, FirstOrder, scenario) > 0
       /\ \A i \in DOMAIN text.rows :
            \A name \in ThicknessVariable(text.rows[i]) \cup DiameterVariable(text, text.rows[i]) :
              HasValue(text, name, scenario)

get_thickness(text, row, scenario) ==
  IF row.var = NoVar THEN row.thickness ELSE require_value(text, row.var, scenario)

get_diameter(text, row, scenario) ==
  IF DiameterVariable(text, row) # {}
  THEN require_value(text, ApertureDiameter, scenario) ELSE row.diameter

\* add_configuration_data keeps one value per configuration of a variable
\* that lists several scenarios.
ByConfiguration(text, names) ==
  IF \E name \in names : Len(text.variables[name]) > 1
  THEN LET name == CHOOSE name \in names : Len(text.variables[name]) > 1
           scenarios == configured_scenarios(text)
       IN [c \in DOMAIN scenarios |-> require_value(text, name, scenarios[c])]
  ELSE <<>>

\* surfaceIdMap: the row an aspheric row names is the last with its id.
AsphericRowsOf(text, s) ==
  {a \in DOMAIN text.asph : /\ text.asph[a].id = text.rows[s].id
                            /\ \A later \in DOMAIN text.rows :
                                 text.rows[later].id = text.asph[a].id => later <= s}

import_surface(text, s) ==
  LET row == text.rows[s]
      default == scenario_of_configuration(text, 0)
      stop == row.cell \in {"AS", "FS"}
      rows == IF stop THEN {} ELSE AsphericRowsOf(text, s)
      asph == text.asph[CHOOSE a \in rows : \A b \in rows : b <= a]
      type == RowType(text.odd, text.a2)
  IN [cell |-> row.cell,
      radius |-> IF row.cell = "R" THEN row.radius ELSE 0,
      thick |-> get_thickness(text, row, default),
      thickBy |-> ByConfiguration(text, ThicknessVariable(row)),
      diameter |-> get_diameter(text, row, default),
      diameterBy |-> ByConfiguration(text, DiameterVariable(text, row)),
      type |-> IF rows = {} THEN Spherical ELSE type,
      k |-> IF rows = {} THEN 0 ELSE asph.k,
      coeffs |-> IF rows = {} THEN <<>> ELSE get_coeffs(text.odd, type, asph.data)]

build_prescription(text) ==
  LET scenarios == configured_scenarios(text)
  IN [odd |-> text.odd,
      first |-> require_value(text, FirstOrder, scenario_of_configuration(text, 0)),
      firstBy |-> [c \in DOMAIN scenarios |-> require_value(text, FirstOrder, scenarios[c])],
      names |-> IF scenarios = <<>> THEN <<>> ELSE text.names,
      surfaces |-> [s \in DOMAIN text.rows |-> import_surface(text, s)]]

-----------------------------------------------------------------------------
(* Writing. *)

Multi(p) == p.names # <<>>

\* A mistake: the file's own count, however many odd terms there are by now.
DeclaredOddCount(p) == p.odd

odd_count(p) ==
  LET counts == {p.odd} \cup {required_odd_count(p.surfaces[s].type, p.surfaces[s].coeffs)
                              : s \in DOMAIN p.surfaces}
  IN CHOOSE n \in counts : \A m \in counts : m <= n

has_radial_aspheric(p) == \E s \in DOMAIN p.surfaces : p.surfaces[s].type = Radial
has_even_a2_aspheric(p) == \E s \in DOMAIN p.surfaces : p.surfaces[s].type = EvenA2

HasAsphericRow(surface) == surface.k # 0 \/ surface.coeffs # <<>>

\* to_opt_bench_str throws for the other prescriptions.
CanWrite(p) ==
  \A s \in DOMAIN p.surfaces :
    HasAsphericRow(p.surfaces[s])
      => Writable(odd_count(p), p.surfaces[s].type, p.surfaces[s].coeffs)

\* The name the writer gives a surface's thicknesses.
ThicknessName(p, s) ==
  IF p.surfaces[s].thickBy = <<>> THEN NoVar
  ELSE IF s = Len(p.surfaces) THEN Bf ELSE d(s)

to_opt_bench_row(p, s) ==
  LET surface == p.surfaces[s]
  IN [id |-> s, cell |-> surface.cell,
      radius |-> IF surface.cell = "R" THEN surface.radius ELSE 0,
      var |-> ThicknessName(p, s),
      thickness |-> IF surface.thickBy = <<>> THEN surface.thick ELSE 0,
      diameter |-> surface.diameter]

\* [variable distances]: a name and the values it is written with.
VariableRows(p) ==
  LET n == Len(p.surfaces)
      last == p.surfaces[n]
  IN {<<FirstOrder, IF Multi(p) THEN p.firstBy ELSE <<p.first>> >>,
      <<Bf, IF ~Multi(p) THEN <<last.thick>>
            ELSE IF last.thickBy = <<>> THEN [c \in DOMAIN p.names |-> last.thick]
            ELSE last.thickBy>>}
     \cup {<<d(s), p.surfaces[s].thickBy>>
           : s \in {t \in 1..(n - 1) : p.surfaces[t].thickBy # <<>>}}
     \cup {<<ApertureDiameter, p.surfaces[s].diameterBy>>
           : s \in {t \in 1..n : p.surfaces[t].cell = "AS" /\ p.surfaces[t].diameterBy # <<>>}}

aspherics_to_opt_bench_row(p, s) ==
  [id |-> s, k |-> p.surfaces[s].k,
   data |-> Columns(odd_count(p), p.surfaces[s].type, p.surfaces[s].coeffs)]

to_opt_bench_str(p) ==
  LET rows == VariableRows(p)
  IN [odd |-> odd_count(p),
      a2 |-> odd_count(p) = 0 /\ has_even_a2_aspheric(p),
      variables |-> [name \in {row[1] : row \in rows} |->
                       (CHOOSE row \in rows : row[1] = name)[2]],
      rows |-> [s \in DOMAIN p.surfaces |-> to_opt_bench_row(p, s)],
      asph |-> LET written == Increasing({s \in DOMAIN p.surfaces : HasAsphericRow(p.surfaces[s])})
               IN [a \in DOMAIN written |-> aspherics_to_opt_bench_row(p, written[a])],
      \* the scenarios are renumbered to the configurations'
      scenarios |-> [c \in DOMAIN p.names |-> c - 1],
      names |-> p.names]

-----------------------------------------------------------------------------
(* What a prescription says of the lens, whatever form it keeps it in. *)

Configurations(p) == IF Multi(p) THEN DOMAIN p.names ELSE {1}

thicknessOf(surface, configuration) ==
  IF surface.thickBy = <<>> THEN surface.thick ELSE surface.thickBy[configuration]

diameterOf(surface, configuration) ==
  IF surface.diameterBy = <<>> THEN surface.diameter ELSE surface.diameterBy[configuration]

firstOf(p, configuration) ==
  IF p.firstBy = <<>> THEN p.first ELSE p.firstBy[configuration]
=============================================================================
