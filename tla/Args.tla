-------------------------------- MODULE Args --------------------------------
(***************************************************************************)
(* Args::parseArguments: the words of a command line and the options they  *)
(* set.  An option that takes a value takes the next word whatever it is;  *)
(* --optimize takes it unless it begins with two dashes.  Words nobody     *)
(* knows are passed over.                                                  *)
(*                                                                         *)
(* A word is a record: a number has its value in n and "number" in w, every*)
(* other word its text in w.  Spellings that mean the same - letter case,  *)
(* dashes, a list of one frequency - are one word.                         *)
(***************************************************************************)
EXTENDS Integers, Sequences, FiniteSets

Word(text) == [w |-> text, n |-> 0]
Number(value) == [w |-> "number", n |-> value]
Absent == Word("")

Flags == {"--dont-use-glass-types", "--force", "--only-d-line", "--output-ray-aberration-plots",
          "--output-wavelength-mtfs", "--output-pupil-maps", "--output-contrast-report",
          "--output-contrast-pupil-maps", "--output-wavelength-mtf-report",
          "--output-diffraction-mtf", "--export-vignetting", "--verbose", "--debug",
          "--auto-size-spot-diagrams", "--assign-glass-types", "--update-specfile",
          "--real-ray-aiming", "--paraxial-ray-aiming", "--generate-java", "--legacy-notebook"}

Defaults ==
  [specfile |-> Absent, outputFile |-> Absent, scenario |-> Number(0), outdir |-> Absent,
   mtf_freqs |-> Word("default"), spot_pattern |-> Word("hexapolar"),
   spot_grid_size |-> Number(64), diffraction_pupil_rays |-> Number(64),
   pupil_map_samples |-> Word("default"), index_line |-> Word("d"), abbe_line |-> Word("d"),
   optimize_trial |-> Absent, optimize_goal |-> Word("contrast"),
   vig_type |-> Word("SetPupil"), reference_file |-> Absent]

FieldOf ==
  [o \in {"--specfile", "-o", "--scenario", "--outdir", "--mtf", "--use-spot-pattern",
          "--spot-grid-size", "--diffraction-pupil-rays", "--pupil-map-samples",
          "--index-line", "--abbe-line", "--optimize", "--optimize-goal", "--vig-type",
          "--reference"} |->
     CASE o = "--specfile" -> "specfile"          [] o = "-o" -> "outputFile"
       [] o = "--scenario" -> "scenario"          [] o = "--outdir" -> "outdir"
       [] o = "--mtf" -> "mtf_freqs"              [] o = "--use-spot-pattern" -> "spot_pattern"
       [] o = "--spot-grid-size" -> "spot_grid_size"
       [] o = "--diffraction-pupil-rays" -> "diffraction_pupil_rays"
       [] o = "--pupil-map-samples" -> "pupil_map_samples"
       [] o = "--index-line" -> "index_line"      [] o = "--abbe-line" -> "abbe_line"
       [] o = "--optimize" -> "optimize_trial"    [] o = "--optimize-goal" -> "optimize_goal"
       [] o = "--vig-type" -> "vig_type"          [] o = "--reference" -> "reference_file"]

Valued == DOMAIN FieldOf
BeginsWithDashes(word) == word.w \in (Flags \cup Valued \cup {"--else"}) \ {"-o"}

-----------------------------------------------------------------------------
(* What the parsers of single values accept.                               *)

VigTypes == {"None", "Paraxial", "SetVig", "SetPupil", "SetStopAperture", "SetApertures", "SetFnum"}
IsNumber(word) == word.w = "number"

parse_positive_int(word) == IsNumber(word) /\ word.n >= 2
parse_trial_number(word) == IsNumber(word) /\ word.n >= 0
parse_mtf_freqs(word) == IsNumber(word) /\ word.n > 0
parse_index_line(word) == word.w \in {"d", "e"}
parse_optimize_goal(word) == word.w \in {"contrast", "mtf"}
parse_vig_type(word) == word.w \in VigTypes
parse_spot_pattern(word) == word.w \in {"hexapolar", "grid", "gaussian"}

Accepts(option, word) ==
  CASE option \in {"--specfile", "-o", "--outdir", "--reference"} -> TRUE
    [] option = "--scenario" -> word # Absent
    [] option = "--mtf" -> parse_mtf_freqs(word)
    [] option = "--use-spot-pattern" -> parse_spot_pattern(word)
    [] option \in {"--spot-grid-size", "--pupil-map-samples"} -> parse_positive_int(word)
    [] option = "--diffraction-pupil-rays" ->
         parse_positive_int(word) /\ word.n >= 4 /\ word.n % 2 = 0
    [] option \in {"--index-line", "--abbe-line"} -> parse_index_line(word)
    [] option = "--optimize" -> parse_trial_number(word)
    [] option = "--optimize-goal" -> parse_optimize_goal(word)
    [] option = "--vig-type" -> parse_vig_type(word)

-----------------------------------------------------------------------------
(* The words that are options; the others are values, or nothing.          *)

\* A mistake: --optimize takes whatever follows it.
TakesAnything(words, i) == words[i].w \in Valued /\ i < Len(words)

TakesValue(words, i) ==
  /\ words[i].w \in Valued
  /\ words[i].w = "--optimize" => i < Len(words) /\ ~BeginsWithDashes(words[i + 1])

Options(words) ==
  LET isOption[i \in DOMAIN words] ==
        i = 1 \/ ~isOption[i - 1] \/ ~TakesValue(words, i - 1)
  IN {i \in DOMAIN words : isOption[i]}

ValueAt(words, i) == IF i < Len(words) THEN words[i + 1] ELSE Absent

\* The places where an option is given a value, and where it is given none.
GivenValue(words) == {i \in Options(words) : TakesValue(words, i)}
GivenBare(words) == {words[i].w : i \in Options(words) \ GivenValue(words)}

Latest(S) == CHOOSE i \in S : \A j \in S : j <= i

\* parseArguments throws for the other command lines.
ArgumentsParse(words) == \A i \in GivenValue(words) : Accepts(words[i].w, ValueAt(words, i))

\* Of an option given twice the later value stands, and of the two aimings
\* the later one.
parseArguments(words) ==
  LET places(field) == {i \in GivenValue(words) : FieldOf[words[i].w] = field}
      aimings == {i \in Options(words) :
                    words[i].w \in {"--real-ray-aiming", "--paraxial-ray-aiming"}}
  IN [values |-> [field \in DOMAIN Defaults |->
                    IF places(field) = {} THEN Defaults[field]
                    ELSE ValueAt(words, Latest(places(field)))],
      flags |-> GivenBare(words) \cap
                  ((Flags \ {"--real-ray-aiming", "--paraxial-ray-aiming"}) \cup {"--optimize"}),
      real_ray_aiming |-> aimings = {} \/ words[Latest(aimings)].w = "--real-ray-aiming"]

\* index_line_value and abbe_line_value.
index_line_value(args) == args.values.index_line.w
abbe_line_value(args) == args.values.abbe_line.w
=============================================================================
