----------------------------- MODULE FieldSetup -----------------------------
(***************************************************************************)
(* What each field keeps between analyses - where its chief ray is aimed,  *)
(* the chief ray, the reference sphere, the vignetting factors - and the   *)
(* programs that fill and read it: model updates, vignetting, spots, ray   *)
(* fans, contrast and diffraction, in the order LensTool2 and the optimizer*)
(* run them.                                                               *)
(*                                                                         *)
(* A ray or a sphere stands for what it was computed from: a chief ray for *)
(* its wavelength and the aim it was traced with, a reference sphere for   *)
(* its chief ray and the chief ray whose image point it is centred on,     *)
(* vignetting factors for the pupil value they were found with.            *)
(*                                                                         *)
(* A behaviour is the life of one model: every configuration and every     *)
(* trial builds its own, and an exception nobody catches ends it.  With    *)
(* frozen vignetting it goes on with the models of the trial's designs.    *)
(***************************************************************************)
EXTENDS Integers, Sequences, SequencesExt

CONSTANTS NF,       \* number of fields
          NW        \* number of wavelengths

ASSUME SizesAssumption == NF \in Nat \ {0} /\ NW \in Nat \ {0}

Fields == 1 .. NF
Lambdas == 1 .. NW

\* Both model builders make the first wavelength the reference one.
Central == 1

\* std::nullopt: neither aim_info nor z_enp is set.
NoAim == 0
Aims == Lambdas \union {NoAim}

Chiefs == [wvl : Lambdas, aim : Aims]
NoChief == [wvl |-> 0, aim |-> NoAim]
Spheres == [chief : Chiefs, pt : Chiefs]
NoSphere == [chief |-> NoChief, pt |-> NoChief]

\* osp->pupil->value: the quoted one, and what set_pupil finds from the size
\* of the stop.  NoPupil stands for factors that are zero.
NoPupil == 0
Quoted == 1
Found == 2
Pupils == {Quoted, Found}

VARIABLES
  vig_type,  \* how vignetting is established: VigType
  wide,      \* fov->is_wide_angle
  aimable,   \* the <<field, wavelength>> pairs whose chief ray can be found
  aim,       \* fld.aim_info / fld.z_enp: the wavelength it was computed for
  chief,     \* fld.chief_ray
  sphere,    \* fld.ref_sphere
  pupil,     \* osp->pupil->value
  parax,     \* the pupil value osp->parax_data was computed with
  vig,       \* fld.vux, vlx, vuy, vly: the pupil value they were found with
  captured,  \* Analysis::_frozen_pupil_value and _frozen_vignetting
  point,     \* the image point a driver carries from one set-up to the next
  seen,      \* what the sample computed last was computed from
  pass,      \* the pass under way
  todo,      \* its steps that are left
  stages     \* the passes left for this model

caches == <<aim, chief, sphere>>
opening == <<pupil, parax, vig, captured>>
inputs == <<vig_type, wide, aimable>>
vars == <<inputs, caches, opening, point, seen, pass, todo, stages>>

-----------------------------------------------------------------------------
(* The passes, each a sequence of steps.  A set-up step computes a chief    *)
(* ray and a reference sphere around its own image point or the shared one, *)
(* keeps them on the field or not, and is used for something.               *)

SetUpStep(f, w, image, keep, use) ==
  [op |-> "set_up", field |-> f, wvl |-> w, image |-> image, keep |-> keep, use |-> use]

Step(op, f) ==
  [op |-> op, field |-> f, wvl |-> Central, image |-> "none", keep |-> FALSE, use |-> "none"]

UpdateStep == Step("update", 0)

PerField(Steps(_)) == FlattenSeq([f \in Fields |-> Steps(f)])
PerWavelength(Steps(_)) == FlattenSeq([w \in Lambdas |-> Steps(w)])

\* Trace::trace_boundary_rays.
boundary_rays == PerField(LAMBDA f : <<SetUpStep(f, Central, "own", TRUE, "rim")>>)

\* PupilMapAnalysis: rays through every field as it stands.
pupil_maps == PerField(LAMBDA f : <<Step("pupil", f)>>)

\* VigCalc::set_vig.
set_vig == PerField(LAMBDA f : <<Step("vignetting", f)>>)

\* VigCalc::set_pupil; SetPupil adds the update it makes when the value changes.
set_pupil == <<Step("set_pupil", 1)>> \o set_vig

\* VigCalc::set_stop_aperture; the field labelled "axis" is the first.
set_stop_aperture == <<Step("clear_vignetting", 1)>> \o boundary_rays \o set_vig

\* Analysis::build_vignetted_model with frozen vignetting, without the update
\* StampPupil adds.
frozen_model ==
  <<Step("new_model", 0), UpdateStep, Step("stamp_pupil", 0), Step("stamp_vignetting", 0)>>

\* trace_grid, trace_rings and trace_gaussian_quadrature: one set-up, and
\* every wavelength is measured from it.
spot == PerField(LAMBDA f : <<SetUpStep(f, Central, "own", TRUE, "sample")>>)

\* SequentialModel::trace_fan.
trace_fan == PerField(LAMBDA f :
  <<SetUpStep(f, Central, "own", TRUE, "reference")>>
    \o PerWavelength(LAMBDA w : <<SetUpStep(f, w, "shared", TRUE, "opd_sample")>>))

\* ContrastAnalysis::trace_by_wavelength for one wavelength, after the two
\* calibration probes when they are asked for.
contrast(calibrate) == PerField(LAMBDA f : PerWavelength(LAMBDA w :
  LET reference == SetUpStep(f, Central, "own", FALSE, "reference")
      probe == <<reference, SetUpStep(f, w, "shared", TRUE, "probe")>>
  IN (IF calibrate THEN probe \o probe ELSE <<>>)
       \o <<reference, SetUpStep(f, w, "shared", TRUE, "opd_sample")>>))

\* PolyDiffractionMTF and, per weighted wavelength, DiffractionMTF.
diffraction(weighted) == PerField(LAMBDA f :
  <<SetUpStep(f, Central, "none", FALSE, "reference")>>
    \o PerWavelength(LAMBDA w :
         IF w \notin weighted THEN <<>>
         ELSE <<SetUpStep(f, w, "own", TRUE, "rim"),
                SetUpStep(f, w, "none", FALSE, "displacement"),
                SetUpStep(f, w, "own", TRUE, "wavefront"),
                SetUpStep(f, w, "own", FALSE, "wavefront"),
                SetUpStep(f, w, "none", FALSE, "window")>>))

\* The step sequences a pass may be.
Passes(name) ==
  CASE name = "update"      -> {<<UpdateStep>>}
    [] name = "paraxial"    -> {<<Step("paraxial_vignetting", 0)>>}
    [] name = "set_pupil"   -> {set_pupil}
    [] name = "set_vig"     -> {set_vig}
    [] name = "set_stop_aperture" -> {set_stop_aperture}
    [] name = "set_ape"     -> {boundary_rays}
    [] name = "capture"     -> {<<Step("capture", 0)>>}
    [] name = "frozen_model" -> {frozen_model}
    [] name = "pupil_maps"  -> {pupil_maps}
    [] name = "spot"        -> {spot}
    [] name = "fan"         -> {trace_fan}
    [] name = "contrast"    -> {contrast(calibrate) : calibrate \in BOOLEAN}
    [] name \in {"report", "map"} -> {contrast(FALSE)}
    [] name = "diffraction" -> {diffraction(W) : W \in SUBSET Lambdas \ {{}}}

Must(name) == [name |-> name, optional |-> FALSE]
May(name) == [name |-> name, optional |-> TRUE]

\* RayOpticsModelBuilder::build_optical_model after its first update.
build == [
  None            |-> <<>>,
  Paraxial        |-> <<Must("paraxial"), Must("update")>>,
  SetPupil        |-> <<Must("set_pupil"), Must("update")>>,
  SetStopAperture |-> <<Must("set_stop_aperture"), Must("update")>>,
  SetApertures    |-> <<Must("set_vig"), Must("set_ape"), Must("update")>>,
  SetFnum         |-> <<Must("set_stop_aperture"), Must("set_ape"), Must("update")>>,
  SetVig          |-> <<Must("set_vig"), Must("update")>>]

\* Mutant of programs: the diffraction MTF runs on a model nothing has set up.
programs_diffraction_first == [
  lens     |-> <<May("diffraction"), Must("spot"), May("fan")>>,
  weighted |-> <<May("diffraction"), Must("spot"), May("report")>>,
  trial    |-> <<May("spot")>>,
  frozen   |-> <<Must("capture"), Must("frozen_model"), May("spot")>>]

\* LensTool2::run on an analysis model and on the weighted one (two
\* frequencies stand for the list of them), Analysis::compute, and the latter
\* with the vignetting frozen: two designs of a trial.
programs == [
  lens     |-> <<Must("spot"), May("pupil_maps"), Must("spot"), May("fan"), May("fan"),
                 May("diffraction")>>,
  weighted |-> <<Must("spot"), May("report"), May("map"), May("map"), May("diffraction")>>,
  trial    |-> <<May("spot"), May("fan"), May("contrast"), May("contrast")>>,
  frozen   |-> <<Must("capture"), Must("frozen_model"), May("spot"), May("fan"),
                 Must("frozen_model"), May("spot"), May("contrast")>>]

Programs(v) == { build[v] \o programs[p] : p \in DOMAIN programs }

-----------------------------------------------------------------------------
(* Trace::aim_chief_ray.  Without wide-angle aiming it throws when it finds *)
(* no ray.  With it, it may find no pupil, and it keeps a pupil the field   *)
(* already has when the ray through that pupil reaches the stop's centre,   *)
(* or fails to trace.                                                       *)

aim_chief_ray(f, w) ==
  IF <<f, w>> \in aimable THEN {w} \union (IF wide /\ aim[f] # NoAim THEN {aim[f]} ELSE {})
  ELSE IF wide THEN {NoAim, aim[f]}
  ELSE {}

\* Mutants of get_chief_ray_pkg: a change of wavelength re-aims the field; a
\* chief ray of another wavelength is returned as it is.
get_chief_ray_pkg_reaiming(f, w) ==
  IF chief[f].wvl # w
  THEN { [aim |-> a, ray |-> [wvl |-> w, aim |-> a]] : a \in aim_chief_ray(f, w) }
  ELSE { [aim |-> aim[f], ray |-> chief[f]] }

get_chief_ray_pkg_any_wavelength(f, w) ==
  IF chief[f] = NoChief
  THEN { [aim |-> a, ray |-> [wvl |-> w, aim |-> a]] : a \in aim_chief_ray(f, w) }
  ELSE { [aim |-> aim[f], ray |-> chief[f]] }

\* What Trace::get_chief_ray_pkg may do: the field's aim after it and the
\* chief ray it returns.
get_chief_ray_pkg(f, w) ==
  IF chief[f] = NoChief
  THEN { [aim |-> a, ray |-> [wvl |-> w, aim |-> a]] : a \in aim_chief_ray(f, w) }
  ELSE { [aim |-> aim[f],
          ray |-> IF chief[f].wvl # w THEN [wvl |-> w, aim |-> aim[f]] ELSE chief[f]] }

\* WaveAbr::calculate_reference_sphere.
reference_sphere(ray, image) ==
  [chief |-> ray, pt |-> IF image = "shared" THEN point ELSE ray]

\* What a set-up leaves on the field.
Saved(step, old, new) == IF step.keep THEN new ELSE old

NothingSeen == [field |-> 0, wvl |-> 0, use |-> "none", chief |-> NoChief,
                sphere |-> NoSphere, origin |-> NoChief]

SetUp(f, w) ==
  /\ todo # <<>>
  /\ LET step == Head(todo) IN
     /\ step.op = "set_up" /\ step.field = f /\ step.wvl = w
     /\ \E found \in get_chief_ray_pkg(f, w) :
          LET made == reference_sphere(found.ray, step.image) IN
          /\ aim' = [aim EXCEPT ![f] = found.aim]
          /\ chief' = [chief EXCEPT ![f] = Saved(step, @, found.ray)]
          /\ sphere' = [sphere EXCEPT ![f] = Saved(step, @, made)]
          /\ point' = IF step.use = "reference" THEN made.pt ELSE point
          /\ seen' = [field |-> f, wvl |-> w, use |-> step.use,
                      chief |-> Saved(step, found.ray, chief'[f]),
                      sphere |-> Saved(step, made, sphere'[f]),
                      origin |-> IF step.use = "displacement" THEN point
                                 ELSE Saved(step, made, sphere'[f]).pt]
  /\ todo' = Tail(todo)
  /\ UNCHANGED <<inputs, opening, pass, stages>>

\* The step under way.
Doing(op) == todo # <<>> /\ Head(todo).op = op

\* A step done, after which the model is updated if the pupil value changed.
DoneSettingPupil ==
  todo' = (IF pupil' # pupil THEN <<UpdateStep>> ELSE <<>>) \o Tail(todo)

\* A ray traced through the field as it stands, without a set-up.
Pupil(f) ==
  /\ Doing("pupil") /\ Head(todo).field = f
  /\ todo' = Tail(todo)
  /\ UNCHANGED <<inputs, caches, opening, point, seen, pass, stages>>

\* VigCalc::calc_vignetting_for_field: its rays start in the entrance pupil of
\* parax_data.
CalcVignetting(f) ==
  /\ Doing("vignetting") /\ Head(todo).field = f
  /\ vig' = [vig EXCEPT ![f] = parax]
  /\ todo' = Tail(todo)
  /\ UNCHANGED <<inputs, caches, pupil, parax, captured, point, seen, pass, stages>>

\* Trace::apply_paraxial_vignetting: a field nothing limits keeps its factors.
ParaxialVignetting ==
  /\ Doing("paraxial_vignetting")
  /\ \E limited \in SUBSET Fields :
       vig' = [f \in Fields |-> IF f \in limited THEN parax ELSE vig[f]]
  /\ todo' = Tail(todo)
  /\ UNCHANGED <<inputs, caches, pupil, parax, captured, point, seen, pass, stages>>

ClearVignetting(f) ==
  /\ Doing("clear_vignetting") /\ Head(todo).field = f
  /\ vig' = [vig EXCEPT ![f] = NoPupil]
  /\ todo' = Tail(todo)
  /\ UNCHANGED <<inputs, caches, pupil, parax, captured, point, seen, pass, stages>>

\* Mutant of SetPupil: nothing more is done when the value was right already.
SetPupilIfChanged ==
  /\ Doing("set_pupil")
  /\ pupil' \in {pupil, Found}
  /\ todo' = IF pupil' # pupil THEN <<UpdateStep>> \o Tail(todo) ELSE <<>>
  /\ UNCHANGED <<inputs, caches, parax, vig, captured, point, seen, pass, stages>>

\* VigCalc::set_pupil up to its set_vig: the axial ray through the edge of the
\* stop gives the pupil value, the one it had or another.
SetPupil ==
  /\ Doing("set_pupil")
  /\ pupil' \in {pupil, Found}
  /\ DoneSettingPupil
  /\ UNCHANGED <<inputs, caches, parax, vig, captured, point, seen, pass, stages>>

\* Analysis::capture_vignetting of the reference model.
Capture ==
  /\ Doing("capture")
  /\ captured' = [pupil |-> pupil, vig |-> vig]
  /\ todo' = Tail(todo)
  /\ UNCHANGED <<inputs, caches, pupil, parax, vig, point, seen, pass, stages>>

\* The model of a trial's design takes the place of the one before it.
NewModel ==
  /\ Doing("new_model")
  /\ aim' = [f \in Fields |-> NoAim]
  /\ chief' = [f \in Fields |-> NoChief]
  /\ sphere' = [f \in Fields |-> NoSphere]
  /\ pupil' = Quoted /\ parax' = NoPupil
  /\ vig' = [f \in Fields |-> NoPupil]
  /\ seen' = NothingSeen
  /\ todo' = Tail(todo)
  /\ UNCHANGED <<inputs, captured, point, pass, stages>>

\* Analysis::build_vignetted_model: first the captured pupil value, then the
\* captured factors.
StampPupil ==
  /\ Doing("stamp_pupil")
  /\ pupil' = captured.pupil
  /\ DoneSettingPupil
  /\ UNCHANGED <<inputs, caches, parax, vig, captured, point, seen, pass, stages>>

StampVignetting ==
  /\ Doing("stamp_vignetting")
  /\ vig' = captured.vig
  /\ todo' = Tail(todo)
  /\ UNCHANGED <<inputs, caches, pupil, parax, captured, point, seen, pass, stages>>

\* OpticalSpecs::update_optical_properties: aim at the central wavelength; a
\* failure is caught and leaves the field without an aim.
Aimed(f) ==
  IF <<f, Central>> \in aimable THEN Central ELSE NoAim

\* Mutant of Update: the reference sphere is not cleared.
UpdateKeepingSphere ==
  /\ Doing("update")
  /\ aim' = [f \in Fields |-> Aimed(f)]
  /\ chief' = [f \in Fields |-> NoChief]
  /\ parax' = pupil
  /\ todo' = Tail(todo)
  /\ UNCHANGED <<inputs, sphere, pupil, vig, captured, point, seen, pass, stages>>

\* OpticalModel::update_model, which clears the caches of every field first,
\* computes the first order data for the pupil value and aims; the vignetting
\* factors stay.
Update ==
  /\ Doing("update")
  /\ aim' = [f \in Fields |-> Aimed(f)]
  /\ chief' = [f \in Fields |-> NoChief]
  /\ sphere' = [f \in Fields |-> NoSphere]
  /\ parax' = pupil
  /\ todo' = Tail(todo)
  /\ UNCHANGED <<inputs, pupil, vig, captured, point, seen, pass, stages>>

\* The next pass begins.
Begin ==
  /\ todo = <<>> /\ stages # <<>>
  /\ pass' = Head(stages).name
  /\ todo' \in Passes(pass')
  /\ stages' = Tail(stages)
  /\ UNCHANGED <<inputs, caches, opening, point, seen>>

\* An output that was not asked for.
Skip ==
  /\ todo = <<>> /\ stages # <<>>
  /\ Head(stages).optional
  /\ stages' = Tail(stages)
  /\ UNCHANGED <<inputs, caches, opening, point, seen, pass, todo>>

\* An exception of the contrast pupil maps is caught: the aiming of partner
\* rays fails after a field's set-up for a wavelength was kept.
GiveUp ==
  /\ todo # <<>> /\ pass = "map"
  /\ Head(todo).use = "reference"
  /\ todo' = <<>>
  /\ UNCHANGED <<inputs, caches, opening, point, seen, pass, stages>>

Init ==
  /\ aim = [f \in Fields |-> NoAim]
  /\ chief = [f \in Fields |-> NoChief]
  /\ sphere = [f \in Fields |-> NoSphere]
  /\ point = NoChief
  /\ seen = NothingSeen
  /\ pass = "update"
  /\ todo = <<UpdateStep>>
  /\ pupil = Quoted /\ parax = NoPupil
  /\ vig = [f \in Fields |-> NoPupil]
  /\ captured = [pupil |-> NoPupil, vig |-> vig]
  /\ vig_type \in DOMAIN build
  /\ stages \in Programs(vig_type)
  /\ wide \in BOOLEAN
  /\ aimable \in SUBSET (Fields \X Lambdas)

Next ==
  \/ \E f \in Fields, w \in Lambdas : SetUp(f, w)
  \/ \E f \in Fields : Pupil(f) \/ CalcVignetting(f) \/ ClearVignetting(f)
  \/ ParaxialVignetting
  \/ SetPupil
  \/ Capture
  \/ NewModel
  \/ StampPupil
  \/ StampVignetting
  \/ Update
  \/ Begin
  \/ Skip
  \/ GiveUp

Spec == Init /\ [][Next]_vars

-----------------------------------------------------------------------------
(* Properties.                                                             *)

\* The caches of Field hold what their declarations say.
TypeOK ==
  /\ wide \in BOOLEAN
  /\ aim \in [Fields -> Aims]
  /\ chief \in [Fields -> Chiefs \union {NoChief}]
  /\ sphere \in [Fields -> Spheres \union {NoSphere}]
  /\ point \in Chiefs \union {NoChief}
  /\ pupil \in Pupils
  /\ parax \in Pupils \union {NoPupil}
  /\ vig \in [Fields -> Pupils \union {NoPupil}]

\* A cached chief ray was traced through the aim its field has now: no
\* update, re-aim or retrace leaves a ray of an earlier aim behind.
ChiefFollowsAim ==
  \A f \in Fields : chief[f] # NoChief => chief[f].aim = aim[f]

\* A field's reference sphere was built on its cached chief ray, whichever
\* analysis ran last or was abandoned.
SphereFollowsChief ==
  \A f \in Fields : sphere[f].chief = chief[f]

\* A path difference is taken between rays of one wavelength, against the
\* sphere of that chief ray.
OpdInTracedWavelength ==
  seen.use \in {"opd_sample", "wavefront"} =>
    /\ seen.chief.wvl = seen.wvl
    /\ seen.sphere.chief = seen.chief

\* When an analysis samples the pupil, the first order data is that of the
\* pupil value and every field's vignetting factors were found for it - also
\* after set_pupil has changed the value, after set_pupil has left it as it
\* was, and in a trial's later designs, on which the pupil value and the
\* factors of another model are stamped - and no field is left aimed with the
\* wavelength an earlier analysis happened to want first: analyses re-aim a
\* field that has no chief ray, and the aim stays.
AimsCentral ==
  \A f \in Fields : chief[f] # NoChief => aim[f] \in {NoAim, Central}

VignettingFollowsPupil ==
  /\ parax = pupil
  /\ \A f \in Fields :
       vig[f] = pupil \/ (vig[f] = NoPupil /\ vig_type \in {"None", "Paraxial"})

SamplesFindTheirFields ==
  /\ todo # <<>>
  /\ Head(todo).use \in {"sample", "reference", "opd_sample", "wavefront"}
  => AimsCentral /\ VignettingFollowsPupil

\* Field.h: aim_info is "populated for non wide-angle system"; a ray is
\* started from it wherever one is traced without a set-up.
AimPopulated ==
  /\ todo # <<>> /\ Head(todo).op \in {"pupil", "vignetting", "set_pupil"}
  /\ ~wide
  => aim[Head(todo).field] # NoAim
=============================================================================
