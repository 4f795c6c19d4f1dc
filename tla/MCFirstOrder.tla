---------------------------- MODULE MCFirstOrder ----------------------------
(***************************************************************************)
(* Small lenses and mirrors: two surfaces between an object that touches   *)
(* the first or is away from it and the image, in air or glass, with the   *)
(* stop anywhere or floating, and three pairs of specifications.  The      *)
(* curvatures are arbitrary, the first surface added is an asphere.        *)
(***************************************************************************)
EXTENDS FirstOrder

Index == [air |-> [d |-> 1, F |-> 1], glass |-> [d |-> 2, F |-> 3]]
TwoLines == [wavelengths |-> <<"F", "d">>, reference_wvl |-> 1]
FixedList == {TwoLines}
Curvatures == [id \in 0 .. 5 |-> IF id <= 1 THEN 0 ELSE (17 * id * id + 5) % Prime]
Specified(oi, key, value) == [oi |-> oi, key |-> key, value |-> value]
Aspheres == [id \in 0 .. 5 |-> IF id = 2 THEN [cc |-> 6, a4 |-> 13] ELSE Null]
MCSpecs == {
    [pupil |-> Specified("Image", "Fnum", 9),  fov |-> Specified("Object", "Angle", 21)],
    [pupil |-> Specified("Object", "EPD", 14), fov |-> Specified("Object", "Height", 33)],
    [pupil |-> Specified("Image", "Fnum", 9),  fov |-> Specified("Image", "RealHeight", 40)]}
=============================================================================
