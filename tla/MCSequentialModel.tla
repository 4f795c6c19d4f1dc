-------------------------- MODULE MCSequentialModel --------------------------
(***************************************************************************)
(* A small instance of SequentialModel: two media whose indices depend on  *)
(* the wavelength, two wavelength lists (the line they share is in another *)
(* column), and requests as callers spell them: the ray                    *)
(* trace's, the paraxial model's, and a slice that leaves out the object.     *)
(***************************************************************************)
EXTENDS SequentialModel

Index == [air |-> [d |-> 1, F |-> 1], glass |-> [d |-> 2, F |-> 3]]

OneLine  == [wavelengths |-> <<"d">>, reference_wvl |-> 1]
TwoLines == [wavelengths |-> <<"F", "d">>, reference_wvl |-> 1]

Lists == {OneLine, TwoLines}
FixedList == {TwoLines}

Args(wl, start, stop, step) ==
    [wl |-> wl, start |-> start, stop |-> stop, step |-> step]

TraceAndParaxial == {Args("F", Null, Null, 1), Args(Null, Null, Null, Null)}

AnyForward == {Args("F", Null, Null, 1), Args("d", 1, Null, 1),
               Args(Null, Null, Null, Null)}
=============================================================================
