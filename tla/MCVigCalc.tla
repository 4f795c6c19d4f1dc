----------------------------- MODULE MCVigCalc -----------------------------
(* A small catalogue of surfaces.  The pupil is 8 units wide; 20 stands for *)
(* "no limit".                                                              *)
EXTENDS VigCalc

Range(lo, hi) == [lo |-> lo, hi |-> hi]
All == Range(-20, 20)

Plain(clear) == [clear |-> clear, reach |-> All, bends |-> All, steady |-> TRUE]

\* Apertures around the chief ray, above it and beyond the pupil edge.
Apertures == { Range(-20, 20), Range(-6, 5), Range(4, 6), Range(9, 12) }

MCImages == { Plain(All), [Plain(All) EXCEPT !.reach = Range(-20, 7)] }

MCInterfaces ==
  { Plain(c) : c \in Apertures } \union MCImages \union
  { [Plain(Range(-9, 3)) EXCEPT !.reach = Range(-20, 7)],   \* misses beyond
    [Plain(Range(-6, 5)) EXCEPT !.reach = Range(1, 4)],     \* before its edge
    [Plain(Range(-6, 5)) EXCEPT !.bends = Range(-20, 4)],   \* total reflection
    [Plain(Range(-6, 5)) EXCEPT !.steady = FALSE] }

MCCoords == {-10, -7, -6, 0, 1, 3, 4, 5, 6, 7, 9, 12}
=============================================================================
