------------------------------ MODULE MCAiming ------------------------------
(***************************************************************************)
(* Values for Aiming: a beam that starts before, at or behind the paraxial *)
(* pupil (position 21) and holds from a single ray to more than the whole  *)
(* search; rays outside it miss the first surface at once or never; the    *)
(* root lies on either side, inside the beam or not.                       *)
(***************************************************************************)
EXTENDS Aiming

MCLenses ==
  {[lo |-> l, hi |-> l + w, front_lo |-> l - m, front_hi |-> l + w + m,
    deep |-> d, bent |-> b, root |-> r, root2 |-> r + 6, axial |-> a] :
      l \in {-9, 5, 11, 16, 21, 25}, w \in {0, 5, 16, 30}, m \in {0, 60},
      d \in BOOLEAN, b \in BOOLEAN, r \in {-4, 3, 10, 18, 23, 29, 33}, a \in {FALSE}}
  \union {[lo |-> 11, hi |-> 27, front_lo |-> 11, front_hi |-> 27, deep |-> TRUE,
           bent |-> FALSE, root |-> 23, root2 |-> 0, axial |-> TRUE]}
=============================================================================
