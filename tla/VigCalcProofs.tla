--------------------------- MODULE VigCalcProofs ---------------------------
(***************************************************************************)
(* Proofs about the ray trace and the two vignetting searches, for every   *)
(* lens, any fineness of the coordinate and any iteration limits.  That a  *)
(* search ends, and how soon, is left to TLC.                              *)
(***************************************************************************)
EXTENDS VigCalc, TLAPS

-----------------------------------------------------------------------------
(* The lens does not change *)

LensOK == ifcs \in Seq(Interfaces) /\ image \in Nat /\ image >= 2

\* What is built from the lens alone means the same after a step.
LEMMA LensFixed ==
  ASSUME UNCHANGED ifcs
  PROVE  /\ image' = image /\ (LensOK => LensOK')
         /\ \A s, q : /\ Misses(s, q)' <=> Misses(s, q)
                      /\ Blocks(s, q)' <=> Blocks(s, q)
                      /\ Reflects(s, q)' <=> Reflects(s, q)
         /\ \A s, q, c : /\ FailsAt(s, q, c)' <=> FailsAt(s, q, c)
                         /\ Reaches(s, q, c)' <=> Reaches(s, q, c)
         /\ \A q : Traces(q)' <=> Traces(q)
  <1>1. image' = image /\ (LensOK => LensOK')
    BY DEF image, LensOK
  <1>2. \A s, q : /\ Misses(s, q)' <=> Misses(s, q)
                  /\ Blocks(s, q)' <=> Blocks(s, q)
                  /\ Reflects(s, q)' <=> Reflects(s, q)
    BY <1>1 DEF Misses, Blocks, Reflects, in_surface_range
  <1>3. \A s, q, c : FailsAt(s, q, c)' <=> FailsAt(s, q, c)
    BY <1>2 DEF FailsAt
  <1>4. \A s, q, c : Reaches(s, q, c)' <=> Reaches(s, q, c)
    BY <1>3 DEF Reaches
  <1>5. \A q : Traces(q)' <=> Traces(q)
    BY <1>1, <1>3 DEF Traces
  <1> QED BY <1>1, <1>2, <1>3, <1>4, <1>5

-----------------------------------------------------------------------------
(* The trace *)

\* While it runs, one whole segment per surface passed; no surface so far
\* has failed the ray.
TracingInv ==
  status = "tracing" =>
    /\ Len(ray) = surf
    /\ \A k \in 1 .. Len(ray) : ray[k].gap = k - 1
    /\ Reaches(surf + 1, pupil, check)
    /\ opl = {g \in 1 .. image - 2 : g < surf}

TraceInv ==
  /\ TraceTypeOK
  /\ status \in Failures => surf \in Surfaces
  /\ TracingInv /\ RayAligned /\ FailsFirst /\ OpdSpansTheRay

LEMMA BeginTrace ==
  ASSUME LensOK, UNCHANGED ifcs, NEW q \in Int, NEW c \in BOOLEAN, Begin(q, c)
  PROVE  TraceInv'
  <1>1. image' = image /\ LensOK' /\ (\A k : Reaches(1, k, c)')
    BY LensFixed DEF Reaches
  <1>2. /\ pupil' = q /\ check' = c /\ surf' = 0 /\ ray' = <<>>
        /\ opl' = {} /\ status' = "tracing"
    BY DEF Begin
  <1>3. TraceTypeOK'
    BY <1>1, <1>2 DEF TraceTypeOK, LensOK
  <1>4. TracingInv'
    BY <1>1, <1>2 DEF TracingInv, LensOK
  <1> QED BY <1>1, <1>2, <1>3, <1>4
      DEF TraceInv, RayAligned, FailsFirst, OpdSpansTheRay, Failures

\* What AddPath leaves in opl after surface surf has been left behind.
LEMMA PathAdded ==
  ASSUME LensOK, TraceTypeOK, TracingInv, status = "tracing", surf < image, AddPath
  PROVE  opl' = {g \in 1 .. image - 2 : g < surf + 1}
  <1>1. opl = {g \in 1 .. image - 2 : g < surf} /\ surf \in Int /\ image \in Nat
    BY DEF TracingInv, TraceTypeOK, LensOK
  <1>2. in_gap_range(surf) <=> surf \in 1 .. image - 2
    BY <1>1 DEF in_gap_range, LensOK
  <1> QED BY <1>1, <1>2 DEF AddPath

\* A ray of n whole segments.
Whole(r, n) ==
  /\ r \in Seq([at : Nat, gap : Int]) /\ Len(r) = n
  /\ \A k \in 1 .. n : r[k].at = k - 1 /\ r[k].gap = k - 1

\* One of n whole segments and a last one, of length g.
EndsIn(r, n, g) ==
  /\ r \in Seq([at : Nat, gap : Int]) /\ Len(r) = n + 1
  /\ \A k \in 1 .. n : r[k].at = k - 1 /\ r[k].gap = k - 1
  /\ r[n + 1].at = n /\ r[n + 1].gap = g

LEMMA Grown ==
  ASSUME NEW r, NEW n \in Nat, Whole(r, n), NEW g \in Int
  PROVE  EndsIn(Append(r, Segment(n, g)), n, g)
  <1> DEFINE r2 == Append(r, Segment(n, g))
  <1>1. /\ Segment(n, g) \in [at : Nat, gap : Int]
        /\ Segment(n, g).at = n /\ Segment(n, g).gap = g
    BY DEF Segment
  <1>2. /\ r2 \in Seq([at : Nat, gap : Int]) /\ Len(r2) = n + 1
        /\ \A k \in 1 .. n : r2[k] = r[k]
        /\ r2[n + 1] = Segment(n, g)
    BY <1>1 DEF Whole
  <1> QED BY <1>1, <1>2 DEF Whole, EndsIn

LEMMA GrownWhole ==
  ASSUME NEW r, NEW n \in Nat, EndsIn(r, n, n)
  PROVE  Whole(r, n + 1)
  <1>1. ASSUME NEW k \in 1 .. n + 1 PROVE r[k].at = k - 1 /\ r[k].gap = k - 1
    <2>1. CASE k \in 1 .. n
      BY <2>1 DEF EndsIn
    <2>2. CASE k = n + 1
      BY <2>2 DEF EndsIn
    <2> QED BY <2>1, <2>2
  <1> QED BY <1>1 DEF Whole, EndsIn

\* Such a ray, with what a trace that ends adds to it, is aligned.
LEMMA EndAligned ==
  ASSUME NEW n \in Nat, EndsIn(ray', n, NoGap)
  PROVE  RayAligned'
  <1>1. ASSUME NEW k \in 1 .. Len(ray')
        PROVE  /\ ray'[k].at = k - 1
               /\ ray'[k].gap \in {k - 1, NoGap}
               /\ k < Len(ray') => ray'[k].gap = k - 1
    <2>1. CASE k \in 1 .. n
      BY <2>1 DEF EndsIn
    <2>2. CASE k = n + 1
      BY <2>2 DEF EndsIn
    <2> QED BY <2>1, <2>2 DEF EndsIn
  <1> QED BY <1>1 DEF RayAligned

LEMMA TraceStepKeeps ==
  ASSUME LensOK, TraceInv, TraceStep, UNCHANGED ifcs
  PROVE  TraceInv'
  <1>0. /\ image' = image /\ LensOK' /\ image \in Nat
        /\ surf \in Nat /\ surf <= image /\ pupil \in Int /\ check \in BOOLEAN
        /\ Len(ray) = surf /\ ray \in Seq([at : Nat, gap : Int])
        /\ Whole(ray, surf)
        /\ opl = {g \in 1 .. image - 2 : g < surf}
        /\ Reaches(surf + 1, pupil, check)
    <2>1. status = "tracing" /\ TraceTypeOK /\ TracingInv /\ RayAligned
      BY DEF TraceInv, TraceStep
    <2>2. image' = image /\ LensOK' /\ image \in Nat
      BY LensFixed DEF LensOK
    <2>3. /\ surf \in Nat /\ surf <= image /\ pupil \in Int /\ check \in BOOLEAN
          /\ ray \in Seq([at : Nat, gap : Int])
      BY <2>1, <2>2 DEF TraceTypeOK
    <2>4. /\ Len(ray) = surf
          /\ opl = {g \in 1 .. image - 2 : g < surf}
          /\ Reaches(surf + 1, pupil, check)
      BY <2>1 DEF TracingInv
    <2>5. Whole(ray, surf)
      BY <2>1, <2>3, <2>4 DEF Whole, TracingInv, RayAligned
    <2> QED BY <2>2, <2>3, <2>4, <2>5
  <1>1. \A s, q, c : /\ FailsAt(s, q, c)' <=> FailsAt(s, q, c)
                     /\ Reaches(s, q, c)' <=> Reaches(s, q, c)
                     /\ Misses(s, q)' <=> Misses(s, q)
    BY LensFixed
  <1>2. NoGap \in Int
    BY DEF NoGap
  <1>3. ifcs' \in Seq(Interfaces)
    BY DEF LensOK
  \* Segment surf has been added: the ray as Pass leaves it.
  <1>4. Whole(Through, surf + 1) /\ surf + 1 \in Nat
    <2>1. EndsIn(Through, surf, surf) /\ surf \in Int
      BY <1>0, Grown DEF Through
    <2> QED BY <1>0, <2>1, GrownWhole
  <1>5. CASE Miss
    <2>1. /\ ray' = Append(ray, Segment(surf, NoGap)) /\ surf' = surf + 1
          /\ status' = "missed" /\ pupil' = pupil /\ check' = check /\ opl' = opl
          /\ Misses(surf + 1, pupil) /\ surf < image
      BY <1>5 DEF Miss
    <2>2. EndsIn(ray', surf, NoGap)
      BY <1>0, <1>2, <2>1, Grown
    <2>3. TraceTypeOK' /\ TracingInv' /\ (status' \in Failures => surf' \in Surfaces')
      BY <1>0, <1>3, <2>1, <2>2 DEF TraceTypeOK, TracingInv, Surfaces, EndsIn
    <2>4. RayAligned'
      BY <1>0, <1>4, <2>2, EndAligned
    <2>5. FailsFirst'
      BY <1>0, <1>1, <2>1, <2>2 DEF FailsFirst, FailsAt, PartialLength, EndsIn
    <2>6. OpdSpansTheRay'
      BY <1>0, <2>1, <2>2 DEF OpdSpansTheRay, EndsIn
    <2> QED BY <2>3, <2>4, <2>5, <2>6 DEF TraceInv
  <1>6. ASSUME NEW kind \in {"blocked", "tir"}, StopAt(kind), surf < image,
               ~Misses(surf + 1, pupil), FailsAt(surf + 1, pupil, check),
               status = "tracing"
        PROVE  TraceInv'
    <2>1. /\ ray' = Append(Through, Segment(surf + 1, NoGap)) /\ surf' = surf + 1
          /\ status' = kind /\ pupil' = pupil /\ check' = check /\ AddPath
      BY <1>6 DEF StopAt
    <2>2. EndsIn(ray', surf + 1, NoGap)
      BY <1>0, <1>2, <1>4, <2>1, Grown
    <2>3. opl' = {g \in 1 .. image - 2 : g < surf + 1}
      BY <1>6, <2>1, PathAdded DEF TraceInv
    <2>4. TraceTypeOK' /\ TracingInv' /\ (status' \in Failures => surf' \in Surfaces')
      BY <1>0, <1>3, <1>6, <2>1, <2>2, <2>3 DEF TraceTypeOK, TracingInv, Surfaces, EndsIn
    <2>5. RayAligned'
      BY <1>0, <1>4, <2>2, EndAligned
    <2>6. FailsFirst'
      BY <1>0, <1>1, <1>6, <2>1, <2>2 DEF FailsFirst, PartialLength, EndsIn
    <2>7. OpdSpansTheRay'
      BY <1>0, <2>1, <2>2, <2>3 DEF OpdSpansTheRay, EndsIn
    <2> QED BY <2>4, <2>5, <2>6, <2>7 DEF TraceInv
  <1>7. CASE Blocked
    BY <1>6, <1>7 DEF Blocked, FailsAt, TraceStep
  <1>8. CASE TIR
    BY <1>6, <1>8 DEF TIR, FailsAt, TraceStep
  <1>9. CASE Pass
    <2>1. /\ ray' = Through /\ surf' = surf + 1 /\ surf < image /\ AddPath
          /\ status' = "tracing" /\ pupil' = pupil /\ check' = check
          /\ ~FailsAt(surf + 1, pupil, check)
      BY <1>9 DEF Pass, FailsAt, TraceStep
    <2>2. opl' = {g \in 1 .. image - 2 : g < surf + 1}
      BY <2>1, PathAdded DEF TraceInv, TraceStep
    <2>3. Reaches(surf + 1 + 1, pupil, check)
      BY <1>0, <2>1 DEF Reaches
    <2>4. TraceTypeOK' /\ (status' \in Failures => surf' \in Surfaces')
      BY <1>0, <1>3, <1>4, <2>1, <2>2 DEF TraceTypeOK, Failures, Whole
    <2>5. TracingInv'
      <3>1. Reaches(surf + 1, pupil, check)'
        BY <1>1, <2>1, <2>3
      <3>2. /\ Len(ray') = surf'
            /\ \A k \in 1 .. Len(ray') : ray'[k].gap = k - 1
            /\ opl' = {g \in 1 .. image' - 2 : g < surf'}
        BY <1>0, <1>4, <2>1, <2>2 DEF Whole
      <3> QED BY <3>1, <3>2 DEF TracingInv
    <2>6. RayAligned'
      BY <1>0, <1>4, <2>1 DEF RayAligned, Whole
    <2> QED BY <2>1, <2>4, <2>5, <2>6 DEF TraceInv, FailsFirst, OpdSpansTheRay
  <1>10. CASE EndOfPath
    <2>1. /\ ray' = Append(ray, Segment(surf, NoGap)) /\ surf' = surf
          /\ status' = "traced" /\ pupil' = pupil /\ check' = check /\ opl' = opl
          /\ surf = image
      BY <1>10 DEF EndOfPath
    <2>2. EndsIn(ray', surf, NoGap)
      BY <1>0, <1>2, <2>1, Grown
    <2>3. TraceTypeOK' /\ TracingInv' /\ (status' \in Failures => surf' \in Surfaces')
      BY <1>0, <1>3, <2>1, <2>2 DEF TraceTypeOK, TracingInv, Failures, EndsIn
    <2>4. RayAligned'
      BY <1>0, <1>4, <2>2, EndAligned
    <2>5. FailsFirst'
      BY <1>0, <1>1, <2>1, <2>2 DEF FailsFirst, EndsIn
    <2>6. OpdSpansTheRay'
      BY <1>0, <2>1, <2>2 DEF OpdSpansTheRay, LensOK, EndsIn
    <2> QED BY <2>3, <2>4, <2>5, <2>6 DEF TraceInv
  <1> QED BY <1>5, <1>7, <1>8, <1>9, <1>10 DEF TraceStep

LEMMA TraceKept ==
  ASSUME LensOK, TraceInv, UNCHANGED ifcs, UNCHANGED trace
  PROVE  TraceInv'
  <1>1. /\ pupil' = pupil /\ check' = check /\ surf' = surf /\ ray' = ray
        /\ opl' = opl /\ status' = status /\ ifcs' = ifcs
    BY DEF trace
  <1>2. /\ image' = image
        /\ \A s, q, c : /\ FailsAt(s, q, c)' <=> FailsAt(s, q, c)
                        /\ Reaches(s, q, c)' <=> Reaches(s, q, c)
                        /\ Misses(s, q)' <=> Misses(s, q)
    BY <1>1, LensFixed
  <1>3. TraceTypeOK' /\ TracingInv' /\ (status' \in Failures => surf' \in Surfaces')
    BY <1>1, <1>2 DEF TraceInv, TraceTypeOK, TracingInv, Surfaces
  <1>4. RayAligned' /\ OpdSpansTheRay'
    BY <1>1, <1>2 DEF TraceInv, RayAligned, OpdSpansTheRay
  <1>5. FailsFirst'
    BY <1>1, <1>2 DEF TraceInv, FailsFirst, PartialLength
  <1> QED BY <1>3, <1>4, <1>5 DEF TraceInv

-----------------------------------------------------------------------------
(* The search: its types and its bookkeeping *)

SearchTypeOK ==
  /\ bisecting \in BOOLEAN /\ still_iterating \in BOOLEAN
  /\ stop \in 0 .. image - 1
  /\ rel_p1 \in Int
  /\ clip_indx \in 0 .. image
  /\ iter_count \in Nat /\ iter_count <= max_iter_count
  /\ pc \in {"loop", "tracing", "done", "threw"}

\* A ray is traced at rel_p1; a search that is over has traced it, and has
\* either got it through or seen it stopped where it was aimed.
BookInv ==
  /\ pc = "tracing" =>
       still_iterating /\ pupil = rel_p1 /\ check /\ iter_count >= 1
  /\ pc = "done" => ~KeepGoing
  /\ ~still_iterating =>
       /\ ~bisecting /\ pc \in {"loop", "done"}
       /\ pupil = rel_p1 /\ check
       /\ status = "traced" \/ (status \in Failures /\ surf = clip_indx)

BaseInv == LensOK /\ TraceInv /\ SearchTypeOK /\ BookInv

LEMMA InitBase == Init => BaseInv
  <1> SUFFICES ASSUME Init PROVE BaseInv
    OBVIOUS
  <1>1. PICK n \in 2 .. MaxSurfaces : ifcs \in [1 .. n -> Interfaces]
    BY DEF Init
  <1>2. LensOK
    BY <1>1, SearchAssumption DEF LensOK, image
  <1>3. TraceInv
    BY <1>2, SearchAssumption
       DEF Init, LensOK, TraceInv, TraceTypeOK, TracingInv, RayAligned,
           FailsFirst, OpdSpansTheRay, Failures, Reaches
  <1>4. SearchTypeOK
    BY <1>2, SearchAssumption
       DEF Init, LensOK, SearchTypeOK, max_iter_count, None
  <1>5. BookInv
    BY DEF Init, BookInv
  <1> QED BY <1>2, <1>3, <1>4, <1>5 DEF BaseInv

LEMMA Constants ==
  ASSUME [Next]_vars
  PROVE  /\ ifcs' = ifcs /\ bisecting' = bisecting /\ stop' = stop
         /\ max_iter_count' = max_iter_count
  <1>1. ifcs' = ifcs /\ bisecting' = bisecting /\ stop' = stop
    BY DEF Next, vars, search, TryRay, Leave, Tracing, PassedAtLimit,
           PassedFirstTime, PassedWithoutStop, BlockedAtLimit,
           BlockedElsewhere, MissedElsewhere, BisectPassed, BisectBlocked,
           Returned
  <1> QED BY <1>1 DEF max_iter_count

\* Whatever the root finder does, it ends at an integer coordinate.
LEMMA PupilRaysOK ==
  ASSUME LensOK, NEW s \in Surfaces, NEW from
  PROVE  PupilRays(s, from) \subseteq Int
  <1>1. ifcs[s].clear \in Interval
    BY InterfacesAssumption DEF LensOK, Surfaces, image
  <1>2. EdgeFrom(s, from) \in Int
    BY <1>1 DEF EdgeFrom, Interval
  <1> QED BY <1>2, SearchAssumption DEF PupilRays, Inward

LEMMA IterateOK ==
  ASSUME LensOK, SearchTypeOK, NEW s \in Surfaces, NEW from, Iterate(s, from)
  PROVE  /\ rel_p1' \in Int /\ clip_indx' \in 0 .. image
         /\ pc' \in {"loop", "threw"}
  BY PupilRaysOK DEF Iterate, LensOK, SearchTypeOK, Surfaces

\* The steps that neither trace nor move the search to another coordinate.
LEMMA TracePart ==
  ASSUME BaseInv, [Next]_vars
  PROVE  LensOK' /\ TraceInv'
  <1>1. ifcs' = ifcs /\ LensOK' /\ LensOK /\ TraceInv
    BY Constants, LensFixed DEF BaseInv
  <1>2. CASE TryRay
    BY <1>1, <1>2, BeginTrace DEF TryRay, BaseInv, SearchTypeOK
  <1>3. CASE Tracing
    BY <1>1, <1>3, TraceStepKeeps DEF Tracing
  <1>4. CASE UNCHANGED trace
    BY <1>1, <1>4, TraceKept
  <1> QED BY <1>1, <1>2, <1>3, <1>4
      DEF Next, vars, Leave, PassedAtLimit,
          PassedFirstTime, PassedWithoutStop, BlockedAtLimit,
          BlockedElsewhere, MissedElsewhere, BisectPassed, BisectBlocked,
          Returned

LEMMA BasePart ==
  ASSUME BaseInv, [Next]_vars
  PROVE  SearchTypeOK' /\ BookInv'
  <1>1. /\ ifcs' = ifcs /\ image' = image /\ bisecting' = bisecting /\ stop' = stop
        /\ max_iter_count' = max_iter_count /\ max_iter_count \in Nat
    BY Constants, SearchAssumption DEF image, max_iter_count
  <1>2. LensOK /\ SearchTypeOK /\ BookInv /\ image \in Nat
    BY DEF BaseInv, LensOK
  <1>3. status \in Failures => surf \in Surfaces
    BY DEF BaseInv, TraceInv
  <1>4. CASE TryRay
    <2>1. SearchTypeOK'
      BY <1>1, <1>2, <1>4 DEF TryRay, KeepGoing, SearchTypeOK
    <2>2. BookInv'
      BY <1>1, <1>2, <1>4 DEF TryRay, Begin, KeepGoing, SearchTypeOK, BookInv
    <2> QED BY <2>1, <2>2
  <1>5. CASE Leave
    BY <1>1, <1>2, <1>5
       DEF Leave, KeepGoing, SearchTypeOK, BookInv, search, trace
  <1>6. CASE Tracing
    <2>1. pupil' = pupil /\ check' = check
      BY <1>6 DEF Tracing, TraceStep, Miss, Blocked, TIR, Pass, EndOfPath, StopAt
    <2> QED BY <1>1, <1>2, <1>6, <2>1
        DEF Tracing, SearchTypeOK, BookInv, search
  <1>7. CASE PassedAtLimit \/ PassedWithoutStop
    BY <1>1, <1>2, <1>7
       DEF PassedAtLimit, PassedWithoutStop, Ended, SearchTypeOK, BookInv, trace
  <1>8. CASE BlockedAtLimit
    <2>1. /\ pc = "tracing" /\ pc' = "loop" /\ ~bisecting /\ still_iterating' = FALSE
          /\ status' \in Failures' /\ surf' = clip_indx' /\ check' = check
          /\ pupil' = pupil /\ rel_p1' = rel_p1 /\ clip_indx' = clip_indx
          /\ iter_count' = iter_count
      BY <1>8 DEF BlockedAtLimit, Ended, trace, Failures
    <2>2. SearchTypeOK'
      BY <1>1, <1>2, <2>1 DEF SearchTypeOK
    <2>3. BookInv'
      BY <1>1, <1>2, <2>1 DEF BookInv
    <2> QED BY <2>2, <2>3
  <1>9. ASSUME NEW s \in Surfaces, NEW from, pc = "tracing",
               \/ Iterate(s, from)
               \/ pc' = "threw" /\ UNCHANGED <<rel_p1, clip_indx>>,
               UNCHANGED <<iter_count, still_iterating>>
        PROVE  SearchTypeOK' /\ BookInv'
    <2>1. /\ rel_p1' \in Int /\ clip_indx' \in 0 .. image
          /\ pc' \in {"loop", "threw"}
      BY <1>2, <1>9, IterateOK DEF SearchTypeOK
    <2> QED BY <1>1, <1>2, <1>9, <2>1 DEF SearchTypeOK, BookInv
  <1>10. CASE PassedFirstTime
    <2>1. stop \in Surfaces
      BY <1>2, <1>10 DEF PassedFirstTime, SearchTypeOK, Surfaces, None
    <2> QED BY <1>9, <1>10, <2>1 DEF PassedFirstTime, Ended
  <1>11. CASE BlockedElsewhere
    BY <1>3, <1>9, <1>11 DEF BlockedElsewhere, Ended, Failures
  <1>12. CASE MissedElsewhere
    BY <1>3, <1>9, <1>12 DEF MissedElsewhere, Ended, Failures
  <1>13. CASE BisectPassed \/ BisectBlocked
    <2>1. step_size(iter_count) \in Int
      BY <1>2, <1>13, HalvingAssumption, SearchAssumption
         DEF BisectPassed, BisectBlocked, SearchTypeOK, max_iter_count
    <2>2. clip_indx' \in 0 .. image
      BY <1>2, <1>3, <1>13 DEF BisectPassed, BisectBlocked, SearchTypeOK, Surfaces
    <2> QED BY <1>1, <1>2, <1>13, <2>1, <2>2
        DEF BisectPassed, BisectBlocked, SearchTypeOK, BookInv
  <1>14. CASE UNCHANGED vars
    <2>1. /\ rel_p1' = rel_p1 /\ clip_indx' = clip_indx /\ pc' = pc
          /\ iter_count' = iter_count /\ still_iterating' = still_iterating
          /\ pupil' = pupil /\ check' = check /\ surf' = surf /\ status' = status
      BY <1>14 DEF vars, search, trace
    <2>2. SearchTypeOK'
      BY <1>1, <1>2, <2>1 DEF SearchTypeOK
    <2>3. KeepGoing' <=> KeepGoing
      BY <1>1, <2>1 DEF KeepGoing
    <2>4. BookInv'
      BY <1>1, <1>2, <2>1, <2>3 DEF BookInv, Failures
    <2> QED BY <2>2, <2>4
  <1> QED BY <1>4, <1>5, <1>6, <1>7, <1>8, <1>10, <1>11, <1>12, <1>13, <1>14
      DEF Next, Returned

-----------------------------------------------------------------------------
(* What the search along edges settles on *)

\* In a lens whose apertures limit the beam, the ray to try next is the edge
\* of the pupil or of the clear aperture it was aimed at.
LimitInv ==
  AperturesLimit /\ ~bisecting /\ pc # "threw" =>
    /\ \/ clip_indx = None /\ rel_p1 = Unit
       \/ clip_indx \in 1 .. image - 1 /\ rel_p1 \in Edges(clip_indx)
    /\ ~still_iterating /\ clip_indx = None => stop = None

\* There the root finder lands on an edge of the aperture.
LEMMA LandsOnEdge ==
  ASSUME LensOK, AperturesLimit, NEW s \in 1 .. image - 1, NEW from
  PROVE  PupilRays(s, from) \subseteq Edges(s)
  <1>1. s \in Surfaces /\ ifcs[s].steady
    BY DEF AperturesLimit, Surfaces, LensOK
  <1>2. EdgeFrom(s, from) \in Edges(s)
    BY DEF EdgeFrom, Edges
  <1>3. Evaluable(s, EdgeFrom(s, from))
    BY <1>1, <1>2
       DEF Evaluable, Reaches, FailsAt, AperturesLimit, Surfaces, LensOK
  <1> QED BY <1>1, <1>2, <1>3 DEF PupilRays

\* There no ray the search tries is stopped at the image.
LEMMA NotAtImage ==
  ASSUME BaseInv, LimitInv, AperturesLimit, Ended(Failures)
  PROVE  surf \in 1 .. image - 1
  <1>1. surf \in 1 .. image /\ FailsAt(surf, rel_p1, TRUE) /\ image \in Nat
    BY DEF BaseInv, TraceInv, LensOK, BookInv, FailsFirst, Ended, Failures, Surfaces
  <1>2. ~Misses(image, rel_p1) /\ ~Reflects(image, rel_p1)
    BY <1>1 DEF LimitInv, AperturesLimit, Ended, Surfaces
  <1> QED BY <1>1, <1>2 DEF FailsAt, Blocks, in_surface_range

LEMMA LimitPart ==
  ASSUME BaseInv, LimitInv, [Next]_vars
  PROVE  LimitInv'
  <1>1. /\ ifcs' = ifcs /\ image' = image /\ bisecting' = bisecting /\ stop' = stop
        /\ \A s : Edges(s)' = Edges(s)
    BY Constants DEF image, Edges
  <1>2. AperturesLimit' <=> AperturesLimit
    BY <1>1 DEF AperturesLimit, Surfaces, Edges, Misses, Reflects
  <1> SUFFICES ASSUME AperturesLimit, ~bisecting, pc' # "threw"
               PROVE  LimitInv'
    BY <1>1, <1>2 DEF LimitInv
  <1>3. pc # "threw" \/ UNCHANGED <<pc, search>>
    BY DEF Next, vars, TryRay, Leave, Tracing, PassedAtLimit,
           PassedFirstTime, PassedWithoutStop, BlockedAtLimit,
           BlockedElsewhere, MissedElsewhere, BisectPassed, BisectBlocked,
           Returned, Ended
  <1>4. CASE UNCHANGED <<rel_p1, clip_indx, still_iterating>> /\ pc # "threw"
    BY <1>1, <1>4 DEF LimitInv
  <1>5. CASE PassedAtLimit \/ PassedWithoutStop \/ BlockedAtLimit
    <2>1. clip_indx = None => stop = None
      BY <1>5 DEF PassedAtLimit, PassedWithoutStop, BlockedAtLimit, BaseInv,
                  TraceInv, Ended, Surfaces, None
    <2> QED BY <1>1, <1>5, <2>1
        DEF LimitInv, PassedAtLimit, PassedWithoutStop, BlockedAtLimit, Ended
  <1>6. ASSUME NEW s \in 1 .. image - 1, NEW from, Iterate(s, from),
               pc = "tracing", UNCHANGED still_iterating
        PROVE  LimitInv'
    <2>1. rel_p1' \in Edges(s) /\ clip_indx' = s
      BY <1>6, LandsOnEdge DEF Iterate, BaseInv
    <2>2. s # None /\ still_iterating'
      BY <1>6 DEF None, BaseInv, BookInv
    <2> QED BY <1>1, <2>1, <2>2 DEF LimitInv
  <1>7. CASE PassedFirstTime
    <2>1. stop \in 1 .. image - 1
      BY <1>7 DEF PassedFirstTime, BaseInv, SearchTypeOK, None, LensOK
    <2> QED BY <1>6, <1>7, <2>1 DEF PassedFirstTime, Ended
  <1>8. CASE BlockedElsewhere \/ MissedElsewhere
    <2>1. Ended(Failures)
      BY <1>8 DEF BlockedElsewhere, MissedElsewhere, Ended, Failures
    <2>2. surf \in 1 .. image - 1
      BY <2>1, NotAtImage
    <2> QED BY <1>6, <1>8, <2>2 DEF BlockedElsewhere, MissedElsewhere, Ended
  <1>9. CASE UNCHANGED <<pc, search>>
    BY <1>1, <1>9 DEF LimitInv, search
  <1> QED BY <1>3, <1>4, <1>5, <1>7, <1>8, <1>9
      DEF Next, vars, search, TryRay, Leave, Tracing, BisectPassed,
          BisectBlocked, Returned

-----------------------------------------------------------------------------
(* What the bisection keeps *)

Bracketed(step) ==
  bisecting /\ Traces(0) /\ ~Traces(2 * Unit) =>
    Traces(rel_p1 - step) /\ ~Traces(rel_p1 + step)

\* While a ray is being traced the step has not yet been halved.
BracketInv ==
  /\ pc \in {"loop", "done"} => Bracketed(step_size(iter_count))
  /\ pc = "tracing" => Bracketed(step_size(iter_count - 1))

LEMMA WholeTraces ==
  ASSUME LensOK, Reaches(image + 1, pupil, check), check
  PROVE  Traces(pupil)
  <1>1. ASSUME NEW t \in 1 .. image PROVE ~FailsAt(t, pupil, TRUE)
    <2>1. t \in 1 .. (image + 1) - 1
      BY <1>1 DEF LensOK
    <2>2. ~FailsAt(t, pupil, check)
      BY <2>1 DEF Reaches
    <2> QED BY <2>2 DEF FailsAt
  <1> QED BY <1>1 DEF Traces

LEMMA BracketPart ==
  ASSUME BaseInv, BracketInv, [Next]_vars
  PROVE  BracketInv'
  <1>1. bisecting' = bisecting /\ (\A q : Traces(q)' <=> Traces(q))
    BY Constants, LensFixed
  <1>2. ASSUME NEW k, UNCHANGED rel_p1
        PROVE  Bracketed(k)' <=> Bracketed(k)
    BY <1>1, <1>2 DEF Bracketed
  <1>3. CASE TryRay
    <2>1. /\ pc = "loop" /\ pc' = "tracing" /\ iter_count' - 1 = iter_count
          /\ UNCHANGED rel_p1
      BY <1>3 DEF TryRay, BaseInv, SearchTypeOK
    <2>2. PICK n : n = iter_count
      OBVIOUS
    <2>3. Bracketed(step_size(n))'
      BY <1>2, <2>1, <2>2 DEF BracketInv
    <2>4. iter_count' - 1 = n
      BY <2>1, <2>2
    <2> QED BY <2>1, <2>3, <2>4 DEF BracketInv
  <1>4. CASE BisectPassed \/ BisectBlocked
    <2>1. /\ pc = "tracing" /\ bisecting /\ pc' = "loop" /\ iter_count' = iter_count
          /\ pupil = rel_p1 /\ check = TRUE /\ rel_p1 \in Int
          /\ iter_count \in 1 .. BisectIterations
      BY <1>4, SearchAssumption
         DEF BisectPassed, BisectBlocked, BaseInv, BookInv, SearchTypeOK,
             TraceInv, TraceTypeOK, max_iter_count
    <2> DEFINE step == step_size(iter_count)
    <2>2. step \in Nat /\ step_size(iter_count - 1) = 2 * step
      <3>1. /\ iter_count \in 0 .. BisectIterations
            /\ iter_count - 1 \in 0 .. BisectIterations - 1
            /\ iter_count - 1 + 1 = iter_count
        BY <2>1, SearchAssumption
      <3> QED BY <3>1, HalvingAssumption
    <2> HIDE DEF step
    <2> SUFFICES ASSUME Traces(0), ~Traces(2 * Unit)
                 PROVE  Traces(rel_p1' - step) /\ ~Traces(rel_p1' + step)
      BY <1>1, <2>1 DEF BracketInv, Bracketed, step
    <2>3. Traces(rel_p1 - 2 * step) /\ ~Traces(rel_p1 + 2 * step)
      BY <2>1, <2>2 DEF BracketInv, Bracketed
    <2>4. CASE BisectPassed
      <3>1. Traces(rel_p1)
        <4>1. Reaches(image + 1, pupil, check)
          BY <2>4 DEF BisectPassed, BaseInv, TraceInv, FailsFirst
        <4> QED BY <2>1, <4>1, WholeTraces DEF BaseInv
      <3>2. /\ rel_p1' = rel_p1 + step /\ rel_p1' - step = rel_p1
            /\ rel_p1' + step = rel_p1 + 2 * step
        BY <2>1, <2>2, <2>4 DEF BisectPassed, step
      <3> QED BY <2>3, <3>1, <3>2
    <2>5. CASE BisectBlocked
      <3>1. ~Traces(rel_p1)
        BY <2>1, <2>5
           DEF BisectBlocked, BaseInv, TraceInv, FailsFirst, Traces, Failures, Surfaces
      <3>2. /\ rel_p1' = rel_p1 - step /\ rel_p1' + step = rel_p1
            /\ rel_p1' - step = rel_p1 - 2 * step
        BY <2>1, <2>2, <2>5 DEF BisectBlocked, step
      <3> QED BY <2>3, <3>1, <3>2
    <2> QED BY <1>4, <2>4, <2>5
  <1>5. CASE ~bisecting
    BY <1>1, <1>5 DEF BracketInv, Bracketed
  <1>6. CASE Leave \/ Tracing \/ UNCHANGED vars
    <2>1. UNCHANGED <<rel_p1, iter_count>>
      BY <1>6 DEF Leave, Tracing, vars, search
    <2>2. \/ pc = "loop" /\ pc' = "done"
          \/ pc' = pc
      BY <1>6 DEF Leave, Tracing, vars
    <2> QED BY <1>2, <2>1, <2>2 DEF BracketInv
  <1> QED BY <1>3, <1>4, <1>5, <1>6
      DEF Next, Ended, Returned, PassedAtLimit, PassedFirstTime,
          PassedWithoutStop, BlockedAtLimit, BlockedElsewhere, MissedElsewhere

-----------------------------------------------------------------------------
(* The theorems *)

SearchInv == BaseInv /\ LimitInv /\ BracketInv

LEMMA InitSearch == Init => SearchInv
  <1> SUFFICES ASSUME Init PROVE SearchInv
    OBVIOUS
  <1>1. LimitInv
    BY DEF Init, LimitInv
  <1>2. Bracketed(Unit)
    <2>1. Unit - Unit = 0 /\ Unit + Unit = 2 * Unit
      BY SearchAssumption
    <2> QED BY <2>1 DEF Init, Bracketed
  <1>3. BracketInv
    BY <1>2, HalvingAssumption DEF Init, BracketInv
  <1> QED BY InitBase, <1>1, <1>3 DEF SearchInv

THEOREM SearchInvariant == Spec => []SearchInv
  <1>1. SearchInv /\ [Next]_vars => SearchInv'
    BY TracePart, BasePart, LimitPart, BracketPart DEF SearchInv, BaseInv
  <1> QED BY InitSearch, <1>1, PTL DEF Spec

\* Every variable of a search keeps to its type: surface indices stay on the
\* path, coordinates stay integers, whatever the root finder does.
THEOREM TypeCorrect == Spec => []TypeOK
  <1>1. SearchInv => TypeOK
    BY DEF SearchInv, BaseInv, TraceInv, SearchTypeOK, TypeOK
  <1> QED BY SearchInvariant, <1>1, PTL

\* A ray, whole or partial, is indexed by surface: RayTrace::trace_raw.
THEOREM RaysAligned == Spec => []RayAligned
  <1>1. SearchInv => RayAligned
    BY DEF SearchInv, BaseInv, TraceInv
  <1> QED BY SearchInvariant, <1>1, PTL

\* The exception a trace ends with names the first surface that fails the
\* ray, and carries as many segments as its handlers read.
THEOREM TracesFailFirst == Spec => []FailsFirst
  <1>1. SearchInv => FailsFirst
    BY DEF SearchInv, BaseInv, TraceInv
  <1> QED BY SearchInvariant, <1>1, PTL

\* The optical path that comes with a ray is that of the segments it has.
THEOREM OpdMatchesRay == Spec => []OpdSpansTheRay
  <1>1. SearchInv => OpdSpansTheRay
    BY DEF SearchInv, BaseInv, TraceInv
  <1> QED BY SearchInvariant, <1>1, PTL

\* calc_vignetted_ray returns the ray its factor describes, or has used up
\* its iterations.
THEOREM ReturnsTracedRay == Spec => []ReturnsItsRay
  <1>1. SearchInv => ReturnsItsRay
    <2> SUFFICES ASSUME SearchInv, pc = "done", ~bisecting
                 PROVE  \/ still_iterating /\ iter_count = EdgeIterations
                        \/ /\ ~still_iterating /\ pupil = rel_p1
                           /\ status = "traced" \/ (status \in Failures /\ surf = clip_indx)
      BY DEF ReturnsItsRay
    <2>1. CASE still_iterating
      BY <2>1, SearchAssumption
         DEF SearchInv, BaseInv, SearchTypeOK, BookInv, KeepGoing, max_iter_count
    <2>2. CASE ~still_iterating
      BY <2>2 DEF SearchInv, BaseInv, BookInv
    <2> QED BY <2>1, <2>2
  <1> QED BY SearchInvariant, <1>1, PTL

\* An aperture lets nothing through beyond its edges.
LEMMA NothingBeyond ==
  ASSUME LensOK, NEW s \in 1 .. image - 1, NEW q \in Int, Traces(q)
  PROVE  ifcs[s].clear.lo <= q /\ q <= ifcs[s].clear.hi
  <1>1. s \in 1 .. image
    BY DEF LensOK
  <1>2. ~Blocks(s, q)
    BY <1>1 DEF Traces, FailsAt
  <1> QED BY <1>2 DEF Blocks, in_surface_range, In, LensOK

\* When apertures limit the beam, calc_vignetted_ray returns the outermost
\* ray the whole lens lets through, on the side of the axis it ended on.
THEOREM LimitFound == Spec => []FindsLimitingRay
  <1>1. SearchInv => FindsLimitingRay
    <2> SUFFICES ASSUME SearchInv, pc = "done", ~bisecting, ~still_iterating,
                        AperturesLimit
                 PROVE  /\ Traces(rel_p1)
                        /\ \/ stop = None /\ rel_p1 = Unit
                           \/ \A q \in Coords : Traces(q) => q <= rel_p1
                           \/ \A q \in Coords : Traces(q) => q >= rel_p1
      BY DEF FindsLimitingRay
    <2>1. /\ LensOK /\ TraceInv /\ pupil = rel_p1 /\ check
          /\ status = "traced" \/ (status \in Failures /\ surf = clip_indx)
          /\ \/ clip_indx = None /\ rel_p1 = Unit /\ stop = None
             \/ clip_indx \in 1 .. image - 1 /\ rel_p1 \in Edges(clip_indx)
      BY DEF SearchInv, BaseInv, BookInv, LimitInv
    <2>2. status = "traced"
      <3> SUFFICES ASSUME status \in Failures, surf = clip_indx PROVE FALSE
        BY <2>1
      <3>1. surf \in 1 .. image - 1 /\ rel_p1 \in Edges(surf) /\ surf \in Surfaces
        BY <2>1 DEF TraceInv, Surfaces, None
      <3>2. Blocks(surf, rel_p1)
        BY <2>1, <3>1
           DEF TraceInv, FailsFirst, Failures, FailsAt, AperturesLimit
      <3>3. /\ ifcs[surf].clear \in Interval
            /\ ifcs[surf].clear.lo <= ifcs[surf].clear.hi
        BY <2>1, <3>1, InterfacesAssumption DEF LensOK, Surfaces, image
      <3> QED BY <3>1, <3>2, <3>3 DEF Blocks, In, Edges, Interval
    <2>3. Traces(rel_p1)
      <3>1. Reaches(image + 1, pupil, check)
        BY <2>1, <2>2 DEF TraceInv, FailsFirst
      <3> QED BY <2>1, <3>1, WholeTraces
    <2>4. CASE clip_indx = None /\ rel_p1 = Unit /\ stop = None
      BY <2>3, <2>4
    <2>5. CASE clip_indx \in 1 .. image - 1 /\ rel_p1 \in Edges(clip_indx)
      <3>1. \A q \in Coords : Traces(q) =>
              ifcs[clip_indx].clear.lo <= q /\ q <= ifcs[clip_indx].clear.hi
        BY <2>1, <2>5, NothingBeyond, SearchAssumption
      <3> QED BY <2>3, <2>5, <3>1 DEF Edges
    <2> QED BY <2>1, <2>4, <2>5
  <1> QED BY SearchInvariant, <1>1, PTL

\* calc_vignetted_ray_by_bisection keeps the limit within one step.
THEOREM BisectionKeepsBracket == Spec => []BisectionBrackets
  <1>1. SearchInv => BisectionBrackets
    BY DEF SearchInv, BracketInv, Bracketed, BisectionBrackets
  <1> QED BY SearchInvariant, <1>1, PTL
=============================================================================
