-------------------------- MODULE FieldSetupProofs --------------------------
(* For every number of fields and wavelengths: the caches of the fields     *)
(* stay consistent and a path difference is taken in one wavelength,        *)
(* whatever the order of the set-ups, since no step looks at the passes     *)
(* before it; and an analysis that samples the pupil finds its fields aimed *)
(* and vignetted as the model says, which rests on the order of the passes. *)
EXTENDS FieldSetup, SequenceTheorems, WellFoundedInduction, TLAPS

MaybeChiefs == Chiefs \union {NoChief}

\* The shape of the caches.
ShapeOK ==
  /\ aim \in [Fields -> Aims]
  /\ chief \in [Fields -> MaybeChiefs]
  /\ sphere \in [Fields -> [chief : MaybeChiefs, pt : MaybeChiefs]]
  /\ point \in MaybeChiefs

\* The sample computed last used the chief ray of its wavelength and that
\* ray's sphere.
SeenOK ==
  seen.use # "none" =>
    /\ seen.chief.wvl = seen.wvl
    /\ seen.sphere.chief = seen.chief

IInv == ShapeOK /\ ChiefFollowsAim /\ SphereFollowsChief /\ SeenOK

\* What get_chief_ray_pkg returns: a ray of the wavelength asked for, traced
\* through the aim the field has afterwards.  An aim changes only where no
\* chief ray is cached.
LEMMA ChiefRayOfWavelength ==
  ASSUME IInv, NEW f \in Fields, NEW w \in Lambdas,
         NEW found \in get_chief_ray_pkg(f, w)
  PROVE  /\ found.aim \in Aims
         /\ found.ray \in Chiefs
         /\ found.ray = [wvl |-> w, aim |-> found.aim]
         /\ chief[f] # NoChief => found.aim = aim[f]
<1>1. aim[f] \in Aims /\ chief[f] \in MaybeChiefs
  BY DEF IInv, ShapeOK
<1>2. w \in Aims /\ NoAim \in Aims
  BY DEF Aims
<1>3. aim_chief_ray(f, w) \subseteq Aims
  BY <1>1, <1>2 DEF aim_chief_ray
<1>4. CASE chief[f] = NoChief
  <2>1. PICK a \in aim_chief_ray(f, w) :
          found = [aim |-> a, ray |-> [wvl |-> w, aim |-> a]]
    BY <1>4 DEF get_chief_ray_pkg
  <2> QED
    BY <1>3, <1>4, <2>1 DEF Chiefs
<1>5. CASE chief[f] # NoChief
  <2>1. chief[f] \in Chiefs /\ chief[f].aim = aim[f]
    BY <1>1, <1>5 DEF MaybeChiefs, IInv, ChiefFollowsAim
  <2>2. found = [aim |-> aim[f],
                 ray |-> IF chief[f].wvl # w THEN [wvl |-> w, aim |-> aim[f]]
                         ELSE chief[f]]
    BY <1>5 DEF get_chief_ray_pkg
  <2>3. found.ray = [wvl |-> w, aim |-> aim[f]]
    BY <2>1, <2>2 DEF Chiefs
  <2> QED
    BY <1>1, <2>2, <2>3 DEF Chiefs
<1> QED
  BY <1>4, <1>5

\* A set-up keeps the caches consistent, whether it saves its result or not.
LEMMA SetUpStepOK ==
  ASSUME IInv, NEW f \in Fields, NEW w \in Lambdas, SetUp(f, w)
  PROVE  IInv'
<1> DEFINE step == Head(todo)
<1>1. PICK found \in get_chief_ray_pkg(f, w) :
        /\ aim' = [aim EXCEPT ![f] = found.aim]
        /\ chief' = [chief EXCEPT ![f] = Saved(step, @, found.ray)]
        /\ sphere' = [sphere EXCEPT ![f] =
                        Saved(step, @, reference_sphere(found.ray, step.image))]
        /\ point' = IF step.use = "reference"
                    THEN reference_sphere(found.ray, step.image).pt ELSE point
        /\ seen' = [field |-> f, wvl |-> w, use |-> step.use,
                    chief |-> Saved(step, found.ray, chief'[f]),
                    sphere |-> Saved(step, reference_sphere(found.ray, step.image),
                                     sphere'[f]),
                    origin |-> IF step.use = "displacement" THEN point
                               ELSE Saved(step, reference_sphere(found.ray, step.image),
                                          sphere'[f]).pt]
  BY DEF SetUp
<1> DEFINE made == reference_sphere(found.ray, step.image)
<1>2. /\ found.aim \in Aims
      /\ found.ray \in Chiefs
      /\ found.ray = [wvl |-> w, aim |-> found.aim]
      /\ chief[f] # NoChief => found.aim = aim[f]
  BY ChiefRayOfWavelength
<1>3. ShapeOK
  BY DEF IInv
<1>4. /\ made \in [chief : MaybeChiefs, pt : MaybeChiefs]
      /\ made.chief = found.ray
      /\ made.pt \in MaybeChiefs
  BY <1>2, <1>3 DEF reference_sphere, ShapeOK, MaybeChiefs
<1>5. /\ chief'[f] = IF step.keep THEN found.ray ELSE chief[f]
      /\ sphere'[f] = IF step.keep THEN made ELSE sphere[f]
      /\ aim'[f] = found.aim
      /\ \A g \in Fields \ {f} : /\ chief'[g] = chief[g]
                                 /\ sphere'[g] = sphere[g]
                                 /\ aim'[g] = aim[g]
  BY <1>1, <1>3 DEF ShapeOK, Saved
<1> HIDE DEF made
<1>6. ShapeOK'
  <2>1. Saved(step, chief[f], found.ray) \in MaybeChiefs
    BY <1>2, <1>3 DEF Saved, ShapeOK, MaybeChiefs
  <2>2. Saved(step, sphere[f], made) \in [chief : MaybeChiefs, pt : MaybeChiefs]
    BY <1>3, <1>4 DEF Saved, ShapeOK
  <2>3. point' \in MaybeChiefs
    BY <1>1, <1>3, <1>4 DEF ShapeOK, made
  <2> QED
    BY <1>1, <1>2, <1>3, <2>1, <2>2, <2>3 DEF ShapeOK, made
<1>7. ChiefFollowsAim'
  BY <1>2, <1>5 DEF IInv, ChiefFollowsAim
<1>8. SphereFollowsChief'
  BY <1>4, <1>5 DEF IInv, SphereFollowsChief
<1>9. SeenOK'
  <2>1. /\ seen'.wvl = w
        /\ seen'.chief = found.ray
        /\ seen'.sphere = made
    BY <1>1, <1>5 DEF Saved, made
  <2> QED
    BY <1>2, <1>4, <2>1 DEF SeenOK
<1> QED
  BY <1>6, <1>7, <1>8, <1>9 DEF IInv

\* An update empties the caches of every field.
LEMMA UpdateStepOK ==
  ASSUME IInv, Update
  PROVE  IInv'
<1>1. /\ aim' = [f \in Fields |-> Aimed(f)]
      /\ chief' = [f \in Fields |-> NoChief]
      /\ sphere' = [f \in Fields |-> NoSphere]
      /\ point' = point /\ seen' = seen
  BY DEF Update
<1>2. Central \in Lambdas
  BY SizesAssumption DEF Central, Lambdas
<1>3. \A f \in Fields : Aimed(f) \in Aims
  BY <1>2 DEF Aimed, Aims
<1>4. NoChief \in MaybeChiefs /\ NoSphere \in [chief : MaybeChiefs, pt : MaybeChiefs]
  BY DEF MaybeChiefs, NoSphere
<1>5. ShapeOK'
  BY <1>1, <1>3, <1>4 DEF IInv, ShapeOK
<1>6. ChiefFollowsAim' /\ SphereFollowsChief'
  BY <1>1 DEF ChiefFollowsAim, SphereFollowsChief, NoSphere
<1>7. SeenOK'
  BY <1>1 DEF IInv, SeenOK
<1> QED
  BY <1>5, <1>6, <1>7 DEF IInv

\* The model of another design starts with empty caches.
LEMMA NewModelStepOK ==
  ASSUME IInv, NewModel
  PROVE  IInv'
<1>1. /\ aim' = [f \in Fields |-> NoAim]
      /\ chief' = [f \in Fields |-> NoChief]
      /\ sphere' = [f \in Fields |-> NoSphere]
      /\ point' = point /\ seen' = NothingSeen
  BY DEF NewModel
<1>2. /\ NoAim \in Aims /\ NoChief \in MaybeChiefs
      /\ NoSphere \in [chief : MaybeChiefs, pt : MaybeChiefs]
  BY DEF Aims, MaybeChiefs, NoSphere
<1>3. ShapeOK'
  BY <1>1, <1>2 DEF IInv, ShapeOK
<1>4. ChiefFollowsAim' /\ SphereFollowsChief'
  BY <1>1 DEF ChiefFollowsAim, SphereFollowsChief, NoSphere
<1>5. SeenOK'
  BY <1>1 DEF SeenOK, NothingSeen
<1> QED
  BY <1>3, <1>4, <1>5 DEF IInv

LEMMA InvStep ==
  ASSUME IInv, [Next]_vars
  PROVE  IInv'
<1>1. CASE \E f \in Fields, w \in Lambdas : SetUp(f, w)
  BY <1>1, SetUpStepOK
<1>2. CASE Update
  BY <1>2, UpdateStepOK
<1>3. CASE NewModel
  BY <1>3, NewModelStepOK
<1>4. CASE \E f \in Fields : Pupil(f) \/ CalcVignetting(f) \/ ClearVignetting(f)
  <2>1. UNCHANGED <<aim, chief, sphere, point, seen>>
    BY <1>4 DEF Pupil, CalcVignetting, ClearVignetting, caches
  <2> QED
    BY <2>1 DEF IInv, ShapeOK, ChiefFollowsAim, SphereFollowsChief, SeenOK
<1>5. CASE ParaxialVignetting \/ SetPupil \/ Capture \/ StampPupil \/ StampVignetting
  <2>1. UNCHANGED <<aim, chief, sphere, point, seen>>
    BY <1>5 DEF ParaxialVignetting, SetPupil, Capture, StampPupil, StampVignetting, caches
  <2> QED
    BY <2>1 DEF IInv, ShapeOK, ChiefFollowsAim, SphereFollowsChief, SeenOK
<1>6. CASE Begin \/ Skip \/ GiveUp \/ UNCHANGED vars
  <2>1. UNCHANGED <<aim, chief, sphere, point, seen>>
    BY <1>6 DEF Begin, Skip, GiveUp, caches, vars
  <2> QED
    BY <2>1 DEF IInv, ShapeOK, ChiefFollowsAim, SphereFollowsChief, SeenOK
<1> QED
  BY <1>1, <1>2, <1>3, <1>4, <1>5, <1>6 DEF Next

LEMMA InvInit == Init => IInv
<1> SUFFICES ASSUME Init PROVE IInv
  OBVIOUS
<1>1. NoAim \in Aims /\ NoChief \in MaybeChiefs
      /\ NoSphere \in [chief : MaybeChiefs, pt : MaybeChiefs]
  BY DEF Aims, MaybeChiefs, NoSphere
<1>2. ShapeOK
  BY <1>1 DEF Init, ShapeOK
<1>3. ChiefFollowsAim /\ SphereFollowsChief
  BY DEF Init, ChiefFollowsAim, SphereFollowsChief, NoSphere
<1>4. SeenOK
  BY DEF Init, SeenOK, NothingSeen
<1> QED
  BY <1>2, <1>3, <1>4 DEF IInv

\* The inductive invariant of the field caches.
THEOREM CachesConsistent == Spec => []IInv
<1> QED
  BY InvInit, InvStep, PTL DEF Spec

\* No cached chief ray of an earlier aim: Trace::get_chief_ray_pkg re-aims
\* only a field without a chief ray, and Field::update clears both.
THEOREM AimTheorem == Spec => []ChiefFollowsAim
<1>1. IInv => ChiefFollowsAim
  BY DEF IInv
<1> QED
  BY <1>1, CachesConsistent, PTL

\* Every driver saves the chief ray and its reference sphere together.
THEOREM SphereTheorem == Spec => []SphereFollowsChief
<1>1. IInv => SphereFollowsChief
  BY DEF IInv
<1> QED
  BY <1>1, CachesConsistent, PTL

\* Path differences are taken in one wavelength, whatever ran before.
THEOREM WavelengthTheorem == Spec => []OpdInTracedWavelength
<1>1. IInv => OpdInTracedWavelength
  BY DEF IInv, SeenOK, OpdInTracedWavelength
<1> QED
  BY <1>1, CachesConsistent, PTL
-----------------------------------------------------------------------------
(* Sequences, and the flattening the passes are put together with.         *)

LEMMA LeastElement ==
  ASSUME NEW T, T \subseteq Nat, T # {}
  PROVE  \E x \in T : \A y \in T : x <= y
<1> DEFINE Less == {p \in Nat \X Nat : p[1] < p[2]}
<1>1. IsWellFoundedOn(Less, Nat)
  <2>1. OpToRel(<, Nat) = Less
    BY DEF OpToRel
  <2> QED
    BY <2>1, NatLessThanWellFounded
<1>2. PICK x \in T : \A y \in T : ~(<<y, x>> \in Less)
  <2> HIDE DEF Less
  <2> QED
    BY <1>1, WFMin
<1>3. \A y \in T : ~(y < x)
  BY <1>2
<1> QED
  BY <1>3

LEMMA ListInduction ==
  ASSUME NEW n \in Nat \ {0}, NEW T, 1 \in T,
         \A i \in 1 .. n - 1 : i \in T => i + 1 \in T
  PROVE  1 .. n \subseteq T
<1> DEFINE U == {i \in 1 .. n : i \notin T}
<1> SUFFICES ASSUME U # {} PROVE FALSE
  OBVIOUS
<1>1. PICK x \in U : \A y \in U : x <= y
  <2>1. U \subseteq Nat
    OBVIOUS
  <2> HIDE DEF U
  <2> QED
    BY <2>1, LeastElement
<1>2. x - 1 \in 1 .. n - 1 /\ (x - 1) + 1 = x
  BY <1>1
<1>3. x - 1 \in T
  BY <1>1, <1>2
<1> QED
  BY <1>1, <1>2, <1>3

\* The recursive function FlattenSeq is defined with exists: the parts of s
\* up to the i-th, flattened.
PrefixesKept(g, s, n) ==
  /\ g[1] = s[1] /\ FlattenSeq(s) = g[n]
  /\ \A i \in 1 .. n - 1 : g[i + 1] = g[i] \o s[i + 1]

LEMMA Flattening ==
  ASSUME NEW n \in Nat \ {0}, NEW s, Len(s) = n
  PROVE  \E g : PrefixesKept(g, s, n)
<1> DEFINE Solves(g, m) == g = [i \in 1 .. m |-> IF i = 1 THEN s[i] ELSE g[i - 1] \o s[i]]
           T == {m \in 1 .. n : \E g : Solves(g, m)}
<1>1. 1 \in T
  <2>1. Solves([i \in 1 .. 1 |-> s[1]], 1)
    OBVIOUS
  <2> HIDE DEF Solves
  <2> QED
    BY <2>1
<1>2. ASSUME NEW m \in 1 .. n - 1, m \in T
      PROVE  m + 1 \in T
  <2>1. PICK g : Solves(g, m)
    BY <1>2
  <2> DEFINE h == [i \in 1 .. m + 1 |-> IF i = m + 1 THEN g[m] \o s[m + 1] ELSE g[i]]
  <2>2. \A i \in 1 .. m + 1 : h[i] = IF i = 1 THEN s[i] ELSE h[i - 1] \o s[i]
    <3>1. \A i \in 1 .. m : /\ i \in 1 .. m + 1 /\ i # m + 1
                            /\ i # 1 => i - 1 \in 1 .. m
      OBVIOUS
    <3>2. m + 1 \in 1 .. m + 1 /\ (m + 1) - 1 = m /\ m + 1 # 1 /\ m \in 1 .. m
      OBVIOUS
    <3>3. \A i \in 1 .. m : g[i] = IF i = 1 THEN s[i] ELSE g[i - 1] \o s[i]
      BY <2>1
    <3>4. \A i \in 1 .. m : h[i] = g[i]
      BY <3>1
    <3>5. h[m + 1] = g[m] \o s[m + 1]
      BY <3>2
    <3>6. \A i \in 1 .. m + 1 : i \in 1 .. m \/ i = m + 1
      OBVIOUS
    <3> HIDE DEF h, Solves, T
    <3>7. \A i \in 1 .. m : h[i] = IF i = 1 THEN s[i] ELSE h[i - 1] \o s[i]
      BY <3>1, <3>3, <3>4
    <3>8. h[m + 1] = h[m] \o s[m + 1]
      BY <3>2, <3>4, <3>5
    <3> QED
      BY <3>2, <3>6, <3>7, <3>8
  <2>3. h = [i \in 1 .. m + 1 |-> h[i]]
    OBVIOUS
  <2> HIDE DEF h
  <2>4. Solves(h, m + 1)
    BY <2>2, <2>3
  <2>5. m + 1 \in 1 .. n
    OBVIOUS
  <2> HIDE DEF Solves
  <2> QED
    BY <2>4, <2>5
<1>3. n \in T
  <2> HIDE DEF T
  <2>1. 1 .. n \subseteq T
    BY <1>1, <1>2, ListInduction
  <2> QED
    BY <2>1
<1> DEFINE f == CHOOSE g : Solves(g, n)
<1>4. Solves(f, n)
  BY <1>3
<1>5. FlattenSeq(s) = f[n]
  BY DEF FlattenSeq
<1> HIDE DEF f, T
<1>6. f[1] = s[1] /\ \A i \in 1 .. n - 1 : f[i + 1] = f[i] \o s[i + 1]
  <2>1. \A i \in 1 .. n - 1 : i + 1 \in 1 .. n /\ i + 1 # 1 /\ (i + 1) - 1 = i
    OBVIOUS
  <2>2. \A i \in 1 .. n : f[i] = IF i = 1 THEN s[i] ELSE f[i - 1] \o s[i]
    BY <1>4
  <2>3. 1 \in 1 .. n
    OBVIOUS
  <2> HIDE DEF Solves
  <2>4. \A i \in 1 .. n - 1 : f[i + 1] = f[(i + 1) - 1] \o s[i + 1]
    BY <2>1, <2>2
  <2> QED
    BY <2>1, <2>2, <2>3, <2>4
<1> HIDE DEF Solves
<1>7. PrefixesKept(f, s, n)
  BY <1>5, <1>6 DEF PrefixesKept
<1> QED
  BY <1>7

\* What the first part has and appending any other keeps, the whole has.
LEMMA FlattenGrows ==
  ASSUME NEW n \in Nat \ {0}, NEW s, Len(s) = n, NEW S, s[1] \in S,
         \A a \in S, i \in 2 .. n : a \o s[i] \in S
  PROVE  FlattenSeq(s) \in S
<1>0. PICK g : PrefixesKept(g, s, n)
  BY Flattening
<1>1. /\ g[1] = s[1] /\ FlattenSeq(s) = g[n]
      /\ \A i \in 1 .. n - 1 : g[i + 1] = g[i] \o s[i + 1]
  BY <1>0 DEF PrefixesKept
<1> DEFINE T == {i \in 1 .. n : g[i] \in S}
<1>2. 1 \in T
  BY <1>1
<1>3. \A i \in 1 .. n - 1 : i \in T => i + 1 \in T
  <2>1. \A i \in 1 .. n - 1 : i + 1 \in 2 .. n /\ i + 1 \in 1 .. n
    OBVIOUS
  <2> QED
    BY <1>1, <2>1
<1>4. n \in T
  <2> HIDE DEF T
  <2>1. 1 .. n \subseteq T
    BY <1>2, <1>3, ListInduction
  <2> QED
    BY <2>1
<1> QED
  BY <1>1, <1>4

\* Concatenation, element by element.
LEMMA Joined ==
  ASSUME NEW S, NEW a \in Seq(S), NEW b \in Seq(S)
  PROVE  /\ a \o b \in Seq(S) /\ DOMAIN a = 1 .. Len(a) /\ DOMAIN b = 1 .. Len(b)
         /\ Len(a) \in Nat /\ Len(b) \in Nat /\ Len(a \o b) = Len(a) + Len(b)
         /\ DOMAIN (a \o b) = 1 .. Len(a) + Len(b)
         /\ \A i \in 1 .. Len(a) : (a \o b)[i] = a[i]
         /\ \A i \in 1 .. Len(b) : (a \o b)[Len(a) + i] = b[i]
         /\ \A i \in 1 .. Len(a) + Len(b) :
              \/ i \in 1 .. Len(a)
              \/ i - Len(a) \in 1 .. Len(b) /\ (a \o b)[i] = b[i - Len(a)]
<1>1. Len(a) \in Nat /\ Len(b) \in Nat /\ DOMAIN a = 1 .. Len(a) /\ DOMAIN b = 1 .. Len(b)
  BY LenProperties
<1>2. /\ a \o b \in Seq(S) /\ Len(a \o b) = Len(a) + Len(b)
      /\ \A i \in 1 .. Len(a) + Len(b) :
           (a \o b)[i] = IF i <= Len(a) THEN a[i] ELSE b[i - Len(a)]
  BY ConcatProperties
<1>3. DOMAIN (a \o b) = 1 .. Len(a) + Len(b)
  BY <1>2, LenProperties
<1> DEFINE c == a \o b
           m == Len(a)
           k == Len(b)
<1> HIDE DEF c, m, k
<1>4. m \in Nat /\ k \in Nat /\ \A i \in 1 .. m + k : c[i] = IF i <= m THEN a[i] ELSE b[i - m]
  BY <1>1, <1>2 DEF c, m, k
<1>5. \A i \in 1 .. m : c[i] = a[i]
  BY <1>4
<1>6. ASSUME NEW i \in 1 .. k PROVE c[m + i] = b[i]
  <2>1. m + i \in 1 .. m + k /\ ~(m + i <= m) /\ (m + i) - m = i
    BY <1>4
  <2> QED
    BY <1>4, <2>1
<1>7. \A i \in 1 .. m + k : i \in 1 .. m \/ (i - m \in 1 .. k /\ c[i] = b[i - m])
  BY <1>4
<1> QED
  BY <1>1, <1>2, <1>3, <1>5, <1>6, <1>7 DEF c, m, k

LEMMA TailOf ==
  ASSUME NEW S, NEW t \in Seq(S), t # <<>>
  PROVE  /\ Len(t) \in Nat \ {0} /\ DOMAIN t = 1 .. Len(t) /\ 1 \in DOMAIN t
         /\ Head(t) = t[1] /\ t[1] \in S
         /\ Tail(t) \in Seq(S) /\ DOMAIN Tail(t) = 1 .. Len(t) - 1
         /\ \A i \in DOMAIN Tail(t) : i + 1 \in DOMAIN t /\ Tail(t)[i] = t[i + 1]
         /\ \A i \in DOMAIN t : i # 1 => i - 1 \in DOMAIN Tail(t) /\ Tail(t)[i - 1] = t[i]
<1>1. Len(t) \in Nat \ {0}
  BY EmptySeq
<1>2. /\ DOMAIN t = 1 .. Len(t) /\ t[1] \in S
  BY <1>1, LenProperties, ElementOfSeq
<1>3. /\ Tail(t) \in Seq(S) /\ Len(Tail(t)) = Len(t) - 1
      /\ \A i \in 1 .. Len(Tail(t)) : Tail(t)[i] = t[i + 1]
  BY HeadTailProperties
<1>4. Head(t) = t[1]
  OBVIOUS
<1>5. DOMAIN Tail(t) = 1 .. Len(t) - 1
  BY <1>3, LenProperties
<1> DEFINE u == Tail(t)
           n == Len(t)
<1> HIDE DEF u, n
<1>6. n \in Nat \ {0} /\ \A i \in 1 .. n - 1 : u[i] = t[i + 1]
  BY <1>1, <1>3 DEF u, n
<1>7. \A i \in 1 .. n - 1 : i + 1 \in 1 .. n /\ u[i] = t[i + 1]
  BY <1>6
<1>8. ASSUME NEW i \in 1 .. n, i # 1 PROVE i - 1 \in 1 .. n - 1 /\ u[i - 1] = t[i]
  <2>1. i - 1 \in 1 .. n - 1 /\ (i - 1) + 1 = i
    BY <1>6, <1>8
  <2> QED
    BY <1>6, <2>1
<1>9. 1 \in 1 .. n
  BY <1>6
<1> QED
  BY <1>1, <1>2, <1>3, <1>4, <1>5, <1>7, <1>8, <1>9 DEF u, n

\* Whatever a part has, the whole has.
Has(t, x) == \E k \in DOMAIN t : t[k] = x

LEMMA FlattenHas ==
  ASSUME NEW S, NEW n \in Nat \ {0}, NEW s, Len(s) = n, \A i \in 1 .. n : s[i] \in Seq(S),
         NEW p \in 1 .. n, NEW q \in DOMAIN s[p]
  PROVE  Has(FlattenSeq(s), s[p][q])
<1>0. PICK g : PrefixesKept(g, s, n)
  BY Flattening
<1>1. /\ g[1] = s[1] /\ FlattenSeq(s) = g[n]
      /\ \A i \in 1 .. n - 1 : g[i + 1] = g[i] \o s[i + 1]
  BY <1>0 DEF PrefixesKept
<1> DEFINE x == s[p][q]
           T == {i \in 1 .. n : g[i] \in Seq(S) /\ (p <= i => Has(g[i], x))}
<1> HIDE DEF x
<1>2. ASSUME NEW a \in Seq(S), NEW b \in Seq(S), Has(a, x) \/ Has(b, x)
      PROVE  Has(a \o b, x)
  <2>1. CASE Has(a, x)
    <3>1. PICK k \in DOMAIN a : a[k] = x
      BY <2>1 DEF Has
    <3>2. k \in DOMAIN (a \o b) /\ (a \o b)[k] = x
      BY <3>1, Joined
    <3> QED
      BY <3>2 DEF Has
  <2>2. CASE Has(b, x)
    <3>1. PICK k \in DOMAIN b : b[k] = x
      BY <2>2 DEF Has
    <3>2. Len(a) + k \in DOMAIN (a \o b) /\ (a \o b)[Len(a) + k] = x
      <4>1. /\ Len(a) \in Nat /\ Len(b) \in Nat /\ k \in 1 .. Len(b)
            /\ DOMAIN (a \o b) = 1 .. Len(a) + Len(b)
            /\ \A i \in 1 .. Len(b) : (a \o b)[Len(a) + i] = b[i]
        BY <3>1, Joined
      <4> QED
        BY <3>1, <4>1
    <3> QED
      BY <3>2 DEF Has
  <2> QED
    BY <1>2, <2>1, <2>2
<1>3. Has(s[p], x)
  BY DEF x, Has
<1>4. 1 \in T
  <2>1. p <= 1 => p = 1
    OBVIOUS
  <2> QED
    BY <1>1, <1>3, <2>1
<1>5. ASSUME NEW i \in 1 .. n - 1, i \in T PROVE i + 1 \in T
  <2>0. i + 1 \in 1 .. n /\ i \in 1 .. n /\ (p <= i + 1 => p <= i \/ p = i + 1)
    OBVIOUS
  <2>1. /\ i + 1 \in 1 .. n /\ i \in 1 .. n /\ (p <= i + 1 => p <= i \/ p = i + 1)
        /\ g[i + 1] = g[i] \o s[i + 1]
    BY <1>1, <2>0
  <2>2. g[i] \in Seq(S) /\ s[i + 1] \in Seq(S) /\ (p <= i => Has(g[i], x))
    BY <1>5, <2>1
  <2>3. g[i + 1] \in Seq(S)
    BY <2>1, <2>2, Joined
  <2>4. p <= i + 1 => Has(g[i + 1], x)
    BY <1>2, <1>3, <2>1, <2>2
  <2> QED
    BY <2>1, <2>3, <2>4
<1>6. n \in T
  <2> HIDE DEF T
  <2>1. 1 .. n \subseteq T
    BY <1>4, <1>5, ListInduction
  <2> QED
    BY <2>1
<1> QED
  BY <1>1, <1>6 DEF x

-----------------------------------------------------------------------------
(* What the passes rely on: the fields are aimed with the central          *)
(* wavelength, and their vignetting factors are those of the pupil value.  *)

SampleUses == {"sample", "reference", "opd_sample", "wavefront"}
Ops == {"set_up", "update", "pupil", "vignetting", "set_pupil", "clear_vignetting",
        "new_model", "stamp_pupil", "stamp_vignetting", "paraxial_vignetting", "capture"}
StepSet == [op : Ops, field : 0 .. NF, wvl : Lambdas, image : {"own", "shared", "none"},
            keep : BOOLEAN,
            use : SampleUses \union {"none", "rim", "probe", "displacement", "window"}]

\* A set-up of the field in the central wavelength, kept on it.
KeptCentral(step, f) ==
  step.op = "set_up" /\ step.field = f /\ step.keep /\ step.wvl = Central

\* The step finds, or carries over, the factors of a field.
GivesFactors(step, f) ==
  (step.op = "vignetting" /\ step.field = f) \/ step.op = "stamp_vignetting"

\* Every set-up in another wavelength comes after one its field keeps in the
\* central one.
LedAt(t, i) ==
  t[i].op = "set_up" /\ t[i].wvl # Central =>
    \E j \in 1 .. i - 1 : KeptCentral(t[j], t[i].field)
Led(t) == \A i \in DOMAIN t : LedAt(t, i)

\* A pass that reads the opening, and one that does not sample the pupil.
ReadsOnly(t) == \A i \in DOMAIN t : t[i].op \in {"set_up", "pupil", "capture"}
Prepares(t) ==
  \A i \in DOMAIN t :
    /\ t[i].op # "capture" /\ t[i].use \notin SampleUses
    /\ t[i].op = "set_up" => t[i].wvl = Central

\* A step that makes the factors of fields obsolete is followed by one that
\* gives them new ones, and a new model by its update.
RenewsAt(t, i) ==
  /\ t[i].op = "set_pupil" =>
       \A f \in Fields : \E j \in DOMAIN t : j > i /\ t[j].op = "vignetting" /\ t[j].field = f
  /\ t[i].op = "clear_vignetting" =>
       \E j \in DOMAIN t : j > i /\ t[j].op = "vignetting" /\ t[j].field = t[i].field
  /\ t[i].op \in {"new_model", "stamp_pupil"} =>
       \E j \in DOMAIN t : j > i /\ t[j].op = "stamp_vignetting"
  /\ t[i].op = "new_model" => i + 1 \in DOMAIN t /\ t[i + 1].op = "update"
Renews(t) == \A i \in DOMAIN t : RenewsAt(t, i)

\* The captured pupil value is stamped before the factors found for it, and
\* nothing changes it in between.
StampedBefore(t, j) ==
  \E i \in 1 .. j - 1 :
    /\ t[i].op = "stamp_pupil"
    /\ \A m \in i .. j - 1 : t[m].op \notin {"new_model", "set_pupil"}
Stamped(t) == \A j \in DOMAIN t : t[j].op = "stamp_vignetting" => StampedBefore(t, j)

Vignetters == {"set_pupil", "set_vig", "set_stop_aperture"}
Analyses == {"pupil_maps", "spot", "fan", "contrast", "report", "map", "diffraction"}
Preparers == {"update", "paraxial", "set_ape", "frozen_model"} \union Vignetters
Names == Analyses \union Preparers \union {"capture"}
Stages == [name : Names, optional : BOOLEAN]

\* The passes that start with a set-up in any wavelength, or may be given up.
NeedChiefs == {"map", "diffraction"}

-----------------------------------------------------------------------------
(* The inductive invariant.                                                *)

Fits(v, p) == v = p \/ (v = NoPupil /\ vig_type \in {"None", "Paraxial"})
VigFits == \A f \in Fields : Fits(vig[f], pupil)
VigDone ==
  \A f \in Fields : Fits(vig[f], pupil) \/ \E i \in DOMAIN todo : GivesFactors(todo[i], f)
VigPromised ==
  stages # <<>> /\ Head(stages).name \in Vignetters /\ ~Head(stages).optional

AllChiefs == \A f \in Fields : chief[f] # NoChief
Settled ==
  /\ ReadsOnly(todo)
  /\ \A f \in Fields : chief[f] # NoChief \/ \E i \in DOMAIN todo : KeptCentral(todo[i], f)
SpotBefore(s, k) ==
  \E j \in 1 .. k - 1 :
    /\ s[j].name = "spot" /\ ~s[j].optional
    /\ \A i \in j .. k : s[i].name \in Analyses

TodoInv ==
  /\ todo \in Seq(StepSet) /\ Renews(todo)
  /\ (ReadsOnly(todo) /\ VigFits) \/ Prepares(todo)
  /\ \A i \in DOMAIN todo :
       LedAt(todo, i) \/ \A f \in Fields : todo[i].field = f => chief[f] # NoChief
StampInv ==
  /\ \A f \in Fields : Fits(captured.vig[f], captured.pupil)
  /\ \A j \in DOMAIN todo : todo[j].op = "stamp_vignetting" =>
       \/ StampedBefore(todo, j)
       \/ /\ pupil = captured.pupil
          /\ \A m \in 1 .. j - 1 : todo[m].op \notin {"new_model", "set_pupil"}
OpeningInv ==
  /\ parax = pupil \/ (todo # <<>> /\ Head(todo).op = "update")
  /\ VigDone \/ VigPromised
AimInv == \A f \in Fields : aim[f] \in {NoAim, Central}
StageInv ==
  /\ stages \in Seq(Stages)
  /\ pass \in NeedChiefs /\ todo # <<>> => AllChiefs /\ ReadsOnly(todo)
  /\ \A k \in DOMAIN stages : stages[k].name \in NeedChiefs =>
       \/ Settled /\ \A i \in 1 .. k : stages[i].name \in Analyses
       \/ SpotBefore(stages, k)

OpeningOK == TodoInv /\ StampInv /\ OpeningInv /\ AimInv /\ StageInv

\* The factors and pupil values of the model and of the captured one.
Values == Pupils \union {NoPupil}
ValuesOK ==
  /\ vig \in [Fields -> Values] /\ pupil \in Values /\ parax \in Values
  /\ captured \in [pupil : Values, vig : [Fields -> Values]]

-----------------------------------------------------------------------------
(* The passes.                                                             *)

Readers == {t \in Seq(StepSet) : ReadsOnly(t)}
LedReaders == {t \in Readers : Led(t)}
ReadersOf(f) == {t \in Readers : \A i \in DOMAIN t : t[i].field = f}
LedFor(f) == {t \in LedReaders : \E i \in DOMAIN t : KeptCentral(t[i], f)}
Plain ==
  {t \in Seq(StepSet) :
    \A i \in DOMAIN t : /\ t[i].op \in {"set_up", "vignetting"}
                        /\ t[i].use \notin SampleUses /\ t[i].wvl = Central}

LEMMA StepTypes ==
  /\ \A f \in Fields, w \in Lambdas, image \in {"own", "shared", "none"}, keep \in BOOLEAN,
        use \in SampleUses \union {"rim", "probe", "displacement", "window"} :
       SetUpStep(f, w, image, keep, use) \in StepSet
  /\ \A op \in Ops, f \in Fields \union {0} : Step(op, f) \in StepSet
  /\ Central \in Lambdas /\ 1 \in Fields /\ Fields = 1 .. NF /\ Lambdas = 1 .. NW
  /\ NF \in Nat \ {0} /\ NW \in Nat \ {0}
<1>1. /\ NF \in Nat \ {0} /\ NW \in Nat \ {0} /\ Central \in Lambdas /\ 1 \in Fields
      /\ Fields \subseteq 0 .. NF /\ 0 \in 0 .. NF
      /\ Fields = 1 .. NF /\ Lambdas = 1 .. NW
  BY SizesAssumption DEF Central, Lambdas, Fields
<1>2. \A f \in Fields, w \in Lambdas, image \in {"own", "shared", "none"}, keep \in BOOLEAN,
         use \in SampleUses \union {"rim", "probe", "displacement", "window"} :
        SetUpStep(f, w, image, keep, use) \in StepSet
  BY <1>1 DEF SetUpStep, StepSet, Ops
<1>3. \A op \in Ops, f \in Fields \union {0} : Step(op, f) \in StepSet
  BY <1>1 DEF Step, StepSet
<1> QED
  BY <1>1, <1>2, <1>3

LEMMA FunctionLength ==
  ASSUME NEW n \in Nat, NEW f, f = [i \in 1 .. n |-> f[i]]
  PROVE  Len(f) = n
<1>1. f \in [1 .. n -> {f[i] : i \in 1 .. n}] /\ DOMAIN f = 1 .. n
  OBVIOUS
<1>2. f \in Seq({f[i] : i \in 1 .. n})
  BY <1>1, SeqDef
<1> QED
  BY <1>1, <1>2, LenProperties

LEMMA ReadersJoin ==
  /\ \A a, b \in Readers : a \o b \in Readers
  /\ \A f : \A a, b \in ReadersOf(f) : a \o b \in ReadersOf(f)
<1>1. ASSUME NEW a \in Readers, NEW b \in Readers,
             NEW i \in DOMAIN (a \o b)
      PROVE  \/ i \in DOMAIN a /\ (a \o b)[i] = a[i]
             \/ i - Len(a) \in DOMAIN b /\ (a \o b)[i] = b[i - Len(a)]
  BY <1>1, Joined DEF Readers
<1>2. \A a, b \in Readers : a \o b \in Seq(StepSet)
  BY Joined DEF Readers
<1>3. ASSUME NEW a \in Readers, NEW b \in Readers PROVE a \o b \in Readers
  <2>1. \A i \in DOMAIN (a \o b) : (a \o b)[i].op \in {"set_up", "pupil", "capture"}
    <3> SUFFICES ASSUME NEW i \in DOMAIN (a \o b)
                 PROVE  (a \o b)[i].op \in {"set_up", "pupil", "capture"}
      OBVIOUS
    <3> QED
      BY <1>1 DEF Readers, ReadsOnly
  <2> QED
    BY <1>2, <2>1 DEF Readers, ReadsOnly
<1>4. ASSUME NEW f, NEW a \in ReadersOf(f), NEW b \in ReadersOf(f)
      PROVE  a \o b \in ReadersOf(f)
  <2>1. a \in Readers /\ b \in Readers
    BY DEF ReadersOf
  <2>2. \A i \in DOMAIN (a \o b) : (a \o b)[i].field = f
    <3> SUFFICES ASSUME NEW i \in DOMAIN (a \o b) PROVE (a \o b)[i].field = f
      OBVIOUS
    <3> QED
      BY <1>1, <2>1 DEF ReadersOf
  <2> QED
    BY <1>3, <2>1, <2>2 DEF ReadersOf
<1> QED
  BY <1>3, <1>4

\* What is led stays led behind a pass that is, and behind a kept set-up of
\* the field in the central wavelength.
LEMMA LedJoin ==
  ASSUME NEW a \in LedReaders, NEW b \in Readers, NEW f,
         \/ b \in LedReaders
         \/ a \in LedFor(f) /\ b \in ReadersOf(f)
  PROVE  /\ a \o b \in LedReaders
         /\ a \in LedFor(f) => a \o b \in LedFor(f)
<1> DEFINE c == a \o b
           m == Len(a)
           k == Len(b)
<1>1. a \in Seq(StepSet) /\ b \in Seq(StepSet) /\ c \in Readers
  BY ReadersJoin DEF LedReaders, Readers
<1>2. /\ m \in Nat /\ k \in Nat /\ DOMAIN a = 1 .. m /\ DOMAIN b = 1 .. k
      /\ DOMAIN c = 1 .. m + k
      /\ \A i \in 1 .. m : c[i] = a[i]
      /\ \A i \in 1 .. k : c[m + i] = b[i]
      /\ \A i \in 1 .. m + k : i \in 1 .. m \/ (i - m \in 1 .. k /\ c[i] = b[i - m])
  BY <1>1, Joined
<1> HIDE DEF c, m, k
<1>3. ASSUME NEW i \in 1 .. m PROVE LedAt(c, i)
  <2> SUFFICES ASSUME c[i].op = "set_up", c[i].wvl # Central
               PROVE  \E j \in 1 .. i - 1 : KeptCentral(c[j], c[i].field)
    BY DEF LedAt
  <2>1. c[i] = a[i] /\ LedAt(a, i)
    BY <1>2 DEF LedReaders, Led
  <2>2. PICK j \in 1 .. i - 1 : KeptCentral(a[j], a[i].field)
    BY <2>1 DEF LedAt
  <2>3. j \in 1 .. m
    BY <1>2
  <2> QED
    BY <1>2, <2>1, <2>2, <2>3
<1>4. ASSUME NEW i \in 1 .. m + k, i - m \in 1 .. k, c[i] = b[i - m] PROVE LedAt(c, i)
  <2> SUFFICES ASSUME c[i].op = "set_up", c[i].wvl # Central
               PROVE  \E j \in 1 .. i - 1 : KeptCentral(c[j], c[i].field)
    BY DEF LedAt
  <2>1. CASE b \in LedReaders
    <3>1. LedAt(b, i - m)
      BY <1>2, <1>4, <2>1 DEF LedReaders, Led
    <3>2. PICK j \in 1 .. (i - m) - 1 : KeptCentral(b[j], b[i - m].field)
      BY <1>4, <3>1 DEF LedAt
    <3>3. j \in 1 .. k /\ m + j \in 1 .. i - 1
      BY <1>2, <1>4
    <3> QED
      BY <1>2, <1>4, <3>2, <3>3
  <2>2. CASE a \in LedFor(f) /\ b \in ReadersOf(f)
    <3>1. PICK j \in 1 .. m : KeptCentral(a[j], f)
      BY <1>2, <2>2 DEF LedFor
    <3>2. c[i].field = f
      BY <1>2, <1>4, <2>2 DEF ReadersOf
    <3>3. j \in 1 .. i - 1 /\ c[j] = a[j]
      BY <1>2, <1>4
    <3> QED
      BY <3>1, <3>2, <3>3
  <2> QED
    BY <2>1, <2>2
<1>5. c \in LedReaders
  BY <1>1, <1>2, <1>3, <1>4 DEF LedReaders, Led
<1>6. ASSUME a \in LedFor(f) PROVE c \in LedFor(f)
  <2>1. PICK j \in 1 .. m : KeptCentral(a[j], f)
    BY <1>2, <1>6 DEF LedFor
  <2>2. j \in DOMAIN c /\ c[j] = a[j]
    BY <1>2
  <2> QED
    BY <1>5, <2>1, <2>2 DEF LedFor
<1> QED
  BY <1>5, <1>6 DEF c

LEMMA PlainJoin == \A a, b \in Plain : a \o b \in Plain
<1>1. ASSUME NEW a \in Plain, NEW b \in Plain, NEW i \in DOMAIN (a \o b)
      PROVE  \/ i \in DOMAIN a /\ (a \o b)[i] = a[i]
             \/ i - Len(a) \in DOMAIN b /\ (a \o b)[i] = b[i - Len(a)]
  BY <1>1, Joined DEF Plain
<1>2. \A a, b \in Plain : a \o b \in Seq(StepSet)
  BY Joined DEF Plain
<1> SUFFICES ASSUME NEW a \in Plain, NEW b \in Plain PROVE a \o b \in Plain
  OBVIOUS
<1>3. ASSUME NEW i \in DOMAIN (a \o b)
      PROVE  /\ (a \o b)[i].op \in {"set_up", "vignetting"}
             /\ (a \o b)[i].use \notin SampleUses /\ (a \o b)[i].wvl = Central
  BY <1>1 DEF Plain
<1> QED
  BY <1>2, <1>3 DEF Plain

LEMMA One ==
  ASSUME NEW x \in StepSet
  PROVE  <<x>> \in Seq(StepSet) /\ Len(<<x>>) = 1 /\ DOMAIN <<x>> = 1 .. 1 /\ <<x>>[1] = x
  OBVIOUS

LEMMA Pair ==
  ASSUME NEW x \in StepSet, NEW y \in StepSet
  PROVE  /\ <<x, y>> \in Seq(StepSet) /\ Len(<<x, y>>) = 2 /\ DOMAIN <<x, y>> = 1 .. 2
         /\ <<x, y>>[1] = x /\ <<x, y>>[2] = y
  OBVIOUS

\* A kept central set-up leads.
LEMMA OneLeads ==
  ASSUME NEW x \in StepSet, NEW f, KeptCentral(x, f)
  PROVE  <<x>> \in LedFor(f)
<1>1. <<x>> \in Seq(StepSet) /\ DOMAIN <<x>> = 1 .. 1 /\ <<x>>[1] = x
  BY One
<1>2. x.op = "set_up" /\ x.wvl = Central
  BY DEF KeptCentral
<1>3. \A i \in DOMAIN <<x>> : <<x>>[i] = x
  BY <1>1
<1>4. <<x>> \in LedReaders
  BY <1>1, <1>2, <1>3 DEF LedReaders, Readers, ReadsOnly, Led, LedAt
<1> QED
  BY <1>1, <1>4 DEF LedFor

LEMMA OneReads ==
  ASSUME NEW x \in StepSet, x.op = "set_up"
  PROVE  <<x>> \in ReadersOf(x.field)
<1>1. <<x>> \in Seq(StepSet) /\ \A i \in DOMAIN <<x>> : <<x>>[i] = x
  BY One
<1> QED
  BY <1>1 DEF ReadersOf, Readers, ReadsOnly

\* Flattening over the fields, and over the wavelengths.
LEMMA FieldsFlatten ==
  ASSUME NEW s, s = [f \in Fields |-> s[f]], NEW S, \A f \in Fields : s[f] \in S,
         \A a, b \in S : a \o b \in S
  PROVE  FlattenSeq(s) \in S
<1>1. NF \in Nat \ {0} /\ Len(s) = NF
  BY SizesAssumption, FunctionLength DEF Fields
<1>2. s[1] \in S /\ \A a \in S, i \in 2 .. NF : a \o s[i] \in S
  BY <1>1 DEF Fields
<1> QED
  BY <1>1, <1>2, FlattenGrows

LEMMA LambdasFlatten ==
  ASSUME NEW s, s = [w \in Lambdas |-> s[w]], NEW S, s[Central] \in S,
         \A a \in S, w \in Lambdas \ {Central} : a \o s[w] \in S
  PROVE  FlattenSeq(s) \in S
<1>1. NW \in Nat \ {0} /\ Len(s) = NW
  BY SizesAssumption, FunctionLength DEF Lambdas
<1>2. s[1] \in S /\ \A a \in S, i \in 2 .. NW : a \o s[i] \in S
  BY <1>1 DEF Lambdas, Central
<1> QED
  BY <1>1, <1>2, FlattenGrows

LEMMA FieldsHave ==
  ASSUME NEW s, s = [f \in Fields |-> s[f]], \A f \in Fields : s[f] \in Seq(StepSet),
         NEW f \in Fields, NEW q \in DOMAIN s[f]
  PROVE  Has(FlattenSeq(s), s[f][q])
<1>1. NF \in Nat \ {0} /\ Len(s) = NF
  BY SizesAssumption, FunctionLength DEF Fields
<1> QED
  BY <1>1, FlattenHas DEF Fields

LEMMA SpotPass ==
  /\ spot \in LedReaders
  /\ \A f \in Fields : \E k \in DOMAIN spot : KeptCentral(spot[k], f)
<1> DEFINE x(f) == SetUpStep(f, Central, "own", TRUE, "sample")
           s == [f \in Fields |-> <<x(f)>>]
<1>1. \A f \in Fields : x(f) \in StepSet /\ KeptCentral(x(f), f)
  BY StepTypes DEF KeptCentral, SetUpStep, SampleUses
<1>2. spot = FlattenSeq(s)
  BY DEF spot, PerField
<1>3. s = [f \in Fields |-> s[f]] /\ \A f \in Fields : s[f] = <<x(f)>>
  OBVIOUS
<1> HIDE DEF s, x
<1>4. \A f \in Fields : s[f] \in LedFor(f)
  BY <1>1, <1>3, OneLeads
<1>5. /\ \A f \in Fields : s[f] \in LedReaders
      /\ \A a, b \in LedReaders : a \o b \in LedReaders
  BY <1>4, LedJoin DEF LedFor, LedReaders
<1>6. spot \in LedReaders
  BY <1>2, <1>3, <1>5, FieldsFlatten
<1>7. ASSUME NEW f \in Fields PROVE \E k \in DOMAIN spot : KeptCentral(spot[k], f)
  <2>1. ASSUME NEW g \in Fields
        PROVE  s[g] \in Seq(StepSet) /\ 1 \in DOMAIN s[g] /\ s[g][1] = x(g)
    <3>1. s[g] = <<x(g)>> /\ x(g) \in StepSet
      BY <1>1, <1>3
    <3> QED
      BY <3>1, One
  <2>2. Has(FlattenSeq(s), s[f][1])
    BY <1>3, <2>1, FieldsHave
  <2> QED
    BY <1>1, <1>2, <2>1, <2>2 DEF Has
<1> QED
  BY <1>6, <1>7

LEMMA PupilMapsPass == pupil_maps \in LedReaders
<1> DEFINE s == [f \in Fields |-> <<Step("pupil", f)>>]
<1>1. ASSUME NEW f \in Fields PROVE <<Step("pupil", f)>> \in LedReaders
  <2> DEFINE x == Step("pupil", f)
  <2>1. x \in StepSet /\ x.op = "pupil" /\ x.wvl = Central
    BY StepTypes DEF Step, Ops
  <2> HIDE DEF x
  <2>2. <<x>> \in Seq(StepSet) /\ \A i \in DOMAIN <<x>> : <<x>>[i] = x
    BY <2>1, One
  <2>3. <<x>> \in LedReaders
    BY <2>1, <2>2 DEF LedReaders, Readers, ReadsOnly, Led, LedAt
  <2> QED
    BY <2>3 DEF x
<1>2. pupil_maps = FlattenSeq(s)
  BY DEF pupil_maps, PerField
<1>3. s = [f \in Fields |-> s[f]] /\ \A f \in Fields : s[f] = <<Step("pupil", f)>>
  OBVIOUS
<1> HIDE DEF s
<1>4. /\ \A f \in Fields : s[f] \in LedReaders
      /\ \A a, b \in LedReaders : a \o b \in LedReaders
  BY <1>1, <1>3, LedJoin DEF LedReaders
<1> QED
  BY <1>2, <1>3, <1>4, FieldsFlatten

LEMMA FanPass == trace_fan \in LedReaders
<1> DEFINE r(f) == SetUpStep(f, Central, "own", TRUE, "reference")
           x(f, w) == SetUpStep(f, w, "shared", TRUE, "opd_sample")
           b(f) == [w \in Lambdas |-> <<x(f, w)>>]
           s == [f \in Fields |-> <<r(f)>> \o FlattenSeq(b(f))]
<1>1. trace_fan = FlattenSeq(s)
  BY DEF trace_fan, PerField, PerWavelength
<1>2. s = [f \in Fields |-> s[f]] /\ \A f \in Fields : s[f] = <<r(f)>> \o FlattenSeq(b(f))
  OBVIOUS
<1>3. ASSUME NEW f \in Fields PROVE s[f] \in LedFor(f)
  <2> DEFINE c == b(f)
  <2>1. c = [w \in Lambdas |-> c[w]] /\ \A w \in Lambdas : c[w] = <<x(f, w)>>
    OBVIOUS
  <2>2. \A w \in Lambdas : x(f, w) \in StepSet /\ x(f, w).op = "set_up" /\ x(f, w).field = f
    BY StepTypes DEF SetUpStep, SampleUses
  <2>3. r(f) \in StepSet /\ KeptCentral(r(f), f)
    BY StepTypes DEF KeptCentral, SetUpStep, SampleUses
  <2>4. s[f] = <<r(f)>> \o FlattenSeq(c)
    BY <1>2
  <2> HIDE DEF c, x, s, r
  <2>5. \A w \in Lambdas : c[w] \in ReadersOf(f)
    BY <2>1, <2>2, OneReads
  <2>6. FlattenSeq(c) \in ReadersOf(f)
    <3>1. c[Central] \in ReadersOf(f)
          /\ \A a \in ReadersOf(f), w \in Lambdas \ {Central} : a \o c[w] \in ReadersOf(f)
      BY <2>5, ReadersJoin, StepTypes
    <3> QED
      BY <2>1, <3>1, LambdasFlatten
  <2>7. <<r(f)>> \in LedFor(f) /\ <<r(f)>> \in LedReaders /\ FlattenSeq(c) \in Readers
    BY <2>3, <2>6, OneLeads DEF LedFor, ReadersOf
  <2> QED
    BY <2>4, <2>6, <2>7, LedJoin
<1> HIDE DEF s
<1>4. /\ \A f \in Fields : s[f] \in LedReaders
      /\ \A a, b1 \in LedReaders : a \o b1 \in LedReaders
  BY <1>3, LedJoin DEF LedFor, LedReaders
<1> QED
  BY <1>1, <1>2, <1>4, FieldsFlatten

LEMMA ContrastPass == \A calibrate \in BOOLEAN : contrast(calibrate) \in LedReaders
<1> SUFFICES ASSUME NEW calibrate \in BOOLEAN PROVE contrast(calibrate) \in LedReaders
  OBVIOUS
<1> DEFINE r(f) == SetUpStep(f, Central, "own", FALSE, "reference")
           p(f, w) == SetUpStep(f, w, "shared", TRUE, "probe")
           x(f, w) == SetUpStep(f, w, "shared", TRUE, "opd_sample")
           probes(f, w) == <<r(f), p(f, w)>>
           part(f, w) == (IF calibrate THEN probes(f, w) \o probes(f, w) ELSE <<>>)
                           \o <<r(f), x(f, w)>>
           b(f) == [w \in Lambdas |-> part(f, w)]
           s == [f \in Fields |-> FlattenSeq(b(f))]
<1>1. contrast(calibrate) = FlattenSeq(s)
  BY DEF contrast, PerField, PerWavelength
<1>2. s = [f \in Fields |-> s[f]] /\ \A f \in Fields : s[f] = FlattenSeq(b(f))
  OBVIOUS
<1>3. ASSUME NEW f \in Fields PROVE s[f] \in LedFor(f)
  <2> DEFINE c == b(f)
  <2>1. c = [w \in Lambdas |-> c[w]] /\ \A w \in Lambdas : c[w] = part(f, w)
    OBVIOUS
  <2>2. ASSUME NEW w \in Lambdas
        PROVE  /\ r(f) \in StepSet /\ p(f, w) \in StepSet /\ x(f, w) \in StepSet
               /\ r(f).op = "set_up" /\ p(f, w).op = "set_up" /\ x(f, w).op = "set_up"
               /\ r(f).field = f /\ p(f, w).field = f /\ x(f, w).field = f
               /\ r(f).wvl = Central /\ p(f, w).wvl = w /\ x(f, w).wvl = w
               /\ x(f, w).keep
    BY StepTypes DEF SetUpStep, SampleUses
  <2>3. s[f] = FlattenSeq(c)
    BY <1>2
  <2> HIDE DEF c, s, r, p, x
  <2>4. ASSUME NEW y \in StepSet, NEW z \in StepSet, y.op = "set_up", z.op = "set_up",
               y.field = f, z.field = f
        PROVE  <<y, z>> \in ReadersOf(f)
    <3>1. <<y, z>> \in Seq(StepSet) /\ \A i \in DOMAIN <<y, z>> : <<y, z>>[i] \in {y, z}
      BY <2>4, Pair
    <3> QED
      BY <2>4, <3>1 DEF ReadersOf, Readers, ReadsOnly
  <2>5. <<>> \in ReadersOf(f)
    <3>1. <<>> \in Seq(StepSet) /\ DOMAIN <<>> = {}
      BY EmptySeq
    <3> QED
      BY <3>1 DEF ReadersOf, Readers, ReadsOnly
  <2>6. ASSUME NEW w \in Lambdas
        PROVE  part(f, w) \in ReadersOf(f)
    <3>1. probes(f, w) \in ReadersOf(f) /\ <<r(f), x(f, w)>> \in ReadersOf(f)
      BY <2>2, <2>4
    <3> HIDE DEF probes
    <3>2. (IF calibrate THEN probes(f, w) \o probes(f, w) ELSE <<>>) \in ReadersOf(f)
      BY <2>5, <3>1, ReadersJoin
    <3> QED
      BY <3>1, <3>2, ReadersJoin
  <2>7. ASSUME NEW y \in StepSet, NEW z \in StepSet, y.wvl = Central, z.wvl = Central,
               <<y, z>> \in Readers
        PROVE  <<y, z>> \in LedReaders
    <3>1. \A i \in DOMAIN <<y, z>> : <<y, z>>[i].wvl = Central
      BY <2>7, Pair
    <3> QED
      BY <2>7, <3>1 DEF LedReaders, Led, LedAt
  <2>8. part(f, Central) \in LedFor(f)
    <3> DEFINE q == IF calibrate THEN probes(f, Central) \o probes(f, Central) ELSE <<>>
               e == <<r(f), x(f, Central)>>
    <3>1. Central \in Lambdas
      BY StepTypes
    <3>2. probes(f, Central) \in LedReaders /\ e \in LedReaders
      BY <2>2, <2>4, <2>7, <3>1 DEF ReadersOf
    <3>3. e \in LedFor(f)
      <4>1. 2 \in DOMAIN e /\ e[2] = x(f, Central)
        BY <2>2, <3>1, Pair
      <4>2. KeptCentral(x(f, Central), f)
        BY <2>2, <3>1 DEF KeptCentral
      <4> QED
        BY <3>2, <4>1, <4>2 DEF LedFor
    <3>4. <<>> \in LedReaders
      <4>1. <<>> \in Seq(StepSet) /\ DOMAIN <<>> = {}
        BY EmptySeq
      <4> QED
        BY <4>1 DEF LedReaders, Readers, ReadsOnly, Led
    <3> HIDE DEF probes, e
    <3>5. q \in LedReaders
      BY <3>2, <3>4, LedJoin DEF LedReaders
    <3> HIDE DEF q
    <3>6. q \o e \in LedReaders /\ q \in Seq(StepSet) /\ e \in Seq(StepSet)
      BY <3>2, <3>5, LedJoin DEF LedReaders, Readers
    <3>7. PICK k \in DOMAIN e : KeptCentral(e[k], f)
      BY <3>3 DEF LedFor
    <3>8. Len(q) + k \in DOMAIN (q \o e) /\ (q \o e)[Len(q) + k] = e[k]
      <4>1. /\ DOMAIN e = 1 .. Len(e) /\ Len(q) \in Nat /\ Len(e) \in Nat
            /\ DOMAIN (q \o e) = 1 .. Len(q) + Len(e)
            /\ \A i \in 1 .. Len(e) : (q \o e)[Len(q) + i] = e[i]
        BY <3>6, Joined
      <4> QED
        BY <4>1
    <3>9. q \o e \in LedFor(f)
      BY <3>6, <3>7, <3>8 DEF LedFor
    <3> QED
      BY <3>9 DEF q, e
  <2> HIDE DEF part
  <2>9. c[Central] \in LedFor(f) /\ \A w \in Lambdas : c[w] \in ReadersOf(f)
    BY <2>1, <2>6, <2>8, StepTypes
  <2>10. \A a \in LedFor(f), w \in Lambdas \ {Central} : a \o c[w] \in LedFor(f)
    BY <2>9, LedJoin DEF LedFor, ReadersOf
  <2> QED
    BY <2>1, <2>3, <2>9, <2>10, LambdasFlatten
<1> HIDE DEF s
<1>4. /\ \A f \in Fields : s[f] \in LedReaders
      /\ \A a, d \in LedReaders : a \o d \in LedReaders
  BY <1>3, LedJoin DEF LedFor, LedReaders
<1> QED
  BY <1>1, <1>2, <1>4, FieldsFlatten

\* The diffraction MTF sets up in the weighted wavelengths alone: it reads,
\* but leads nothing.
LEMMA DiffractionPass == \A W \in SUBSET Lambdas : diffraction(W) \in Readers
<1> SUFFICES ASSUME NEW W \in SUBSET Lambdas PROVE diffraction(W) \in Readers
  OBVIOUS
<1> DEFINE r(f) == SetUpStep(f, Central, "none", FALSE, "reference")
           five(f, w) == <<SetUpStep(f, w, "own", TRUE, "rim"),
                           SetUpStep(f, w, "none", FALSE, "displacement"),
                           SetUpStep(f, w, "own", TRUE, "wavefront"),
                           SetUpStep(f, w, "own", FALSE, "wavefront"),
                           SetUpStep(f, w, "none", FALSE, "window")>>
           b(f) == [w \in Lambdas |-> IF w \notin W THEN <<>> ELSE five(f, w)]
           s == [f \in Fields |-> <<r(f)>> \o FlattenSeq(b(f))]
<1>1. diffraction(W) = FlattenSeq(s)
  BY DEF diffraction, PerField, PerWavelength
<1>2. s = [f \in Fields |-> s[f]] /\ \A f \in Fields : s[f] = <<r(f)>> \o FlattenSeq(b(f))
  OBVIOUS
<1>3. ASSUME NEW f \in Fields PROVE s[f] \in Readers
  <2> DEFINE c == b(f)
  <2>1. c = [w \in Lambdas |-> c[w]]
        /\ \A w \in Lambdas : c[w] = IF w \notin W THEN <<>> ELSE five(f, w)
    OBVIOUS
  <2>2. ASSUME NEW w \in Lambdas PROVE five(f, w) \in Readers
    <3> DEFINE x1 == SetUpStep(f, w, "own", TRUE, "rim")
               x2 == SetUpStep(f, w, "none", FALSE, "displacement")
               x3 == SetUpStep(f, w, "own", TRUE, "wavefront")
               x4 == SetUpStep(f, w, "own", FALSE, "wavefront")
               x5 == SetUpStep(f, w, "none", FALSE, "window")
    <3>0. /\ x1 \in StepSet /\ x2 \in StepSet /\ x3 \in StepSet /\ x4 \in StepSet
          /\ x5 \in StepSet
      BY StepTypes DEF SampleUses
    <3>1. /\ {x1, x2, x3, x4, x5} \subseteq StepSet
          /\ \A x \in {x1, x2, x3, x4, x5} : x.op = "set_up"
      <4>1. \A image, keep, use : SetUpStep(f, w, image, keep, use).op = "set_up"
        BY DEF SetUpStep
      <4> QED
        BY <3>0, <4>1
    <3>2. five(f, w) = <<x1, x2, x3, x4, x5>>
      OBVIOUS
    <3> HIDE DEF x1, x2, x3, x4, x5
    <3>3. /\ <<x1, x2, x3, x4, x5>> \in Seq(StepSet)
          /\ \A i \in DOMAIN <<x1, x2, x3, x4, x5>> :
               <<x1, x2, x3, x4, x5>>[i] \in {x1, x2, x3, x4, x5}
      BY <3>1
    <3> QED
      BY <3>1, <3>2, <3>3 DEF Readers, ReadsOnly
  <2>3. <<>> \in Readers
    <3>1. <<>> \in Seq(StepSet) /\ DOMAIN <<>> = {}
      BY EmptySeq
    <3> QED
      BY <3>1 DEF Readers, ReadsOnly
  <2>4. <<r(f)>> \in Readers
    <3>1. r(f) \in StepSet /\ r(f).op = "set_up"
      BY StepTypes DEF SetUpStep, SampleUses
    <3> QED
      BY <3>1, OneReads DEF ReadersOf
  <2>5. s[f] = <<r(f)>> \o FlattenSeq(c)
    BY <1>2
  <2> HIDE DEF c, s, r, five
  <2>6. /\ c[Central] \in Readers
        /\ \A a \in Readers, w \in Lambdas \ {Central} : a \o c[w] \in Readers
    BY <2>1, <2>2, <2>3, ReadersJoin, StepTypes
  <2>7. FlattenSeq(c) \in Readers
    BY <2>1, <2>6, LambdasFlatten
  <2> QED
    BY <2>4, <2>5, <2>7, ReadersJoin
<1> HIDE DEF s
<1> QED
  BY <1>1, <1>2, <1>3, FieldsFlatten, ReadersJoin

\* Passes that neither read nor renew anything.
PlainGiving == {t \in Plain : \A f \in Fields : \E i \in DOMAIN t : GivesFactors(t[i], f)}

LEMMA BoundaryPass == boundary_rays \in Plain
<1> DEFINE x(f) == SetUpStep(f, Central, "own", TRUE, "rim")
           s == [f \in Fields |-> <<x(f)>>]
<1>1. \A f \in Fields : /\ x(f) \in StepSet /\ x(f).op = "set_up" /\ x(f).wvl = Central
                        /\ x(f).use \notin SampleUses
  BY StepTypes DEF SetUpStep, SampleUses
<1>2. boundary_rays = FlattenSeq(s)
  BY DEF boundary_rays, PerField
<1>3. s = [f \in Fields |-> s[f]] /\ \A f \in Fields : s[f] = <<x(f)>>
  OBVIOUS
<1> HIDE DEF s, x
<1>4. ASSUME NEW f \in Fields PROVE s[f] \in Plain
  <2>1. s[f] = <<x(f)>> /\ x(f) \in StepSet
    BY <1>1, <1>3
  <2>2. s[f] \in Seq(StepSet) /\ \A i \in DOMAIN s[f] : s[f][i] = x(f)
    BY <2>1, One
  <2> QED
    BY <1>1, <2>2 DEF Plain
<1> QED
  BY <1>2, <1>3, <1>4, FieldsFlatten, PlainJoin

LEMMA VignettingPass ==
  /\ set_vig \in Plain
  /\ \A f \in Fields : \E k \in DOMAIN set_vig :
       set_vig[k].op = "vignetting" /\ set_vig[k].field = f
<1> DEFINE x(f) == Step("vignetting", f)
           s == [f \in Fields |-> <<x(f)>>]
<1>1. \A f \in Fields : /\ x(f) \in StepSet /\ x(f).op = "vignetting" /\ x(f).wvl = Central
                        /\ x(f).use \notin SampleUses /\ x(f).field = f
  BY StepTypes DEF Step, SampleUses, Ops
<1>2. set_vig = FlattenSeq(s)
  BY DEF set_vig, PerField
<1>3. s = [f \in Fields |-> s[f]] /\ \A f \in Fields : s[f] = <<x(f)>>
  OBVIOUS
<1> HIDE DEF s, x
<1>4. ASSUME NEW f \in Fields
      PROVE  /\ s[f] \in Plain /\ s[f] \in Seq(StepSet)
             /\ 1 \in DOMAIN s[f] /\ s[f][1] = x(f)
  <2>1. s[f] = <<x(f)>> /\ x(f) \in StepSet
    BY <1>1, <1>3
  <2>2. /\ s[f] \in Seq(StepSet) /\ \A i \in DOMAIN s[f] : s[f][i] = x(f)
        /\ 1 \in DOMAIN s[f]
    BY <2>1, One
  <2> QED
    BY <1>1, <2>2 DEF Plain
<1>5. set_vig \in Plain
  BY <1>2, <1>3, <1>4, FieldsFlatten, PlainJoin
<1>6. ASSUME NEW f \in Fields
      PROVE  \E k \in DOMAIN set_vig : set_vig[k].op = "vignetting" /\ set_vig[k].field = f
  <2>1. Has(FlattenSeq(s), s[f][1])
    BY <1>3, <1>4, FieldsHave
  <2> QED
    BY <1>1, <1>2, <1>4, <2>1 DEF Has
<1> QED
  BY <1>5, <1>6

\* What the proofs of the steps need of a pass.
PassOK(name, t) ==
  /\ t \in Seq(StepSet) /\ Renews(t) /\ Stamped(t)
  /\ name \in Analyses \union {"capture"} => ReadsOnly(t)
  /\ name \in Preparers => Prepares(t)
  /\ name # "diffraction" => Led(t)
  /\ name \in Vignetters => \A f \in Fields : \E i \in DOMAIN t : GivesFactors(t[i], f)
  /\ name = "spot" => \A f \in Fields : \E i \in DOMAIN t : KeptCentral(t[i], f)

LEMMA ReadersPass ==
  ASSUME NEW name, NEW t \in Readers, name \in Analyses \union {"capture"},
         name # "diffraction" => t \in LedReaders,
         name = "spot" => \A f \in Fields : \E i \in DOMAIN t : KeptCentral(t[i], f)
  PROVE  PassOK(name, t)
<1>1. t \in Seq(StepSet) /\ ReadsOnly(t)
  BY DEF Readers
<1>2. Renews(t)
  BY <1>1 DEF Renews, RenewsAt, ReadsOnly
<1>3. Stamped(t)
  BY <1>1 DEF Stamped, ReadsOnly
<1>4. name \notin Preparers /\ name \notin Vignetters
  BY DEF Analyses, Preparers, Vignetters
<1> QED
  BY <1>1, <1>2, <1>3, <1>4 DEF PassOK, LedReaders

LEMMA PlainPass ==
  ASSUME NEW name, NEW t \in Plain, name \in Preparers,
         name \in Vignetters => \A f \in Fields : \E i \in DOMAIN t : GivesFactors(t[i], f)
  PROVE  PassOK(name, t)
<1>1. t \in Seq(StepSet)
  BY DEF Plain
<1>2. Renews(t)
  BY DEF Plain, Renews, RenewsAt
<1>3. Stamped(t)
  BY DEF Plain, Stamped
<1>4. Prepares(t)
  BY DEF Plain, Prepares
<1>5. Led(t)
  BY DEF Plain, Led, LedAt
<1>6. name \notin Analyses /\ name # "capture" /\ name # "spot"
  BY DEF Analyses, Preparers, Vignetters
<1> QED
  BY <1>1, <1>2, <1>3, <1>4, <1>5, <1>6 DEF PassOK

LEMMA OneMore ==
  ASSUME NEW S, NEW a \in Seq(S), NEW b \in Seq(S), NEW x, Len(a) = 1, a[1] = x
  PROVE  /\ a \o b \in Seq(S) /\ DOMAIN b = 1 .. Len(b) /\ Len(b) \in Nat
         /\ DOMAIN (a \o b) = 1 .. 1 + Len(b) /\ (a \o b)[1] = x
         /\ \A i \in 1 .. Len(b) : (a \o b)[1 + i] = b[i]
         /\ \A i \in 1 .. 1 + Len(b) :
              i = 1 \/ (i - 1 \in 1 .. Len(b) /\ (a \o b)[i] = b[i - 1])
<1> DEFINE t == a \o b
           m == Len(a)
           k == Len(b)
<1> HIDE DEF t, m, k
<1>1. /\ t \in Seq(S) /\ DOMAIN b = 1 .. k /\ k \in Nat /\ DOMAIN t = 1 .. m + k
      /\ \A i \in 1 .. m : t[i] = a[i]
      /\ \A i \in 1 .. k : t[m + i] = b[i]
      /\ \A i \in 1 .. m + k : i \in 1 .. m \/ (i - m \in 1 .. k /\ t[i] = b[i - m])
  BY ONLY a \in Seq(S), b \in Seq(S), Joined DEF t, m, k
<1>2. m = 1
  BY DEF m
<1>3. t[1] = x
  BY <1>1, <1>2
<1>4. /\ DOMAIN t = 1 .. 1 + k
      /\ \A i \in 1 .. k : t[1 + i] = b[i]
  BY <1>1, <1>2
<1>5. \A i \in 1 .. 1 + k : i = 1 \/ (i - 1 \in 1 .. k /\ t[i] = b[i - 1])
  BY <1>1, <1>2
<1> QED
  BY <1>1, <1>3, <1>4, <1>5 DEF t, k

LEMMA InFront ==
  ASSUME NEW S, NEW x \in S, NEW b \in Seq(S)
  PROVE  /\ <<x>> \o b \in Seq(S) /\ DOMAIN b = 1 .. Len(b) /\ Len(b) \in Nat
         /\ DOMAIN (<<x>> \o b) = 1 .. 1 + Len(b) /\ (<<x>> \o b)[1] = x
         /\ \A i \in 1 .. Len(b) : (<<x>> \o b)[1 + i] = b[i]
         /\ \A i \in 1 .. 1 + Len(b) :
              i = 1 \/ (i - 1 \in 1 .. Len(b) /\ (<<x>> \o b)[i] = b[i - 1])
<1>1. <<x>> \in Seq(S) /\ Len(<<x>>) = 1 /\ <<x>>[1] = x
  OBVIOUS
<1> DEFINE a == <<x>>
<1>2. a \in Seq(S) /\ Len(a) = 1 /\ a[1] = x
  BY <1>1
<1> HIDE DEF a
<1>3. /\ a \o b \in Seq(S) /\ DOMAIN b = 1 .. Len(b) /\ Len(b) \in Nat
      /\ DOMAIN (a \o b) = 1 .. 1 + Len(b) /\ (a \o b)[1] = x
      /\ \A i \in 1 .. Len(b) : (a \o b)[1 + i] = b[i]
      /\ \A i \in 1 .. 1 + Len(b) :
           i = 1 \/ (i - 1 \in 1 .. Len(b) /\ (a \o b)[i] = b[i - 1])
  BY <1>2, OneMore
<1> QED
  BY <1>3 DEF a

\* A pass that opens by making factors obsolete and finds those of all fields.
LEMMA RenewingPass ==
  ASSUME NEW name \in Vignetters, NEW x \in StepSet, NEW b \in Plain,
         x.op \in {"set_pupil", "clear_vignetting"}, x.field \in Fields,
         x.use \notin SampleUses, x.wvl = Central,
         \A f \in Fields : \E k \in DOMAIN b : b[k].op = "vignetting" /\ b[k].field = f
  PROVE  PassOK(name, <<x>> \o b)
<1> DEFINE a == <<x>>
           t == a \o b
<1>1. x \in StepSet /\ b \in Seq(StepSet)
  BY DEF Plain
<1>2. /\ t \in Seq(StepSet) /\ DOMAIN b = 1 .. Len(b) /\ Len(b) \in Nat
      /\ DOMAIN t = 1 .. 1 + Len(b) /\ t[1] = x
      /\ \A i \in 1 .. Len(b) : t[1 + i] = b[i]
      /\ \A i \in 1 .. 1 + Len(b) : i = 1 \/ (i - 1 \in 1 .. Len(b) /\ t[i] = b[i - 1])
  BY <1>1, InFront
<1> HIDE DEF a, t
<1>3. \A i \in DOMAIN t : t[i] = x \/ t[i].op \in {"set_up", "vignetting"}
  BY <1>2 DEF Plain
<1>4. ASSUME NEW f \in Fields
      PROVE  \E j \in DOMAIN t : j > 1 /\ t[j].op = "vignetting" /\ t[j].field = f
  <2>1. PICK k \in DOMAIN b : b[k].op = "vignetting" /\ b[k].field = f
    OBVIOUS
  <2>2. 1 + k \in DOMAIN t /\ 1 + k > 1 /\ t[1 + k] = b[k]
    BY <1>2, <2>1
  <2> QED
    BY <2>1, <2>2
<1>5. Renews(t)
  <2> SUFFICES ASSUME NEW i \in DOMAIN t PROVE RenewsAt(t, i)
    BY DEF Renews
  <2>1. CASE i = 1
    BY <1>2, <1>4, <2>1 DEF RenewsAt
  <2>2. CASE i # 1
    <3>1. i - 1 \in DOMAIN b /\ t[i] = b[i - 1]
      BY <1>2, <2>2
    <3>2. t[i].op \in {"set_up", "vignetting"}
      BY <3>1 DEF Plain
    <3> QED
      BY <3>2 DEF RenewsAt
  <2> QED
    BY <2>1, <2>2
<1>6. Stamped(t)
  BY <1>3 DEF Stamped
<1>7. \A i \in DOMAIN t : t[i] = x \/ \E k \in DOMAIN b : t[i] = b[k]
  BY <1>2
<1>8. Prepares(t) /\ Led(t)
  <2>1. \A i \in DOMAIN t : t[i].use \notin SampleUses /\ t[i].wvl = Central /\ t[i].op # "capture"
    BY <1>7 DEF Plain
  <2> QED
    BY <2>1 DEF Prepares, Led, LedAt
<1>9. name \notin Analyses /\ name # "capture" /\ name # "spot"
  BY DEF Analyses, Vignetters
<1> QED
  BY <1>2, <1>4, <1>5, <1>6, <1>8, <1>9 DEF PassOK, GivesFactors, t, a

LEMMA FrozenPass == PassOK("frozen_model", frozen_model)
<1> DEFINE t == frozen_model
<1>1. /\ t = <<Step("new_model", 0), UpdateStep, Step("stamp_pupil", 0),
               Step("stamp_vignetting", 0)>>
      /\ Step("new_model", 0) \in StepSet /\ UpdateStep \in StepSet
      /\ Step("stamp_pupil", 0) \in StepSet /\ Step("stamp_vignetting", 0) \in StepSet
  BY StepTypes DEF frozen_model, UpdateStep, Ops
<1>2. /\ t \in Seq(StepSet) /\ DOMAIN t = 1 .. 4
      /\ t[1].op = "new_model" /\ t[2].op = "update" /\ t[3].op = "stamp_pupil"
      /\ t[4].op = "stamp_vignetting"
      /\ \A i \in 1 .. 4 : t[i].use = "none" /\ t[i].wvl = Central
  <2> DEFINE a == Step("new_model", 0)
             b == UpdateStep
             c == Step("stamp_pupil", 0)
             d == Step("stamp_vignetting", 0)
  <2>1. /\ a.op = "new_model" /\ b.op = "update" /\ c.op = "stamp_pupil"
        /\ d.op = "stamp_vignetting"
        /\ a.use = "none" /\ b.use = "none" /\ c.use = "none" /\ d.use = "none"
        /\ a.wvl = Central /\ b.wvl = Central /\ c.wvl = Central /\ d.wvl = Central
    BY DEF Step, UpdateStep
  <2>2. a \in StepSet /\ b \in StepSet /\ c \in StepSet /\ d \in StepSet /\ t = <<a, b, c, d>>
    BY <1>1
  <2> HIDE DEF a, b, c, d, t
  <2>3. /\ <<a, b, c, d>> \in Seq(StepSet) /\ DOMAIN <<a, b, c, d>> = 1 .. 4
        /\ t[1] = a /\ t[2] = b /\ t[3] = c /\ t[4] = d
    BY <2>2
  <2>4. \A i \in 1 .. 4 : i = 1 \/ i = 2 \/ i = 3 \/ i = 4
    OBVIOUS
  <2> QED
    BY <2>1, <2>2, <2>3, <2>4
<1> HIDE DEF t
<1>3. \A i \in 1 .. 4 : i = 1 \/ i = 2 \/ i = 3 \/ i = 4
  OBVIOUS
<1>4. Renews(t)
  <2> SUFFICES ASSUME NEW i \in 1 .. 4 PROVE RenewsAt(t, i)
    BY <1>2 DEF Renews
  <2>1. /\ 4 \in DOMAIN t /\ 4 > 1 /\ 4 > 3 /\ 1 + 1 \in DOMAIN t /\ 1 + 1 = 2
    BY <1>2
  <2> QED
    BY <1>2, <1>3, <2>1 DEF RenewsAt
<1>5. Stamped(t)
  <2>1. 3 \in 1 .. 4 - 1 /\ \A m \in 3 .. 4 - 1 : m = 3
    OBVIOUS
  <2>2. StampedBefore(t, 4)
    BY <1>2, <2>1 DEF StampedBefore
  <2> QED
    BY <1>2, <1>3, <2>2 DEF Stamped
<1>6. Prepares(t) /\ Led(t)
  <2>1. \A i \in DOMAIN t : /\ t[i].op \notin {"capture", "set_up"}
                            /\ t[i].use \notin SampleUses
    BY <1>2, <1>3 DEF SampleUses
  <2> QED
    BY <2>1 DEF Prepares, Led, LedAt
<1>7. "frozen_model" \notin Analyses \union {"capture"} \union Vignetters
  BY DEF Analyses, Vignetters
<1> QED
  BY <1>2, <1>4, <1>5, <1>6, <1>7 DEF PassOK, t

LEMMA PupilPass == PassOK("set_pupil", set_pupil)
<1> DEFINE x == Step("set_pupil", 1)
<1>1. set_pupil = <<x>> \o set_vig
  BY DEF set_pupil
<1>2. x \in StepSet
  BY StepTypes DEF Ops
<1>3. x.op = "set_pupil" /\ x.field \in Fields /\ x.wvl = Central /\ x.use \notin SampleUses
  BY StepTypes DEF Step, SampleUses
<1> HIDE DEF x
<1> QED
  BY <1>1, <1>2, <1>3, VignettingPass, RenewingPass DEF Vignetters

LEMMA StopPass == PassOK("set_stop_aperture", set_stop_aperture)
<1> DEFINE x == Step("clear_vignetting", 1)
           b == boundary_rays \o set_vig
<1>1. x \in StepSet
  BY StepTypes DEF Ops
<1>2. x.op = "clear_vignetting" /\ x.field \in Fields /\ x.wvl = Central
      /\ x.use \notin SampleUses
  BY StepTypes DEF Step, SampleUses
<1>3. set_stop_aperture = <<x>> \o b
  <2>1. <<x>> \in Seq(StepSet) /\ boundary_rays \in Seq(StepSet) /\ set_vig \in Seq(StepSet)
    BY <1>1, One, BoundaryPass, VignettingPass DEF Plain
  <2>2. set_stop_aperture = (<<x>> \o boundary_rays) \o set_vig
    BY DEF set_stop_aperture
  <2> HIDE DEF x
  <2> QED
    BY <2>1, <2>2, ConcatAssociative
<1>4. b \in Plain
  BY BoundaryPass, VignettingPass, PlainJoin
<1>5. ASSUME NEW f \in Fields
      PROVE  \E k \in DOMAIN b : b[k].op = "vignetting" /\ b[k].field = f
  <2>1. PICK k \in DOMAIN set_vig : set_vig[k].op = "vignetting" /\ set_vig[k].field = f
    BY VignettingPass
  <2>2. boundary_rays \in Seq(StepSet) /\ set_vig \in Seq(StepSet)
    BY BoundaryPass, VignettingPass DEF Plain
  <2>3. Len(boundary_rays) + k \in DOMAIN b /\ b[Len(boundary_rays) + k] = set_vig[k]
    <3>1. /\ DOMAIN set_vig = 1 .. Len(set_vig) /\ Len(set_vig) \in Nat
          /\ Len(boundary_rays) \in Nat /\ DOMAIN b = 1 .. Len(boundary_rays) + Len(set_vig)
          /\ \A i \in 1 .. Len(set_vig) : b[Len(boundary_rays) + i] = set_vig[i]
      BY <2>2, Joined
    <3> QED
      BY <3>1
  <2> QED
    BY <2>1, <2>3
<1> HIDE DEF x, b
<1> QED
  BY <1>1, <1>2, <1>3, <1>4, <1>5, RenewingPass DEF Vignetters

LEMMA SinglePass ==
  ASSUME NEW name, NEW x \in StepSet, x.use = "none", x.wvl = Central,
         \/ name = "update" /\ x.op = "update"
         \/ name = "paraxial" /\ x.op = "paraxial_vignetting"
         \/ name = "capture" /\ x.op = "capture"
  PROVE  PassOK(name, <<x>>)
<1>1. <<x>> \in Seq(StepSet) /\ \A i \in DOMAIN <<x>> : <<x>>[i] = x
  BY One
<1> DEFINE t == <<x>>
<1> HIDE DEF t
<1>2. t \in Seq(StepSet) /\ \A i \in DOMAIN t : t[i] = x
  BY <1>1 DEF t
<1>3. Renews(t) /\ Stamped(t) /\ Led(t)
  BY <1>2 DEF Renews, RenewsAt, Stamped, Led, LedAt
<1>4. name = "capture" => ReadsOnly(t)
  BY <1>2 DEF ReadsOnly
<1>5. name # "capture" => Prepares(t)
  BY <1>2 DEF Prepares, SampleUses
<1>6. name \notin Analyses /\ name \notin Vignetters /\ name # "spot"
      /\ (name \in Preparers => name # "capture")
  BY DEF Analyses, Vignetters, Preparers
<1> QED
  BY <1>2, <1>3, <1>4, <1>5, <1>6 DEF PassOK, t

\* Every pass keeps to its part.
LEMMA PassFacts ==
  ASSUME NEW name \in Names, NEW t \in Passes(name)
  PROVE  PassOK(name, t)
<1>1. CASE name \in {"update", "paraxial", "capture"}
  <2> DEFINE x == Step(IF name = "paraxial" THEN "paraxial_vignetting" ELSE name, 0)
  <2>1. t = <<x>>
    BY <1>1 DEF Passes, UpdateStep
  <2>2. x \in StepSet
    BY <1>1, StepTypes DEF Ops
  <2>3. /\ x.use = "none" /\ x.wvl = Central
        /\ x.op = IF name = "paraxial" THEN "paraxial_vignetting" ELSE name
    BY DEF Step
  <2> HIDE DEF x
  <2> QED
    BY <1>1, <2>1, <2>2, <2>3, SinglePass
<1>2. CASE name \in {"set_pupil", "set_stop_aperture", "frozen_model"}
  BY <1>2, PupilPass, StopPass, FrozenPass DEF Passes
<1>3. CASE name \in {"set_vig", "set_ape"}
  <2>1. /\ t \in Plain /\ name \in Preparers
        /\ name \in Vignetters => t = set_vig
    BY <1>3, BoundaryPass, VignettingPass DEF Passes, Preparers, Vignetters
  <2>2. name \in Vignetters => \A f \in Fields : \E i \in DOMAIN t : GivesFactors(t[i], f)
    BY <2>1, VignettingPass DEF GivesFactors
  <2> QED
    BY <2>1, <2>2, PlainPass
<1>4. CASE name \in {"pupil_maps", "spot", "fan"}
  <2>1. t \in LedReaders /\ (name = "spot" => t = spot) /\ name # "diffraction"
        /\ name \in Analyses
    BY <1>4, PupilMapsPass, SpotPass, FanPass DEF Passes, Analyses
  <2> QED
    BY <2>1, SpotPass, ReadersPass DEF LedReaders
<1>5. CASE name \in {"contrast", "report", "map"}
  <2>1. t \in LedReaders /\ name # "spot" /\ name # "diffraction" /\ name \in Analyses
    BY <1>5, ContrastPass DEF Passes, Analyses
  <2> QED
    BY <2>1, ReadersPass DEF LedReaders
<1>6. CASE name = "diffraction"
  <2>1. t \in Readers /\ name # "spot" /\ name \in Analyses
    BY <1>6, DiffractionPass DEF Passes, Analyses
  <2> QED
    BY <1>6, <2>1, ReadersPass
<1> QED
  BY <1>1, <1>2, <1>3, <1>4, <1>5, <1>6 DEF Names, Analyses, Preparers, Vignetters


-----------------------------------------------------------------------------
(* The steps.  A step done leaves the rest of its pass, with an update in   *)
(* front of it when d is 1.                                                 *)

RestOf(t, u, d) ==
  /\ u \in Seq(StepSet) /\ t \in Seq(StepSet)
  /\ DOMAIN t = 1 .. Len(t) /\ Len(t) \in Nat \ {0} /\ DOMAIN u = 1 .. Len(t) - 1 + d
  /\ \A i \in DOMAIN t : i # 1 => i - 1 + d \in DOMAIN u /\ u[i - 1 + d] = t[i]
  /\ \A i \in DOMAIN u :
       \/ i = 1 /\ d = 1 /\ u[i] = UpdateStep
       \/ i + 1 - d \in DOMAIN t /\ i + 1 - d # 1 /\ u[i] = t[i + 1 - d]

LEMMA Popped ==
  ASSUME NEW t \in Seq(StepSet), t # <<>>
  PROVE  RestOf(t, Tail(t), 0) /\ Head(t) = t[1] /\ 1 \in DOMAIN t
<1> DEFINE u == Tail(t)
<1>1. /\ Len(t) \in Nat \ {0} /\ DOMAIN t = 1 .. Len(t) /\ 1 \in DOMAIN t
      /\ Head(t) = t[1] /\ t[1] \in StepSet
      /\ u \in Seq(StepSet) /\ DOMAIN u = 1 .. Len(t) - 1
      /\ \A i \in DOMAIN u : i + 1 \in DOMAIN t /\ u[i] = t[i + 1]
      /\ \A i \in DOMAIN t : i # 1 => i - 1 \in DOMAIN u /\ u[i - 1] = t[i]
  BY TailOf
<1> HIDE DEF u
<1>2. RestOf(t, u, 0)
  <2>1. \A i \in DOMAIN t : i # 1 => i - 1 + 0 \in DOMAIN u /\ u[i - 1 + 0] = t[i]
    BY <1>1
  <2>2. \A i \in DOMAIN u : i + 1 - 0 \in DOMAIN t /\ i + 1 - 0 # 1 /\ u[i] = t[i + 1 - 0]
    BY <1>1
  <2>3. DOMAIN u = 1 .. Len(t) - 1 + 0
    BY <1>1
  <2> QED
    BY <1>1, <2>1, <2>2, <2>3 DEF RestOf
<1> QED
  BY <1>1, <1>2 DEF u

LEMMA Updating ==
  ASSUME NEW t \in Seq(StepSet), t # <<>>
  PROVE  RestOf(t, <<UpdateStep>> \o Tail(t), 1)
<1> DEFINE r == Tail(t)
           u == <<UpdateStep>> \o r
<1>1. /\ Len(t) \in Nat \ {0} /\ DOMAIN t = 1 .. Len(t)
      /\ r \in Seq(StepSet) /\ DOMAIN r = 1 .. Len(t) - 1
      /\ \A i \in DOMAIN r : i + 1 \in DOMAIN t /\ r[i] = t[i + 1]
      /\ \A i \in DOMAIN t : i # 1 => i - 1 \in DOMAIN r /\ r[i - 1] = t[i]
  BY TailOf
<1>2. UpdateStep \in StepSet
  BY StepTypes DEF UpdateStep, Ops
<1> HIDE DEF r
<1> DEFINE x == UpdateStep
<1> HIDE DEF x
<1>0. x \in StepSet /\ r \in Seq(StepSet)
  BY <1>1, <1>2 DEF x
<1>3. /\ <<x>> \o r \in Seq(StepSet) /\ DOMAIN r = 1 .. Len(r) /\ Len(r) \in Nat
      /\ DOMAIN (<<x>> \o r) = 1 .. 1 + Len(r) /\ (<<x>> \o r)[1] = x
      /\ \A i \in 1 .. Len(r) : (<<x>> \o r)[1 + i] = r[i]
      /\ \A i \in 1 .. 1 + Len(r) :
           i = 1 \/ (i - 1 \in 1 .. Len(r) /\ (<<x>> \o r)[i] = r[i - 1])
  BY ONLY <1>0, InFront
<1> HIDE DEF u
<1>9. /\ u \in Seq(StepSet) /\ DOMAIN r = 1 .. Len(r) /\ Len(r) \in Nat
      /\ DOMAIN u = 1 .. 1 + Len(r) /\ u[1] = UpdateStep
      /\ \A i \in 1 .. Len(r) : u[1 + i] = r[i]
      /\ \A i \in 1 .. 1 + Len(r) : i = 1 \/ (i - 1 \in 1 .. Len(r) /\ u[i] = r[i - 1])
  BY ONLY <1>3 DEF u, x
<1>4. Len(r) = Len(t) - 1
  BY HeadTailProperties DEF r
<1>5. DOMAIN u = 1 .. Len(t) - 1 + 1
  BY <1>1, <1>9, <1>4
<1>6. ASSUME NEW i \in DOMAIN t, i # 1 PROVE i - 1 + 1 \in DOMAIN u /\ u[i - 1 + 1] = t[i]
  <2>1. i - 1 \in 1 .. Len(r) /\ r[i - 1] = t[i] /\ 1 + (i - 1) = i /\ i - 1 + 1 = i
    BY <1>1, <1>9, <1>6
  <2> QED
    BY <1>1, <1>9, <1>5, <2>1
<1>7. ASSUME NEW i \in DOMAIN u, i # 1
      PROVE  i + 1 - 1 \in DOMAIN t /\ i + 1 - 1 # 1 /\ u[i] = t[i + 1 - 1]
  <2>1. i - 1 \in DOMAIN r /\ u[i] = r[i - 1] /\ (i - 1) + 1 = i /\ i + 1 - 1 = i
    BY <1>9, <1>7
  <2>2. i \in DOMAIN t /\ r[i - 1] = t[i]
    BY <1>1, <2>1
  <2> QED
    BY <1>7, <2>1, <2>2
<1>8. RestOf(t, u, 1)
  BY ONLY t \in Seq(StepSet), <1>1, <1>9, <1>5, <1>6, <1>7 DEF RestOf
<1> QED
  BY <1>8 DEF u, r

\* What holds of a pass holds of the rest of it.
LEMMA RestFacts ==
  ASSUME NEW t, NEW u, NEW d \in {0, 1}, RestOf(t, u, d)
  PROVE  /\ Renews(t) => Renews(u)
         /\ Prepares(t) => Prepares(u)
         /\ d = 0 /\ ReadsOnly(t) => ReadsOnly(u)
<1>1. ASSUME Renews(t), NEW i \in DOMAIN u PROVE RenewsAt(u, i)
  <2>1. CASE u[i] = UpdateStep
    BY <2>1 DEF RenewsAt, UpdateStep, Step
  <2>2. CASE u[i] # UpdateStep
    <3> DEFINE k == i + 1 - d
    <3>1. k \in DOMAIN t /\ k # 1 /\ u[i] = t[k]
      BY <2>2 DEF RestOf
    <3>2. RenewsAt(t, k)
      BY <1>1, <3>1 DEF Renews
    <3>3. i \in Int /\ k \in Int /\ i = k - 1 + d
      BY DEF RestOf
    <3> HIDE DEF k
    <3>4. ASSUME NEW j \in DOMAIN t, j > k
          PROVE  j - 1 + d \in DOMAIN u /\ j - 1 + d > i /\ u[j - 1 + d] = t[j]
      BY <3>1, <3>3, <3>4 DEF RestOf
    <3>5. k + 1 \in DOMAIN t => i + 1 \in DOMAIN u /\ u[i + 1] = t[k + 1]
      <4>1. SUFFICES ASSUME k + 1 \in DOMAIN t
                     PROVE  i + 1 \in DOMAIN u /\ u[i + 1] = t[k + 1]
        OBVIOUS
      <4>2. (k + 1) - 1 + d = i + 1 /\ k + 1 # 1
        BY <3>1, <3>3 DEF RestOf
      <4> QED
        BY <4>1, <4>2 DEF RestOf
    <3>6. u[i].op = "set_pupil" =>
            \A f \in Fields : \E j \in DOMAIN u :
              j > i /\ u[j].op = "vignetting" /\ u[j].field = f
      BY <3>1, <3>2, <3>4 DEF RenewsAt
    <3>7. u[i].op = "clear_vignetting" =>
            \E j \in DOMAIN u : j > i /\ u[j].op = "vignetting" /\ u[j].field = u[i].field
      BY <3>1, <3>2, <3>4 DEF RenewsAt
    <3>8. u[i].op \in {"new_model", "stamp_pupil"} =>
            \E j \in DOMAIN u : j > i /\ u[j].op = "stamp_vignetting"
      BY <3>1, <3>2, <3>4 DEF RenewsAt
    <3>9. u[i].op = "new_model" => i + 1 \in DOMAIN u /\ u[i + 1].op = "update"
      BY <3>1, <3>2, <3>5 DEF RenewsAt
    <3> QED
      BY <3>6, <3>7, <3>8, <3>9 DEF RenewsAt
  <2> QED
    BY <2>1, <2>2
<1>2. \A i \in DOMAIN u : (d = 1 /\ u[i] = UpdateStep) \/ \E k \in DOMAIN t : u[i] = t[k]
  BY DEF RestOf
<1>3. Prepares(t) => Prepares(u)
  BY <1>2 DEF Prepares, UpdateStep, Step, SampleUses
<1>4. d = 0 /\ ReadsOnly(t) => ReadsOnly(u)
  BY <1>2 DEF ReadsOnly
<1> QED
  BY <1>1, <1>3, <1>4 DEF Renews

LEMMA RestLed ==
  ASSUME NEW t, NEW u, RestOf(t, u, 0), NEW i \in DOMAIN u, LedAt(t, i + 1)
  PROVE  u[i] = t[i + 1] /\ i + 1 \in DOMAIN t
         /\ (LedAt(u, i) \/ KeptCentral(t[1], u[i].field))
<1>1. i \in Int /\ i + 1 - 0 = i + 1
  BY DEF RestOf
<1>2. i + 1 \in DOMAIN t /\ u[i] = t[i + 1]
  BY <1>1 DEF RestOf
<1> SUFFICES ASSUME u[i].op = "set_up", u[i].wvl # Central, ~KeptCentral(t[1], u[i].field)
             PROVE  \E j \in 1 .. i - 1 : KeptCentral(u[j], u[i].field)
  BY <1>2 DEF LedAt
<1>3. PICK j \in 1 .. (i + 1) - 1 : KeptCentral(t[j], t[i + 1].field)
  BY <1>2 DEF LedAt
<1>4. j # 1 /\ j \in DOMAIN t /\ j - 1 + 0 = j - 1
  BY <1>1, <1>2, <1>3 DEF RestOf
<1>5. j - 1 \in 1 .. i - 1 /\ u[j - 1] = t[j]
  BY <1>1, <1>3, <1>4 DEF RestOf
<1> QED
  BY <1>2, <1>3, <1>5

LEMMA RestStamped ==
  ASSUME NEW t, NEW u, NEW d \in {0, 1}, RestOf(t, u, d),
         NEW j \in DOMAIN u, u[j].op = "stamp_vignetting"
  PROVE  LET k == j + 1 - d IN
         /\ k \in DOMAIN t /\ k # 1 /\ u[j] = t[k]
         /\ StampedBefore(t, k) =>
              \/ StampedBefore(u, j)
              \/ /\ t[1].op = "stamp_pupil"
                 /\ \A m \in 1 .. j - 1 : u[m].op \notin {"new_model", "set_pupil"}
         /\ (\A m \in 1 .. k - 1 : t[m].op \notin {"new_model", "set_pupil"}) =>
              \A m \in 1 .. j - 1 : u[m].op \notin {"new_model", "set_pupil"}
<1> DEFINE k == j + 1 - d
<1>1. k \in DOMAIN t /\ k # 1 /\ u[j] = t[k]
  BY DEF RestOf, UpdateStep, Step
<1>2. j \in Int /\ k \in Int /\ j = k - 1 + d
  BY DEF RestOf
<1> HIDE DEF k
<1>3. ASSUME NEW m \in 1 .. j - 1
      PROVE  u[m].op = "update" \/ (m + 1 - d \in 1 .. k - 1 /\ u[m] = t[m + 1 - d])
  <2>1. m \in DOMAIN u
    BY <1>2 DEF RestOf
  <2>2. CASE u[m] = UpdateStep
    BY <2>2 DEF UpdateStep, Step
  <2>3. CASE u[m] # UpdateStep
    <3>1. m + 1 - d \in DOMAIN t /\ m + 1 - d # 1 /\ u[m] = t[m + 1 - d]
      BY <2>1, <2>3 DEF RestOf
    <3>2. m + 1 - d \in 1 .. k - 1
      BY <1>2, <3>1 DEF RestOf
    <3> QED
      BY <3>1, <3>2
  <2> QED
    BY <2>2, <2>3
<1>4. (\A m \in 1 .. k - 1 : t[m].op \notin {"new_model", "set_pupil"}) =>
        \A m \in 1 .. j - 1 : u[m].op \notin {"new_model", "set_pupil"}
  BY <1>3
<1>5. ASSUME StampedBefore(t, k)
      PROVE  \/ StampedBefore(u, j)
             \/ /\ t[1].op = "stamp_pupil"
                /\ \A m \in 1 .. j - 1 : u[m].op \notin {"new_model", "set_pupil"}
  <2>1. PICK i \in 1 .. k - 1 :
          /\ t[i].op = "stamp_pupil"
          /\ \A m \in i .. k - 1 : t[m].op \notin {"new_model", "set_pupil"}
    BY <1>5 DEF StampedBefore
  <2>2. CASE i = 1
    BY <1>4, <2>1, <2>2
  <2>3. CASE i # 1
    <3> DEFINE n == i - 1 + d
    <3>1. i \in DOMAIN t
      BY <1>1, <1>2, <2>1 DEF RestOf
    <3>2. n \in 1 .. j - 1 /\ u[n] = t[i]
      BY <1>2, <2>1, <2>3, <3>1 DEF RestOf
    <3>3. ASSUME NEW m \in n .. j - 1 PROVE u[m].op \notin {"new_model", "set_pupil"}
      <4>1. m \in 1 .. j - 1
        BY <1>2, <3>2
      <4>2. CASE u[m].op = "update"
        BY <4>2
      <4>3. CASE u[m].op # "update"
        <5>1. m + 1 - d \in 1 .. k - 1 /\ u[m] = t[m + 1 - d]
          BY <1>3, <4>1, <4>3
        <5>2. m + 1 - d \in i .. k - 1
          BY <5>1, <2>1
        <5> QED
          BY <2>1, <5>1, <5>2
      <4> QED
        BY <4>2, <4>3
    <3> HIDE DEF n
    <3> QED
      BY <2>1, <3>2, <3>3 DEF StampedBefore
  <2> QED
    BY <2>2, <2>3
<1> QED
  BY <1>1, <1>4, <1>5 DEF k

\* What a step leaves alone keeps its promises: d is 1 when an update follows.
LEMMA PreparingStep ==
  ASSUME NEW d \in {0, 1}, OpeningOK, todo # <<>>, RestOf(todo, todo', d),
         todo[1].op \notin {"set_up", "pupil", "capture"},
         UNCHANGED <<vig_type, captured, pass, stages>>, AimInv',
         parax' = pupil' \/ (todo' # <<>> /\ Head(todo').op = "update"),
         VigDone => VigDone',
         \/ pupil' = pupil /\ todo[1].op # "stamp_pupil"
         \/ todo[1].op \in {"new_model", "set_pupil"}
         \/ todo[1].op = "stamp_pupil" /\ pupil' = captured.pupil
  PROVE  OpeningOK'
<1> PICK u : u = todo'
  OBVIOUS
<1>1. 1 \in DOMAIN todo /\ u \in Seq(StepSet) /\ RestOf(todo, u, d)
  BY DEF RestOf
<1>2. ~ReadsOnly(todo)
  BY <1>1 DEF ReadsOnly
<1>3. Renews(u) /\ Prepares(u)
  BY <1>1, <1>2, RestFacts DEF OpeningOK, TodoInv
<1>4. \A i \in DOMAIN u : LedAt(u, i)
  BY <1>3 DEF Prepares, LedAt
<1>5. TodoInv'
  BY <1>1, <1>3, <1>4 DEF TodoInv
<1>6. ASSUME NEW j \in DOMAIN u, u[j].op = "stamp_vignetting"
      PROVE  \/ StampedBefore(u, j)
             \/ /\ pupil' = captured.pupil
                /\ \A m \in 1 .. j - 1 : u[m].op \notin {"new_model", "set_pupil"}
  <2> DEFINE k == j + 1 - d
  <2>1. /\ k \in DOMAIN todo /\ k # 1 /\ u[j] = todo[k]
        /\ StampedBefore(todo, k) =>
             \/ StampedBefore(u, j)
             \/ /\ todo[1].op = "stamp_pupil"
                /\ \A m \in 1 .. j - 1 : u[m].op \notin {"new_model", "set_pupil"}
        /\ (\A m \in 1 .. k - 1 : todo[m].op \notin {"new_model", "set_pupil"}) =>
             \A m \in 1 .. j - 1 : u[m].op \notin {"new_model", "set_pupil"}
    BY <1>1, <1>6, RestStamped
  <2> HIDE DEF k
  <2>2. \/ StampedBefore(todo, k)
        \/ /\ pupil = captured.pupil
           /\ \A m \in 1 .. k - 1 : todo[m].op \notin {"new_model", "set_pupil"}
    BY <1>6, <2>1 DEF OpeningOK, StampInv
  <2>3. 1 \in 1 .. k - 1
    BY <2>1, <1>1 DEF RestOf
  <2>4. CASE StampedBefore(todo, k) /\ ~StampedBefore(u, j)
    <3>1. /\ todo[1].op = "stamp_pupil"
          /\ \A m \in 1 .. j - 1 : u[m].op \notin {"new_model", "set_pupil"}
      BY <2>1, <2>4
    <3> QED
      BY <3>1
  <2>5. CASE ~StampedBefore(todo, k)
    BY <2>1, <2>2, <2>3, <2>5
  <2> QED
    BY <2>4, <2>5
<1>7. StampInv'
  BY <1>6 DEF OpeningOK, StampInv, Fits
<1>8. OpeningInv'
  BY DEF OpeningOK, OpeningInv, VigPromised
<1>9. StageInv'
  BY <1>2 DEF OpeningOK, StageInv, Settled
<1> QED
  BY <1>5, <1>7, <1>8, <1>9 DEF OpeningOK

\* The rays a pass reads with leave every cached chief ray where it is.
LEMMA ReadingStep ==
  ASSUME OpeningOK, todo # <<>>, todo' = Tail(todo),
         todo[1].op \in {"set_up", "pupil", "capture"},
         UNCHANGED <<vig_type, pupil, parax, vig, pass, stages>>, AimInv',
         captured' = captured \/ (captured' = [pupil |-> pupil, vig |-> vig] /\ VigFits),
         \A f \in Fields : chief[f] # NoChief \/ KeptCentral(todo[1], f) => chief'[f] # NoChief
  PROVE  OpeningOK'
<1> PICK u : u = todo'
  OBVIOUS
<1>1. /\ 1 \in DOMAIN todo /\ u \in Seq(StepSet) /\ RestOf(todo, u, 0)
      /\ Head(todo) = todo[1]
  BY Popped DEF OpeningOK, TodoInv, RestOf
<1>2. /\ Renews(u) /\ (Prepares(todo) => Prepares(u)) /\ (ReadsOnly(todo) => ReadsOnly(u))
  BY <1>1, RestFacts DEF OpeningOK, TodoInv
<1>3. ASSUME NEW i \in DOMAIN u
      PROVE  LedAt(u, i) \/ \A f \in Fields : u[i].field = f => chief'[f] # NoChief
  <2>1. i + 1 \in DOMAIN todo /\ u[i] = todo[i + 1]
    <3>1. i \in Int /\ i + 1 - 0 = i + 1
      BY <1>1 DEF RestOf
    <3>2. i + 1 - 0 \in DOMAIN todo /\ u[i] = todo[i + 1 - 0]
      BY <1>1 DEF RestOf
    <3> QED
      BY <3>1, <3>2
  <2>2. CASE LedAt(todo, i + 1)
    <3>1. LedAt(u, i) \/ KeptCentral(todo[1], u[i].field)
      BY <1>1, <2>2, RestLed
    <3> QED
      BY <3>1
  <2>3. CASE \A f \in Fields : todo[i + 1].field = f => chief[f] # NoChief
    BY <2>1, <2>3
  <2> QED
    BY <2>1, <2>2, <2>3 DEF OpeningOK, TodoInv
<1>4. TodoInv'
  <2>1. VigFits => VigFits'
    BY DEF VigFits, Fits
  <2> QED
    BY <1>1, <1>2, <1>3, <2>1 DEF OpeningOK, TodoInv
<1>5. ASSUME NEW j \in DOMAIN u, u[j].op = "stamp_vignetting"
      PROVE  \/ StampedBefore(u, j)
             \/ /\ pupil' = captured'.pupil
                /\ \A m \in 1 .. j - 1 : u[m].op \notin {"new_model", "set_pupil"}
  <2> DEFINE k == j + 1 - 0
  <2>1. /\ k \in DOMAIN todo /\ k # 1 /\ u[j] = todo[k]
        /\ StampedBefore(todo, k) =>
             \/ StampedBefore(u, j)
             \/ /\ todo[1].op = "stamp_pupil"
                /\ \A m \in 1 .. j - 1 : u[m].op \notin {"new_model", "set_pupil"}
        /\ (\A m \in 1 .. k - 1 : todo[m].op \notin {"new_model", "set_pupil"}) =>
             \A m \in 1 .. j - 1 : u[m].op \notin {"new_model", "set_pupil"}
    BY <1>1, <1>5, RestStamped
  <2> HIDE DEF k
  <2>2. \/ StampedBefore(todo, k)
        \/ /\ pupil = captured.pupil
           /\ \A m \in 1 .. k - 1 : todo[m].op \notin {"new_model", "set_pupil"}
    BY <1>5, <2>1 DEF OpeningOK, StampInv
  <2> QED
    BY <2>1, <2>2
<1>6. \A f \in Fields : Fits(captured.vig[f], captured.pupil)'
  BY DEF OpeningOK, StampInv, Fits, VigFits
<1>7. StampInv'
  BY <1>5, <1>6 DEF StampInv
<1>8. todo[1].op # "update" /\ \A f \in Fields : ~GivesFactors(todo[1], f)
  BY DEF GivesFactors
<1>9. VigDone => VigDone'
  <2> SUFFICES ASSUME VigDone, NEW f \in Fields
               PROVE  Fits(vig[f], pupil)' \/ \E i \in DOMAIN u : GivesFactors(u[i], f)
    BY DEF VigDone
  <2>1. CASE Fits(vig[f], pupil)
    BY <2>1 DEF Fits
  <2>2. CASE \E i \in DOMAIN todo : GivesFactors(todo[i], f)
    <3>1. PICK i \in DOMAIN todo : GivesFactors(todo[i], f)
      BY <2>2
    <3>2. i = 1 \/ \E k \in DOMAIN u : u[k] = todo[i]
      BY <1>1 DEF RestOf
    <3> QED
      BY <1>8, <3>1, <3>2
  <2> QED
    BY <2>1, <2>2 DEF VigDone
<1>10. OpeningInv'
  BY <1>1, <1>8, <1>9 DEF OpeningOK, OpeningInv, VigPromised
<1>11. Settled => Settled'
  <2> SUFFICES ASSUME Settled, NEW f \in Fields
               PROVE  chief'[f] # NoChief \/ \E i \in DOMAIN u : KeptCentral(u[i], f)
    BY <1>2 DEF Settled
  <2>1. CASE \E i \in DOMAIN todo : KeptCentral(todo[i], f)
    <3>1. PICK i \in DOMAIN todo : KeptCentral(todo[i], f)
      BY <2>1
    <3>2. i = 1 \/ \E k \in DOMAIN u : u[k] = todo[i]
      BY <1>1 DEF RestOf
    <3> QED
      BY <3>1, <3>2
  <2> QED
    BY <2>1 DEF Settled
<1>12. StageInv'
  BY <1>2, <1>11 DEF OpeningOK, StageInv, AllChiefs
<1> QED
  BY <1>4, <1>7, <1>10, <1>12 DEF OpeningOK

LEMMA ValuesStep ==
  ASSUME ValuesOK, [Next]_vars
  PROVE  ValuesOK'
<1>1. Quoted \in Values /\ Found \in Values /\ NoPupil \in Values
  BY DEF Values, Pupils
<1>2. CASE \E f \in Fields : CalcVignetting(f) \/ ClearVignetting(f)
  BY <1>1, <1>2 DEF CalcVignetting, ClearVignetting, ValuesOK
<1>3. CASE ParaxialVignetting
  <2>1. PICK limited \in SUBSET Fields :
          vig' = [f \in Fields |-> IF f \in limited THEN parax ELSE vig[f]]
    BY <1>3 DEF ParaxialVignetting
  <2> QED
    BY <1>3, <2>1 DEF ParaxialVignetting, ValuesOK
<1>4. CASE SetPupil \/ StampPupil
  BY <1>1, <1>4 DEF SetPupil, StampPupil, ValuesOK
<1>5. CASE Capture \/ StampVignetting
  BY <1>5 DEF Capture, StampVignetting, ValuesOK
<1>6. CASE NewModel
  BY <1>1, <1>6 DEF NewModel, ValuesOK
<1>7. CASE Update
  BY <1>7 DEF Update, ValuesOK
<1>8. CASE \/ \E f \in Fields, w \in Lambdas : SetUp(f, w)
           \/ \E f \in Fields : Pupil(f)
           \/ Begin \/ Skip \/ GiveUp \/ UNCHANGED vars
  <2>1. UNCHANGED opening
    BY <1>8 DEF SetUp, Pupil, Begin, Skip, GiveUp, vars
  <2> QED
    BY <2>1 DEF opening, ValuesOK
<1> QED
  BY <1>2, <1>3, <1>4, <1>5, <1>6, <1>7, <1>8 DEF Next

\* The step under way, and what is left after it.
LEMMA StepTaken ==
  ASSUME OpeningOK, todo # <<>>
  PROVE  /\ RestOf(todo, Tail(todo), 0) /\ RestOf(todo, <<UpdateStep>> \o Tail(todo), 1)
         /\ Head(todo) = todo[1] /\ 1 \in DOMAIN todo
         /\ Head(<<UpdateStep>> \o Tail(todo)) = UpdateStep
         /\ <<UpdateStep>> \o Tail(todo) # <<>>
         /\ RenewsAt(todo, 1)
         /\ todo[1].op # "update" => parax = pupil
         /\ VigDone => \A f \in Fields :
              Fits(vig[f], pupil) \/ \E i \in DOMAIN todo : GivesFactors(todo[i], f)
<1>1. todo \in Seq(StepSet)
  BY DEF OpeningOK, TodoInv
<1>2. /\ RestOf(todo, Tail(todo), 0) /\ RestOf(todo, <<UpdateStep>> \o Tail(todo), 1)
      /\ Head(todo) = todo[1] /\ 1 \in DOMAIN todo
  BY <1>1, Popped, Updating
<1>3. RenewsAt(todo, 1)
  BY <1>2 DEF OpeningOK, TodoInv, Renews
<1>4. todo[1].op # "update" => parax = pupil
  BY <1>2 DEF OpeningOK, OpeningInv
<1>5. /\ Head(<<UpdateStep>> \o Tail(todo)) = UpdateStep
      /\ <<UpdateStep>> \o Tail(todo) # <<>>
  <2> PICK r \in Seq(StepSet), x \in StepSet : r = Tail(todo) /\ x = UpdateStep
    BY <1>2, StepTypes DEF UpdateStep, Ops, RestOf
  <2> PICK t : t = <<x>> \o r
    OBVIOUS
  <2>1. t \in Seq(StepSet) /\ DOMAIN t = 1 .. 1 + Len(r) /\ t[1] = x /\ Len(r) \in Nat
    BY InFront
  <2>2. 1 \in DOMAIN t
    BY <2>1
  <2>3. t # <<>>
    BY <2>2
  <2>4. Head(t) = x
    BY <2>1, <2>3
  <2> QED
    BY <2>3, <2>4
<1> QED
  BY <1>2, <1>3, <1>4, <1>5 DEF VigDone

LEMMA SetUpOpening ==
  ASSUME IInv, OpeningOK, NEW f \in Fields, NEW w \in Lambdas, SetUp(f, w)
  PROVE  OpeningOK'
<1> DEFINE step == Head(todo)
<1>1. PICK found \in get_chief_ray_pkg(f, w) :
        /\ aim' = [aim EXCEPT ![f] = found.aim]
        /\ chief' = [chief EXCEPT ![f] = Saved(step, @, found.ray)]
  BY DEF SetUp
<1>2. /\ todo # <<>> /\ todo' = Tail(todo) /\ step.op = "set_up"
      /\ step.field = f /\ step.wvl = w
      /\ UNCHANGED <<vig_type, pupil, parax, vig, captured, pass, stages>>
  BY DEF SetUp, inputs, opening
<1>3. step = todo[1] /\ 1 \in DOMAIN todo
  BY <1>2, StepTaken
<1>4. /\ found.ray \in Chiefs
      /\ chief[f] # NoChief => found.aim = aim[f]
  BY ChiefRayOfWavelength
<1>5. /\ aim \in [Fields -> Aims] /\ chief \in [Fields -> MaybeChiefs]
      /\ \A g \in Fields : aim[g] \in {NoAim, Central}
  BY DEF IInv, ShapeOK, OpeningOK, AimInv
<1>6. found.ray # NoChief
  <2>1. found.ray.wvl \in Lambdas
    BY <1>4 DEF Chiefs
  <2> QED
    BY <2>1 DEF NoChief, Lambdas
\* Only a field the wavelength is the central one for is aimed anew.
<1>7. found.aim \in {NoAim, Central}
  <2>1. CASE chief[f] # NoChief
    BY <1>4, <1>5, <2>1
  <2>2. CASE chief[f] = NoChief
    <3>1. LedAt(todo, 1)
      BY <1>2, <1>3, <2>2 DEF OpeningOK, TodoInv
    <3>2. w = Central
      BY <1>2, <1>3, <3>1 DEF LedAt
    <3>3. found.aim \in aim_chief_ray(f, w)
      BY <2>2 DEF get_chief_ray_pkg
    <3> QED
      BY <1>5, <3>2, <3>3 DEF aim_chief_ray
  <2> QED
    BY <2>1, <2>2
<1>8. AimInv'
  BY <1>1, <1>5, <1>7 DEF AimInv
<1>9. \A g \in Fields : chief[g] # NoChief \/ KeptCentral(todo[1], g) => chief'[g] # NoChief
  BY <1>1, <1>2, <1>3, <1>5, <1>6 DEF Saved, KeptCentral
<1> HIDE DEF step
<1>10. todo[1].op \in {"set_up", "pupil", "capture"}
  BY <1>2, <1>3
<1> QED
  BY <1>2, <1>8, <1>9, <1>10, ReadingStep

LEMMA ReadOpening ==
  ASSUME OpeningOK, NEW f \in Fields, Pupil(f) \/ Capture
  PROVE  OpeningOK'
<1>1. /\ todo # <<>> /\ todo' = Tail(todo) /\ Head(todo).op \in {"pupil", "capture"}
      /\ UNCHANGED <<vig_type, aim, chief, pupil, parax, vig, pass, stages>>
      /\ \/ captured' = captured
         \/ captured' = [pupil |-> pupil, vig |-> vig] /\ Head(todo).op = "capture"
  BY DEF Pupil, Capture, Doing, inputs, caches, opening
<1>2. todo[1] = Head(todo) /\ 1 \in DOMAIN todo
  BY <1>1, StepTaken
<1>3. Head(todo).op = "capture" => VigFits
  BY <1>2 DEF OpeningOK, TodoInv, Prepares
<1>4. \A g \in Fields : ~KeptCentral(todo[1], g)
  BY <1>1, <1>2 DEF KeptCentral
<1>5. AimInv'
  BY <1>1 DEF OpeningOK, AimInv
<1> QED
  BY <1>1, <1>2, <1>3, <1>4, <1>5, ReadingStep

\* Factors that still fit, or that a later step gives, are promised still.
LEMMA Promised ==
  ASSUME NEW d \in {0, 1}, RestOf(todo, todo', d), VigDone => \A f \in Fields :
           \/ Fits(vig[f], pupil)' \/ \E i \in DOMAIN todo : i # 1 /\ GivesFactors(todo[i], f)
  PROVE  VigDone => VigDone'
<1> SUFFICES ASSUME VigDone, NEW f \in Fields
             PROVE  Fits(vig[f], pupil)' \/ \E i \in DOMAIN todo' : GivesFactors(todo'[i], f)
  BY DEF VigDone
<1> PICK u : u = todo'
  OBVIOUS
<1>1. CASE Fits(vig[f], pupil)'
  BY <1>1
<1>2. CASE \E i \in DOMAIN todo : i # 1 /\ GivesFactors(todo[i], f)
  <2>1. PICK i \in DOMAIN todo : i # 1 /\ GivesFactors(todo[i], f)
    BY <1>2
  <2>2. i - 1 + d \in DOMAIN u /\ u[i - 1 + d] = todo[i]
    BY <2>1 DEF RestOf
  <2> QED
    BY <2>1, <2>2
<1> QED
  BY <1>1, <1>2

LEMMA FactorsOpening ==
  ASSUME ValuesOK, OpeningOK, NEW f \in Fields,
         CalcVignetting(f) \/ ParaxialVignetting \/ StampVignetting
  PROVE  OpeningOK'
<1>1. /\ todo # <<>> /\ todo' = Tail(todo)
      /\ Head(todo).op \in {"vignetting", "paraxial_vignetting", "stamp_vignetting"}
      /\ UNCHANGED <<vig_type, aim, captured, pupil, parax, pass, stages>>
  BY DEF CalcVignetting, ParaxialVignetting, StampVignetting, Doing, inputs, caches
<1>2. /\ RestOf(todo, todo', 0) /\ todo[1] = Head(todo) /\ 1 \in DOMAIN todo /\ parax = pupil
      /\ VigDone => \A g \in Fields :
           Fits(vig[g], pupil) \/ \E i \in DOMAIN todo : GivesFactors(todo[i], g)
  BY <1>1, StepTaken
<1>3. vig \in [Fields -> Values]
  BY DEF ValuesOK
<1>4. VigDone => \A g \in Fields :
        \/ Fits(vig[g], pupil)' \/ \E i \in DOMAIN todo : i # 1 /\ GivesFactors(todo[i], g)
  <2> SUFFICES ASSUME VigDone, NEW g \in Fields,
                      \A i \in DOMAIN todo : i # 1 => ~GivesFactors(todo[i], g)
               PROVE  Fits(vig[g], pupil)'
    OBVIOUS
  <2>1. Fits(vig[g], pupil) \/ GivesFactors(todo[1], g)
    BY <1>2
  <2>2. CASE CalcVignetting(f)
    <3>1. vig' = [vig EXCEPT ![f] = parax] /\ todo[1].field = f /\ todo[1].op = "vignetting"
      BY <1>2, <2>2 DEF CalcVignetting, Doing
    <3> QED
      BY <1>1, <1>2, <1>3, <2>1, <3>1 DEF Fits, GivesFactors
  <2>3. CASE ParaxialVignetting
    <3>1. todo[1].op = "paraxial_vignetting" /\ (vig'[g] = parax \/ vig'[g] = vig[g])
      BY <1>2, <2>3 DEF ParaxialVignetting, Doing
    <3> QED
      BY <1>1, <1>2, <2>1, <3>1 DEF Fits, GivesFactors
  <2>4. CASE StampVignetting
    <3>1. vig' = captured.vig /\ todo[1].op = "stamp_vignetting"
      BY <1>2, <2>4 DEF StampVignetting, Doing
    <3>2. ~StampedBefore(todo, 1)
      BY DEF StampedBefore
    <3>3. pupil = captured.pupil
      BY <1>2, <3>1, <3>2 DEF OpeningOK, StampInv
    <3> QED
      BY <1>1, <3>1, <3>3 DEF OpeningOK, StampInv, Fits
  <2> QED
    BY <2>2, <2>3, <2>4
<1>5. VigDone => VigDone'
  BY <1>2, <1>4, Promised
<1>6. AimInv'
  BY <1>1 DEF OpeningOK, AimInv
<1>7. parax' = pupil' /\ pupil' = pupil
  BY <1>1, <1>2
<1> QED
  BY <1>1, <1>2, <1>5, <1>6, <1>7, PreparingStep

LEMMA ClearOpening ==
  ASSUME ValuesOK, OpeningOK, NEW f \in Fields, ClearVignetting(f)
  PROVE  OpeningOK'
<1>1. /\ todo # <<>> /\ todo' = Tail(todo)
      /\ Head(todo).op = "clear_vignetting" /\ Head(todo).field = f
      /\ vig' = [vig EXCEPT ![f] = NoPupil]
      /\ UNCHANGED <<vig_type, aim, captured, pupil, parax, pass, stages>>
  BY DEF ClearVignetting, Doing, inputs, caches
<1>2. /\ RestOf(todo, todo', 0) /\ todo[1] = Head(todo) /\ 1 \in DOMAIN todo
      /\ parax = pupil /\ RenewsAt(todo, 1)
      /\ VigDone => \A g \in Fields :
           Fits(vig[g], pupil) \/ \E i \in DOMAIN todo : GivesFactors(todo[i], g)
  BY <1>1, StepTaken
<1>3. vig \in [Fields -> Values]
  BY DEF ValuesOK
<1>4. VigDone => \A g \in Fields :
        \/ Fits(vig[g], pupil)' \/ \E i \in DOMAIN todo : i # 1 /\ GivesFactors(todo[i], g)
  <2> SUFFICES ASSUME VigDone, NEW g \in Fields
               PROVE  \/ Fits(vig[g], pupil)'
                      \/ \E i \in DOMAIN todo : i # 1 /\ GivesFactors(todo[i], g)
    OBVIOUS
  <2>1. CASE g = f
    BY <1>1, <1>2, <2>1 DEF RenewsAt, GivesFactors
  <2>2. CASE g # f
    <3>1. vig'[g] = vig[g]
      BY <1>1, <1>3, <2>2
    <3>2. ~GivesFactors(todo[1], g)
      BY <1>1, <1>2 DEF GivesFactors
    <3> QED
      BY <1>1, <1>2, <3>1, <3>2 DEF Fits
  <2> QED
    BY <2>1, <2>2
<1>5. VigDone => VigDone'
  BY <1>2, <1>4, Promised
<1>6. AimInv'
  BY <1>1 DEF OpeningOK, AimInv
<1> QED
  BY <1>1, <1>2, <1>5, <1>6, PreparingStep

\* A pupil value set is followed by the update it needs, and by new factors.
LEMMA PupilOpening ==
  ASSUME OpeningOK, SetPupil \/ StampPupil
  PROVE  OpeningOK'
<1>1. /\ todo # <<>> /\ Head(todo).op \in {"set_pupil", "stamp_pupil"}
      /\ UNCHANGED <<vig_type, aim, vig, captured, parax, pass, stages>>
      /\ todo' = (IF pupil' # pupil THEN <<UpdateStep>> ELSE <<>>) \o Tail(todo)
      /\ Head(todo).op = "stamp_pupil" => pupil' = captured.pupil
  BY DEF SetPupil, StampPupil, Doing, DoneSettingPupil, inputs, caches
<1>2. /\ RestOf(todo, Tail(todo), 0) /\ RestOf(todo, <<UpdateStep>> \o Tail(todo), 1)
      /\ Head(<<UpdateStep>> \o Tail(todo)) = UpdateStep
      /\ <<UpdateStep>> \o Tail(todo) # <<>>
      /\ todo[1] = Head(todo) /\ 1 \in DOMAIN todo /\ RenewsAt(todo, 1)
      /\ todo[1].op # "update" => parax = pupil
  BY <1>1, StepTaken
<1>3. parax = pupil
  BY <1>1, <1>2
<1>4. \A g \in Fields : \E i \in DOMAIN todo : i # 1 /\ GivesFactors(todo[i], g)
  BY <1>1, <1>2 DEF RenewsAt, GivesFactors
<1>5. AimInv'
  BY <1>1 DEF OpeningOK, AimInv
<1>6. CASE pupil' # pupil
  <2>1. todo' = <<UpdateStep>> \o Tail(todo)
    BY <1>1, <1>6
  <2>2. RestOf(todo, todo', 1) /\ todo' # <<>> /\ Head(todo').op = "update"
    BY <1>2, <2>1 DEF UpdateStep, Step
  <2>3. VigDone => VigDone'
    BY <1>4, <2>2, Promised
  <2> QED
    BY <1>1, <1>2, <1>5, <2>2, <2>3, PreparingStep
<1>7. CASE pupil' = pupil
  <2>1. todo' = Tail(todo)
    <3>1. <<>> \in Seq(StepSet) /\ Tail(todo) \in Seq(StepSet)
      BY <1>2 DEF RestOf
    <3>2. <<>> \o Tail(todo) = Tail(todo)
      BY <3>1, ConcatEmptySeq
    <3> QED
      BY <1>1, <1>7, <3>2
  <2>2. RestOf(todo, todo', 0) /\ parax' = pupil'
    BY <1>1, <1>2, <1>3, <1>7, <2>1
  <2>3. VigDone => VigDone'
    BY <1>4, <2>2, Promised
  <2> QED
    BY <1>1, <1>2, <1>5, <2>2, <2>3, PreparingStep
<1> QED
  BY <1>6, <1>7

LEMMA UpdateOpening ==
  ASSUME OpeningOK, Update
  PROVE  OpeningOK'
<1>1. /\ todo # <<>> /\ todo' = Tail(todo) /\ Head(todo).op = "update"
      /\ aim' = [f \in Fields |-> Aimed(f)] /\ parax' = pupil
      /\ UNCHANGED <<vig_type, vig, captured, pupil, pass, stages>>
  BY DEF Update, Doing, inputs
<1>2. /\ RestOf(todo, todo', 0) /\ todo[1] = Head(todo) /\ 1 \in DOMAIN todo
      /\ VigDone => \A g \in Fields :
           Fits(vig[g], pupil) \/ \E i \in DOMAIN todo : GivesFactors(todo[i], g)
  BY <1>1, StepTaken
<1>3. \A g \in Fields : ~GivesFactors(todo[1], g)
  BY <1>1, <1>2 DEF GivesFactors
<1>4. VigDone => \A g \in Fields :
        \/ Fits(vig[g], pupil)' \/ \E i \in DOMAIN todo : i # 1 /\ GivesFactors(todo[i], g)
  BY <1>1, <1>2, <1>3 DEF Fits
<1>5. VigDone => VigDone'
  BY <1>2, <1>4, Promised
<1>6. AimInv'
  BY <1>1 DEF AimInv, Aimed
<1>7. parax' = pupil' /\ pupil' = pupil
  BY <1>1
<1> QED
  BY <1>1, <1>2, <1>5, <1>6, <1>7, PreparingStep

\* The new model of a trial's design: its update and the captured factors come
\* in the same pass.
LEMMA NewModelOpening ==
  ASSUME OpeningOK, NewModel
  PROVE  OpeningOK'
<1>1. /\ todo # <<>> /\ todo' = Tail(todo) /\ Head(todo).op = "new_model"
      /\ aim' = [f \in Fields |-> NoAim]
      /\ UNCHANGED <<vig_type, captured, pass, stages>>
  BY DEF NewModel, Doing, inputs
<1>2. /\ RestOf(todo, todo', 0) /\ todo[1] = Head(todo) /\ 1 \in DOMAIN todo
      /\ RenewsAt(todo, 1)
  BY <1>1, StepTaken
<1>3. \A g \in Fields : \E i \in DOMAIN todo : i # 1 /\ GivesFactors(todo[i], g)
  BY <1>1, <1>2 DEF RenewsAt, GivesFactors
<1>4. VigDone => VigDone'
  BY <1>2, <1>3, Promised
<1>5. todo' # <<>> /\ Head(todo').op = "update"
  <2> PICK u : u = todo'
    OBVIOUS
  <2>1. 1 + 1 \in DOMAIN todo /\ todo[1 + 1].op = "update"
    BY <1>1, <1>2 DEF RenewsAt
  <2>2. 1 + 1 - 1 + 0 = 1 /\ 1 + 1 # 1
    OBVIOUS
  <2>3. 1 \in DOMAIN u /\ u[1] = todo[1 + 1] /\ u \in Seq(StepSet)
    BY <1>2, <2>1, <2>2 DEF RestOf
  <2>4. u # <<>>
    BY <2>3
  <2>5. Head(u) = u[1]
    BY <2>3, <2>4
  <2> QED
    BY <2>1, <2>3, <2>4, <2>5
<1>6. AimInv'
  BY <1>1 DEF AimInv
<1> QED
  BY <1>1, <1>2, <1>4, <1>5, <1>6, PreparingStep

-----------------------------------------------------------------------------
(* Between the passes.                                                     *)

\* A stage fewer: what promised the chief rays is settled or still to come.
LEMMA StagesShift ==
  ASSUME OpeningOK, todo = <<>>, stages # <<>>, stages' = Tail(stages),
         chief' = chief, Head(stages).name \in Analyses => ReadsOnly(todo'),
         Head(stages).name = "spot" /\ ~Head(stages).optional => Settled'
  PROVE  \A k \in DOMAIN stages' : stages'[k].name \in NeedChiefs =>
           \/ Settled' /\ \A i \in 1 .. k : stages'[i].name \in Analyses
           \/ SpotBefore(stages', k)
<1> PICK s : s = stages
  OBVIOUS
<1> PICK r : r = Tail(s)
  OBVIOUS
<1>1. /\ Len(s) \in Nat \ {0} /\ DOMAIN s = 1 .. Len(s) /\ Head(s) = s[1]
      /\ r \in Seq(Stages) /\ DOMAIN r = 1 .. Len(s) - 1
      /\ \A i \in DOMAIN r : i + 1 \in DOMAIN s /\ r[i] = s[i + 1]
  BY TailOf DEF OpeningOK, StageInv
<1> SUFFICES ASSUME NEW k \in DOMAIN r, r[k].name \in NeedChiefs
             PROVE  \/ Settled' /\ \A i \in 1 .. k : r[i].name \in Analyses
                    \/ SpotBefore(r, k)
  OBVIOUS
<1>2. k + 1 \in DOMAIN s /\ r[k] = s[k + 1] /\ k \in Int
  BY <1>1
<1>3. ASSUME NEW i \in 1 .. k PROVE r[i] = s[i + 1] /\ i + 1 \in 2 .. k + 1
  BY <1>1, <1>2
<1>4. CASE Settled /\ \A i \in 1 .. k + 1 : s[i].name \in Analyses
  <2>1. \A f \in Fields : chief[f] # NoChief
    BY <1>4 DEF Settled
  <2>2. Settled'
    <3>1. 1 \in 1 .. k + 1
      BY <1>2, <1>1
    <3> QED
      BY <1>1, <1>4, <2>1, <3>1 DEF Settled
  <2>3. \A i \in 1 .. k : r[i].name \in Analyses
    BY <1>2, <1>3, <1>4
  <2> QED
    BY <2>2, <2>3
<1>5. CASE SpotBefore(s, k + 1)
  <2>1. PICK j \in 1 .. (k + 1) - 1 :
          /\ s[j].name = "spot" /\ ~s[j].optional
          /\ \A i \in j .. k + 1 : s[i].name \in Analyses
    BY <1>5 DEF SpotBefore
  <2>2. CASE j = 1
    <3>1. Settled'
      BY <1>1, <2>1, <2>2
    <3>2. \A i \in 1 .. k : r[i].name \in Analyses
      BY <1>2, <1>3, <2>1, <2>2
    <3> QED
      BY <3>1, <3>2
  <2>3. CASE j # 1
    <3> DEFINE n == j - 1
    <3>1. n \in 1 .. k - 1 /\ n \in 1 .. k /\ n + 1 = j
      BY <1>2, <2>1, <2>3
    <3>2. r[n] = s[j]
      BY <1>3, <3>1
    <3>3. ASSUME NEW i \in n .. k PROVE r[i].name \in Analyses
      <4>1. i \in 1 .. k /\ i + 1 \in j .. k + 1
        BY <1>2, <3>1
      <4> QED
        BY <1>3, <2>1, <4>1
    <3> HIDE DEF n
    <3> QED
      BY <2>1, <3>1, <3>2, <3>3 DEF SpotBefore
  <2> QED
    BY <2>2, <2>3
<1> QED
  BY <1>2, <1>4, <1>5 DEF OpeningOK, StageInv

LEMMA BeginOpening ==
  ASSUME OpeningOK, Begin
  PROVE  OpeningOK'
<1> PICK t : t = todo'
  OBVIOUS
<1> PICK name : name = Head(stages).name
  OBVIOUS
<1>1. /\ todo = <<>> /\ stages # <<>> /\ pass' = name /\ stages' = Tail(stages)
      /\ t \in Passes(name)
      /\ UNCHANGED <<vig_type, aim, chief, pupil, parax, vig, captured>>
  BY DEF Begin, inputs, caches, opening
<1>2. /\ stages \in Seq(Stages) /\ Head(stages) = stages[1] /\ 1 \in DOMAIN stages
      /\ stages[1] \in Stages /\ Tail(stages) \in Seq(Stages)
  BY <1>1, TailOf DEF OpeningOK, StageInv
<1>3. name \in Names
  BY <1>2 DEF Stages
<1>4. /\ t \in Seq(StepSet) /\ Renews(t) /\ Stamped(t)
      /\ name \in Analyses \union {"capture"} => ReadsOnly(t)
      /\ name \in Preparers => Prepares(t)
      /\ name # "diffraction" => Led(t)
      /\ name \in Vignetters => \A f \in Fields : \E i \in DOMAIN t : GivesFactors(t[i], f)
      /\ name = "spot" => \A f \in Fields : \E i \in DOMAIN t : KeptCentral(t[i], f)
  BY <1>1, <1>3, PassFacts DEF PassOK
<1>5. VigDone => VigFits
  BY <1>1 DEF VigDone, VigFits
<1>6. VigPromised => name \in Vignetters
  BY DEF VigPromised
<1>7. VigFits \/ name \in Vignetters
  BY <1>5, <1>6 DEF OpeningOK, OpeningInv
<1>8. (ReadsOnly(t) /\ VigFits) \/ Prepares(t)
  BY <1>3, <1>4, <1>7 DEF Names, Preparers
\* Only the diffraction MTF and the contrast maps need what a spot left.
<1>9. name \in NeedChiefs => AllChiefs
  <2> SUFFICES ASSUME name \in NeedChiefs PROVE AllChiefs
    OBVIOUS
  <2>1. ~SpotBefore(stages, 1)
    BY DEF SpotBefore
  <2>2. Settled
    BY <1>2, <2>1 DEF OpeningOK, StageInv
  <2> QED
    BY <1>1, <2>2 DEF Settled, AllChiefs
<1>10. TodoInv'
  <2>1. (ReadsOnly(todo) /\ VigFits)' \/ Prepares(todo)'
    BY <1>1, <1>8 DEF VigFits, Fits
  <2>2. ASSUME NEW i \in DOMAIN t
        PROVE  LedAt(t, i) \/ \A f \in Fields : t[i].field = f => chief'[f] # NoChief
    <3>1. CASE name # "diffraction"
      BY <1>4, <3>1 DEF Led
    <3>2. CASE name = "diffraction"
      BY <1>1, <1>9, <3>2 DEF NeedChiefs, AllChiefs
    <3> QED
      BY <3>1, <3>2
  <2> QED
    BY <1>4, <2>1, <2>2 DEF TodoInv
<1>11. StampInv'
  <2>1. \A f \in Fields : Fits(captured.vig[f], captured.pupil)'
    BY <1>1 DEF OpeningOK, StampInv, Fits
  <2> QED
    BY <1>4, <2>1 DEF StampInv, Stamped
<1>12. OpeningInv'
  <2>1. parax' = pupil'
    BY <1>1 DEF OpeningOK, OpeningInv
  <2>2. VigDone'
    <3> SUFFICES ASSUME NEW f \in Fields
                 PROVE  Fits(vig[f], pupil)' \/ \E i \in DOMAIN t : GivesFactors(t[i], f)
      BY DEF VigDone
    <3> QED
      BY <1>1, <1>4, <1>7 DEF VigFits, Fits
  <2> QED
    BY <2>1, <2>2 DEF OpeningInv
<1>13. AimInv'
  BY <1>1 DEF OpeningOK, AimInv
<1>14. StageInv'
  <2>1. pass' \in NeedChiefs => AllChiefs' /\ ReadsOnly(t)
    BY <1>1, <1>4, <1>9 DEF NeedChiefs, AllChiefs, Analyses
  <2>2. ASSUME NEW k \in DOMAIN stages', stages'[k].name \in NeedChiefs
        PROVE  \/ Settled' /\ \A i \in 1 .. k : stages'[i].name \in Analyses
               \/ SpotBefore(stages', k)
    <3>1. name = "spot" => Settled'
      BY <1>1, <1>4 DEF Settled, Analyses
    <3>2. name \in Analyses => ReadsOnly(t)
      BY <1>4
    <3> QED
      BY <1>1, <2>2, <3>1, <3>2, StagesShift
  <2> QED
    BY <1>1, <1>2, <2>1, <2>2 DEF StageInv
<1> QED
  BY <1>10, <1>11, <1>12, <1>13, <1>14 DEF OpeningOK

LEMMA SkipOpening ==
  ASSUME OpeningOK, Skip
  PROVE  OpeningOK'
<1>1. /\ todo = <<>> /\ todo' = <<>> /\ stages # <<>> /\ Head(stages).optional
      /\ stages' = Tail(stages)
      /\ UNCHANGED <<vig_type, aim, chief, pupil, parax, vig, captured, pass>>
  BY DEF Skip, inputs, caches, opening
<1>2. stages \in Seq(Stages) /\ Tail(stages) \in Seq(Stages)
  BY <1>1, TailOf DEF OpeningOK, StageInv
<1>3. ReadsOnly(todo')
  BY <1>1 DEF ReadsOnly
<1>4. ~VigPromised
  BY <1>1 DEF VigPromised
<1>5. VigDone /\ VigDone'
  BY <1>1, <1>4 DEF OpeningOK, OpeningInv, VigDone, Fits
<1>6. VigFits'
  BY <1>1, <1>5 DEF VigDone, VigFits
<1>7. TodoInv'
  BY <1>1, <1>3, <1>6 DEF TodoInv, Renews
<1>8. StampInv'
  BY <1>1 DEF OpeningOK, StampInv, Fits
<1>9. OpeningInv'
  BY <1>1, <1>5 DEF OpeningOK, OpeningInv
<1>10. AimInv'
  BY <1>1 DEF OpeningOK, AimInv
<1>11. StageInv'
  BY <1>1, <1>2, <1>3, StagesShift DEF StageInv
<1> QED
  BY <1>7, <1>8, <1>9, <1>10, <1>11 DEF OpeningOK

LEMMA GiveUpOpening ==
  ASSUME OpeningOK, GiveUp
  PROVE  OpeningOK'
<1>1. /\ todo # <<>> /\ todo' = <<>> /\ pass = "map" /\ Head(todo).use = "reference"
      /\ UNCHANGED <<vig_type, aim, chief, pupil, parax, vig, captured, pass, stages>>
  BY DEF GiveUp, inputs, caches, opening
<1>2. /\ Head(todo) = todo[1] /\ 1 \in DOMAIN todo
      /\ todo[1].op # "update" => parax = pupil
  BY <1>1, StepTaken
<1>3. AllChiefs /\ ReadsOnly(todo)
  BY <1>1 DEF OpeningOK, StageInv, NeedChiefs
<1>4. ~Prepares(todo)
  BY <1>1, <1>2 DEF Prepares, SampleUses
<1>5. VigFits /\ VigFits'
  BY <1>1, <1>4 DEF OpeningOK, TodoInv, VigFits, Fits
<1>6. parax = pupil
  BY <1>2, <1>3 DEF ReadsOnly
<1>7. ReadsOnly(todo') /\ Renews(todo') /\ todo' \in Seq(StepSet)
  BY <1>1 DEF ReadsOnly, Renews
<1>8. TodoInv'
  BY <1>1, <1>5, <1>7 DEF TodoInv
<1>9. StampInv'
  BY <1>1 DEF OpeningOK, StampInv, Fits
<1>10. OpeningInv'
  BY <1>1, <1>5, <1>6 DEF OpeningInv, VigDone, VigFits
<1>11. AimInv'
  BY <1>1 DEF OpeningOK, AimInv
<1>12. Settled'
  BY <1>1, <1>3, <1>7 DEF Settled, AllChiefs
<1>13. StageInv'
  BY <1>1, <1>12 DEF OpeningOK, StageInv
<1> QED
  BY <1>8, <1>9, <1>10, <1>11, <1>13 DEF OpeningOK

LEMMA OpeningStep ==
  ASSUME IInv, ValuesOK, OpeningOK, [Next]_vars
  PROVE  OpeningOK'
<1>1. CASE \E f \in Fields, w \in Lambdas : SetUp(f, w)
  BY <1>1, SetUpOpening
<1>2. CASE (\E f \in Fields : Pupil(f)) \/ Capture
  <2>1. 1 \in Fields
    BY StepTypes
  <2> QED
    BY <1>2, <2>1, ReadOpening
<1>3. CASE (\E f \in Fields : CalcVignetting(f)) \/ ParaxialVignetting \/ StampVignetting
  <2>1. 1 \in Fields
    BY StepTypes
  <2> QED
    BY <1>3, <2>1, FactorsOpening
<1>4. CASE \E f \in Fields : ClearVignetting(f)
  BY <1>4, ClearOpening
<1>5. CASE SetPupil \/ StampPupil
  BY <1>5, PupilOpening
<1>6. CASE Update
  BY <1>6, UpdateOpening
<1>7. CASE NewModel
  BY <1>7, NewModelOpening
<1>8. CASE Begin
  BY <1>8, BeginOpening
<1>9. CASE Skip
  BY <1>9, SkipOpening
<1>10. CASE GiveUp
  BY <1>10, GiveUpOpening
<1>11. CASE UNCHANGED vars
  BY <1>11 DEF vars, inputs, caches, opening, OpeningOK, TodoInv, StampInv, OpeningInv,
     AimInv, StageInv, VigFits, VigDone, VigPromised, Fits, AllChiefs, Settled
<1> QED
  BY <1>1, <1>2, <1>3, <1>4, <1>5, <1>6, <1>7, <1>8, <1>9, <1>10, <1>11 DEF Next

-----------------------------------------------------------------------------
(* The programs: what a model is built and analysed with.                  *)

Unneeding == {x \in Stages : x.name \notin NeedChiefs}
Analysing == {x \in Stages : x.name \in Analyses}

LEMMA StageTypes ==
  /\ \A name \in Names : Must(name) \in Stages /\ May(name) \in Stages
  /\ \A name \in Names \ NeedChiefs : Must(name) \in Unneeding /\ May(name) \in Unneeding
  /\ \A name \in Analyses : Must(name) \in Analysing /\ May(name) \in Analysing
<1>1. \A name \in Names : Must(name) \in Stages /\ May(name) \in Stages
  BY DEF Must, May, Stages
<1>2. Analyses \subseteq Names
  BY DEF Names
<1>3. \A name : Must(name).name = name /\ May(name).name = name
  BY DEF Must, May
<1> QED
  BY <1>1, <1>2, <1>3 DEF Unneeding, Analysing

LEMMA BuildFacts ==
  ASSUME NEW v \in DOMAIN build
  PROVE  /\ build[v] \in Seq(Unneeding)
         /\ v \in {"None", "Paraxial"}
            \/ /\ build[v] # <<>>
               /\ build[v][1].name \in Vignetters /\ ~build[v][1].optional
<1> DEFINE a == Must("paraxial")
           b == Must("update")
           c == Must("set_pupil")
           d == Must("set_stop_aperture")
           e == Must("set_vig")
           g == Must("set_ape")
<1>1. /\ build["None"] = <<>>
      /\ build["Paraxial"] = <<a, b>>
      /\ build["SetPupil"] = <<c, b>>
      /\ build["SetStopAperture"] = <<d, b>>
      /\ build["SetApertures"] = <<e, g, b>>
      /\ build["SetFnum"] = <<d, g, b>>
      /\ build["SetVig"] = <<e, b>>
      /\ v \in {"None", "Paraxial", "SetPupil", "SetStopAperture", "SetApertures",
                "SetFnum", "SetVig"}
  BY DEF build
<1>2. {"paraxial", "update", "set_pupil", "set_stop_aperture", "set_vig", "set_ape"}
        \subseteq Names \ NeedChiefs
  BY DEF Names, NeedChiefs, Preparers, Vignetters
<1>3. /\ a \in Unneeding /\ b \in Unneeding /\ c \in Unneeding
      /\ d \in Unneeding /\ e \in Unneeding /\ g \in Unneeding
  BY <1>2, StageTypes
<1>4. /\ c.name \in Vignetters /\ d.name \in Vignetters /\ e.name \in Vignetters
      /\ ~c.optional /\ ~d.optional /\ ~e.optional
  BY DEF Must, Vignetters
<1> HIDE DEF a, b, c, d, e, g
<1>5. /\ <<>> \in Seq(Unneeding) /\ <<a, b>> \in Seq(Unneeding) /\ <<c, b>> \in Seq(Unneeding)
      /\ <<d, b>> \in Seq(Unneeding) /\ <<e, b>> \in Seq(Unneeding)
      /\ <<e, g, b>> \in Seq(Unneeding) /\ <<d, g, b>> \in Seq(Unneeding)
  BY <1>3
<1>6. /\ <<c, b>>[1] = c /\ <<d, b>>[1] = d /\ <<e, b>>[1] = e
      /\ <<e, g, b>>[1] = e /\ <<d, g, b>>[1] = d
      /\ <<c, b>> # <<>> /\ <<d, b>> # <<>> /\ <<e, b>> # <<>>
      /\ <<e, g, b>> # <<>> /\ <<d, g, b>> # <<>>
  OBVIOUS
<1> QED
  BY <1>1, <1>4, <1>5, <1>6

LEMMA ProgramFacts ==
  ASSUME NEW p \in DOMAIN programs
  PROVE  \/ programs[p] \in Seq(Unneeding)
         \/ /\ programs[p] \in Seq(Analysing) /\ programs[p] # <<>>
            /\ programs[p][1] = Must("spot")
<1> DEFINE s == Must("spot")
           m == May("spot")
           u == May("pupil_maps")
           f == May("fan")
           d == May("diffraction")
           r == May("report")
           o == May("map")
           c == May("contrast")
           t == Must("capture")
           z == Must("frozen_model")
<1>1. /\ programs["lens"] = <<s, u, s, f, f, d>>
      /\ programs["weighted"] = <<s, r, o, o, d>>
      /\ programs["trial"] = <<m, f, c, c>>
      /\ programs["frozen"] = <<t, z, m, f, z, m, c>>
      /\ p \in {"lens", "weighted", "trial", "frozen"}
  BY DEF programs
<1>2. /\ {"spot", "pupil_maps", "fan", "diffraction", "report", "map"} \subseteq Analyses
      /\ {"spot", "fan", "contrast", "capture", "frozen_model"} \subseteq Names \ NeedChiefs
  BY DEF Names, Analyses, NeedChiefs, Preparers
<1>3. /\ s \in Analysing /\ u \in Analysing /\ f \in Analysing /\ d \in Analysing
      /\ r \in Analysing /\ o \in Analysing
      /\ m \in Unneeding /\ f \in Unneeding /\ c \in Unneeding /\ t \in Unneeding
      /\ z \in Unneeding
  BY <1>2, StageTypes
<1> HIDE DEF s, m, u, f, d, r, o, c, t, z
<1>4. /\ <<s, u, s, f, f, d>> \in Seq(Analysing) /\ <<s, r, o, o, d>> \in Seq(Analysing)
      /\ <<m, f, c, c>> \in Seq(Unneeding) /\ <<t, z, m, f, z, m, c>> \in Seq(Unneeding)
  BY <1>3
<1>5. /\ <<s, u, s, f, f, d>>[1] = s /\ <<s, r, o, o, d>>[1] = s
      /\ <<s, u, s, f, f, d>> # <<>> /\ <<s, r, o, o, d>> # <<>>
  OBVIOUS
<1> QED
  BY <1>1, <1>4, <1>5 DEF s

\* A map or a diffraction pass comes behind a spot nobody can do without.
LEMMA ProgramsSettle ==
  ASSUME NEW v \in DOMAIN build, NEW s \in Programs(v)
  PROVE  /\ s \in Seq(Stages)
         /\ \A k \in DOMAIN s : s[k].name \in NeedChiefs => SpotBefore(s, k)
         /\ \/ v \in {"None", "Paraxial"}
            \/ s # <<>> /\ Head(s).name \in Vignetters /\ ~Head(s).optional
<1> PICK p \in DOMAIN programs : s = build[v] \o programs[p]
  BY DEF Programs
<1> PICK a : a = build[v]
  OBVIOUS
<1> PICK b : b = programs[p]
  OBVIOUS
<1>1. /\ Unneeding \subseteq Stages /\ Analysing \subseteq Stages
      /\ \A x \in Unneeding : x.name \notin NeedChiefs
      /\ \A x \in Analysing : x.name \in Analyses
  BY DEF Unneeding, Analysing
<1>2. a \in Seq(Unneeding) /\ a \in Seq(Stages)
  BY <1>1, BuildFacts
<1>3. \/ b \in Seq(Unneeding)
      \/ b \in Seq(Analysing) /\ b # <<>> /\ b[1] = Must("spot")
  BY ProgramFacts
<1>4. b \in Seq(Stages)
  BY <1>1, <1>3
<1> DEFINE n == Len(a)
           l == Len(b)
<1>5. /\ s \in Seq(Stages) /\ DOMAIN s = 1 .. n + l /\ n \in Nat /\ l \in Nat
      /\ DOMAIN a = 1 .. n /\ DOMAIN b = 1 .. l
      /\ \A i \in 1 .. n : s[i] = a[i]
      /\ \A i \in 1 .. l : s[n + i] = b[i]
      /\ \A i \in 1 .. n + l : i \in 1 .. n \/ (i - n \in 1 .. l /\ s[i] = b[i - n])
  BY <1>2, <1>4, Joined
<1> HIDE DEF n, l
<1>6. \A i \in DOMAIN a : a[i].name \notin NeedChiefs
  BY <1>1, <1>2
<1>7. ASSUME NEW k \in DOMAIN s, s[k].name \in NeedChiefs
      PROVE  SpotBefore(s, k)
  <2>1. k - n \in 1 .. l /\ s[k] = b[k - n]
    BY <1>5, <1>6, <1>7
  <2>2. b \notin Seq(Unneeding)
    BY <1>1, <1>5, <1>7, <2>1
  <2>3. b \in Seq(Analysing) /\ b[1] = Must("spot")
    BY <1>3, <2>2
  <2>4. s[n + 1] = Must("spot") /\ n + 1 \in DOMAIN s
    BY <1>5, <2>1, <2>3
  <2>5. Must("spot").name = "spot" /\ ~Must("spot").optional /\ "spot" \notin NeedChiefs
    BY DEF Must, NeedChiefs
  <2>6. n + 1 # k
    BY <1>7, <2>4, <2>5
  <2>7. n + 1 \in 1 .. k - 1
    BY <1>5, <2>1, <2>6
  <2>8. ASSUME NEW i \in n + 1 .. k PROVE s[i].name \in Analyses
    <3>1. i - n \in 1 .. l /\ s[i] = b[i - n]
      BY <1>5, <2>1
    <3> QED
      BY <1>1, <1>5, <2>3, <3>1
  <2> QED
    BY <2>4, <2>5, <2>7, <2>8 DEF SpotBefore
<1>8. ASSUME v \notin {"None", "Paraxial"}
      PROVE  s # <<>> /\ Head(s).name \in Vignetters /\ ~Head(s).optional
  <2>1. a # <<>> /\ a[1].name \in Vignetters /\ ~a[1].optional
    BY <1>8, BuildFacts
  <2>2. 1 \in 1 .. n
    BY <1>2, <1>5, <2>1, EmptySeq DEF n
  <2>3. s[1] = a[1] /\ 1 \in DOMAIN s
    BY <1>5, <2>2
  <2>4. s # <<>>
    BY <2>3
  <2>5. Head(s) = s[1]
    BY <1>5, <2>4
  <2> QED
    BY <2>1, <2>3, <2>4, <2>5
<1> QED
  BY <1>5, <1>7, <1>8

LEMMA OpeningInit == Init => ValuesOK /\ OpeningOK
<1> SUFFICES ASSUME Init PROVE ValuesOK /\ OpeningOK
  OBVIOUS
<1>1. /\ todo = <<UpdateStep>> /\ pass = "update" /\ pupil = Quoted /\ parax = NoPupil
      /\ aim = [f \in Fields |-> NoAim] /\ vig = [f \in Fields |-> NoPupil]
      /\ captured = [pupil |-> NoPupil, vig |-> vig]
      /\ vig_type \in DOMAIN build /\ stages \in Programs(vig_type)
  BY DEF Init
<1>2. ValuesOK
  BY <1>1 DEF ValuesOK, Values, Pupils
<1>3. UpdateStep \in StepSet /\ UpdateStep.op = "update" /\ UpdateStep.use = "none"
  BY StepTypes DEF UpdateStep, Step, Ops
<1>4. /\ todo \in Seq(StepSet) /\ \A i \in DOMAIN todo : todo[i] = UpdateStep
      /\ todo # <<>> /\ Head(todo) = UpdateStep
  BY <1>1, <1>3, One
<1>5. TodoInv
  BY <1>3, <1>4 DEF TodoInv, Renews, RenewsAt, Prepares, SampleUses, LedAt
<1>6. StampInv
  BY <1>1, <1>3, <1>4 DEF StampInv, Fits
<1>7. /\ stages \in Seq(Stages)
      /\ \A k \in DOMAIN stages : stages[k].name \in NeedChiefs => SpotBefore(stages, k)
      /\ \/ vig_type \in {"None", "Paraxial"}
         \/ stages # <<>> /\ Head(stages).name \in Vignetters /\ ~Head(stages).optional
  BY <1>1, ProgramsSettle
<1>8. OpeningInv
  BY <1>1, <1>3, <1>4, <1>7 DEF OpeningInv, VigDone, VigPromised, Fits
<1>9. AimInv
  BY <1>1 DEF AimInv
<1>10. StageInv
  BY <1>1, <1>7 DEF StageInv, NeedChiefs
<1> QED
  BY <1>2, <1>5, <1>6, <1>8, <1>9, <1>10 DEF OpeningOK

\* When an analysis samples the pupil, the first order data and every field's
\* vignetting factors are those of the pupil value, and no field is aimed with
\* another wavelength than the central one: VigCalc::set_pupil, the updates of
\* OpticalModel and the order LensTool2 and Analysis run their passes in.
THEOREM SamplesTheorem == Spec => []SamplesFindTheirFields
<1> DEFINE Inv == IInv /\ ValuesOK /\ OpeningOK
<1>1. Init => Inv
  BY InvInit, OpeningInit
<1>2. Inv /\ [Next]_vars => Inv'
  BY InvStep, ValuesStep, OpeningStep
<1>3. Inv => SamplesFindTheirFields
  <2> SUFFICES ASSUME Inv, todo # <<>>, Head(todo).use \in SampleUses
               PROVE  AimsCentral /\ VignettingFollowsPupil
    BY DEF SamplesFindTheirFields, SampleUses
  <2>1. /\ Head(todo) = todo[1] /\ 1 \in DOMAIN todo
        /\ todo[1].op # "update" => parax = pupil
    BY StepTaken
  <2>2. ReadsOnly(todo) /\ VigFits
    BY <2>1 DEF OpeningOK, TodoInv, Prepares
  <2>3. parax = pupil
    BY <2>1, <2>2 DEF ReadsOnly
  <2>4. AimsCentral
    BY DEF OpeningOK, AimInv, AimsCentral
  <2> QED
    BY <2>2, <2>3, <2>4 DEF VigFits, Fits, VignettingFollowsPupil
<1> HIDE DEF Inv
<1> QED
  BY <1>1, <1>2, <1>3, PTL DEF Spec
=============================================================================
