------------------------ MODULE SequentialModelProofs ------------------------
(***************************************************************************)
(* Proofs about the sequential model, for any media, spectra, forward      *)
(* requests, sizes and cache capacity: the lists stay in step, cached paths*)
(* are current and describe the gaps they cross, the path back retraces the*)
(* path out, and the stop follows its surface.  What the recursive         *)
(* functions compute (directions, global positions) none of them needs.    *)
(* And about the ring its paths are kept in, for every Capacity and any    *)
(* sets of keys and values.                                                *)
(***************************************************************************)
EXTENDS SequentialModel, PathCacheClient, SequenceTheorems, WellFoundedInduction, TLAPS

-----------------------------------------------------------------------------
(* Lists.                                                                  *)

(* A function on 1..n is a list of length n.                               *)
LEMMA FunctionIsList ==
  ASSUME NEW n \in Nat, NEW f, f = [i \in 1 .. n |-> f[i]]
  PROVE  IsList(f, n)
  <1>1. DOMAIN f = 1 .. n
    OBVIOUS
  <1>2. \A i \in 1 .. n : f[i] \in Range(f)
    BY <1>1 DEF Range
  <1>3. f \in [1 .. n -> Range(f)]
    BY <1>2
  <1>4. f \in Seq(Range(f))
    BY <1>3, SeqDef
  <1>5. Len(f) = n
    BY <1>1, <1>4, LenProperties
  <1>6. QED BY <1>4, <1>5 DEF IsList

(* Conversely, a list is its own tabulation.                               *)
LEMMA ListIsFunction ==
  ASSUME NEW n \in Nat, NEW s, IsList(s, n)
  PROVE  /\ s \in Seq(Range(s)) /\ Len(s) = n /\ DOMAIN s = 1 .. n
         /\ s = [i \in 1 .. n |-> s[i]]
  <1>1. s \in Seq(Range(s)) /\ Len(s) = n
    BY DEF IsList
  <1>2. s \in [1 .. n -> Range(s)] /\ DOMAIN s = 1 .. n
    BY <1>1, LenProperties
  <1>3. QED BY <1>1, <1>2

LEMMA SeqIsList ==
  ASSUME NEW T, NEW s \in Seq(T)
  PROVE  IsList(s, Len(s)) /\ Len(s) \in Nat
  <1>1. s \in [1 .. Len(s) -> T] /\ Len(s) \in Nat
    BY LenProperties
  <1>2. s = [i \in 1 .. Len(s) |-> s[i]]
    BY <1>1
  <1>3. QED BY <1>1, <1>2, FunctionIsList

(* Splicing an element in makes the list one longer; the elements before   *)
(* it keep their position and those behind it move by one.                 *)
LEMMA InsertAtList ==
  ASSUME NEW n \in Nat, NEW s, IsList(s, n), NEW i \in 1 .. n + 1, NEW e
  PROVE  /\ IsList(InsertAt(s, i, e), n + 1)
         /\ \A j \in 1 .. i - 1 : InsertAt(s, i, e)[j] = s[j]
         /\ InsertAt(s, i, e)[i] = e
         /\ \A j \in i .. n : InsertAt(s, i, e)[j + 1] = s[j]
  <1> DEFINE T == Range(s) \cup {e}
             front == SubSeq(s, 1, i - 1)
             back  == SubSeq(s, i, n)
  <1>1. s \in Seq(T) /\ Len(s) = n /\ \A j \in 1 .. n : s[j] \in T
    <2>1. s \in Seq(Range(s)) /\ Len(s) = n
      BY ListIsFunction
    <2>2. s \in Seq(T)
      BY <2>1, SeqMonotonic
    <2> HIDE DEF T
    <2>3. QED BY <2>1, <2>2, ElementOfSeq
  <1>2. /\ front \in Seq(T) /\ Len(front) = i - 1
        /\ \A j \in 1 .. i - 1 : front[j] = s[j]
    <2> HIDE DEF T
    <2>1. i - 1 \in Int /\ \A j \in 1 .. i - 1 : s[j] \in T
      BY <1>1
    <2>2. /\ front \in Seq(T)
          /\ Len(front) = IF 1 <= i - 1 THEN (i - 1) - 1 + 1 ELSE 0
          /\ \A j \in 1 .. (i - 1) - 1 + 1 : front[j] = s[1 + j - 1]
      BY <2>1, SubSeqProperties
    <2> HIDE DEF front
    <2>3. QED BY <2>2
  <1>3. /\ back \in Seq(T) /\ Len(back) = n + 1 - i
        /\ \A j \in 1 .. n + 1 - i : back[j] = s[i + j - 1]
    <2> HIDE DEF T
    <2>1. \A j \in i .. n : s[j] \in T
      BY <1>1
    <2>2. /\ back \in Seq(T)
          /\ Len(back) = IF i <= n THEN n - i + 1 ELSE 0
          /\ \A j \in 1 .. n - i + 1 : back[j] = s[i + j - 1]
      BY <2>1, SubSeqProperties
    <2> HIDE DEF back
    <2>3. QED BY <2>2
  <1>4. /\ <<e>> \in Seq(T) /\ Len(<<e>>) = 1 /\ <<e>>[1] = e
    OBVIOUS
  <1>5. InsertAt(s, i, e) = (front \o <<e>>) \o back
    BY <1>1 DEF InsertAt
  <1> HIDE DEF T, front, back
  <1>6. /\ front \o <<e>> \in Seq(T) /\ Len(front \o <<e>>) = i
        /\ \A j \in 1 .. i - 1 : (front \o <<e>>)[j] = s[j]
        /\ (front \o <<e>>)[i] = e
    <2>1. /\ front \o <<e>> \in Seq(T) /\ Len(front \o <<e>>) = (i - 1) + 1
          /\ \A j \in 1 .. (i - 1) + 1 : (front \o <<e>>)[j] =
                IF j <= i - 1 THEN front[j] ELSE <<e>>[j - (i - 1)]
      BY <1>2, <1>4, ConcatProperties
    <2>2. i - (i - 1) = 1 /\ ~(i <= i - 1)
      OBVIOUS
    <2>3. (front \o <<e>>)[i] = <<e>>[1]
      BY <2>1, <2>2
    <2>4. QED BY <1>2, <1>4, <2>1, <2>3
  <1> DEFINE r == (front \o <<e>>) \o back
  <1>7. /\ r \in Seq(T) /\ Len(r) = i + (n + 1 - i)
        /\ \A j \in 1 .. i + (n + 1 - i) : r[j] =
              IF j <= i THEN (front \o <<e>>)[j] ELSE back[j - i]
    BY <1>3, <1>6, ConcatProperties
  <1> HIDE DEF r
  <1>8. Len(r) = n + 1 /\ IsList(r, n + 1)
    <2>1. i + (n + 1 - i) = n + 1
      OBVIOUS
    <2>2. QED BY <1>7, <2>1, SeqIsList
  <1>9. ASSUME NEW j \in i .. n PROVE r[j + 1] = s[j]
    <2>1. j + 1 \in 1 .. i + (n + 1 - i) /\ ~(j + 1 <= i)
      OBVIOUS
    <2>2. r[j + 1] = back[j + 1 - i]
      BY <2>1, <1>7
    <2>3. j + 1 - i \in 1 .. n + 1 - i /\ i + (j + 1 - i) - 1 = j
      OBVIOUS
    <2>4. QED BY <2>2, <2>3, <1>3
  <1>10. r[i] = e /\ \A j \in 1 .. i - 1 : r[j] = s[j]
    BY <1>6, <1>7
  <1>11. QED
    BY <1>5, <1>8, <1>9, <1>10 DEF r

LEMMA MaxOfTwo ==
  ASSUME NEW a \in Int, NEW b \in Int
  PROVE  Max({a, b}) = IF a >= b THEN a ELSE b
  <1>1. \E x \in {a, b} : \A y \in {a, b} : x >= y
    OBVIOUS
  <1>2. Max({a, b}) \in {a, b} /\ \A y \in {a, b} : Max({a, b}) >= y
    BY <1>1 DEF Max
  <1>3. QED BY <1>2

LEMMA MinOfTwo ==
  ASSUME NEW a \in Int, NEW b \in Int
  PROVE  Min({a, b}) = IF a <= b THEN a ELSE b
  <1>1. \E x \in {a, b} : \A y \in {a, b} : x <= y
    OBVIOUS
  <1>2. Min({a, b}) \in {a, b} /\ \A y \in {a, b} : Min({a, b}) <= y
    BY <1>1 DEF Min
  <1>3. QED BY <1>2

(* The lists update_model() and scaling build have the right lengths.      *)
LEMMA DerivedLists ==
  ASSUME NEW n \in Nat, NEW gs, Len(gs) = n
  PROVE  /\ \A wvls : IsList(RefIndices(gs, wvls), n)
         /\ IsList(LocalTfrms(gs), n + 1) /\ IsList(GlobalTfrms(gs), n + 1)
         /\ \A is, first : IsList(Directions(is, first, n), n)
  <1>1. \A wvls : IsList(RefIndices(gs, wvls), n)
    <2> SUFFICES ASSUME NEW wvls PROVE IsList(RefIndices(gs, wvls), n)
      OBVIOUS
    <2> DEFINE f == RefIndices(gs, wvls)
    <2>1. f = [i \in 1 .. n |-> f[i]]
      BY DEF RefIndices
    <2> HIDE DEF f
    <2>2. QED BY <2>1, FunctionIsList DEF f
  <1>2. IsList(LocalTfrms(gs), n + 1)
    <2> DEFINE f == LocalTfrms(gs)
    <2>1. f = [i \in 1 .. n + 1 |-> f[i]]
      BY DEF LocalTfrms
    <2> HIDE DEF f
    <2>2. QED BY <2>1, FunctionIsList DEF f
  <1>3. IsList(GlobalTfrms(gs), n + 1)
    <2> DEFINE f == GlobalTfrms(gs)
    <2>1. f = [i \in 1 .. n + 1 |-> f[i]]
      BY DEF GlobalTfrms
    <2> HIDE DEF f
    <2>2. QED BY <2>1, FunctionIsList DEF f
  <1>4. \A is, first : IsList(Directions(is, first, n), n)
    <2> SUFFICES ASSUME NEW is, NEW first PROVE IsList(Directions(is, first, n), n)
      OBVIOUS
    <2> DEFINE f == Directions(is, first, n)
    <2>1. f = [i \in 1 .. n |-> f[i]]
      BY DEF Directions
    <2> HIDE DEF f
    <2>2. QED BY <2>1, FunctionIsList DEF f
  <1>5. QED BY <1>1, <1>2, <1>3, <1>4

-----------------------------------------------------------------------------
(* The parts of the type invariant that actions leave alone together.      *)

CacheOK ==
    /\ IsList(entries_, Len(entries_))
    /\ Len(entries_) \in 0 .. Capacity
    /\ next_ \in 0 .. Capacity - 1

ListsOK ==
    /\ NumIfcs \in Nat \ {0, 1}
    /\ IsList(ifcs, NumIfcs)
    /\ IsList(lcl_tfrms, NumIfcs) /\ IsList(gbl_tfrms, NumIfcs)
    /\ IsList(gaps, NumIfcs - 1)
    /\ IsList(z_dir, NumIfcs - 1) /\ IsList(rndx, NumIfcs - 1)

IndicesOK ==
    /\ cur_surface \in 0 .. NumIfcs - 2
    /\ stop_surface \in {Null} \cup 1 .. NumIfcs - 1

RestOK == osp \in WvlSpecs /\ edited \in BOOLEAN /\ rescaled \in BOOLEAN

LEMMA TypeParts == TypeOK <=> CacheOK /\ ListsOK /\ IndicesOK /\ RestOK
  BY DEF TypeOK, CacheOK, ListsOK, IndicesOK, RestOK

LEMMA TypePartsNext == TypeOK' <=> CacheOK' /\ ListsOK' /\ IndicesOK' /\ RestOK'
  BY DEF TypeOK, CacheOK, ListsOK, IndicesOK, RestOK

LEMMA ClearOK ==
  ASSUME Clear
  PROVE  CacheOK' /\ entries_' = << >>
  <1>1. entries_' = << >> /\ next_' = 0
    BY DEF Clear
  <1>2. << >> \in Seq({}) /\ Len(<< >>) = 0
    BY EmptySeq
  <1>3. IsList(<< >>, Len(<< >>))
    BY <1>2, SeqIsList
  <1>4. QED BY <1>1, <1>2, <1>3, CapacityAssumption DEF CacheOK

LEMMA StoreOK ==
  ASSUME CacheOK, NEW k, NEW v, Store(k, v)
  PROVE  /\ CacheOK'
         /\ \A i \in DOMAIN entries_' :
              \/ entries_'[i] = [key |-> k, segs |-> v]
              \/ i \in DOMAIN entries_ /\ entries_'[i] = entries_[i]
  <1> USE CapacityAssumption
  <1> DEFINE e == [key |-> k, segs |-> v]
             T == Range(entries_) \cup {e}
  <1>1. entries_ \in Seq(Range(entries_)) /\ Len(entries_) \in 0 .. Capacity
        /\ next_ \in 0 .. Capacity - 1
    BY DEF CacheOK, IsList
  <1>2. entries_ \in Seq(T) /\ e \in T
    BY <1>1, SeqMonotonic
  <1>3. DOMAIN entries_ = 1 .. Len(entries_) /\ Len(entries_) \in Nat
    BY <1>1, LenProperties
  <1>4. CASE Full
    <2>1. next_ + 1 \in 1 .. Len(entries_)
      BY <1>1, <1>4 DEF Full
    <2>2. entries_' = [entries_ EXCEPT ![next_ + 1] = e] /\ next_' = (next_ + 1) % Capacity
      BY <1>4 DEF Store
    <2> HIDE DEF e, T
    <2>3. /\ entries_' \in Seq(T) /\ Len(entries_') = Len(entries_)
          /\ \A i \in 1 .. Len(entries_) :
                entries_'[i] = IF i = next_ + 1 THEN e ELSE entries_[i]
      BY <1>2, <2>1, <2>2, ExceptSeq
    <2>4. next_' \in 0 .. Capacity - 1
      <3>1. next_ + 1 \in Nat
        BY <1>1
      <3>2. \A n \in Nat, c \in Nat \ {0} : n % c \in 0 .. c - 1
        BY Z3
      <3>3. QED BY <2>2, <3>1, <3>2
    <2>5. CacheOK'
      BY <1>1, <2>3, <2>4, SeqIsList DEF CacheOK
    <2>6. DOMAIN entries_' = DOMAIN entries_
      BY <1>3, <2>3, LenProperties
    <2>7. QED BY <1>3, <2>3, <2>5, <2>6 DEF e
  <1>5. CASE ~Full
    <2>1. Len(entries_) < Capacity
      BY <1>3, <1>5 DEF Full
    <2>2. entries_' = Append(entries_, e) /\ next_' = next_
      BY <1>5 DEF Store
    <2> HIDE DEF e, T
    <2>3. /\ entries_' \in Seq(T) /\ Len(entries_') = Len(entries_) + 1
          /\ \A i \in 1 .. Len(entries_) : entries_'[i] = entries_[i]
          /\ entries_'[Len(entries_) + 1] = e
      BY <1>2, <2>2, AppendProperties
    <2>4. Len(entries_') \in 0 .. Capacity
      BY <1>3, <2>1, <2>3
    <2>5. CacheOK'
      BY <1>1, <2>2, <2>3, <2>4, SeqIsList DEF CacheOK
    <2>6. DOMAIN entries_' = 1 .. Len(entries_) + 1
      BY <2>3, LenProperties
    <2>7. QED BY <1>3, <2>3, <2>5, <2>6 DEF e
  <1>6. QED BY <1>4, <1>5

(* Splicing a surface in between object and image.                         *)
LEMMA SpliceOK ==
  ASSUME TypeOK, NEW idx \in 1 .. NumIfcs - 1, NEW mode, NEW medium, NEW thi,
         Splice(idx, mode, medium, thi),
         stop_surface' \in {Null} \cup 1 .. NumIfcs
  PROVE  TypeOK' /\ NumIfcs' = NumIfcs + 1
  <1> PICK n \in Nat \ {0, 1} : n = NumIfcs
    BY DEF TypeOK
  <1> DEFINE ifc  == [id |-> n, mode |-> mode, delta_n |-> 0]
             gap  == [id |-> n, medium |-> medium, thi |-> thi]
             turn == IF mode = "reflect" THEN -1 ELSE 1
             dir  == IF idx > 1 THEN turn * z_dir[idx] ELSE turn
             row  == Row(medium, osp.wavelengths)
  <1>1. /\ IsList(ifcs, n) /\ IsList(lcl_tfrms, n) /\ IsList(gbl_tfrms, n)
        /\ IsList(gaps, n - 1) /\ IsList(z_dir, n - 1) /\ IsList(rndx, n - 1)
        /\ osp \in WvlSpecs
    BY DEF TypeOK
  <1>2. /\ cur_surface' = idx /\ Clear /\ osp' = osp
        /\ edited' = TRUE /\ rescaled' = FALSE
        /\ ifcs' = InsertAt(ifcs, idx + 1, ifc)
        /\ gaps' = InsertAt(gaps, idx + 1, gap)
        /\ z_dir' = InsertAt(z_dir, idx + 1, dir)
        /\ gbl_tfrms' = InsertAt(gbl_tfrms, idx + 1, 0)
        /\ lcl_tfrms' = InsertAt(lcl_tfrms, idx + 1, 0)
        /\ rndx' = InsertAt(rndx, idx + 1, row)
    BY DEF Splice
  <1> HIDE DEF ifc, gap, dir, row
  <1>3. /\ idx + 1 \in 1 .. n + 1 /\ idx + 1 \in 1 .. (n - 1) + 1
        /\ n - 1 \in Nat /\ (n - 1) + 1 = n
    OBVIOUS
  <1>4. /\ IsList(ifcs', n + 1) /\ IsList(gbl_tfrms', n + 1) /\ IsList(lcl_tfrms', n + 1)
    BY <1>1, <1>2, <1>3, InsertAtList
  <1>5. /\ IsList(gaps', n) /\ IsList(z_dir', n) /\ IsList(rndx', n)
    <2>1. IsList(gaps', (n - 1) + 1)
      BY <1>1, <1>2, <1>3, InsertAtList
    <2>2. IsList(z_dir', (n - 1) + 1)
      BY <1>1, <1>2, <1>3, InsertAtList
    <2>3. IsList(rndx', (n - 1) + 1)
      BY <1>1, <1>2, <1>3, InsertAtList
    <2>4. QED BY <2>1, <2>2, <2>3, <1>3
  <1>6. NumIfcs' = n + 1
    BY <1>4 DEF NumIfcs, IsList
  <1>7. ListsOK'
    <2>1. n + 1 \in Nat \ {0, 1} /\ (n + 1) - 1 = n
      OBVIOUS
    <2>2. QED BY <1>4, <1>5, <1>6, <2>1 DEF ListsOK
  <1>8. IndicesOK'
    <2>1. idx \in 0 .. (n + 1) - 2 /\ (n + 1) - 1 = n
      OBVIOUS
    <2>2. QED BY <1>2, <1>6, <2>1 DEF IndicesOK
  <1>9. CacheOK'
    BY <1>2, ClearOK
  <1>10. RestOK'
    BY <1>1, <1>2 DEF RestOK
  <1>11. QED
    BY <1>6, <1>7, <1>8, <1>9, <1>10, TypePartsNext

LEMMA AddSurfaceOK ==
  ASSUME TypeOK, NEW mode, NEW medium, NEW thi, AddSurface(mode, medium, thi)
  PROVE  TypeOK' /\ NumIfcs' = NumIfcs + 1
  <1>1. cur_surface + 1 \in 1 .. NumIfcs - 1
    BY DEF TypeOK
  <1>2. stop_surface' \in {Null} \cup 1 .. NumIfcs
    BY DEF TypeOK, AddSurface, ShiftedStop
  <1>3. PICK m : Splice(cur_surface + 1, mode, m, thi)
    BY DEF AddSurface
  <1>4. QED BY <1>1, <1>2, <1>3, SpliceOK

LEMMA InsertSurfaceOK ==
  ASSUME TypeOK, NEW idx \in 1 .. NumIfcs - 1, NEW mode, NEW medium, NEW thi,
         InsertSurface(idx, mode, medium, thi)
  PROVE  TypeOK'
  <1>1. stop_surface' \in {Null} \cup 1 .. NumIfcs
    BY DEF TypeOK, InsertSurface
  <1>2. QED BY <1>1, SpliceOK DEF InsertSurface

LEMMA SetStopOK ==
  ASSUME TypeOK, NEW idx \in 0 .. NumIfcs - 1, SetStop(idx)
  PROVE  TypeOK'
  <1>1. NumIfcs \in Nat \ {0, 1}
    BY DEF TypeOK
  <1>2. Max({idx, 1}) \in 1 .. NumIfcs - 1
    BY <1>1, MaxOfTwo
  <1>3. stop_surface' \in {Null} \cup 1 .. NumIfcs - 1
    BY <1>2 DEF SetStop
  <1>4. UNCHANGED <<entries_, next_, ifcs, gaps, z_dir, rndx, lcl_tfrms, gbl_tfrms,
                    osp, cur_surface, edited, rescaled>>
    BY DEF SetStop, cacheVars, modelVars
  <1>5. QED BY <1>3, <1>4 DEF TypeOK, NumIfcs

LEMMA SetCurSurfaceOK ==
  ASSUME TypeOK, NEW s \in 0 .. NumIfcs - 2, SetCurSurface(s)
  PROVE  TypeOK'
  BY DEF TypeOK, NumIfcs, SetCurSurface, cacheVars, modelVars

LEMMA EditGapOK ==
  ASSUME TypeOK, NEW i \in DOMAIN gaps, NEW thi, EditGap(i, thi)
  PROVE  TypeOK'
  <1> PICK n \in Nat : n = NumIfcs - 1
    BY DEF TypeOK
  <1>1. gaps = [j \in 1 .. n |-> gaps[j]]
    BY ListIsFunction DEF TypeOK
  <1>2. gaps' = [gaps EXCEPT ![i].thi = thi]
    BY DEF EditGap
  <1>3. gaps' = [j \in 1 .. n |-> gaps'[j]]
    BY <1>1, <1>2
  <1>4. IsList(gaps', n)
    BY <1>3, FunctionIsList
  <1>5. UNCHANGED <<entries_, next_, osp, ifcs, z_dir, rndx, lcl_tfrms, gbl_tfrms,
                    cur_surface, stop_surface, rescaled>> /\ edited' = TRUE
    BY DEF EditGap, cacheVars
  <1>6. QED BY <1>4, <1>5 DEF TypeOK, NumIfcs

LEMMA InstallWvlsOK ==
  ASSUME TypeOK, NEW spec \in WvlSpecs, InstallWvls(spec)
  PROVE  TypeOK'
  BY DEF TypeOK, NumIfcs, InstallWvls, cacheVars, modelVars

LEMMA UpdateModelOK ==
  ASSUME TypeOK, UpdateModel
  PROVE  TypeOK'
  <1> PICK n \in Nat \ {0, 1} : n = NumIfcs
    BY DEF TypeOK
  <1>1. Len(gaps) = n - 1 /\ n - 1 \in Nat /\ (n - 1) + 1 = n
    BY DEF TypeOK, IsList
  <1>2. /\ rndx' = RefIndices(gaps, osp.wavelengths)
        /\ z_dir' = Directions(ifcs, z_dir[1], n - 1)
        /\ gbl_tfrms' = GlobalTfrms(gaps) /\ lcl_tfrms' = LocalTfrms(gaps)
    BY <1>1 DEF UpdateModel
  <1>3. /\ IsList(rndx', n - 1) /\ IsList(z_dir', n - 1)
        /\ IsList(gbl_tfrms', n) /\ IsList(lcl_tfrms', n)
    BY <1>1, <1>2, DerivedLists
  <1>4. IsList(ifcs', n)
    <2>1. ifcs' = [i \in 1 .. n |-> ifcs'[i]]
      BY DEF UpdateModel
    <2>2. QED BY <2>1, FunctionIsList
  <1>5. NumIfcs' = n
    BY <1>4 DEF IsList, NumIfcs
  <1>6. cur_surface' \in 0 .. n - 2
    <2>1. cur_surface \in 0 .. n - 2
      BY DEF TypeOK
    <2>2. Min({cur_surface, n - 1}) = cur_surface
      BY <2>1, MinOfTwo
    <2>3. QED BY <2>1, <2>2 DEF UpdateModel
  <1>7. CacheOK'
    BY ClearOK DEF UpdateModel
  <1>8. /\ IsList(gaps', n - 1) /\ stop_surface' \in {Null} \cup 1 .. n - 1
        /\ osp' \in WvlSpecs /\ edited' \in BOOLEAN /\ rescaled' \in BOOLEAN
    BY DEF UpdateModel, TypeOK
  <1>9. QED
    BY <1>3, <1>4, <1>5, <1>6, <1>7, <1>8, TypePartsNext
       DEF ListsOK, IndicesOK, RestOK

LEMMA ApplyScaleFactorOK ==
  ASSUME TypeOK, NEW factor, NEW surfs, ApplyScaleFactor(factor, surfs)
  PROVE  TypeOK'
  <1> PICK n \in Nat \ {0, 1} : n = NumIfcs
    BY DEF TypeOK
  <1>1. Len(gaps) = n - 1 /\ n - 1 \in Nat /\ (n - 1) + 1 = n
    BY DEF TypeOK, IsList
  <1>2. gaps' = [i \in 1 .. n - 1 |-> gaps'[i]]
    BY <1>1 DEF ApplyScaleFactor
  <1>3. IsList(gaps', n - 1)
    BY <1>1, <1>2, FunctionIsList
  <1>4. gbl_tfrms' = GlobalTfrms(gaps') /\ lcl_tfrms' = LocalTfrms(gaps')
    BY DEF ApplyScaleFactor
  <1>5. IsList(gbl_tfrms', n) /\ IsList(lcl_tfrms', n)
    <2>1. Len(gaps') = n - 1
      BY <1>3 DEF IsList
    <2>2. QED BY <1>1, <1>4, <2>1, DerivedLists
  <1>6. UNCHANGED <<entries_, next_, osp, ifcs, z_dir, rndx, cur_surface,
                    stop_surface, edited>> /\ rescaled' = TRUE
    BY DEF ApplyScaleFactor, cacheVars
  <1>7. QED BY <1>3, <1>5, <1>6 DEF TypeOK, NumIfcs

LEMMA PathOK ==
  ASSUME TypeOK, NEW req, PathHit(req) \/ PathMiss(req) \/ PathThrows(req)
  PROVE  TypeOK'
  <1>1. CASE PathHit(req)
    BY <1>1 DEF TypeOK, PathHit, vars, NumIfcs
  <1>2. CASE PathMiss(req)
    <2>1. Store(req, BuildPath(req))
      BY <1>2 DEF PathMiss
    <2>2. CacheOK'
      BY <2>1, StoreOK, TypeParts
    <2>3. UNCHANGED <<ifcs, gaps, z_dir, rndx, lcl_tfrms, gbl_tfrms, osp,
                      cur_surface, stop_surface, edited, rescaled>>
      BY <1>2 DEF PathMiss, modelVars
    <2>4. QED BY <2>2, <2>3 DEF TypeOK, CacheOK, NumIfcs
  <1>3. CASE PathThrows(req)
    BY <1>3 DEF TypeOK, PathThrows, NumIfcs, cacheVars, modelVars
  <1>4. QED BY <1>1, <1>2, <1>3

LEMMA InitOK == Init => TypeOK
  <1> SUFFICES ASSUME Init PROVE TypeOK
    OBVIOUS
  <1>1. Len(ifcs) = 2 /\ Len(gaps) = 1 /\ IsList(ifcs, 2) /\ IsList(gaps, 1)
        /\ IsList(z_dir, 1)
    <2>1. /\ ifcs \in Seq({ifcs[1], ifcs[2]}) /\ Len(ifcs) = 2
          /\ gaps \in Seq({gaps[1]}) /\ Len(gaps) = 1
          /\ z_dir \in Seq({1}) /\ Len(z_dir) = 1
      BY DEF Init
    <2>2. QED BY <2>1, SeqIsList
  <1>2. IsList(rndx, 1) /\ IsList(lcl_tfrms, 1 + 1) /\ IsList(gbl_tfrms, 1 + 1)
    BY <1>1, DerivedLists DEF Init
  <1>3. CacheOK
    <2>1. << >> \in Seq({}) /\ Len(<< >>) = 0
      BY EmptySeq
    <2>2. IsList(<< >>, Len(<< >>))
      BY <2>1, SeqIsList
    <2>3. QED BY <2>1, <2>2, CapacityAssumption DEF CacheOK, Init, CacheInit
  <1>4. ListsOK
    BY <1>1, <1>2 DEF ListsOK, NumIfcs
  <1>5. IndicesOK /\ RestOK
    <2>1. /\ NumIfcs = 2 /\ cur_surface = 0 /\ stop_surface = Null
          /\ osp = DefaultWvls /\ edited = FALSE /\ rescaled = FALSE
      <3>1. NumIfcs = 2
        BY <1>1 DEF NumIfcs
      <3>2. QED BY <3>1 DEF Init
    <2>2. IndicesOK
      BY <2>1 DEF IndicesOK
    <2>3. RestOK
      BY <2>1, WvlsAssumption DEF RestOK
    <2>4. QED BY <2>2, <2>3
  <1>6. QED BY <1>3, <1>4, <1>5, TypeParts

LEMMA StepOK == TypeOK /\ [Next]_vars => TypeOK'
  <1> SUFFICES ASSUME TypeOK, [Next]_vars PROVE TypeOK'
    OBVIOUS
  <1>1. CASE Edit
    BY <1>1, AddSurfaceOK, InsertSurfaceOK, EditGapOK, InstallWvlsOK,
       ApplyScaleFactorOK DEF Edit
  <1>2. CASE Configure
    BY <1>2, SetStopOK, SetCurSurfaceOK DEF Configure
  <1>3. CASE UpdateModel
    BY <1>3, UpdateModelOK
  <1>4. CASE Path
    BY <1>4, PathOK DEF Path
  <1>5. CASE ReverseTrace
    BY <1>5 DEF TypeOK, ReverseTrace, NumIfcs, cacheVars, modelVars
  <1>6. CASE UNCHANGED vars
    BY <1>6 DEF TypeOK, vars, NumIfcs
  <1>7. QED
    BY <1>1, <1>2, <1>3, <1>4, <1>5, <1>6 DEF Next

(* "N interfaces and N-1 gaps" (SequentialModel.h): insertion at any index, *)
(* editing, updating, scaling and tracing in any order keep the seven      *)
(* parallel lists in step and the insertion point and the stop inside them,*)
(* for any number of interfaces.                                           *)
THEOREM ListsStayInStep == Spec => []TypeOK
  <1>1. QED BY InitOK, StepOK, PTL DEF Spec

-----------------------------------------------------------------------------
(* Cached paths.                                                           *)

(* What a path is built from.                                              *)
pathSources == <<ifcs, gaps, lcl_tfrms, rndx, z_dir, osp>>

LEMMA SamePath ==
  ASSUME UNCHANGED pathSources, NEW req
  PROVE  BuildPath(req)' = BuildPath(req)
  <1>1. /\ ifcs' = ifcs /\ gaps' = gaps /\ lcl_tfrms' = lcl_tfrms /\ rndx' = rndx
        /\ z_dir' = z_dir /\ osp' = osp
    BY DEF pathSources
  <1>2. QED
    BY <1>1 DEF BuildPath, WvlIndex, WvlOf, CentralWvl, NumIfcs

(* A step that changes neither the sources nor the entries, and sets       *)
(* neither history variable back, keeps the cached paths current.          *)
LEMMA KeepsCurrent ==
  ASSUME CachedPathsCurrent, UNCHANGED pathSources, UNCHANGED entries_,
         edited' = edited, rescaled' = rescaled
  PROVE  CachedPathsCurrent'
  <1> SUFFICES ASSUME ~edited, ~rescaled, NEW i \in DOMAIN entries_
               PROVE  Current(entries_[i])'
    BY DEF CachedPathsCurrent
  <1>1. entries_[i].segs = BuildPath(entries_[i].key)
    BY DEF CachedPathsCurrent, Current
  <1>2. \A req : BuildPath(req)' = BuildPath(req)
    BY SamePath
  <1>3. QED
    BY <1>1, <1>2 DEF Current

LEMMA EmptyIsCurrent ==
  ASSUME Clear
  PROVE  CachedPathsCurrent'
  <1>1. entries_' = << >>
    BY DEF Clear
  <1> SUFFICES ASSUME NEW i \in DOMAIN entries_' PROVE FALSE
    BY DEF CachedPathsCurrent
  <1>2. QED BY <1>1

(* A miss stores the path it built; the other entries were current before. *)
LEMMA MissKeepsCurrent ==
  ASSUME TypeOK, CachedPathsCurrent, NEW req, PathMiss(req)
  PROVE  CachedPathsCurrent'
  <1> SUFFICES ASSUME ~edited', ~rescaled', NEW i \in DOMAIN entries_'
               PROVE  (entries_[i].segs = BuildPath(entries_[i].key))'
    BY DEF CachedPathsCurrent, Current
  <1>1. /\ Store(req, BuildPath(req)) /\ UNCHANGED pathSources
        /\ edited' = edited /\ rescaled' = rescaled
    BY DEF PathMiss, modelVars, pathSources
  <1>2. \A r : BuildPath(r)' = BuildPath(r)
    BY <1>1, SamePath
  <1>3. CacheOK
    BY TypeParts
  <1>4. \/ entries_'[i] = [key |-> req, segs |-> BuildPath(req)]
        \/ i \in DOMAIN entries_ /\ entries_'[i] = entries_[i]
    BY <1>1, <1>3, StoreOK
  <1>5. entries_'[i].segs = BuildPath(entries_'[i].key)
    <2>1. CASE entries_'[i] = [key |-> req, segs |-> BuildPath(req)]
      <3> DEFINE p == BuildPath(req)
      <3>1. entries_'[i].key = req /\ entries_'[i].segs = p
        <4> HIDE DEF p
        <4>1. entries_'[i] = [key |-> req, segs |-> p]
          BY <2>1 DEF p
        <4>2. QED BY <4>1
      <3>2. QED BY <3>1
    <2>2. CASE i \in DOMAIN entries_ /\ entries_'[i] = entries_[i]
      <3>1. Current(entries_[i])
        BY <1>1, <2>2 DEF CachedPathsCurrent
      <3>2. entries_[i].segs = BuildPath(entries_[i].key)
        BY <3>1 DEF Current
      <3>3. QED BY <2>2, <3>2
    <2>3. QED BY <1>4, <2>1, <2>2
  <1>6. QED BY <1>2, <1>5

LEMMA StepKeepsCurrent ==
  TypeOK /\ CachedPathsCurrent /\ [Next]_vars => CachedPathsCurrent'
  <1> SUFFICES ASSUME TypeOK, CachedPathsCurrent, [Next]_vars
               PROVE  CachedPathsCurrent'
    OBVIOUS
  <1>1. CASE Edit
    <2>1. ASSUME NEW mode, NEW m, NEW t, AddSurface(mode, m, t) PROVE Clear
      BY <2>1 DEF AddSurface, Splice
    <2>2. ASSUME NEW idx, NEW mode, NEW m, NEW t, InsertSurface(idx, mode, m, t)
          PROVE  Clear
      BY <2>2 DEF InsertSurface, Splice
    <2>3. ASSUME NEW i, NEW t, EditGap(i, t) PROVE CachedPathsCurrent'
      BY <2>3 DEF EditGap, CachedPathsCurrent
    <2>4. ASSUME NEW spec, InstallWvls(spec) PROVE CachedPathsCurrent'
      BY <2>4 DEF InstallWvls, CachedPathsCurrent
    <2>5. ASSUME NEW surfs, ApplyScaleFactor(2, surfs) PROVE CachedPathsCurrent'
      <3>1. rescaled' = TRUE
        BY <2>5 DEF ApplyScaleFactor
      <3>2. QED BY <3>1 DEF CachedPathsCurrent
    <2>6. QED
      BY <1>1, <2>1, <2>2, <2>3, <2>4, <2>5, EmptyIsCurrent DEF Edit
  <1>2. CASE Configure
    <2>1. UNCHANGED pathSources /\ UNCHANGED entries_
          /\ edited' = edited /\ rescaled' = rescaled
      BY <1>2 DEF Configure, SetStop, SetCurSurface, pathSources, cacheVars, modelVars
    <2>2. QED BY <2>1, KeepsCurrent
  <1>3. CASE UpdateModel
    BY <1>3, EmptyIsCurrent DEF UpdateModel
  <1>4. CASE Path
    <2>1. PICK req \in Request : PathHit(req) \/ PathMiss(req) \/ PathThrows(req)
      BY <1>4 DEF Path
    <2>2. CASE PathHit(req) \/ PathThrows(req)
      <3>1. UNCHANGED pathSources /\ UNCHANGED entries_
            /\ edited' = edited /\ rescaled' = rescaled
        BY <2>2 DEF PathHit, PathThrows, pathSources, vars, cacheVars, modelVars
      <3>2. QED BY <3>1, KeepsCurrent
    <2>3. QED BY <2>1, <2>2, MissKeepsCurrent
  <1>5. CASE ReverseTrace \/ UNCHANGED vars
    <2>1. UNCHANGED pathSources /\ UNCHANGED entries_
          /\ edited' = edited /\ rescaled' = rescaled
      BY <1>5 DEF ReverseTrace, pathSources, vars, cacheVars, modelVars
    <2>2. QED BY <2>1, KeepsCurrent
  <1>6. QED
    BY <1>1, <1>2, <1>3, <1>4, <1>5 DEF Next

(* Every writer of the arrays a path copies clears the cache, announces an *)
(* edit, or is apply_scale_factor(): between an update and the next edit   *)
(* or scaling, a cached path is the one a miss would build, for every      *)
(* model, request and capacity.                                            *)
THEOREM PathsStayCurrent == Spec => []CachedPathsCurrent
  <1>1. Init => CachedPathsCurrent
    <2> SUFFICES ASSUME Init PROVE CachedPathsCurrent
      OBVIOUS
    <2>1. DOMAIN entries_ = {}
      BY DEF Init, CacheInit
    <2>2. QED BY <2>1 DEF CachedPathsCurrent
  <1>2. QED
    BY <1>1, StepKeepsCurrent, ListsStayInStep, PTL DEF Spec

-----------------------------------------------------------------------------
(* The stop.                                                               *)

LEMMA AddingMovesStopAlong ==
  ASSUME TypeOK, NEW mode, NEW medium, NEW thi, AddSurface(mode, medium, thi),
         stop_surface # Null, stop_surface < NumIfcs - 2
  PROVE  StopId' = StopId
  <1> PICK n \in Nat \ {0, 1} : n = NumIfcs
    BY DEF TypeOK
  <1> PICK c \in 0 .. n - 2 : c = cur_surface
    BY DEF TypeOK
  <1> PICK s \in 1 .. n - 3 : s = stop_surface
    BY DEF TypeOK
  <1> DEFINE ifc == [id |-> n, mode |-> mode, delta_n |-> 0]
  <1>1. ifcs' = InsertAt(ifcs, c + 2, ifc)
    <2>1. ifcs' = InsertAt(ifcs, (c + 1) + 1, ifc)
      BY DEF AddSurface, Splice
    <2>2. (c + 1) + 1 = c + 2
      OBVIOUS
    <2>3. QED BY <2>1, <2>2
  <1> HIDE DEF ifc
  <1>2. stop_surface' = IF s > c THEN s + 1 ELSE s
    BY DEF AddSurface, ShiftedStop
  <1>3. /\ \A j \in 1 .. (c + 2) - 1 : ifcs'[j] = ifcs[j]
        /\ \A j \in c + 2 .. n : ifcs'[j + 1] = ifcs[j]
    <2>1. IsList(ifcs, n) /\ c + 2 \in 1 .. n + 1
      BY DEF TypeOK
    <2>2. QED BY <1>1, <2>1, InsertAtList
  <1>4. CASE s > c
    <2>1. s + 1 \in c + 2 .. n /\ (s + 1) + 1 = s + 2
      BY <1>4
    <2>2. stop_surface' = s + 1 /\ ifcs'[s + 2] = ifcs[s + 1]
      BY <1>2, <1>3, <1>4, <2>1
    <2>3. s + 1 # Null
      BY NullAssumption
    <2>4. QED BY <2>2, <2>3 DEF StopId
  <1>5. CASE ~(s > c)
    <2>1. s + 1 \in 1 .. (c + 2) - 1
      BY <1>5
    <2>2. stop_surface' = s /\ ifcs'[s + 1] = ifcs[s + 1]
      BY <1>2, <1>3, <1>5, <2>1
    <2>3. s # Null
      BY NullAssumption
    <2>4. QED BY <2>2, <2>3 DEF StopId
  <1>6. QED BY <1>4, <1>5

(* Adding a surface never moves a stop that has another surface between    *)
(* itself and the image to a different interface: insert() shifts the      *)
(* index exactly when the insertion point lies before it.                  *)
THEOREM InnerStopFollows == Spec => AddingKeepsInnerStop
  <1>1. TypeOK /\ [Next]_vars =>
          [\A mode \in Mode, m \in Medium, t \in Thickness :
             AddSurface(mode, m, t) /\ stop_surface # Null
               /\ stop_surface < NumIfcs - 2 => StopId' = StopId]_vars
    BY AddingMovesStopAlong
  <1>2. QED
    BY <1>1, ListsStayInStep, PTL DEF Spec, AddingKeepsInnerStop

-----------------------------------------------------------------------------
(* The slices a path is zipped from.                                       *)

(* A set of naturals has a least one.                                      *)
LEMMA LeastElement ==
  ASSUME NEW T, T \subseteq Nat, T # {}
  PROVE  \E x \in T : \A y \in T : x <= y
  <1> DEFINE Less == {p \in Nat \X Nat : p[1] < p[2]}
  <1>1. IsWellFoundedOn(Less, Nat)
    <2>1. OpToRel(<, Nat) = Less
      BY DEF OpToRel
    <2>2. QED BY <2>1, NatLessThanWellFounded
  <1>2. PICK x \in T : \A y \in T : ~(<<y, x>> \in Less)
    <2> HIDE DEF Less
    <2>1. QED BY <1>1, WFMin
  <1>3. \A y \in T : ~(y < x)
    BY <1>2
  <1>4. QED BY <1>3

(* The column of a wavelength that is listed is one that has it.           *)
LEMMA ColumnOfWavelength ==
  ASSUME osp.wavelengths \in Seq(Range(osp.wavelengths)), NEW w, WvlKnown(w)
  PROVE  WvlIndex(w) \in DOMAIN osp.wavelengths /\ osp.wavelengths[WvlIndex(w)] = w
  <1> DEFINE T == {i \in DOMAIN osp.wavelengths : osp.wavelengths[i] = w}
  <1>1. DOMAIN osp.wavelengths = 1 .. Len(osp.wavelengths) /\ Len(osp.wavelengths) \in Nat
    BY LenProperties
  <1>2. T \subseteq Nat /\ T # {}
    BY <1>1 DEF WvlKnown
  <1>3. PICK x \in T : \A y \in T : x <= y
    BY <1>2, LeastElement
  <1>4. \A j \in 1 .. x - 1 : osp.wavelengths[j] # w
    <2> SUFFICES ASSUME NEW j \in 1 .. x - 1, osp.wavelengths[j] = w PROVE FALSE
      OBVIOUS
    <2>1. x \in 1 .. Len(osp.wavelengths)
      BY <1>1, <1>3
    <2>2. j \in T /\ j < x
      BY <1>1, <2>1
    <2>3. QED BY <1>3, <2>1, <2>2
  <1>5. \E i \in DOMAIN osp.wavelengths :
           /\ osp.wavelengths[i] = w
           /\ \A j \in 1 .. i - 1 : osp.wavelengths[j] # w
    BY <1>3, <1>4
  <1>6. QED BY <1>5 DEF WvlIndex

(* A forward slice starts at the same place of every list and stops short  *)
(* of its end.                                                             *)
First(start) == IF start = Null THEN 0 ELSE start
StopAt(len, stop) == IF stop = Null THEN len ELSE IF FromEnd(stop, len) <= len
                                               THEN FromEnd(stop, len) ELSE len

IsForward(slice, s, n, start, stop) ==
    LET m == StopAt(n, stop) - First(start)
    IN  /\ First(start) \in Nat /\ m \in Int /\ m <= n - First(start)
        /\ slice = [k \in 1 .. Len(slice) |-> s[First(start) + k]]
        /\ Len(slice) = IF m > 0 THEN m ELSE 0

LEMMA ForwardSlice ==
  ASSUME NEW n \in Nat, NEW s, Len(s) = n,
         NEW start \in {Null} \cup Nat, NEW stop \in {Null} \cup Int
  PROVE  IsForward(Slice(s, start, stop, 1), s, n, start, stop)
  <1> DEFINE first == IF start # Null THEN FromEnd(start, n) ELSE 0
             limit == IF stop # Null THEN FromEnd(stop, n) ELSE n
             ix == SliceIndices(n, start, stop, 1)
             m == StopAt(n, stop) - First(start)
  <1>1. first = First(start) /\ first \in Nat /\ limit \in Int
    BY NullAssumption DEF First, FromEnd
  <1>2. Max({0, first}) = first
    BY <1>1, MaxOfTwo
  <1>3. Min({limit, n}) = StopAt(n, stop) /\ StopAt(n, stop) \in Int /\ StopAt(n, stop) <= n
    BY <1>1, MinOfTwo DEF StopAt
  <1>4. ix = [k \in 1 .. (StopAt(n, stop) - first + 1 - 1) \div 1 |-> first + (k - 1) * 1]
    <2>1. ix = [k \in 1 .. (Min({limit, n}) - Max({0, first}) + 1 - 1) \div 1
                  |-> Max({0, first}) + (k - 1) * 1]
      BY DEF SliceIndices
    <2>2. QED BY <1>2, <1>3, <2>1
  <1>5. m \in Int /\ (StopAt(n, stop) - first + 1 - 1) \div 1 = m
    BY <1>1, <1>3
  <1> PICK N \in Nat : N = IF m > 0 THEN m ELSE 0
    BY <1>5
  <1>6. 1 .. m = 1 .. N
    BY <1>5
  <1>7. ix = [k \in 1 .. N |-> first + (k - 1) * 1]
    BY <1>4, <1>5, <1>6
  <1>8. Len(ix) = N /\ \A k \in 1 .. N : ix[k] + 1 = first + k
    <2>1. ix = [k \in 1 .. N |-> ix[k]] /\ \A k \in 1 .. N : ix[k] + 1 = first + k
      BY <1>1, <1>7
    <2> HIDE DEF ix
    <2>2. QED BY <2>1, FunctionIsList DEF IsList
  <1>9. Slice(s, start, stop, 1) = [k \in 1 .. N |-> s[first + k]]
    <2>1. Slice(s, start, stop, 1) = [k \in 1 .. Len(ix) |-> s[ix[k] + 1]]
      BY DEF Slice
    <2> HIDE DEF ix, first
    <2>2. QED BY <1>8, <2>1
  <1>10. Len(Slice(s, start, stop, 1)) = N
    <2> DEFINE f == Slice(s, start, stop, 1)
    <2>1. f = [k \in 1 .. N |-> f[k]]
      BY <1>9
    <2> HIDE DEF f
    <2>2. QED BY <2>1, FunctionIsList DEF IsList, f
  <1>11. m <= n - First(start)
    BY <1>1, <1>3
  <1>12. QED BY <1>1, <1>5, <1>9, <1>10, <1>11 DEF IsForward

(* A backward slice from the end of a list, or from beyond it, to its      *)
(* beginning is the list reversed.                                         *)
LEMMA BackwardSlice ==
  ASSUME NEW n \in Nat, NEW s, Len(s) = n, NEW start \in Int, start >= n - 1, start >= 0
  PROVE  /\ Slice(s, start, Null, -1) = [k \in 1 .. n |-> s[n + 1 - k]]
         /\ Len(Slice(s, start, Null, -1)) = n
  <1> DEFINE ix == SliceIndices(n, start, Null, -1)
             f == Slice(s, start, Null, -1)
  <1>1. start # Null /\ FromEnd(start, n) = start
    BY NullAssumption DEF FromEnd
  <1>2. Min({start, n - 1}) = n - 1 /\ Max({-1, 0}) = 0
    BY MinOfTwo, MaxOfTwo
  <1>3. ix = [k \in 1 .. (n - 1 - 0 + 1) \div 1 |-> n - 1 + (k - 1) * (-1)]
    <2>0. \A i \in Int : i + 1 = 0 => ~(i > 0) /\ i < 0 /\ -i = 1
      OBVIOUS
    <2> PICK step \in Int : step + 1 = 0 /\ step = -1
      OBVIOUS
    <2>1. ~(step > 0) /\ step < 0 /\ -step = 1
      <3>1. step + 1 = 0
        OBVIOUS
      <3>2. QED BY ONLY <2>0, <3>1, step \in Int
    <2>2. ix = [k \in 1 .. (Min({start, n - 1}) - Max({-1, 0}) + -step) \div (-step) |->
                   Min({start, n - 1}) + (k - 1) * step]
      BY <1>1, <2>1 DEF SliceIndices
    <2>3. QED BY <1>2, <2>1, <2>2
  <1>4. (n - 1 - 0 + 1) \div 1 = n
    OBVIOUS
  <1>5. Len(ix) = n /\ \A k \in 1 .. n : ix[k] + 1 = n + 1 - k
    <2>1. ix = [k \in 1 .. n |-> ix[k]] /\ \A k \in 1 .. n : ix[k] + 1 = n + 1 - k
      BY <1>3, <1>4
    <2> HIDE DEF ix
    <2>2. QED BY <2>1, FunctionIsList DEF IsList
  <1>6. f = [k \in 1 .. n |-> s[n + 1 - k]]
    <2>1. f = [k \in 1 .. Len(ix) |-> s[ix[k] + 1]]
      BY DEF Slice
    <2> HIDE DEF ix
    <2>2. QED BY <1>5, <2>1
  <1>7. Len(f) = n
    <2>1. f = [k \in 1 .. n |-> f[k]]
      BY <1>6
    <2> HIDE DEF f
    <2>2. QED BY <2>1, FunctionIsList DEF IsList
  <1>8. QED BY <1>6, <1>7

-----------------------------------------------------------------------------
(* Where the segments of a path lie.                                       *)

(* What update_model() derives stands until an edit; scaling recomputes the*)
(* transforms itself.                                                      *)
DerivedCurrent ==
    ~edited => /\ rndx = RefIndices(gaps, osp.wavelengths)
               /\ lcl_tfrms = LocalTfrms(gaps)

(* Every path was asked for as the callers ask, with a wavelength that is  *)
(* still listed.                                                           *)
KeysKnown ==
    \A i \in DOMAIN entries_ :
        /\ entries_[i].key \in Request
        /\ ~edited => WvlKnown(WvlOf(entries_[i].key))

(* The derived lists, entry by entry.                                      *)
LEMMA DerivedEntries ==
  ASSUME TypeOK, DerivedCurrent, ~edited, NEW n \in Nat, Len(gaps) = n
  PROVE  /\ \A i \in 1 .. n : /\ rndx[i] = Row(gaps[i].medium, osp.wavelengths)
                              /\ lcl_tfrms[i] = gaps[i].thi
         /\ Len(rndx) = n /\ Len(lcl_tfrms) = n + 1 /\ lcl_tfrms[n + 1] = 0
  <1>1. rndx = [i \in 1 .. n |-> Row(gaps[i].medium, osp.wavelengths)]
    BY DEF DerivedCurrent, RefIndices
  <1>2. lcl_tfrms = [i \in 1 .. n + 1 |-> IF i > n THEN 0 ELSE gaps[i].thi]
    BY DEF DerivedCurrent, LocalTfrms
  <1>3. NumIfcs = n + 1 /\ Len(rndx) = n /\ Len(lcl_tfrms) = n + 1
    BY DEF TypeOK, IsList
  <1>4. QED BY <1>1, <1>2, <1>3

LEMMA IndexInColumn ==
  ASSUME TypeOK, NEW medium, NEW w, WvlKnown(w)
  PROVE  Row(medium, osp.wavelengths)[WvlIndex(w)] = RIndex[medium][w]
  <1>1. osp.wavelengths \in Seq(Range(osp.wavelengths))
    BY WvlsAssumption DEF TypeOK
  <1>2. /\ WvlIndex(w) \in DOMAIN osp.wavelengths
        /\ osp.wavelengths[WvlIndex(w)] = w
    BY <1>1, ColumnOfWavelength
  <1>3. DOMAIN osp.wavelengths = 1 .. Len(osp.wavelengths)
    BY <1>1, LenProperties
  <1>4. QED BY <1>2, <1>3 DEF Row

(* A path built from an updated model has, beside each gap, the index of   *)
(* its medium and the distance across it: the slices of gaps, indices and  *)
(* transforms start together, and no gap lies beyond the last transform.   *)
LEMMA BuiltPathMatches ==
  ASSUME TypeOK, DerivedCurrent, ~edited, NEW req \in Request, WvlKnown(WvlOf(req)),
         NEW k \in DOMAIN BuildPath(req), BuildPath(req)[k].gap # Null
  PROVE  \E gap \in Range(gaps) :
            /\ gap.id = BuildPath(req)[k].gap
            /\ BuildPath(req)[k].indx = RIndex[gap.medium][WvlOf(req)]
            /\ BuildPath(req)[k].tfrm = gap.thi
  <1> PICK n \in Nat : n = Len(gaps) /\ NumIfcs = n + 1
    BY DEF TypeOK, IsList
  <1> DEFINE step == IF req.step = Null THEN 1 ELSE req.step
             gapStart == IF step < 0 /\ req.start # Null THEN req.start - 1 ELSE req.start
             wl == WvlIndex(WvlOf(req))
             ids == [j \in 1 .. Len(gaps) |-> gaps[j].id]
             ii == Slice([j \in 1 .. NumIfcs |-> ifcs[j].id], req.start, req.stop, step)
             g == Slice(ids, gapStart, req.stop, step)
             t == Slice(lcl_tfrms, req.start, req.stop, step)
             r == Slice(rndx, req.start, req.stop, step)
             z == Slice(z_dir, req.start, req.stop, step)
             f == First(req.start)
  <1>1. /\ req.start \in {Null} \cup Nat /\ req.stop \in {Null} \cup Int
        /\ step = 1 /\ gapStart = req.start
    BY RequestAssumption
  <1>2. k \in 1 .. Max({Len(ii), Len(g), Len(t), Len(r), Len(z)})
    BY DEF BuildPath
  <1>3. /\ BuildPath(req)[k].gap = Padded(g, k)
        /\ BuildPath(req)[k].tfrm = Padded(t, k)
        /\ BuildPath(req)[k].indx = IF k \in DOMAIN r THEN r[k][wl] ELSE Null
    BY <1>2 DEF BuildPath
  <1>4. /\ Len(ids) = n /\ Len(rndx) = n /\ Len(lcl_tfrms) = n + 1
        /\ \A i \in 1 .. n : /\ rndx[i] = Row(gaps[i].medium, osp.wavelengths)
                             /\ lcl_tfrms[i] = gaps[i].thi
    <2>1. IsList(ids, n)
      <3>1. ids = [j \in 1 .. n |-> ids[j]]
        OBVIOUS
      <3> HIDE DEF ids
      <3>2. QED BY <3>1, FunctionIsList
    <2> HIDE DEF ids
    <2>2. QED BY <2>1, DerivedEntries DEF IsList
  <1>5. \A i \in 1 .. n : ids[i] = gaps[i].id
    OBVIOUS
  <1> HIDE DEF ids, step, gapStart, ii, z
  <1> DEFINE m == StopAt(n, req.stop) - f
             m1 == StopAt(n + 1, req.stop) - f
  <1>6. /\ f \in Nat /\ m \in Int /\ m <= n - f
        /\ g = [j \in 1 .. Len(g) |-> ids[f + j]] /\ Len(g) = IF m > 0 THEN m ELSE 0
        /\ r = [j \in 1 .. Len(r) |-> rndx[f + j]] /\ Len(r) = IF m > 0 THEN m ELSE 0
    <2>1. g = Slice(ids, req.start, req.stop, 1) /\ r = Slice(rndx, req.start, req.stop, 1)
      BY <1>1
    <2> HIDE DEF g, r
    <2>2. /\ IsForward(g, ids, n, req.start, req.stop)
          /\ IsForward(r, rndx, n, req.start, req.stop)
      BY <1>1, <1>4, <2>1, ForwardSlice
    <2>3. QED BY <2>2 DEF IsForward
  <1>7. /\ m1 \in Int /\ t = [j \in 1 .. Len(t) |-> lcl_tfrms[f + j]]
        /\ Len(t) = IF m1 > 0 THEN m1 ELSE 0
    <2>1. t = Slice(lcl_tfrms, req.start, req.stop, 1)
      BY <1>1
    <2> HIDE DEF t
    <2>2. IsForward(t, lcl_tfrms, n + 1, req.start, req.stop)
      <3>1. n + 1 \in Nat
        OBVIOUS
      <3>2. QED BY <1>1, <1>4, <2>1, <3>1, ForwardSlice
    <2>3. QED BY <2>2 DEF IsForward
  <1>8. m <= m1
    BY <1>1, <1>6, <1>7, NullAssumption DEF StopAt, FromEnd
  <1> HIDE DEF g, r, t, f, m, m1
  <1>9. k \in 1 .. Len(g)
    BY <1>3, <1>6 DEF Padded
  <1>10. /\ k \in 1 .. Len(r) /\ k \in 1 .. Len(t) /\ f + k \in 1 .. n
         /\ Len(g) \in Nat
    BY <1>6, <1>7, <1>8, <1>9
  <1>11. /\ g[k] = gaps[f + k].id /\ r[k] = Row(gaps[f + k].medium, osp.wavelengths)
         /\ t[k] = gaps[f + k].thi
         /\ k \in DOMAIN g /\ k \in DOMAIN r /\ k \in DOMAIN t
    BY <1>4, <1>5, <1>6, <1>7, <1>9, <1>10
  <1>12. r[k][wl] = RIndex[gaps[f + k].medium][WvlOf(req)]
    BY <1>11, IndexInColumn
  <1>13. gaps[f + k] \in Range(gaps)
    <2>1. DOMAIN gaps = 1 .. n
      BY ListIsFunction DEF TypeOK
    <2>2. QED BY <1>10, <2>1 DEF Range
  <1>14. QED BY <1>3, <1>11, <1>12, <1>13 DEF Padded

(* A forward slice without bounds, or from before the list, is the list.   *)
LEMMA WholeSlice ==
  ASSUME NEW n \in Nat, NEW s, Len(s) = n,
         NEW start, start = Null \/ (start \in Int /\ start < 0 /\ start + n <= 0)
  PROVE  /\ Slice(s, start, Null, 1) = [k \in 1 .. n |-> s[k]]
         /\ Len(Slice(s, start, Null, 1)) = n
  <1> DEFINE first == IF start # Null THEN FromEnd(start, n) ELSE 0
             ix == SliceIndices(n, start, Null, 1)
             f == Slice(s, start, Null, 1)
  <1>1. first \in Int /\ first <= 0
    BY NullAssumption DEF FromEnd
  <1>2. Max({0, first}) = 0 /\ Min({n, n}) = n
    BY <1>1, MaxOfTwo, MinOfTwo
  <1>3. ix = [k \in 1 .. (Min({n, n}) - Max({0, first}) + 1 - 1) \div 1
                |-> Max({0, first}) + (k - 1) * 1]
    BY DEF SliceIndices
  <1>4. (n - 0 + 1 - 1) \div 1 = n
    OBVIOUS
  <1>5. ix = [k \in 1 .. n |-> 0 + (k - 1) * 1]
    BY <1>2, <1>3, <1>4
  <1>6. Len(ix) = n /\ \A k \in 1 .. n : ix[k] + 1 = k
    <2>1. ix = [k \in 1 .. n |-> ix[k]] /\ \A k \in 1 .. n : ix[k] + 1 = k
      BY <1>5
    <2> HIDE DEF ix
    <2>2. QED BY <2>1, FunctionIsList DEF IsList
  <1>7. f = [k \in 1 .. n |-> s[k]]
    <2>1. f = [k \in 1 .. Len(ix) |-> s[ix[k] + 1]]
      BY DEF Slice
    <2> HIDE DEF ix
    <2>2. QED BY <1>6, <2>1
  <1>8. Len(f) = n
    <2>1. f = [k \in 1 .. n |-> f[k]]
      BY <1>7
    <2> HIDE DEF f
    <2>2. QED BY <2>1, FunctionIsList DEF IsList
  <1>9. QED BY <1>7, <1>8

LEMMA Longest ==
  ASSUME NEW a \in Int, NEW b \in Int, b <= a
  PROVE  Max({a, b, a, b, b}) = a
  <1>1. {a, b, a, b, b} = {a, b}
    OBVIOUS
  <1>2. QED BY <1>1, MaxOfTwo

(* The lists a path is zipped from, for n gaps.                            *)
LEMMA ListLengths ==
  ASSUME TypeOK, NEW n \in Nat, Len(gaps) = n
  PROVE  /\ NumIfcs = n + 1 /\ Len(rndx) = n /\ Len(lcl_tfrms) = n + 1 /\ Len(z_dir) = n
         /\ Len([j \in 1 .. NumIfcs |-> ifcs[j].id]) = n + 1
         /\ Len([j \in 1 .. Len(gaps) |-> gaps[j].id]) = n
         /\ Len(BackwardTfrms(gaps)) = n + 1
  <1>1. NumIfcs = n + 1 /\ Len(rndx) = n /\ Len(lcl_tfrms) = n + 1 /\ Len(z_dir) = n
    BY DEF TypeOK, IsList
  <1> DEFINE is == [j \in 1 .. NumIfcs |-> ifcs[j].id]
             gs == [j \in 1 .. Len(gaps) |-> gaps[j].id]
             bs == BackwardTfrms(gaps)
  <1>2. /\ is = [j \in 1 .. n + 1 |-> is[j]]
        /\ gs = [j \in 1 .. n |-> gs[j]]
        /\ bs = [j \in 1 .. n + 1 |-> bs[j]]
    BY <1>1 DEF BackwardTfrms
  <1> HIDE DEF is, gs, bs
  <1>3. n + 1 \in Nat
    OBVIOUS
  <1>4. Len(is) = n + 1 /\ Len(gs) = n /\ Len(bs) = n + 1
    BY <1>2, <1>3, FunctionIsList DEF IsList
  <1>5. QED BY <1>1, <1>4 DEF is, gs, bs

Whole(w) == [wl |-> w, start |-> Null, stop |-> Null, step |-> 1]

LEMMA WholePath ==
  ASSUME TypeOK, NEW n \in Nat, Len(gaps) = n, NEW w
  PROVE  LET wl == WvlIndex(WvlOf(Whole(w)))
         IN  BuildPath(Whole(w)) = [k \in 1 .. n + 1 |->
               [ifc |-> ifcs[k].id, gap |-> IF k <= n THEN gaps[k].id ELSE Null,
                tfrm |-> lcl_tfrms[k],
                indx |-> IF k <= n THEN rndx[k][wl] ELSE Null,
                zdir |-> IF k <= n THEN z_dir[k] ELSE Null]]
  <1> DEFINE wl == WvlIndex(WvlOf(Whole(w)))
             is == [j \in 1 .. NumIfcs |-> ifcs[j].id]
             gs == [j \in 1 .. Len(gaps) |-> gaps[j].id]
             i == Slice(is, Null, Null, 1)
             g == Slice(gs, Null, Null, 1)
             t == Slice(lcl_tfrms, Null, Null, 1)
             r == Slice(rndx, Null, Null, 1)
             z == Slice(z_dir, Null, Null, 1)
             segment(k) == [ifc  |-> Padded(i, k), gap |-> Padded(g, k), tfrm |-> Padded(t, k),
                            indx |-> IF k \in DOMAIN r THEN r[k][wl] ELSE Null,
                            zdir |-> Padded(z, k)]
  <1>1. BuildPath(Whole(w)) = [k \in 1 .. Max({Len(i), Len(g), Len(t), Len(r), Len(z)})
                                |-> segment(k)]
    <2>1. Whole(w).start = Null /\ Whole(w).stop = Null /\ Whole(w).step = 1 /\ 1 # Null
      BY NullAssumption DEF Whole
    <2>2. QED BY <2>1 DEF BuildPath
  <1>2. \A j \in 1 .. n + 1 : j \in 1 .. NumIfcs
    BY ListLengths
  <1>3. /\ \A j \in 1 .. n + 1 : is[j] = ifcs[j].id
        /\ \A j \in 1 .. n : gs[j] = gaps[j].id
    BY <1>2
  <1>4. /\ Len(is) = n + 1 /\ Len(gs) = n /\ Len(lcl_tfrms) = n + 1 /\ Len(rndx) = n
        /\ Len(z_dir) = n /\ n + 1 \in Nat
    BY ListLengths
  <1> HIDE DEF wl, is, gs
  <1>5. /\ i = [k \in 1 .. n + 1 |-> is[k]] /\ Len(i) = n + 1
        /\ g = [k \in 1 .. n |-> gs[k]] /\ Len(g) = n
        /\ t = [k \in 1 .. n + 1 |-> lcl_tfrms[k]] /\ Len(t) = n + 1
        /\ r = [k \in 1 .. n |-> rndx[k]] /\ Len(r) = n
        /\ z = [k \in 1 .. n |-> z_dir[k]] /\ Len(z) = n
    BY <1>4, WholeSlice
  <1> HIDE DEF i, g, t, r, z
  <1>6. Max({Len(i), Len(g), Len(t), Len(r), Len(z)}) = n + 1
    BY <1>5, Longest
  <1>7. ASSUME NEW k \in 1 .. n + 1
        PROVE  segment(k) = [ifc |-> ifcs[k].id, gap |-> IF k <= n THEN gaps[k].id ELSE Null,
                             tfrm |-> lcl_tfrms[k],
                             indx |-> IF k <= n THEN rndx[k][wl] ELSE Null,
                             zdir |-> IF k <= n THEN z_dir[k] ELSE Null]
    <2>1. /\ Padded(i, k) = ifcs[k].id /\ Padded(t, k) = lcl_tfrms[k]
      BY <1>3, <1>5 DEF Padded
    <2>2. k <= n <=> k \in 1 .. n
      OBVIOUS
    <2>3. /\ Padded(g, k) = IF k <= n THEN gaps[k].id ELSE Null
          /\ Padded(z, k) = IF k <= n THEN z_dir[k] ELSE Null
          /\ k \in DOMAIN r <=> k <= n
          /\ k <= n => r[k] = rndx[k]
      BY <1>3, <1>5, <2>2 DEF Padded
    <2>4. QED BY <2>1, <2>3
  <1> HIDE DEF segment
  <1>8. BuildPath(Whole(w)) = [k \in 1 .. n + 1 |-> segment(k)]
    BY <1>1, <1>6
  <1>9. QED BY <1>7, <1>8 DEF wl

LEMMA WholeReverse ==
  ASSUME TypeOK, NEW n \in Nat, Len(gaps) = n, NEW w
  PROVE  ReversePath(w, n + 1) = [k \in 1 .. n + 1 |->
               [ifc |-> ifcs[n + 2 - k].id,
                gap |-> IF k <= n THEN gaps[n + 1 - k].id ELSE Null,
                tfrm |-> BackwardTfrms(gaps)[k],
                indx |-> IF k <= n THEN rndx[n + 1 - k][WvlIndex(w)] ELSE Null,
                zdir |-> IF k <= n THEN -z_dir[n + 1 - k] ELSE Null]]
  <1> DEFINE wl == WvlIndex(w)
             is == [j \in 1 .. NumIfcs |-> ifcs[j].id]
             gs == [j \in 1 .. Len(gaps) |-> gaps[j].id]
             i == Slice(is, n + 1, Null, -1)
             g == Slice(gs, n, Null, -1)
             t == Slice(BackwardTfrms(gaps), -(n + 2), Null, 1)
             r == Slice(rndx, n, Null, -1)
             z == Slice(z_dir, n + 1, Null, -1)
             segment(k) == [ifc  |-> Padded(i, k), gap |-> Padded(g, k), tfrm |-> Padded(t, k),
                            indx |-> IF k \in DOMAIN r THEN r[k][wl] ELSE Null,
                            zdir |-> IF k \in DOMAIN z THEN -z[k] ELSE Null]
  <1>1. ReversePath(w, n + 1) = [k \in 1 .. Max({Len(i), Len(g), Len(t), Len(r), Len(z)})
                                   |-> segment(k)]
    <2>1. (n + 1) - 1 = n /\ (n + 1) + 1 = n + 2
      OBVIOUS
    <2>2. QED BY <2>1 DEF ReversePath
  <1>2. \A j \in 1 .. n + 1 : j \in 1 .. NumIfcs
    BY ListLengths
  <1>3. /\ \A j \in 1 .. n + 1 : is[j] = ifcs[j].id
        /\ \A j \in 1 .. n : gs[j] = gaps[j].id
    BY <1>2
  <1>4. /\ Len(is) = n + 1 /\ Len(gs) = n /\ Len(BackwardTfrms(gaps)) = n + 1 /\ Len(rndx) = n
        /\ Len(z_dir) = n /\ n + 1 \in Nat /\ n + 1 \in Int /\ n \in Int
    BY ListLengths
  <1> HIDE DEF wl, is, gs
  <1>5. /\ i = [k \in 1 .. n + 1 |-> is[n + 1 + 1 - k]] /\ Len(i) = n + 1
        /\ g = [k \in 1 .. n |-> gs[n + 1 - k]] /\ Len(g) = n
        /\ r = [k \in 1 .. n |-> rndx[n + 1 - k]] /\ Len(r) = n
        /\ z = [k \in 1 .. n |-> z_dir[n + 1 - k]] /\ Len(z) = n
    <2>1. /\ n + 1 >= (n + 1) - 1 /\ n + 1 >= n - 1 /\ n + 1 >= 0
          /\ n >= n - 1 /\ n >= 0 /\ n + 1 \in Int /\ n \in Int
      OBVIOUS
    <2>2. i = [k \in 1 .. n + 1 |-> is[n + 1 + 1 - k]] /\ Len(i) = n + 1
      BY <1>4, <2>1, BackwardSlice
    <2>3. g = [k \in 1 .. n |-> gs[n + 1 - k]] /\ Len(g) = n
      BY <1>4, <2>1, BackwardSlice
    <2>4. r = [k \in 1 .. n |-> rndx[n + 1 - k]] /\ Len(r) = n
      BY <1>4, <2>1, BackwardSlice
    <2>5. z = [k \in 1 .. n |-> z_dir[n + 1 - k]] /\ Len(z) = n
      BY <1>4, <2>1, BackwardSlice
    <2>6. QED BY <2>2, <2>3, <2>4, <2>5
  <1>6. t = [k \in 1 .. n + 1 |-> BackwardTfrms(gaps)[k]] /\ Len(t) = n + 1
    <2>1. -(n + 2) \in Int /\ -(n + 2) < 0 /\ -(n + 2) + (n + 1) <= 0
      OBVIOUS
    <2>2. QED BY <1>4, <2>1, WholeSlice
  <1> HIDE DEF i, g, t, r, z
  <1>7. Max({Len(i), Len(g), Len(t), Len(r), Len(z)}) = n + 1
    BY <1>5, <1>6, Longest
  <1>8. ASSUME NEW k \in 1 .. n + 1
        PROVE  segment(k) = [ifc |-> ifcs[n + 2 - k].id,
                             gap |-> IF k <= n THEN gaps[n + 1 - k].id ELSE Null,
                             tfrm |-> BackwardTfrms(gaps)[k],
                             indx |-> IF k <= n THEN rndx[n + 1 - k][wl] ELSE Null,
                             zdir |-> IF k <= n THEN -z_dir[n + 1 - k] ELSE Null]
    <2>1. /\ n + 1 + 1 - k = n + 2 - k /\ n + 2 - k \in 1 .. n + 1
          /\ k <= n => k \in 1 .. n /\ n + 1 - k \in 1 .. n
          /\ k \in 1 .. n => k <= n
      OBVIOUS
    <2>2. /\ Padded(i, k) = ifcs[n + 2 - k].id /\ Padded(t, k) = BackwardTfrms(gaps)[k]
      BY <1>3, <1>5, <1>6, <2>1 DEF Padded
    <2>3. /\ Padded(g, k) = IF k <= n THEN gaps[n + 1 - k].id ELSE Null
          /\ k \in DOMAIN z <=> k <= n
          /\ k <= n => z[k] = z_dir[n + 1 - k]
          /\ k \in DOMAIN r <=> k <= n
          /\ k <= n => r[k] = rndx[n + 1 - k]
      BY <1>3, <1>5, <2>1 DEF Padded
    <2>4. QED BY <2>2, <2>3
  <1> HIDE DEF segment
  <1>9. ReversePath(w, n + 1) = [k \in 1 .. n + 1 |-> segment(k)]
    BY <1>1, <1>7
  <1>10. QED BY <1>8, <1>9 DEF wl

(* The way back, segment by segment.                                       *)
LEMMA WayBack ==
  ASSUME TypeOK, DerivedCurrent, ~edited
  PROVE  ReversePathRetraces
  <1> PICK n \in Nat : n = Len(gaps) /\ NumIfcs = n + 1
    BY DEF TypeOK, IsList
  <1> DEFINE w == CentralWvl
             fwd == BuildPath(Whole(w))
             back == ReversePath(w, n + 1)
             F(k) == [ifc |-> ifcs[k].id, gap |-> IF k <= n THEN gaps[k].id ELSE Null,
                      tfrm |-> lcl_tfrms[k],
                      indx |-> IF k <= n THEN rndx[k][WvlIndex(w)] ELSE Null,
                      zdir |-> IF k <= n THEN z_dir[k] ELSE Null]
             B(k) == [ifc |-> ifcs[n + 2 - k].id,
                      gap |-> IF k <= n THEN gaps[n + 1 - k].id ELSE Null,
                      tfrm |-> BackwardTfrms(gaps)[k],
                      indx |-> IF k <= n THEN rndx[n + 1 - k][WvlIndex(w)] ELSE Null,
                      zdir |-> IF k <= n THEN -z_dir[n + 1 - k] ELSE Null]
  <1>1. WvlOf(Whole(w)) = w
    BY DEF WvlOf, Whole
  <1>2. fwd = [k \in 1 .. n + 1 |-> F(k)] /\ back = [k \in 1 .. n + 1 |-> B(k)]
    <2>1. back = [k \in 1 .. n + 1 |-> B(k)]
      BY WholeReverse
    <2> DEFINE wl == WvlIndex(WvlOf(Whole(w)))
    <2>2. wl = WvlIndex(w)
      BY <1>1
    <2> HIDE DEF w
    <2>3. BuildPath(Whole(w)) = [k \in 1 .. n + 1 |->
               [ifc |-> ifcs[k].id, gap |-> IF k <= n THEN gaps[k].id ELSE Null,
                tfrm |-> lcl_tfrms[k],
                indx |-> IF k <= n THEN rndx[k][wl] ELSE Null,
                zdir |-> IF k <= n THEN z_dir[k] ELSE Null]]
      BY WholePath
    <2> HIDE DEF wl
    <2>4. QED BY <2>1, <2>2, <2>3
  <1>3. Len(fwd) = n + 1 /\ Len(back) = n + 1
    <2>1. fwd = [k \in 1 .. n + 1 |-> fwd[k]] /\ back = [k \in 1 .. n + 1 |-> back[k]]
      BY <1>2
    <2> HIDE DEF fwd, back
    <2>2. n + 1 \in Nat
      OBVIOUS
    <2>3. QED BY <2>1, <2>2, FunctionIsList DEF IsList
  <1>4. /\ \A k \in 1 .. n : lcl_tfrms[k] = gaps[k].thi
        /\ \A k \in 1 .. n : BackwardTfrms(gaps)[k] = -gaps[n + 1 - k].thi
        /\ BackwardTfrms(gaps)[n + 1] = 0
    <2>1. \A k \in 1 .. n : k \in 1 .. n + 1 /\ ~(k > n)
      OBVIOUS
    <2>2. n + 1 \in 1 .. n + 1 /\ n + 1 > n
      OBVIOUS
    <2>3. QED BY <2>1, <2>2, DerivedEntries DEF BackwardTfrms
  <1> HIDE DEF fwd, back, w
  <1>5. \A k \in 1 .. n + 1 : fwd[k] = F(k) /\ back[k] = B(k)
    BY <1>2
  <1>6. back[n + 1] = [ifc |-> fwd[1].ifc, gap |-> Null, tfrm |-> 0, indx |-> Null, zdir |-> Null]
    <2>1. /\ 1 \in 1 .. n + 1 /\ n + 1 \in 1 .. n + 1 /\ n + 2 - (n + 1) = 1
          /\ ~(n + 1 <= n)
      OBVIOUS
    <2>2. fwd[1].ifc = ifcs[1].id
      <3>1. fwd[1] = F(1)
        BY <1>5, <2>1
      <3>2. QED BY <3>1
    <2>3. back[n + 1] = B(n + 1)
      BY <1>5, <2>1
    <2>4. QED BY <1>4, <2>1, <2>2, <2>3
  <1>7. ASSUME NEW k \in 1 .. n
        PROVE  back[k] = [ifc |-> fwd[n + 2 - k].ifc, gap |-> fwd[n + 1 - k].gap,
                          tfrm |-> -fwd[n + 1 - k].tfrm, indx |-> fwd[n + 1 - k].indx,
                          zdir |-> -fwd[n + 1 - k].zdir]
    <2>1. /\ k \in 1 .. n + 1 /\ k <= n
          /\ n + 2 - k \in 1 .. n + 1
          /\ n + 1 - k \in 1 .. n /\ n + 1 - k \in 1 .. n + 1 /\ n + 1 - k <= n
      OBVIOUS
    <2>2. back[k] = B(k) /\ fwd[n + 2 - k] = F(n + 2 - k) /\ fwd[n + 1 - k] = F(n + 1 - k)
      BY <1>5, <2>1
    <2>3. fwd[n + 2 - k].ifc = ifcs[n + 2 - k].id
      BY <2>2
    <2>4. /\ fwd[n + 1 - k].gap = gaps[n + 1 - k].id
          /\ fwd[n + 1 - k].tfrm = gaps[n + 1 - k].thi
          /\ fwd[n + 1 - k].indx = rndx[n + 1 - k][WvlIndex(w)]
          /\ fwd[n + 1 - k].zdir = z_dir[n + 1 - k]
      BY <1>4, <2>1, <2>2
    <2>5. QED BY <1>4, <2>1, <2>2, <2>3, <2>4
  <1>8. QED
    <2>1. \A k \in 1 .. (n + 1) - 1 : k \in 1 .. n /\ (n + 1) + 1 - k = n + 2 - k
      OBVIOUS
    <2>2. /\ fwd = BuildPath([wl |-> w, start |-> Null, stop |-> Null, step |-> 1])
          /\ back = ReversePath(w, n + 1) /\ w = CentralWvl
      BY DEF fwd, back, w, Whole
    <2>3. \A k \in 1 .. (n + 1) - 1 :
            back[k] = [ifc |-> fwd[(n + 1) + 1 - k].ifc, gap |-> fwd[(n + 1) - k].gap,
                       tfrm |-> -fwd[(n + 1) - k].tfrm, indx |-> fwd[(n + 1) - k].indx,
                       zdir |-> -fwd[(n + 1) - k].zdir]
      BY <1>7, <2>1
    <2> HIDE DEF F, B
    <2>4. QED BY <1>3, <1>6, <2>2, <2>3 DEF ReversePathRetraces

-----------------------------------------------------------------------------
(* That the derived lists and the keys stay as they are needed above.      *)

(* What both are read from.                                                *)
derivedSources == <<rndx, lcl_tfrms, gaps, osp, entries_, edited>>

LEMMA KeepsDerived ==
  ASSUME DerivedCurrent, KeysKnown, UNCHANGED derivedSources
  PROVE  DerivedCurrent' /\ KeysKnown'
  <1>1. /\ rndx' = rndx /\ lcl_tfrms' = lcl_tfrms /\ gaps' = gaps /\ osp' = osp
        /\ entries_' = entries_ /\ edited' = edited
    BY DEF derivedSources
  <1>2. DerivedCurrent'
    BY <1>1 DEF DerivedCurrent
  <1>3. KeysKnown'
    BY <1>1 DEF KeysKnown, WvlKnown, WvlOf, CentralWvl
  <1>4. QED BY <1>2, <1>3

(* An edit announces itself and asks for no path.                          *)
LEMMA EditKeepsDerived ==
  ASSUME KeysKnown, edited' = TRUE, UNCHANGED entries_ \/ Clear
  PROVE  DerivedCurrent' /\ KeysKnown'
  <1>1. DerivedCurrent'
    BY DEF DerivedCurrent
  <1>2. KeysKnown'
    <2> SUFFICES ASSUME NEW i \in DOMAIN entries_' PROVE entries_'[i].key \in Request
      BY DEF KeysKnown
    <2>1. CASE UNCHANGED entries_
      BY <2>1 DEF KeysKnown
    <2>2. CASE Clear
      <3>1. entries_' = << >>
        BY <2>2 DEF Clear
      <3>2. QED BY <3>1
    <2>3. QED BY <2>1, <2>2
  <1>3. QED BY <1>1, <1>2

LEMMA UpdateKeepsDerived ==
  ASSUME UpdateModel
  PROVE  DerivedCurrent' /\ KeysKnown'
  <1>1. /\ rndx' = RefIndices(gaps, osp.wavelengths) /\ lcl_tfrms' = LocalTfrms(gaps)
        /\ gaps' = gaps /\ osp' = osp /\ Clear
    BY DEF UpdateModel
  <1>2. DerivedCurrent'
    BY <1>1 DEF DerivedCurrent
  <1>3. entries_' = << >>
    BY <1>1 DEF Clear
  <1>4. KeysKnown'
    BY <1>3 DEF KeysKnown
  <1>5. QED BY <1>2, <1>4

(* Scaling changes no medium.                                              *)
LEMMA ScalingKeepsDerived ==
  ASSUME TypeOK, DerivedCurrent, KeysKnown, NEW surfs, ApplyScaleFactor(2, surfs)
  PROVE  DerivedCurrent' /\ KeysKnown'
  <1> PICK n \in Nat : n = Len(gaps) /\ IsList(gaps, n)
    BY DEF TypeOK, IsList
  <1>1. /\ lcl_tfrms' = LocalTfrms(gaps') /\ rndx' = rndx /\ osp' = osp
        /\ entries_' = entries_ /\ edited' = edited
    BY DEF ApplyScaleFactor, cacheVars
  <1>2. gaps' = [i \in 1 .. n |->
                   IF i - 1 \in GapsInScope(surfs)
                     THEN [gaps[i] EXCEPT !.thi = 2 * @] ELSE gaps[i]]
    BY DEF ApplyScaleFactor
  <1>3. Len(gaps') = n
    <2>1. gaps' = [i \in 1 .. n |-> gaps'[i]]
      BY <1>2
    <2>2. QED BY <2>1, FunctionIsList DEF IsList
  <1>4. \A i \in 1 .. n : gaps'[i].medium = gaps[i].medium
    BY <1>2
  <1>5. \A wvls : RefIndices(gaps', wvls) = RefIndices(gaps, wvls)
    BY <1>3, <1>4 DEF RefIndices
  <1>6. DerivedCurrent'
    <2> SUFFICES ASSUME ~edited
                 PROVE  rndx' = RefIndices(gaps', osp'.wavelengths)
      BY <1>1 DEF DerivedCurrent
    <2>1. rndx = RefIndices(gaps, osp.wavelengths)
      BY DEF DerivedCurrent
    <2>2. QED BY <1>1, <1>5, <2>1
  <1>7. KeysKnown'
    BY <1>1 DEF KeysKnown, WvlKnown, WvlOf, CentralWvl
  <1>8. QED BY <1>6, <1>7

(* A miss is asked for, with a wavelength that is listed.                  *)
LEMMA MissKeepsDerived ==
  ASSUME TypeOK, DerivedCurrent, KeysKnown, NEW req \in Request, PathMiss(req)
  PROVE  DerivedCurrent' /\ KeysKnown'
  <1>1. /\ UNCHANGED <<rndx, lcl_tfrms, gaps, osp, edited>> /\ Store(req, BuildPath(req))
        /\ WvlKnown(WvlOf(req))
    BY DEF PathMiss, modelVars
  <1>2. DerivedCurrent'
    BY <1>1 DEF DerivedCurrent
  <1>3. \A i \in DOMAIN entries_' :
           entries_'[i].key = req
             \/ (i \in DOMAIN entries_ /\ entries_'[i] = entries_[i])
    <2> DEFINE p == BuildPath(req)
    <2>1. Store(req, p) /\ CacheOK
      BY <1>1, TypeParts
    <2> HIDE DEF p
    <2>2. \A i \in DOMAIN entries_' :
            \/ entries_'[i] = [key |-> req, segs |-> p]
            \/ i \in DOMAIN entries_ /\ entries_'[i] = entries_[i]
      BY <2>1, StoreOK
    <2>3. QED BY <2>2
  <1>4. \A w : WvlKnown(w)' <=> WvlKnown(w)
    BY <1>1 DEF WvlKnown
  <1>5. \A r : WvlOf(r)' = WvlOf(r)
    BY <1>1 DEF WvlOf, CentralWvl
  <1>6. KeysKnown'
    <2> SUFFICES ASSUME NEW i \in DOMAIN entries_'
                 PROVE  /\ entries_'[i].key \in Request
                        /\ ~edited' => (WvlKnown(WvlOf(entries_[i].key)))'
      BY DEF KeysKnown
    <2> PICK key : key = entries_'[i].key
      OBVIOUS
    <2>1. key \in Request /\ (~edited => WvlKnown(WvlOf(key)))
      BY <1>1, <1>3 DEF KeysKnown
    <2>2. (WvlKnown(WvlOf(key)))' <=> WvlKnown(WvlOf(key))
      BY <1>1 DEF WvlKnown, WvlOf, CentralWvl
    <2>3. (WvlKnown(WvlOf(entries_[i].key)))' <=> (WvlKnown(WvlOf(key)))'
      OBVIOUS
    <2>4. QED BY <1>1, <2>1, <2>2, <2>3
  <1>7. QED BY <1>2, <1>6

LEMMA StepKeepsDerived ==
  TypeOK /\ DerivedCurrent /\ KeysKnown /\ [Next]_vars => DerivedCurrent' /\ KeysKnown'
  <1> SUFFICES ASSUME TypeOK, DerivedCurrent, KeysKnown, [Next]_vars
               PROVE  DerivedCurrent' /\ KeysKnown'
    OBVIOUS
  <1>1. CASE Edit
    <2>1. ASSUME NEW mode, NEW m, NEW t, AddSurface(mode, m, t)
          PROVE  edited' = TRUE /\ Clear
      BY <2>1 DEF AddSurface, Splice
    <2>2. ASSUME NEW idx, NEW mode, NEW m, NEW t, InsertSurface(idx, mode, m, t)
          PROVE  edited' = TRUE /\ Clear
      BY <2>2 DEF InsertSurface, Splice
    <2>3. ASSUME NEW i, NEW t, EditGap(i, t) PROVE edited' = TRUE /\ UNCHANGED entries_
      BY <2>3 DEF EditGap, cacheVars
    <2>4. ASSUME NEW spec, InstallWvls(spec) PROVE edited' = TRUE /\ UNCHANGED entries_
      BY <2>4 DEF InstallWvls, cacheVars
    <2>5. (edited' = TRUE /\ (UNCHANGED entries_ \/ Clear))
            \/ \E surfs : ApplyScaleFactor(2, surfs)
      BY <1>1, <2>1, <2>2, <2>3, <2>4 DEF Edit
    <2>6. QED BY <2>5, EditKeepsDerived, ScalingKeepsDerived
  <1>2. CASE Configure
    <2>1. UNCHANGED derivedSources
      BY <1>2 DEF Configure, SetStop, SetCurSurface, derivedSources, cacheVars, modelVars
    <2>2. QED BY <2>1, KeepsDerived
  <1>3. CASE UpdateModel
    BY <1>3, UpdateKeepsDerived
  <1>4. CASE Path
    <2>1. PICK req \in Request : PathHit(req) \/ PathMiss(req) \/ PathThrows(req)
      BY <1>4 DEF Path
    <2>2. CASE PathHit(req) \/ PathThrows(req)
      <3>1. UNCHANGED derivedSources
        BY <2>2 DEF PathHit, PathThrows, derivedSources, vars, cacheVars, modelVars
      <3>2. QED BY <3>1, KeepsDerived
    <2>3. QED BY <2>1, <2>2, MissKeepsDerived
  <1>5. CASE ReverseTrace \/ UNCHANGED vars
    <2>1. UNCHANGED derivedSources
      BY <1>5 DEF ReverseTrace, derivedSources, vars, cacheVars, modelVars
    <2>2. QED BY <2>1, KeepsDerived
  <1>6. QED
    BY <1>1, <1>2, <1>3, <1>4, <1>5 DEF Next

LEMMA InitDerived == Init => DerivedCurrent /\ KeysKnown
  <1> SUFFICES ASSUME Init PROVE DerivedCurrent /\ KeysKnown
    OBVIOUS
  <1>1. DerivedCurrent
    BY DEF Init, DerivedCurrent
  <1>2. DOMAIN entries_ = {}
    BY DEF Init, CacheInit
  <1>3. KeysKnown
    BY <1>2 DEF KeysKnown
  <1>4. QED BY <1>1, <1>3

(* A cached path is the one a miss would build, and that one matches.      *)
LEMMA CachedPathsMatch ==
  ASSUME TypeOK, CachedPathsCurrent, DerivedCurrent, KeysKnown, ~edited, ~rescaled
  PROVE  SegmentsMatchTheirGaps
  <1> SUFFICES ASSUME NEW entry \in Range(entries_), NEW seg \in Range(entry.segs),
                      seg.gap # Null
               PROVE  \E gap \in Range(gaps) :
                         /\ gap.id = seg.gap
                         /\ seg.indx = RIndex[gap.medium][WvlOf(entry.key)]
                         /\ seg.tfrm = gap.thi
    BY DEF SegmentsMatchTheirGaps
  <1>1. PICK i \in DOMAIN entries_ : entries_[i] = entry
    BY DEF Range
  <1>2. entry.segs = BuildPath(entry.key)
    BY <1>1 DEF CachedPathsCurrent, Current
  <1>3. entry.key \in Request /\ WvlKnown(WvlOf(entry.key))
    BY <1>1 DEF KeysKnown
  <1>4. PICK k \in DOMAIN entry.segs : entry.segs[k] = seg
    BY DEF Range
  <1>5. k \in DOMAIN BuildPath(entry.key) /\ BuildPath(entry.key)[k] = seg
    BY <1>2, <1>4
  <1>6. BuildPath(entry.key)[k].gap # Null
    BY <1>5
  <1>7. \E gap \in Range(gaps) :
            /\ gap.id = BuildPath(entry.key)[k].gap
            /\ BuildPath(entry.key)[k].indx = RIndex[gap.medium][WvlOf(entry.key)]
            /\ BuildPath(entry.key)[k].tfrm = gap.thi
    BY <1>3, <1>5, <1>6, BuiltPathMatches
  <1>8. QED BY <1>5, <1>7

(* Once update_model() has run, and until an edit or a scaling, a path     *)
(* served for a forward slice gives every gap it crosses the index of that *)
(* gap's medium at the wavelength asked for and the distance across it, and*)
(* reverse_path() retraces it: path() zips slices of lists of two lengths, *)
(* and the cache outlives the lists it copied.  For any number of surfaces,*)
(* any spectra and any cache capacity.                                     *)
THEOREM PathsMatchTheLens == Spec => []PathsDescribeTheLens
  <1>1. TypeOK /\ CachedPathsCurrent /\ DerivedCurrent /\ KeysKnown => PathsDescribeTheLens
    BY CachedPathsMatch, WayBack DEF PathsDescribeTheLens
  <1>2. Spec => [](DerivedCurrent /\ KeysKnown)
    BY InitDerived, StepKeepsDerived, ListsStayInStep, PTL DEF Spec
  <1>3. QED
    BY <1>1, <1>2, ListsStayInStep, PathsStayCurrent, PTL

-----------------------------------------------------------------------------
(* The ring. *)

IInv == ClientTypeOK /\ RingInv /\ HeldReferencesValid

(* Stepping next_ wraps at Capacity and stays inside the ring.             *)
LEMMA WrapAround ==
  ASSUME NEW c \in Nat \ {0}, NEW n \in 0 .. c - 1
  PROVE  (n + 1) % c = IF n + 1 = c THEN 0 ELSE n + 1
  <1>1. CASE n + 1 = c
    <2>1. c % c = 0
      BY Z3
    <2>2. QED BY <2>1, <1>1
  <1>2. CASE n + 1 # c
    <2>1. n + 1 \in 0 .. c - 1
      BY <1>2
    <2>2. \A m \in 0 .. c - 1 : m % c = m
      BY Z3
    <2>3. QED BY <2>1, <2>2, <1>2
  <1>3. QED BY <1>1, <1>2

LEMMA InitIInv == ClientInit => IInv
  <1> SUFFICES ASSUME ClientInit PROVE IInv
    OBVIOUS
  <1>1. entries_ = << >> /\ next_ = 0 /\ held = [k \in Key |-> None]
    BY DEF ClientInit, CacheInit
  <1>2. QED
    BY <1>1, CapacityAssumption
       DEF IInv, ClientTypeOK, RingTypeOK, RingInv, RingFillsFirst, Distinct,
           AgesAgree, HeldReferencesValid, Full

(* The slot find() returns holds the key that was looked for.              *)
LEMMA FoundSlot ==
  ASSUME NEW k \in Key, IInv, Cached(k)
  PROVE  /\ Slot(k) \in DOMAIN entries_
         /\ Slot(k) \in 1 .. Capacity
         /\ entries_[Slot(k)].key = k
  <1>1. Slots(k) # {}
    BY DEF Cached
  <1>2. PICK i \in DOMAIN entries_ : entries_[i].key = k
    BY <1>1 DEF Slots
  <1>3. \A j \in Slots(k) : j = i
    BY <1>2 DEF IInv, RingInv, Distinct, Slots
  <1>4. i \in Slots(k) /\ \A j \in Slots(k) : i <= j
    <2>1. i \in Int
      BY <1>2 DEF IInv, ClientTypeOK, RingTypeOK
    <2>2. QED BY <1>2, <1>3, <2>1 DEF Slots
  <1>5. Slot(k) \in Slots(k)
    BY <1>4 DEF Slot
  <1>6. DOMAIN entries_ = 1 .. Len(entries_) /\ Len(entries_) \in 0 .. Capacity
    BY DEF IInv, ClientTypeOK, RingTypeOK
  <1>7. QED
    BY <1>5, <1>6, CapacityAssumption DEF Slots

(* A hit moves nothing; the reference taken has the age of its slot.       *)
LEMMA HitIInv ==
  ASSUME IInv, NEW k \in Key, Hit(k)
  PROVE  IInv'
  <1> USE CapacityAssumption
  <1>1. /\ Slot(k) \in DOMAIN entries_
        /\ Slot(k) \in 1 .. Capacity
        /\ entries_[Slot(k)].key = k
    BY FoundSlot DEF Hit
  <1>2. /\ entries_ \in Seq([key : Key, segs : Value])
        /\ Len(entries_) <= Capacity /\ next_ \in 0 .. Capacity - 1
        /\ held \in [Key -> Reference \cup {None}]
    BY DEF IInv, ClientTypeOK, RingTypeOK
  <1> DEFINE ref == [slot |-> Slot(k), segs |-> Find(k), age |-> AgeOfSlot(Slot(k))]
  <1>3. entries_' = entries_ /\ next_' = next_ /\ held' = [held EXCEPT ![k] = ref]
    BY DEF Hit, cacheVars
  <1>4. entries_[Slot(k)] \in [key : Key, segs : Value]
    <2> DEFINE E == [key : Key, segs : Value]
    <2>1. entries_ \in Seq(E) /\ Slot(k) \in 1 .. Len(entries_)
      BY <1>1, <1>2
    <2> HIDE DEF E
    <2>2. entries_[Slot(k)] \in E
      BY <2>1, ElementOfSeq
    <2>3. QED BY <2>2 DEF E
  <1>5. Find(k) \in Value /\ entries_[Slot(k)] = [key |-> k, segs |-> Find(k)]
    BY <1>1, <1>4 DEF Find
  <1>6. AgeOfSlot(Slot(k)) \in 0 .. Capacity - 1
    BY <1>1, <1>2 DEF AgeOfSlot, Full
  <1>7. ref \in Reference
    BY <1>1, <1>5, <1>6 DEF Reference
  <1> HIDE DEF ref
  <1>8. ClientTypeOK'
    BY <1>2, <1>3, <1>7 DEF ClientTypeOK, RingTypeOK
  <1>9. RingFillsFirst' /\ Distinct'
    BY <1>3 DEF IInv, RingInv, RingFillsFirst, Distinct, Full
  <1>10. AgesAgree' /\ HeldReferencesValid'
    <2> SUFFICES ASSUME NEW j \in Key, held'[j] # None
                 PROVE  /\ held'[j].age = AgeOfSlot(held'[j].slot)
                        /\ held'[j].slot \in DOMAIN entries_
                        /\ entries_[held'[j].slot] = [key |-> j, segs |-> held'[j].segs]
      <3>1. entries_' = entries_ /\ next_' = next_
        BY <1>3
      <3>2. QED BY <3>1 DEF AgesAgree, HeldReferencesValid, AgeOfSlot, Full
    <2>1. CASE j = k
      BY <2>1, <1>1, <1>2, <1>3, <1>5 DEF ref
    <2>2. CASE j # k
      <3>1. held'[j] = held[j]
        BY <2>2, <1>2, <1>3
      <3>2. QED BY <3>1 DEF IInv, RingInv, AgesAgree, HeldReferencesValid
    <2>3. QED BY <2>1, <2>2
  <1>11. QED
    BY <1>8, <1>9, <1>10 DEF IInv, RingInv

(* A reference that has not reached Capacity stays one when it ages.       *)
LEMMA ReferenceAges ==
  ASSUME NEW r \in Reference, r.age + 1 < Capacity
  PROVE  [slot |-> r.slot, segs |-> r.segs, age |-> r.age + 1] \in Reference
  <1>1. r.slot \in 1 .. Capacity /\ r.segs \in Value /\ r.age \in 0 .. Capacity - 1
    BY DEF Reference
  <1> PICK a \in 0 .. Capacity - 1 : a = r.age
    BY <1>1
  <1>2. a + 1 \in 0 .. Capacity - 1
    BY CapacityAssumption
  <1>3. QED BY <1>1, <1>2 DEF Reference

(* A store while the ring grows: the new entry gets a new last slot, and   *)
(* every other entry is one store older.                                   *)
LEMMA GrowIInv ==
  ASSUME IInv, NEW k \in Key, NEW v \in Value, Miss(k, v), ~Full
  PROVE  IInv'
  <1> USE CapacityAssumption
  <1> DEFINE E == [key : Key, segs : Value]
             e == [key |-> k, segs |-> v]
  <1>0. Len(entries_) \in Nat /\ Len(entries_) < Capacity
    BY DEF IInv, ClientTypeOK, RingTypeOK, Full
  <1> PICK n \in Nat : n = Len(entries_) /\ n < Capacity
    BY <1>0
  <1>1. /\ entries_ \in Seq(E) /\ n = Len(entries_) /\ n < Capacity
        /\ next_ = 0
        /\ held \in [Key -> Reference \cup {None}]
    BY DEF IInv, ClientTypeOK, RingTypeOK, RingInv, RingFillsFirst, Full
  <1>2. entries_' = Append(entries_, e) /\ next_' = next_
    BY DEF Miss, Store
  <1>3. \A j \in Key : held'[j] = IF j = k THEN [slot |-> n + 1, segs |-> v, age |-> 0]
                                  ELSE Aged(held[j])
    BY DEF Miss, StoredSlot
  <1>4. held' = [j \in Key |-> held'[j]]
    BY DEF Miss
  <1>5. e \in E
    OBVIOUS
  <1>6. /\ entries_' \in Seq(E) /\ Len(entries_') = n + 1
        /\ \A i \in 1 .. n : entries_'[i] = entries_[i]
        /\ entries_'[n + 1] = e
    <2> HIDE DEF E, e
    <2>1. QED BY <1>1, <1>2, <1>5
  <1>7. DOMAIN entries_ = 1 .. n /\ DOMAIN entries_' = 1 .. n + 1
    BY <1>1, <1>6
  <1>8. \A i \in 1 .. n : entries_[i].key # k
    BY <1>7 DEF Miss, Cached, Slots
  <1> HIDE DEF e, E
  <1>9. \A j \in Key : held'[j] # None =>
           \/ /\ j = k /\ held'[j] = [slot |-> n + 1, segs |-> v, age |-> 0]
           \/ /\ j # k /\ held[j] # None /\ held[j] \in Reference
              /\ held[j].age + 1 < Capacity
              /\ held'[j] = [slot |-> held[j].slot, segs |-> held[j].segs,
                             age |-> held[j].age + 1]
    <2> SUFFICES ASSUME NEW j \in Key, j # k, held'[j] # None
                 PROVE  /\ held[j] # None /\ held[j] \in Reference
                        /\ held[j].age + 1 < Capacity
                        /\ held'[j] = [slot |-> held[j].slot, segs |-> held[j].segs,
                                       age |-> held[j].age + 1]
      BY <1>3
    <2>1. held'[j] = Aged(held[j])
      BY <1>3
    <2>2. held[j] # None /\ ~(held[j].age + 1 >= Capacity)
      BY <2>1 DEF Aged
    <2>3. held[j] \in Reference
      BY <2>2, <1>1
    <2>4. held[j].age \in Int
      BY <2>3 DEF Reference
    <2>5. QED BY <2>1, <2>2, <2>3, <2>4 DEF Aged
  <1>10. ClientTypeOK'
    <2>1. held' \in [Key -> Reference \cup {None}]
      <3>1. \A j \in Key : held'[j] \in Reference \cup {None}
        <4> SUFFICES ASSUME NEW j \in Key, held'[j] # None
                     PROVE  held'[j] \in Reference
          OBVIOUS
        <4>1. n + 1 \in 1 .. Capacity /\ 0 \in 0 .. Capacity - 1
          BY <1>1
        <4>2. CASE j = k
          <5>1. held'[j] = [slot |-> n + 1, segs |-> v, age |-> 0]
            BY <4>2, <1>3
          <5>2. QED BY <4>1, <5>1 DEF Reference
        <4>3. CASE j # k
          <5>1. /\ held[j] \in Reference /\ held[j].age + 1 < Capacity
                /\ held'[j] = [slot |-> held[j].slot, segs |-> held[j].segs,
                               age |-> held[j].age + 1]
            BY <4>3, <1>9
          <5>2. QED BY <5>1, ReferenceAges
        <4>4. QED BY <4>2, <4>3
      <3>2. QED BY <3>1, <1>4
    <2>2. RingTypeOK(Key, Value)'
      BY <1>1, <1>2, <1>6 DEF RingTypeOK, E
    <2>3. QED BY <2>1, <2>2 DEF ClientTypeOK
  <1>11. RingFillsFirst'
    BY <1>1, <1>2 DEF RingFillsFirst
  <1>12. Distinct'
    <2>1. \A i, j \in 1 .. n : entries_[i].key = entries_[j].key => i = j
      BY <1>7 DEF IInv, RingInv, Distinct
    <2>2. entries_'[n + 1].key = k
      BY <1>6 DEF e
    <2>3. \A i, j \in 1 .. n + 1 : entries_'[i].key = entries_'[j].key => i = j
      BY <1>1, <1>6, <1>8, <2>1, <2>2
    <2>4. QED BY <1>7, <2>3 DEF Distinct
  <1>13. AgesAgree' /\ HeldReferencesValid'
    <2>0. ASSUME NEW s \in 1 .. n + 1 PROVE AgeOfSlot(s)' = n + 1 - s
      <3>1. Len(entries_') = n + 1 /\ next_' = 0
        BY <1>1, <1>2, <1>6
      <3>2. QED BY <3>1, <1>1 DEF AgeOfSlot, Full
    <2>1. SUFFICES ASSUME NEW j \in Key, held'[j] # None
                   PROVE  /\ held'[j].age = (AgeOfSlot(held[j].slot))'
                          /\ held'[j].slot \in 1 .. n + 1
                          /\ entries_'[held'[j].slot]
                               = [key |-> j, segs |-> held'[j].segs]
      BY <1>7 DEF AgesAgree, HeldReferencesValid
    <2>2. CASE j = k
      <3>1. held'[j] = [slot |-> n + 1, segs |-> v, age |-> 0]
        BY <2>1, <2>2, <1>9
      <3>2. AgeOfSlot(n + 1)' = 0
        BY <2>0, <1>1
      <3>3. QED BY <3>1, <3>2, <2>2, <1>1, <1>6 DEF e
    <2>3. CASE j # k
      <3>1. /\ held[j] # None /\ held[j] \in Reference
            /\ held'[j] = [slot |-> held[j].slot, segs |-> held[j].segs,
                           age |-> held[j].age + 1]
        BY <2>1, <2>3, <1>9
      <3>2. /\ held[j].slot \in 1 .. n
            /\ entries_[held[j].slot] = [key |-> j, segs |-> held[j].segs]
            /\ held[j].age = n - held[j].slot
        BY <3>1, <1>7 DEF IInv, RingInv, HeldReferencesValid, AgesAgree, AgeOfSlot
      <3>3. /\ held'[j].slot = held[j].slot
            /\ held'[j].segs = held[j].segs
            /\ held'[j].age = held[j].age + 1
        BY <3>1
      <3>4. held'[j].age = (AgeOfSlot(held[j].slot))'
        BY <3>2, <3>3, <2>0, <1>1
      <3>5. QED BY <3>2, <3>3, <3>4, <1>6
    <2>4. QED BY <2>2, <2>3
  <1>14. QED
    BY <1>10, <1>11, <1>12, <1>13 DEF IInv, RingInv

(* A store into the full ring: slot next_ + 1 is overwritten, which held   *)
(* the oldest entry, and every other entry is one store older.             *)
LEMMA OverwriteIInv ==
  ASSUME IInv, NEW k \in Key, NEW v \in Value, Miss(k, v), Full
  PROVE  IInv'
  <1> USE CapacityAssumption
  <1> DEFINE E == [key : Key, segs : Value]
             e == [key |-> k, segs |-> v]
  <1> PICK C \in Nat \ {0} : C = Capacity
    OBVIOUS
  <1>0. next_ \in 0 .. C - 1
    BY DEF IInv, ClientTypeOK, RingTypeOK
  <1> PICK p \in 1 .. C : p = next_ + 1
    BY <1>0
  <1>1. /\ entries_ \in Seq(E) /\ Len(entries_) = C
        /\ held \in [Key -> Reference \cup {None}]
    BY DEF IInv, ClientTypeOK, RingTypeOK, Full
  <1>2. entries_' = [entries_ EXCEPT ![p] = e] /\ next_' = (next_ + 1) % C
    BY DEF Miss, Store
  <1>3. next_' = IF p = C THEN 0 ELSE p
    BY <1>0, <1>2, WrapAround
  <1>4. \A j \in Key : held'[j] = IF j = k THEN [slot |-> p, segs |-> v, age |-> 0]
                                  ELSE Aged(held[j])
    BY DEF Miss, StoredSlot
  <1>5. held' = [j \in Key |-> held'[j]]
    BY DEF Miss
  <1>6. e \in E /\ e.key = k
    OBVIOUS
  <1>7. /\ entries_' \in Seq(E) /\ Len(entries_') = C
        /\ entries_'[p] = e
        /\ \A i \in 1 .. C : i # p => entries_'[i] = entries_[i]
    <2> HIDE DEF E, e
    <2>1. QED BY <1>1, <1>2, <1>6, ExceptSeq
  <1>8. DOMAIN entries_ = 1 .. C /\ DOMAIN entries_' = 1 .. C
    BY <1>1, <1>7
  <1>9. \A i \in 1 .. C : entries_[i].key # k
    BY <1>8 DEF Miss, Cached, Slots
  <1> HIDE DEF e, E
  <1>10. ASSUME NEW s \in 1 .. C
         PROVE  /\ s = p => AgeOfSlot(s) = C - 1 /\ AgeOfSlot(s)' = 0
                /\ s # p => AgeOfSlot(s)' = AgeOfSlot(s) + 1
    <2>1. AgeOfSlot(s) = IF s <= p - 1 THEN p - 1 - s ELSE p - 1 - s + C
      BY <1>0 DEF AgeOfSlot
    <2>2. AgeOfSlot(s)' = IF s <= next_' THEN next_' - s ELSE next_' - s + C
      BY <1>7 DEF AgeOfSlot, Full
    <2>3. QED BY <2>1, <2>2, <1>3
  (* The references that survive, none of which points at the slot p.      *)
  <1>11. ASSUME NEW j \in Key, j # k, held'[j] # None
         PROVE  /\ held[j] \in Reference /\ held[j].age + 1 < C
                /\ held[j].slot \in 1 .. C /\ held[j].slot # p
                /\ held[j].age = AgeOfSlot(held[j].slot)
                /\ entries_[held[j].slot] = [key |-> j, segs |-> held[j].segs]
                /\ held'[j] = [slot |-> held[j].slot, segs |-> held[j].segs,
                               age |-> held[j].age + 1]
    <2>1. held'[j] = Aged(held[j])
      BY <1>4, <1>11
    <2>2. held[j] # None /\ ~(held[j].age + 1 >= Capacity)
      BY <1>11, <2>1 DEF Aged
    <2>3. held[j] \in Reference
      BY <2>2, <1>1
    <2>4. held[j].age \in Int
      BY <2>3 DEF Reference
    <2>5. held[j].age + 1 < C
      BY <2>2, <2>4
    <2>6. /\ held[j].slot \in 1 .. C
          /\ held[j].age = AgeOfSlot(held[j].slot)
          /\ entries_[held[j].slot] = [key |-> j, segs |-> held[j].segs]
      BY <2>2, <1>8 DEF IInv, RingInv, HeldReferencesValid, AgesAgree
    <2>7. held[j].slot # p
      BY <2>5, <2>6, <1>10
    <2>8. held'[j] = [slot |-> held[j].slot, segs |-> held[j].segs,
                      age |-> held[j].age + 1]
      BY <2>1, <2>2 DEF Aged
    <2>9. QED BY <2>3, <2>5, <2>6, <2>7, <2>8
  <1>12. ClientTypeOK'
    <2>1. \A j \in Key : held'[j] \in Reference \cup {None}
      <3> SUFFICES ASSUME NEW j \in Key, held'[j] # None
                   PROVE  held'[j] \in Reference
        OBVIOUS
      <3>1. CASE j = k
        <4>1. held'[j] = [slot |-> p, segs |-> v, age |-> 0]
          BY <3>1, <1>4
        <4>2. 0 \in 0 .. Capacity - 1
          OBVIOUS
        <4>3. QED BY <4>1, <4>2 DEF Reference
      <3>2. CASE j # k
        <4>1. /\ held[j] \in Reference /\ held[j].age + 1 < Capacity
              /\ held'[j] = [slot |-> held[j].slot, segs |-> held[j].segs,
                             age |-> held[j].age + 1]
          BY <3>2, <1>11
        <4>2. QED BY <4>1, ReferenceAges
      <3>3. QED BY <3>1, <3>2
    <2>2. held' \in [Key -> Reference \cup {None}]
      BY <2>1, <1>5
    <2>3. RingTypeOK(Key, Value)'
      BY <1>3, <1>7 DEF RingTypeOK, E
    <2>4. QED BY <2>2, <2>3 DEF ClientTypeOK
  <1>13. RingFillsFirst'
    BY <1>7 DEF RingFillsFirst, Full
  <1>14. Distinct'
    <2>1. \A i, j \in 1 .. C : entries_[i].key = entries_[j].key => i = j
      BY <1>8 DEF IInv, RingInv, Distinct
    <2>2. entries_'[p].key = k
      BY <1>7 DEF e
    <2>3. \A i, j \in 1 .. C : entries_'[i].key = entries_'[j].key => i = j
      BY <1>7, <1>9, <2>1, <2>2
    <2>4. QED BY <1>8, <2>3 DEF Distinct
  <1>15. AgesAgree' /\ HeldReferencesValid'
    <2>1. SUFFICES ASSUME NEW j \in Key, held'[j] # None
                   PROVE  /\ held'[j].age = AgeOfSlot(held[j].slot)'
                          /\ held'[j].slot \in 1 .. C
                          /\ entries_'[held'[j].slot]
                               = [key |-> j, segs |-> held'[j].segs]
      BY <1>8 DEF AgesAgree, HeldReferencesValid
    <2>2. CASE j = k
      <3>1. held'[j] = [slot |-> p, segs |-> v, age |-> 0]
        BY <2>2, <1>4
      <3>2. AgeOfSlot(p)' = 0
        BY <1>10
      <3>3. QED BY <3>1, <3>2, <2>2, <1>7 DEF e
    <2>3. CASE j # k
      <3>0. held'[j] = [slot |-> held[j].slot, segs |-> held[j].segs,
                        age |-> held[j].age + 1]
        BY <2>1, <2>3, <1>11
      <3>1. /\ held'[j].slot = held[j].slot
            /\ held'[j].segs = held[j].segs
            /\ held'[j].age = held[j].age + 1
        BY <3>0
      <3>2. QED BY <2>1, <2>3, <3>1, <1>7, <1>10, <1>11
    <2>4. QED BY <2>2, <2>3
  <1>16. QED
    BY <1>12, <1>13, <1>14, <1>15 DEF IInv, RingInv

(* Dropping a reference disturbs nothing.                                  *)
LEMMA ReleaseIInv ==
  ASSUME IInv, NEW k \in Key, Release(k)
  PROVE  IInv'
  <1>1. entries_' = entries_ /\ next_' = next_
    BY DEF Release, cacheVars
  <1>2. held \in [Key -> Reference \cup {None}] /\ held' = [held EXCEPT ![k] = None]
    BY DEF Release, IInv, ClientTypeOK
  <1>3. held' \in [Key -> Reference \cup {None}]
    BY <1>2
  <1>4. \A j \in Key : held'[j] # None => held[j] # None /\ held'[j] = held[j]
    BY <1>2
  <1>5. ClientTypeOK' /\ RingFillsFirst' /\ Distinct'
    BY <1>1, <1>3 DEF IInv, ClientTypeOK, RingTypeOK, RingInv, RingFillsFirst, Distinct, Full
  <1>6. AgesAgree'
    BY <1>1, <1>4 DEF IInv, RingInv, AgesAgree, AgeOfSlot, Full
  <1>7. HeldReferencesValid'
    BY <1>1, <1>4 DEF IInv, HeldReferencesValid
  <1>8. QED
    BY <1>5, <1>6, <1>7 DEF IInv, RingInv

(* Clearing the ring ends every promise and starts over.                   *)
LEMMA InvalidateIInv ==
  ASSUME Invalidate
  PROVE  IInv'
  <1>1. entries_' = << >> /\ next_' = 0 /\ held' = [k \in Key |-> None]
    BY DEF Invalidate, Clear
  <1>2. QED
    BY <1>1, CapacityAssumption
       DEF IInv, ClientTypeOK, RingTypeOK, RingInv, RingFillsFirst, Distinct,
           AgesAgree, HeldReferencesValid, Full

LEMMA StutterIInv ==
  ASSUME IInv, UNCHANGED clientVars
  PROVE  IInv'
  <1>1. entries_' = entries_ /\ next_' = next_ /\ held' = held
    BY DEF clientVars
  <1>2. QED
    BY <1>1 DEF IInv, ClientTypeOK, RingTypeOK, RingInv, RingFillsFirst, Distinct,
                AgesAgree, AgeOfSlot, HeldReferencesValid, Full

LEMMA StepIInv == IInv /\ [ClientNext]_clientVars => IInv'
  <1> SUFFICES ASSUME IInv, [ClientNext]_clientVars PROVE IInv'
    OBVIOUS
  <1>1. ASSUME NEW k \in Key, Hit(k) PROVE IInv'
    BY <1>1, HitIInv
  <1>2. ASSUME NEW k \in Key, Release(k) PROVE IInv'
    BY <1>2, ReleaseIInv
  <1>3. ASSUME NEW k \in Key, NEW v \in Value, Miss(k, v) PROVE IInv'
    BY <1>3, GrowIInv, OverwriteIInv
  <1>4. CASE Invalidate
    BY <1>4, InvalidateIInv
  <1>5. CASE UNCHANGED clientVars
    BY <1>5, StutterIInv
  <1>6. QED
    BY <1>1, <1>2, <1>3, <1>4, <1>5 DEF ClientNext

(* The ring and the references keep their types: in particular the ring    *)
(* never outgrows Capacity, and next_ always names one of its slots.       *)
THEOREM RingTypeCorrect == ClientSpec => []ClientTypeOK
  <1>1. IInv => ClientTypeOK
    BY DEF IInv
  <1>2. QED BY <1>1, InitIInv, StepIInv, PTL DEF ClientSpec

(* A reference handed out by path() keeps reading the path it was handed   *)
(* out for until the owner clears the ring or Capacity further stores have *)
(* been made, for every Capacity: what find() and store() promise.         *)
THEOREM ReferencesStayValid == ClientSpec => []HeldReferencesValid
  <1>1. IInv => HeldReferencesValid
    BY DEF IInv
  <1>2. QED BY <1>1, InitIInv, StepIInv, PTL DEF ClientSpec

(* The ring fills from its first slot and never holds a key twice, so the  *)
(* linear scan of find() meets the only entry there is.                    *)
THEOREM RingWellFormed == ClientSpec => []RingInv
  <1>1. IInv => RingInv
    BY DEF IInv
  <1>2. QED BY <1>1, InitIInv, StepIInv, PTL DEF ClientSpec

-----------------------------------------------------------------------------
(* The ring implements the bounded queue.                                  *)

(* A sequence read from behind position n round to n.                      *)
LEMMA Rotated ==
  ASSUME NEW E, NEW s \in Seq(E), NEW n \in 0 .. Len(s)
  PROVE  LET r == SubSeq(s, n + 1, Len(s)) \o SubSeq(s, 1, n)
         IN  /\ r \in Seq(E)
             /\ Len(r) = Len(s)
             /\ \A i \in 1 .. Len(s) :
                   r[i] = IF i <= Len(s) - n THEN s[n + i] ELSE s[n + i - Len(s)]
  <1> DEFINE back == SubSeq(s, n + 1, Len(s))
             front == SubSeq(s, 1, n)
  <1>1. Len(s) \in Nat /\ n \in Nat /\ n <= Len(s)
    OBVIOUS
  <1>2. \A i \in 1 .. Len(s) : s[i] \in E
    BY ElementOfSeq
  <1>3. /\ back \in Seq(E) /\ Len(back) = Len(s) - n
        /\ \A i \in 1 .. Len(s) - n : back[i] = s[n + i]
    <2>1. \A i \in n + 1 .. Len(s) : s[i] \in E
      BY <1>1, <1>2
    <2>2. /\ back \in Seq(E)
          /\ Len(back) = IF n + 1 <= Len(s) THEN Len(s) - (n + 1) + 1 ELSE 0
          /\ \A i \in 1 .. Len(s) - (n + 1) + 1 : back[i] = s[(n + 1) + i - 1]
      BY <1>1, <2>1, SubSeqProperties
    <2> HIDE DEF back
    <2>3. QED BY <1>1, <2>2
  <1>4. /\ front \in Seq(E) /\ Len(front) = n
        /\ \A i \in 1 .. n : front[i] = s[i]
    <2>1. \A i \in 1 .. n : s[i] \in E
      BY <1>1, <1>2
    <2>2. /\ front \in Seq(E)
          /\ Len(front) = IF 1 <= n THEN n - 1 + 1 ELSE 0
          /\ \A i \in 1 .. n - 1 + 1 : front[i] = s[1 + i - 1]
      BY <1>1, <2>1, SubSeqProperties
    <2> HIDE DEF front
    <2>3. QED BY <1>1, <2>2
  <1> HIDE DEF back, front
  <1>5. /\ back \o front \in Seq(E)
        /\ Len(back \o front) = Len(s)
        /\ \A i \in 1 .. Len(s) : (back \o front)[i] =
              IF i <= Len(s) - n THEN back[i] ELSE front[i - (Len(s) - n)]
    BY <1>1, <1>3, <1>4, ConcatProperties
  <1>6. \A i \in 1 .. Len(s) : (back \o front)[i] =
           IF i <= Len(s) - n THEN s[n + i] ELSE s[n + i - Len(s)]
    BY <1>1, <1>3, <1>4, <1>5
  <1>7. QED
    BY <1>5, <1>6 DEF back, front

(* The queue has the ring's length and the ring's entries, and its i-th    *)
(* entry sits i slots behind next_.                                        *)
LEMMA QueueIsRing ==
  ASSUME IInv
  PROVE  /\ OldestFirst \in Seq([key : Key, segs : Value])
         /\ Len(OldestFirst) = Len(entries_)
         /\ \A i \in 1 .. Len(entries_) : OldestFirst[i] =
               IF i <= Len(entries_) - next_ THEN entries_[next_ + i]
               ELSE entries_[next_ + i - Len(entries_)]
  <1> DEFINE E == [key : Key, segs : Value]
  <1>1. entries_ \in Seq(E) /\ next_ \in 0 .. Len(entries_)
    BY CapacityAssumption DEF IInv, ClientTypeOK, RingTypeOK, RingInv, RingFillsFirst, Full
  <1> HIDE DEF E
  <1>2. QED
    BY <1>1, Rotated DEF OldestFirst, E

(* A key the scan does not find is not queued either.                      *)
LEMMA MissIsMiss ==
  ASSUME IInv, NEW k \in Key, ~Cached(k)
  PROVE  ~Fifo!Queued(k)
  <1>1. /\ Len(OldestFirst) = Len(entries_)
        /\ DOMAIN OldestFirst = 1 .. Len(entries_)
        /\ DOMAIN entries_ = 1 .. Len(entries_)
        /\ Len(entries_) \in Nat /\ next_ \in 0 .. Len(entries_)
    BY QueueIsRing, CapacityAssumption
       DEF IInv, ClientTypeOK, RingTypeOK, RingInv, RingFillsFirst, Full
  <1>2. ASSUME NEW i \in DOMAIN OldestFirst PROVE OldestFirst[i].key # k
    <2>1. PICK j \in 1 .. Len(entries_) : OldestFirst[i] = entries_[j]
      <3>1. CASE i <= Len(entries_) - next_
        <4>1. next_ + i \in 1 .. Len(entries_)
          BY <1>1, <1>2, <3>1
        <4>2. QED BY <1>1, <1>2, <3>1, <4>1, QueueIsRing
      <3>2. CASE ~(i <= Len(entries_) - next_)
        <4>1. next_ + i - Len(entries_) \in 1 .. Len(entries_)
          BY <1>1, <1>2, <3>2
        <4>2. QED BY <1>1, <1>2, <3>2, <4>1, QueueIsRing
      <3>3. QED BY <3>1, <3>2
    <2>2. entries_[j].key # k
      BY <1>1 DEF Cached, Slots
    <2>3. QED BY <2>1, <2>2
  <1>3. QED BY <1>2 DEF Fifo!Queued

LEMMA MissRefines ==
  ASSUME IInv, NEW k \in Key, NEW v \in Value, Miss(k, v)
  PROVE  Fifo!Miss(k, v)
  <1> USE CapacityAssumption
  <1> DEFINE E == [key : Key, segs : Value]
             e == [key |-> k, segs |-> v]
             Q == OldestFirst
             Q1 == SubSeq(entries_', next_' + 1, Len(entries_')) \o SubSeq(entries_', 1, next_')
  <1>1. ~Fifo!Queued(k)
    BY MissIsMiss DEF Miss
  <1>2. /\ e \in E /\ entries_ \in Seq(E) /\ Q \in Seq(E) /\ Len(Q) = Len(entries_)
        /\ next_ \in 0 .. Capacity - 1
        /\ \A i \in 1 .. Len(entries_) : Q[i] =
              IF i <= Len(entries_) - next_ THEN entries_[next_ + i]
              ELSE entries_[next_ + i - Len(entries_)]
    BY QueueIsRing DEF IInv, ClientTypeOK, RingTypeOK
  <1>3. OldestFirst' = Q1
    BY DEF OldestFirst
  <1>4. CASE ~Full
    <2>1. Len(entries_) \in Nat /\ Len(entries_) < Capacity /\ next_ = 0
      BY <1>4 DEF IInv, ClientTypeOK, RingTypeOK, RingInv, RingFillsFirst, Full
    <2>2. entries_' = Append(entries_, e) /\ next_' = 0
      BY <1>4, <2>1 DEF Miss, Store
    <2> HIDE DEF E, e, Q
    <2>3. /\ entries_' \in Seq(E) /\ Len(entries_') = Len(entries_) + 1
          /\ \A i \in 1 .. Len(entries_) : entries_'[i] = entries_[i]
          /\ entries_'[Len(entries_) + 1] = e
      BY <1>2, <2>2, AppendProperties
    <2>4. /\ Q1 \in Seq(E) /\ Len(Q1) = Len(entries_')
          /\ \A i \in 1 .. Len(entries_') : Q1[i] = entries_'[i]
      <3>1. next_' \in 0 .. Len(entries_')
        BY <2>1, <2>2, <2>3
      <3>2. /\ Q1 \in Seq(E) /\ Len(Q1) = Len(entries_')
            /\ \A i \in 1 .. Len(entries_') : Q1[i] =
                 IF i <= Len(entries_') - next_' THEN entries_'[next_' + i]
                 ELSE entries_'[next_' + i - Len(entries_')]
        BY <2>3, <3>1, Rotated
      <3> HIDE DEF Q1
      <3>3. QED BY <2>1, <2>2, <2>3, <3>2
    <2> HIDE DEF Q1
    <2>5. \A i \in 1 .. Len(entries_) : Q[i] = entries_[i]
      BY <1>2, <2>1
    <2>6. /\ Append(Q, e) \in Seq(E) /\ Len(Append(Q, e)) = Len(entries_) + 1
          /\ \A i \in 1 .. Len(entries_) : Append(Q, e)[i] = Q[i]
          /\ Append(Q, e)[Len(entries_) + 1] = e
      BY <1>2, AppendProperties
    <2>7. \A i \in 1 .. Len(Q1) : Q1[i] = Append(Q, e)[i]
      BY <2>1, <2>3, <2>4, <2>5, <2>6
    <2>8. Q1 = Append(Q, e)
      BY <2>3, <2>4, <2>6, <2>7, SeqEqual
    <2>9. QED
      BY <1>1, <1>2, <1>3, <2>1, <2>8 DEF Fifo!Miss, Q, e
  <1>5. CASE Full
    <2> PICK C \in Nat \ {0} : C = Capacity
      OBVIOUS
    <2> PICK p \in 1 .. C : p = next_ + 1
      BY <1>2
    <2>1. Len(entries_) = C
      BY <1>5 DEF IInv, ClientTypeOK, RingTypeOK, Full
    <2>2. entries_' = [entries_ EXCEPT ![p] = e] /\ next_' = (next_ + 1) % C
      BY <1>5 DEF Miss, Store
    <2>3. next_' = IF p = C THEN 0 ELSE p
      BY <1>2, <2>2, WrapAround
    <2> HIDE DEF E, e, Q
    <2>4. /\ entries_' \in Seq(E) /\ Len(entries_') = C
          /\ \A i \in 1 .. C : entries_'[i] = IF i = p THEN e ELSE entries_[i]
      BY <1>2, <2>1, <2>2, ExceptSeq
    <2>5. /\ Q1 \in Seq(E) /\ Len(Q1) = C
          /\ \A i \in 1 .. C : Q1[i] =
               IF i <= C - next_' THEN entries_'[next_' + i]
               ELSE entries_'[next_' + i - C]
      <3>1. next_' \in 0 .. Len(entries_')
        BY <2>3, <2>4
      <3>2. /\ Q1 \in Seq(E) /\ Len(Q1) = Len(entries_')
            /\ \A i \in 1 .. Len(entries_') : Q1[i] =
                 IF i <= Len(entries_') - next_' THEN entries_'[next_' + i]
                 ELSE entries_'[next_' + i - Len(entries_')]
        BY <2>4, <3>1, Rotated
      <3> HIDE DEF Q1
      <3>3. QED BY <2>4, <3>2
    <2> HIDE DEF Q1
    <2>6. /\ Tail(Q) \in Seq(E) /\ Len(Tail(Q)) = C - 1
          /\ \A i \in 1 .. C - 1 : Tail(Q)[i] = Q[i + 1]
      <3>1. Len(Q) = C /\ Q # << >>
        BY <1>2, <2>1, EmptySeq
      <3>2. QED BY <1>2, <3>1, HeadTailProperties
    <2>7. /\ Append(Tail(Q), e) \in Seq(E) /\ Len(Append(Tail(Q), e)) = C
          /\ \A i \in 1 .. C - 1 : Append(Tail(Q), e)[i] = Q[i + 1]
          /\ Append(Tail(Q), e)[C] = e
      BY <1>2, <2>6, AppendProperties
    <2>8. ASSUME NEW i \in 1 .. C - 1 PROVE Q1[i] = Q[i + 1]
      <3>1. Q[i + 1] = IF i + 1 <= C - next_ THEN entries_[next_ + (i + 1)]
                       ELSE entries_[next_ + (i + 1) - C]
        BY <1>2, <2>1
      <3>2. Q[i + 1] = IF i <= C - p THEN entries_[p + i] ELSE entries_[p + i - C]
        BY <1>2, <3>1
      <3>3. CASE i <= C - p
        <4>1. p < C /\ next_' = p /\ p + i \in 1 .. C /\ p + i # p
          BY <2>3, <2>8, <3>3
        <4>2. Q1[i] = entries_'[p + i]
          BY <2>5, <4>1, <3>3
        <4>3. QED BY <2>4, <3>2, <3>3, <4>1, <4>2
      <3>4. CASE ~(i <= C - p)
        <4>1. p + i - C \in 1 .. C /\ p + i - C # p
          BY <3>4
        <4>2. Q1[i] = entries_'[p + i - C]
          <5>1. CASE p = C
            <6>1. next_' = 0 /\ Q1[i] = entries_'[0 + i] /\ p + i - C = i
              BY <2>3, <2>5, <5>1
            <6>2. QED BY <6>1
          <5>2. CASE p # C
            <6>1. next_' = p
              BY <2>3, <5>2
            <6>2. QED BY <2>5, <3>4, <6>1
          <5>3. QED BY <5>1, <5>2
        <4>3. QED BY <2>4, <3>2, <3>4, <4>1, <4>2
      <3>5. QED BY <3>3, <3>4
    <2>9. Q1[C] = e
      <3>1. CASE p = C
        <4>1. Q1[C] = entries_'[0 + C]
          BY <2>3, <2>5, <3>1
        <4>2. QED BY <2>4, <3>1, <4>1
      <3>2. CASE p # C
        <4>1. next_' = p /\ ~(C <= C - p) /\ p + C - C = p
          BY <2>3, <3>2
        <4>2. Q1[C] = entries_'[p + C - C]
          BY <2>5, <4>1
        <4>3. QED BY <2>4, <4>1, <4>2
      <3>3. QED BY <3>1, <3>2
    <2>10. \A i \in 1 .. C : Q1[i] = Append(Tail(Q), e)[i]
      <3>1. \A i \in 1 .. C : i \in 1 .. C - 1 \/ i = C
        OBVIOUS
      <3>2. QED BY <2>7, <2>8, <2>9, <3>1
    <2>11. Q1 = Append(Tail(Q), e)
      BY <2>5, <2>7, <2>10, SeqEqual
    <2>12. Len(Q) = Capacity
      BY <1>2, <2>1
    <2>13. QED
      BY <1>1, <1>3, <2>11, <2>12 DEF Fifo!Miss, Q, e
  <1>6. QED BY <1>4, <1>5

(* An empty ring is the empty queue.                                       *)
LEMMA ClearedIsEmpty ==
  SubSeq(<< >>, 0 + 1, Len(<< >>)) \o SubSeq(<< >>, 1, 0) = << >>
  OBVIOUS

(* Every behaviour of the ring is one of the bounded queue: a miss evicts  *)
(* the oldest path and nothing else, for every Capacity and whenever the   *)
(* ring was cleared.                                                       *)
THEOREM RingImplementsFifo == ClientSpec => ImplementsFifo
  <1>1. ClientInit => Fifo!Init
    BY ClearedIsEmpty DEF ClientInit, CacheInit, Fifo!Init, OldestFirst
  <1>2. IInv /\ [ClientNext]_clientVars => [Fifo!Next]_OldestFirst
    <2> SUFFICES ASSUME IInv, [ClientNext]_clientVars PROVE [Fifo!Next]_OldestFirst
      OBVIOUS
    <2>1. ASSUME entries_' = entries_, next_' = next_ PROVE OldestFirst' = OldestFirst
      BY <2>1 DEF OldestFirst
    <2>2. ASSUME NEW k \in Key, Hit(k) \/ Release(k) PROVE OldestFirst' = OldestFirst
      BY <2>1, <2>2 DEF Hit, Release, cacheVars
    <2>3. ASSUME NEW k \in Key, NEW v \in Value, Miss(k, v) PROVE Fifo!Next
      BY <2>3, MissRefines DEF Fifo!Next
    <2>4. CASE Invalidate
      <3>1. OldestFirst' = << >>
        BY <2>4, ClearedIsEmpty DEF Invalidate, Clear, OldestFirst
      <3>2. QED BY <3>1 DEF Fifo!Next, Fifo!Forget
    <2>5. CASE UNCHANGED clientVars
      BY <2>1, <2>5 DEF clientVars
    <2>6. QED
      BY <2>2, <2>3, <2>4, <2>5 DEF ClientNext
  <1>3. QED
    BY <1>1, <1>2, InitIInv, StepIInv, PTL DEF ClientSpec, ImplementsFifo, Fifo!Spec
=============================================================================
