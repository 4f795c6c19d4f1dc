--------------------------- MODULE SequentialModel ---------------------------
(***************************************************************************)
(* The sequential optical model: a list of interfaces, the gaps between    *)
(* them, the per-gap data derived from both, and the path cache that       *)
(* serves the ray trace (src/rayoptics/seq/SequentialModel.cpp).           *)
(*                                                                         *)
(* Object indices in cur_surface and stop_surface count from 0 as in the   *)
(* code; the sequences count from 1, so ifcs[i + 1] is the code's ifcs[i]. *)
(*                                                                         *)
(* An interface is its identity (the order it was inserted in), its        *)
(* interact mode and delta_n.  A gap is its medium and its thickness.  A   *)
(* transform is the distance it moves along the axis: decentered surfaces  *)
(* only change how that distance is computed.  Curvatures and apertures    *)
(* are not modelled: paths hold them by reference.                         *)
(***************************************************************************)
EXTENDS PathCache, FiniteSetsExt, SequencesExt

CONSTANTS
    Null,               \* std::nullopt
    Medium,             \* the media a gap can be filled with
    Air,                \* the medium of the object gap
    RIndex,             \* RIndex[m][w]: refractive index of m at wavelength w
    WvlSpecs,           \* the WvlSpecs a client may install
    DefaultWvls,        \* the WvlSpec of a new OpticalModel
    Request,            \* the argument lists passed to path()
    Thickness,          \* thicknesses a surface is added with
    MaxIfcs,            \* bound: interfaces in the model
    MaxThi              \* bound: |thickness| after edits and scaling

ASSUME NullAssumption == Null \notin Int

(* A spectrum is a list that has its reference wavelength.  The callers of *)
(* path() count from the object, in steps of one.                          *)
ASSUME WvlsAssumption ==
    /\ DefaultWvls \in WvlSpecs
    /\ \A spec \in WvlSpecs :
          /\ spec.wavelengths \in Seq(Range(spec.wavelengths))
          /\ spec.reference_wvl \in DOMAIN spec.wavelengths
ASSUME RequestAssumption ==
    \A req \in Request :
        /\ req.start \in {Null} \cup Nat
        /\ req.stop \in {Null} \cup Int
        /\ req.step \in {Null, 1}

VARIABLES
    osp,                \* optical_spec->wvls: [wavelengths, reference_wvl]
    ifcs, gaps, z_dir, rndx, lcl_tfrms, gbl_tfrms, wvlns,
    cur_surface, stop_surface,
    edited,             \* history: written to since the last update_model()
    rescaled            \* history: apply_scale_factor() since the last clear

modelVars == <<ifcs, gaps, z_dir, rndx, lcl_tfrms, gbl_tfrms>>
vars == <<entries_, next_, osp, ifcs, gaps, z_dir, rndx, lcl_tfrms, gbl_tfrms,
          wvlns, cur_surface, stop_surface, edited, rescaled>>

NumIfcs == Len(ifcs)

-----------------------------------------------------------------------------
(* The list helpers the model is written with (util/Lists.h): positions    *)
(* count from 0, and Null is an absent bound.                              *)

FromEnd(x, len) == IF x < 0 THEN x + len ELSE x

(* The positions slice() visits.  A forward loop stops short of `stop`; the*)
(* backward loop keeps going down to `stop` itself.                        *)
SliceIndices(len, start, stop, step) ==
    LET first == IF start # Null THEN FromEnd(start, len)
                 ELSE IF step < 0 THEN len - 1 ELSE 0
        limit == IF stop # Null THEN FromEnd(stop, len)
                 ELSE IF step < 0 THEN -1 ELSE len
        up    == Max({0, first})
        upTo  == Min({limit, len})
        down  == Min({first, len - 1})
        downTo == Max({limit, 0})
    IN  IF step > 0
          THEN [n \in 1 .. (upTo - up + step - 1) \div step |-> up + (n - 1) * step]
          ELSE [n \in 1 .. (down - downTo + -step) \div (-step) |->
                   down + (n - 1) * step]

(* slice() for a nonzero step (a zero step throws).                        *)
Slice(s, start, stop, step) ==
    LET ix == SliceIndices(Len(s), start, stop, step)
    IN  [n \in 1 .. Len(ix) |-> s[ix[n] + 1]]

(* checked_index(): get() throws when the position is outside the list.    *)
InBounds(len, i) == FromEnd(i, len) \in 0 .. len - 1

(* zip_longest(): element n of a list, padded with null.                   *)
Padded(s, n) == IF n \in DOMAIN s THEN s[n] ELSE Null

-----------------------------------------------------------------------------
(* Derived data, each computed from the lists by update_model().           *)

(* calc_ref_indices_for_spectrum(): one row per gap, one column per        *)
(* wavelength.                                                             *)
Row(medium, wvls) == [w \in 1 .. Len(wvls) |-> RIndex[medium][wvls[w]]]
RefIndices(gs, wvls) == [i \in 1 .. Len(gs) |-> Row(gs[i].medium, wvls)]

(* Mutant: the flip is taken from the object's direction every time.       *)
DirectionsOneMirror(is, first, n) ==
    [i \in 1 .. n |-> IF is[i].mode = "reflect" THEN -first ELSE first]

(* The direction after each interface: it flips at every mirror, starting  *)
(* from the direction the object gap has.                                  *)
Directions(is, first, n) ==
    LET after[i \in 0 .. n] ==
          IF i = 0 THEN first
          ELSE IF is[i].mode = "reflect" THEN -after[i - 1] ELSE after[i - 1]
    IN  [i \in 1 .. n |-> after[i]]

(* Index change across interface i at the reference wavelength, each side  *)
(* signed by its direction -- but the side before the object is unsigned.  *)
DeltaN(i, rows, dirs, ref) ==
    dirs[i] * rows[i][ref] - (IF i = 1 THEN rows[1][ref]
                              ELSE dirs[i - 1] * rows[i - 1][ref])

(* compute_local_transforms(): interface to next interface; the image, last*)
(* in the list, gets the identity.                                         *)
LocalTfrms(gs) ==
    [i \in 1 .. Len(gs) + 1 |-> IF i > Len(gs) THEN 0 ELSE gs[i].thi]

(* Mutant: the gaps are taken in the order of the list.                    *)
BackwardTfrmsInOrder(gs) ==
    [i \in 1 .. Len(gs) + 1 |-> IF i > Len(gs) THEN 0 ELSE -gs[i].thi]

(* The same with step -1: from the image back to the object.               *)
BackwardTfrms(gs) ==
    [i \in 1 .. Len(gs) + 1 |-> IF i > Len(gs) THEN 0 ELSE -gs[Len(gs) + 1 - i].thi]

(* compute_global_coords(): positions with respect to interface 1 (the     *)
(* first real surface), accumulated backwards to the object and forwards to*)
(* the image.                                                              *)
GlobalTfrms(gs) ==
    LET at[i \in 1 .. Len(gs) + 1] ==
          IF i = 1 THEN -gs[1].thi ELSE at[i - 1] + gs[i - 1].thi
    IN  [i \in 1 .. Len(gs) + 1 |-> at[i]]

-----------------------------------------------------------------------------
(* path(): what a miss builds.                                             *)

CentralWvl == osp.wavelengths[osp.reference_wvl]

WvlOf(req) == IF req.wl = Null THEN CentralWvl ELSE req.wl

WvlKnown(w) == \E i \in DOMAIN osp.wavelengths : osp.wavelengths[i] = w

(* Mutant: the reference column, whatever the wavelength.                  *)
WvlIndexOfReference(w) == osp.reference_wvl

(* index_for_wavelength(): the first column with that wavelength.          *)
WvlIndex(w) == CHOOSE i \in DOMAIN osp.wavelengths :
                  /\ osp.wavelengths[i] = w
                  /\ \A j \in 1 .. i - 1 : osp.wavelengths[j] # w

(* One segment per interface: the interface and the gap by reference, the  *)
(* transform, the index at the wavelength and the direction by value.      *)
BuildPath(req) ==
    LET step     == IF req.step = Null THEN 1 ELSE req.step
        gapStart == IF step < 0 /\ req.start # Null THEN req.start - 1
                    ELSE req.start
        wl == WvlIndex(WvlOf(req))
        i  == Slice([k \in 1 .. NumIfcs |-> ifcs[k].id], req.start, req.stop, step)
        g  == Slice([k \in 1 .. Len(gaps) |-> gaps[k].id], gapStart, req.stop, step)
        t  == Slice(lcl_tfrms, req.start, req.stop, step)
        r  == Slice(rndx, req.start, req.stop, step)
        z  == Slice(z_dir, req.start, req.stop, step)
    IN  [n \in 1 .. Max({Len(i), Len(g), Len(t), Len(r), Len(z)}) |->
           [ifc  |-> Padded(i, n), gap |-> Padded(g, n), tfrm |-> Padded(t, n),
            indx |-> IF n \in DOMAIN r THEN r[n][wl] ELSE Null,
            zdir |-> Padded(z, n)]]

(* reverse_path(): the segments from interface `start` back to the object, *)
(* each with the gap before it and the opposite direction.  The directions *)
(* are sliced from `start` too, one further than there are gaps.           *)
ReversePath(w, start) ==
    LET wl == WvlIndex(w)
        i  == Slice([k \in 1 .. NumIfcs |-> ifcs[k].id], start, Null, -1)
        g  == Slice([k \in 1 .. Len(gaps) |-> gaps[k].id], start - 1, Null, -1)
        t  == Slice(BackwardTfrms(gaps), -(start + 1), Null, 1)
        r  == Slice(rndx, start - 1, Null, -1)
        z  == Slice(z_dir, start, Null, -1)
    IN  [n \in 1 .. Max({Len(i), Len(g), Len(t), Len(r), Len(z)}) |->
           [ifc  |-> Padded(i, n), gap |-> Padded(g, n), tfrm |-> Padded(t, n),
            indx |-> IF n \in DOMAIN r THEN r[n][wl] ELSE Null,
            zdir |-> IF n \in DOMAIN z THEN -z[n] ELSE Null]]

-----------------------------------------------------------------------------
(* OpticalModel's constructor: initialize_arrays() puts in an object, a gap*)
(* of air and an image, and update_model() then derives the rest.          *)

Init ==
    /\ CacheInit
    /\ osp = DefaultWvls
    /\ ifcs = <<[id |-> 0, mode |-> "dummy", delta_n |-> 0],
                [id |-> 1, mode |-> "dummy", delta_n |-> 0]>>
    /\ gaps = <<[id |-> 0, medium |-> Air, thi |-> 0]>>
    /\ z_dir = <<1>>
    /\ rndx = RefIndices(gaps, osp.wavelengths)
    /\ lcl_tfrms = LocalTfrms(gaps)
    /\ gbl_tfrms = GlobalTfrms(gaps)
    /\ wvlns = osp.wavelengths
    /\ cur_surface = 0
    /\ stop_surface = Null
    /\ edited = FALSE
    /\ rescaled = FALSE

(* The splice both overloads of insert() end with, at code index idx.      *)
(* z_dir_ is relative to the direction before the new interface.           *)
Splice(idx, mode, medium, thi) ==
    LET turn == IF mode = "reflect" THEN -1 ELSE 1
    IN  /\ NumIfcs < MaxIfcs
        /\ cur_surface' = idx
        /\ ifcs' = InsertAt(ifcs, idx + 1,
                            [id |-> NumIfcs, mode |-> mode, delta_n |-> 0])
        /\ gaps' = InsertAt(gaps, idx + 1,
                            [id |-> NumIfcs, medium |-> medium, thi |-> thi])
        /\ z_dir' = InsertAt(z_dir, idx + 1,
                             IF idx > 1 THEN turn * z_dir[idx] ELSE turn)
        /\ gbl_tfrms' = InsertAt(gbl_tfrms, idx + 1, 0)
        /\ lcl_tfrms' = InsertAt(lcl_tfrms, idx + 1, 0)
        /\ rndx' = InsertAt(rndx, idx + 1, Row(medium, osp.wavelengths))
        /\ Clear
        /\ edited' = TRUE
        /\ rescaled' = FALSE
        /\ UNCHANGED <<osp, wvlns>>

(* insert() without an index: behind cur_surface, and a stop that lies     *)
(* behind the insertion point moves along -- unless it is the last surface *)
(* before the image.                                                       *)
ShiftedStop ==
    IF /\ stop_surface # Null
       /\ NumIfcs > 2
       /\ stop_surface > cur_surface
       /\ stop_surface < NumIfcs - 2
      THEN stop_surface + 1
      ELSE stop_surface

(* add_surface(): a mirror is followed by the medium before it.            *)
AddSurface(mode, medium, thi) ==
    /\ stop_surface' = ShiftedStop
    /\ Splice(cur_surface + 1, mode,
              IF mode = "reflect" THEN gaps[cur_surface + 1].medium ELSE medium,
              thi)

(* insert() at an explicit index leaves the stop where it is.              *)
InsertSurface(idx, mode, medium, thi) ==
    /\ Splice(idx, mode, medium, thi)
    /\ UNCHANGED stop_surface

(* Mutant: any index is accepted, the object included.                     *)
SetStopAnywhere(idx) ==
    /\ stop_surface' = idx
    /\ UNCHANGED <<cacheVars, modelVars, osp, wvlns, cur_surface, edited, rescaled>>

(* set_stop(): no stop without a surface between object and image, and the *)
(* object itself is never the stop.                                        *)
SetStop(idx) ==
    /\ stop_surface' = IF NumIfcs > 2 THEN Max({idx, 1}) ELSE Null
    /\ UNCHANGED <<cacheVars, modelVars, osp, wvlns, cur_surface, edited, rescaled>>

SetCurSurface(s) ==
    /\ cur_surface' = s
    /\ UNCHANGED <<cacheVars, modelVars, osp, wvlns, stop_surface, edited, rescaled>>

(* A client edits a Gap in place, or installs another WvlSpec.  Neither    *)
(* tells the sequential model: update_model() is the client's job.         *)
EditGap(i, thi) ==
    /\ gaps' = [gaps EXCEPT ![i].thi = thi]
    /\ edited' = TRUE
    /\ UNCHANGED <<cacheVars, osp, ifcs, z_dir, rndx, lcl_tfrms, gbl_tfrms,
                   wvlns, cur_surface, stop_surface, rescaled>>

InstallWvls(spec) ==
    /\ osp' = spec
    /\ edited' = TRUE
    /\ UNCHANGED <<cacheVars, modelVars, wvlns, cur_surface, stop_surface, rescaled>>

UpdateModel ==
    LET ref  == osp.reference_wvl
        rows == RefIndices(gaps, osp.wavelengths)
        dirs == Directions(ifcs, z_dir[1], Len(gaps))
    IN  /\ wvlns' = osp.wavelengths
        /\ rndx' = rows
        /\ cur_surface' = IF NumIfcs = 2 THEN 0
                          ELSE Min({cur_surface, NumIfcs - 1})
        /\ z_dir' = dirs
        /\ ifcs' = [i \in 1 .. NumIfcs |->
                      IF i \in DOMAIN gaps
                        THEN [ifcs[i] EXCEPT !.delta_n = DeltaN(i, rows, dirs, ref)]
                        ELSE ifcs[i]]
        /\ gbl_tfrms' = GlobalTfrms(gaps)
        /\ lcl_tfrms' = LocalTfrms(gaps)
        /\ Clear
        /\ edited' = FALSE
        /\ rescaled' = FALSE
        /\ UNCHANGED <<osp, gaps, stop_surface>>

(* The gaps apply_scale_factor_over() scales, as code indices: all of them,*)
(* the one behind a single interface, or those between two interfaces.     *)
GapsInScope(surfs) ==
    LET all == 0 .. Len(gaps) - 1
    IN  CASE Len(surfs) = 0 -> all
          [] Len(surfs) = 1 -> {surfs[1]} \cap all
          [] OTHER          -> (surfs[1] .. surfs[2] - 1) \cap all

(* apply_scale_factor_over(): scales in place, then recomputes both lists  *)
(* of transforms -- and leaves the path cache as it is.                    *)
ApplyScaleFactor(factor, surfs) ==
    LET scaled == [i \in 1 .. Len(gaps) |->
                     IF i - 1 \in GapsInScope(surfs)
                       THEN [gaps[i] EXCEPT !.thi = factor * @] ELSE gaps[i]]
    IN  /\ \A i \in DOMAIN scaled : scaled[i].thi \in -MaxThi .. MaxThi
        /\ gaps' = scaled
        /\ gbl_tfrms' = GlobalTfrms(scaled)
        /\ lcl_tfrms' = LocalTfrms(scaled)
        /\ rescaled' = TRUE
        /\ UNCHANGED <<cacheVars, osp, ifcs, z_dir, rndx, wvlns, cur_surface,
                       stop_surface, edited>>

-----------------------------------------------------------------------------
(* path(), called with the wavelength list and the index rows in step: a   *)
(* row shorter than the column asked for would be read past its end.       *)
RowsCover(req) == \A i \in DOMAIN rndx : WvlIndex(WvlOf(req)) <= Len(rndx[i])

PathHit(req) ==
    /\ Cached(req)
    /\ UNCHANGED vars

(* A miss installs the current wavelength list before it looks the         *)
(* wavelength up, and keeps it even if the look-up throws.                 *)
PathMiss(req) ==
    /\ ~Cached(req)
    /\ WvlKnown(WvlOf(req))
    /\ RowsCover(req)
    /\ wvlns' = osp.wavelengths
    /\ Store(req, BuildPath(req))
    /\ UNCHANGED <<modelVars, osp, cur_surface, stop_surface, edited, rescaled>>

PathThrows(req) ==
    /\ ~Cached(req)
    /\ ~WvlKnown(WvlOf(req))
    /\ wvlns' = osp.wavelengths
    /\ UNCHANGED <<cacheVars, modelVars, osp, cur_surface, stop_surface, edited,
                   rescaled>>

(* reverse_path() caches nothing, but its look-up of the wavelength        *)
(* installs the current list as well.                                      *)
ReverseTrace ==
    /\ wvlns' = osp.wavelengths
    /\ UNCHANGED <<cacheVars, modelVars, osp, cur_surface, stop_surface, edited,
                   rescaled>>

Mode == {"transmit", "reflect"}

Scopes == {<< >>} \cup {<<i>> : i \in 0 .. NumIfcs - 1}
              \cup {<<i, j>> : i, j \in 0 .. NumIfcs - 1}

Edit ==
    \/ \E mode \in Mode, m \in Medium, t \in Thickness :
          \/ AddSurface(mode, m, t)
          \/ \E idx \in 1 .. NumIfcs - 1 : InsertSurface(idx, mode, m, t)
    \/ \E i \in DOMAIN gaps, t \in Thickness : EditGap(i, t)
    \/ \E spec \in WvlSpecs : InstallWvls(spec)
    \/ \E surfs \in Scopes : ApplyScaleFactor(2, surfs)

Configure ==
    \/ \E idx \in 0 .. NumIfcs - 1 : SetStop(idx)
    \/ \E s \in 0 .. NumIfcs - 2 : SetCurSurface(s)

Path == \E req \in Request : PathHit(req) \/ PathMiss(req) \/ PathThrows(req)

Next == Edit \/ Configure \/ UpdateModel \/ Path \/ ReverseTrace

Spec == Init /\ [][Next]_vars

-----------------------------------------------------------------------------
(* "N interfaces and N-1 gaps": every operation keeps the parallel lists in *)
(* step, one entry per interface or per gap, keeps the insertion point at  *)
(* a gap, and the stop, if any, behind the object.                         *)
IsList(s, n) == s \in Seq(Range(s)) /\ Len(s) = n

TypeOK ==
    /\ NumIfcs \in Nat \ {0, 1}
    /\ IsList(ifcs, NumIfcs)
    /\ IsList(lcl_tfrms, NumIfcs) /\ IsList(gbl_tfrms, NumIfcs)
    /\ IsList(gaps, NumIfcs - 1)
    /\ IsList(z_dir, NumIfcs - 1) /\ IsList(rndx, NumIfcs - 1)
    /\ cur_surface \in 0 .. NumIfcs - 2
    /\ stop_surface \in {Null} \cup 1 .. NumIfcs - 1
    /\ osp \in WvlSpecs
    /\ edited \in BOOLEAN /\ rescaled \in BOOLEAN
    /\ IsList(entries_, Len(entries_))
    /\ Len(entries_) \in 0 .. Capacity
    /\ next_ \in 0 .. Capacity - 1

(* A cached path is the path a miss would build now.                       *)
Current(entry) == entry.segs = BuildPath(entry.key)

(* Between an update_model() and the next edit, every cached path is       *)
(* current: no writer of the copied arrays but apply_scale_factor() leaves *)
(* an entry behind.                                                        *)
CachedPathsCurrent ==
    ~edited /\ ~rescaled => \A i \in DOMAIN entries_ : Current(entries_[i])

(* "Every writer of the four copied arrays therefore has to clear it ...   *)
(* initialize_arrays(), insert() and update_model() are the only such      *)
(* writers" (SequentialModel.h): a path served from the cache of a model   *)
(* nobody has edited since its update is current.                          *)
EveryWriterClears ==
    ~edited => \A i \in DOMAIN entries_ : Current(entries_[i])

(* Whatever list of wavelengths is installed, a path served from an updated*)
(* model describes the gaps as they are: where a segment has a gap, its    *)
(* index is that of the gap's medium at the wavelength asked for, and its  *)
(* transform reaches across it.  The traces pass only forward slices.      *)
SegmentsMatchTheirGaps ==
    \A entry \in Range(entries_) : \A seg \in Range(entry.segs) :
        seg.gap # Null =>
            \E gap \in Range(gaps) :
                /\ gap.id = seg.gap
                /\ seg.indx = RIndex[gap.medium][WvlOf(entry.key)]
                /\ seg.tfrm = gap.thi

(* The path from the image back to the object retraces the one from the    *)
(* object to the image: segment by segment the same interface, the gap and *)
(* the index on its object side, the opposite distance and direction.      *)
ReversePathRetraces ==
    LET n    == NumIfcs
        w    == CentralWvl
        fwd  == BuildPath([wl |-> w, start |-> Null, stop |-> Null, step |-> 1])
        back == ReversePath(w, n)
    IN  /\ Len(fwd) = n /\ Len(back) = n
        /\ back[n] = [ifc |-> fwd[1].ifc, gap |-> Null, tfrm |-> 0,
                      indx |-> Null, zdir |-> Null]
        /\ \A i \in 1 .. n - 1 :
              back[i] = [ifc  |-> fwd[n + 1 - i].ifc,
                         gap  |-> fwd[n - i].gap,
                         tfrm |-> -fwd[n - i].tfrm,
                         indx |-> fwd[n - i].indx,
                         zdir |-> -fwd[n - i].zdir]

(* Once updated, and until an edit or a scaling, the paths handed out, in  *)
(* either direction, describe the lens as it is.  path and reverse_path    *)
(* slice lists kept side by side; the slices must start where they match.  *)
PathsDescribeTheLens ==
    /\ ~edited /\ ~rescaled => SegmentsMatchTheirGaps
    /\ ~edited => ReversePathRetraces

StopId == IF stop_surface = Null THEN Null ELSE ifcs[stop_surface + 1].id

(* Adding surfaces one after the other never moves the stop to another     *)
(* interface as long as there is a surface between the stop and the image. *)
AddingKeepsInnerStop ==
    [][\A mode \in Mode, m \in Medium, t \in Thickness :
         AddSurface(mode, m, t) /\ stop_surface # Null
           /\ stop_surface < NumIfcs - 2 => StopId' = StopId]_vars

=============================================================================
