--------------------------- MODULE DiffractionMTF ---------------------------
(***************************************************************************)
(* The diffraction MTF (src/analysis/DiffractionMTF.cpp): the wavefront in *)
(* the pupil, put into the middle of a larger array, is transformed to the *)
(* amplitude in the image (Analyses::calc_psf), and the squared modulus of *)
(* that to the MTF.  Both transforms go through FFTUtil: shift the middle  *)
(* to the corner, transform the rows and then the columns, shift back.     *)
(*                                                                         *)
(* A wavefront is given by the phase of each sample as a number of steps   *)
(* around the circle, NaN where the ray failed.  The moduli are kept       *)
(* squared and not scaled to the largest.                                  *)
(***************************************************************************)
EXTENDS FourierTransform

CONSTANTS
    Wavefronts,         \* square arrays of phases, of n_pupil by n_pupil
    MaxDims             \* sizes of the array the pupil is put into

VARIABLES
    maxdim,             \* the constructor's arguments: the array's size
    wavefront,          \* ... and the pupil, n_pupil samples each way
    stage,              \* "new", "psf", "mtf", "done" or "thrown"
    grid,               \* the array being transformed
    line                \* rows and columns transformed so far

imageVars == <<maxdim, wavefront, stage, grid, line>>

n_pupil == Len(wavefront)

Array(n, value(_, _)) == [i \in 0 .. n - 1 |-> [j \in 0 .. n - 1 |-> value(i, j)]]

(* FFTUtil::fftshift().                                                    *)
fftshift(x) ==
    LET n == Cardinality(DOMAIN x)
        shifted(i) == (i - n \div 2) % n
    IN  Array(n, LAMBDA i, j : x[shifted(i)][shifted(j)])

(* Mutant: half the pupil's width is enough room for it.                   *)
RejectsWithoutRoom == n_pupil < 4 \/ n_pupil % 2 # 0 \/ maxdim < n_pupil

(* What the constructor refuses.                                           *)
Rejects == n_pupil < 4 \/ n_pupil % 2 # 0 \/ maxdim < 2 * n_pupil

(* The first part of calc_psf(): row and column lo of the array are the    *)
(* first of the pupil; samples without a ray, and all around, are dark.    *)
Amplitude ==
    LET lo == maxdim \div 2 - (n_pupil \div 2 - 1)
    IN  Array(maxdim, LAMBDA i, j :
          IF /\ i - lo + 1 \in 1 .. n_pupil /\ j - lo + 1 \in 1 .. n_pupil
             /\ wavefront[i - lo + 1][j - lo + 1] # Null
            THEN Power(Unit, wavefront[i - lo + 1][j - lo + 1]) ELSE Zero)

Moduli(g) ==
    Array(maxdim, LAMBDA i, j : <<SquaredModulus(g[i][j]), 0>>)

Dark(g) == \A i, j \in 0 .. maxdim - 1 : g[i][j] = Zero

ImageInit ==
    /\ wavefront \in Wavefronts
    /\ maxdim \in MaxDims
    /\ stage = "new" /\ grid = << >> /\ line = 0
    /\ job = Null /\ pass = Null
    /\ wtable = WaveTable(maxdim)

Construct ==
    /\ stage = "new"
    /\ IF Rejects THEN /\ stage' = "thrown"
                       /\ UNCHANGED grid
                  ELSE /\ stage' = "psf"
                       /\ grid' = fftshift(Amplitude)
    /\ UNCHANGED <<lineVars, maxdim, wavefront, line>>

(* FFTUtil::fft2(): the rows in place, then the columns.                   *)
Row ==
    /\ stage \in {"psf", "mtf"} /\ line < maxdim
    /\ grid' = [grid EXCEPT ![line] = Transform(wtable, -1, @)]
    /\ line' = line + 1
    /\ UNCHANGED <<lineVars, maxdim, wavefront, stage>>

Column ==
    /\ stage \in {"psf", "mtf"} /\ line \in maxdim .. 2 * maxdim - 1
    /\ LET j == line - maxdim
           y == Transform(wtable, -1, [i \in 0 .. maxdim - 1 |-> grid[i][j]])
       IN  grid' = [i \in 0 .. maxdim - 1 |-> [grid[i] EXCEPT ![j] = y[i]]]
    /\ line' = line + 1
    /\ UNCHANGED <<lineVars, maxdim, wavefront, stage>>

(* The end of calc_psf(), which refuses a dark image, and the start of     *)
(* modulus_of_transform(), which in the end looks at the middle only.      *)
Spread ==
    /\ stage \in {"psf", "mtf"} /\ line = 2 * maxdim
    /\ LET moduli  == Moduli(fftshift(grid))
           refused == \/ stage = "psf" /\ Dark(moduli)
                      \/ stage = "mtf" /\ moduli[maxdim \div 2][maxdim \div 2] = Zero
       IN  IF refused THEN stage' = "thrown" /\ UNCHANGED <<grid, line>>
           ELSE IF stage = "psf"
             THEN stage' = "mtf" /\ grid' = fftshift(moduli) /\ line' = 0
             ELSE stage' = "done" /\ grid' = moduli /\ UNCHANGED line
    /\ UNCHANGED <<lineVars, maxdim, wavefront>>

ImageNext == Construct \/ Row \/ Column \/ Spread

-----------------------------------------------------------------------------
Lit(i, j) == i \in 1 .. n_pupil /\ j \in 1 .. n_pupil /\ wavefront[i][j] # Null

Overlap(a, b) ==
    Total([s \in 1 .. n_pupil * n_pupil |->
             LET i == ((s - 1) \div n_pupil) + 1
                 j == ((s - 1) % n_pupil) + 1
             IN  IF Lit(i, j) /\ Lit(i + a, j + b)
                   THEN Power(Unit, (wavefront[i][j] - wavefront[i + a][j + b])
                                       % (Prime + 1))
                   ELSE Zero])

(* The MTF at a distance from the middle is the overlap of the pupil with  *)
(* itself moved by that distance -- and nothing of it comes in again from  *)
(* the other side, which is what the room around the pupil is for.         *)
MtfIsAutocorrelation ==
    stage = "done" =>
        LET scale == (maxdim * maxdim) % Prime
            middle == maxdim \div 2
        IN  \A a, b \in 0 .. maxdim - 1 :
              grid[a][b][1] =
                  (((scale * scale) % Prime)
                      * SquaredModulus(Overlap(a - middle, b - middle))) % Prime

(* Both together: what the transform is used for rests on what it is.      *)
TransformsFormTheImage == TransformIsDft /\ MtfIsAutocorrelation
=============================================================================
