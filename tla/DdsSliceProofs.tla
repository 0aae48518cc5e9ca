--------------------------- MODULE DdsSliceProofs ---------------------------
(***************************************************************************)
(* Proofs about DdsSlice, for cubes of any sizes, sliced along any axes,   *)
(* with traces and elements of any stroke, and any sequence of calls.      *)
(* First where the streams of the slices are; then that they stand for one *)
(* place of the cube; then that the files are one row of units.            *)
(***************************************************************************)
EXTENDS DdsSlice, FiniteSetTheorems, TLAPS

LEMMA Product ==
  ASSUME NEW a \in Nat, NEW b \in Nat
  PROVE  a * b \in Nat
OBVIOUS

LEMMA PositiveProduct ==
  ASSUME NEW a \in Positive, NEW b \in Positive
  PROVE  a * b \in Positive
BY DEF Positive

LEMMA Division ==
  ASSUME NEW a \in Nat, NEW b \in Positive
  PROVE  /\ a \div b \in Nat
         /\ a % b \in 0 .. b - 1
         /\ a = b * (a \div b) + (a % b)
         /\ (a \div b) * b <= a
         /\ a % b <= a
<1>1. b \in Nat /\ b > 0
  BY DEF Positive
<1>2. a \div b \in Nat /\ a % b \in 0 .. b - 1 /\ a = b * (a \div b) + (a % b)
  BY <1>1
<1>3. (a \div b) * b = b * (a \div b) /\ b * (a \div b) \in Nat
  BY <1>1, <1>2
<1> DEFINE p == b * (a \div b)
          r == a % b
<1>4. p \in Nat /\ r \in Nat /\ a = p + r
  BY <1>1, <1>2, <1>3
<1> HIDE DEF p, r
<1>5. p <= a /\ r <= a
  BY <1>4
<1> QED
  BY <1>2, <1>3, <1>5 DEF p, r

LEMMA Shorter ==
  ASSUME NEW toc \in Nat, NEW left \in Nat, NEW width \in Positive,
         left * width > toc
  PROVE  toc \div width < left
<1>1. (toc \div width) * width <= toc /\ toc \div width \in Nat
  BY Division
<1> DEFINE n == toc \div width
<1>2. n \in Nat /\ n * width < left * width
  BY <1>1, Product DEF Positive
<1> HIDE DEF n
<1>3. CASE n >= left
  <2>1. n = left + (n - left) /\ n - left \in Nat
    BY <1>2, <1>3
  <2>2. n * width = left * width + (n - left) * width
    BY <1>2 DEF Positive
  <2>3. (n - left) * width \in Nat
    BY <2>1 DEF Positive
  <2> QED
    BY <1>2, <2>2, <2>3 DEF Positive
<1> QED
  BY <1>2, <1>3 DEF n

LEMMA Monotone ==
  ASSUME NEW m \in Nat, NEW n \in Nat, NEW width \in Nat, m <= n
  PROVE  m * width <= n * width
<1>1. n - m \in Nat
  OBVIOUS
<1>2. n * width = m * width + (n - m) * width
  OBVIOUS
<1>3. (n - m) * width \in Nat /\ m * width \in Nat
  BY <1>1
<1> QED
  BY <1>2, <1>3

LEMMA MultipleMod ==
  ASSUME NEW k \in Nat, NEW m \in Positive
  PROVE  (k * m) % m = 0
<1>1. k * m \in Nat /\ m \in Nat /\ m > 0
  BY Product DEF Positive
<1> DEFINE q == (k * m) \div m
           r == (k * m) % m
<1>2. q \in Nat /\ r \in 0 .. m - 1 /\ k * m = m * q + r
  BY <1>1, Division
<1> HIDE DEF q, r
<1>3. r = m * (k - q)
  BY <1>1, <1>2
<1>4. CASE k - q >= 1
  <2>1. k - q - 1 \in Nat
    BY <1>2, <1>4
  <2>2. m * (k - q) = m + m * (k - q - 1) /\ m * (k - q - 1) \in Nat
    BY <1>1, <1>2, <2>1
  <2> QED
    BY <1>1, <1>2, <1>3, <2>2
<1>5. CASE k - q <= -1
  <2>1. q - k - 1 \in Nat
    BY <1>2, <1>5
  <2>2. m * (k - q) = - m - m * (q - k - 1) /\ m * (q - k - 1) \in Nat
    BY <1>1, <1>2, <2>1
  <2> QED
    BY <1>1, <1>2, <1>3, <2>2
<1>6. CASE k - q = 0
  <2>1. k * m = m * q
    BY <1>1, <1>2, <1>6
  <2>2. r = 0
    BY <1>1, <1>2, <2>1, Product
  <2> QED
    BY <2>2 DEF r
<1> QED
  BY <1>2, <1>4, <1>5, <1>6

(* A number of whole runs: one more, or one less, is again one.            *)
LEMMA WholeRuns ==
  ASSUME NEW a \in Nat, NEW m \in Positive
  PROVE  /\ a % m = 0 => (a + m) % m = 0
         /\ a % m = 0 /\ m <= a => (a - m) % m = 0
         /\ (a + (m - (a % m))) % m = 0
         /\ m % m = 0
<1>1. m \in Nat /\ m > 0
  BY DEF Positive
<1> DEFINE q == a \div m
           r == a % m
<1>2. q \in Nat /\ r \in 0 .. m - 1 /\ a = m * q + r
  BY Division
<1>3. a % m = r
  OBVIOUS
<1> HIDE DEF q, r
<1>4. m * q = q * m /\ q * m + m = (q + 1) * m /\ q * m - m = (q - 1) * m
  BY <1>1, <1>2
<1>5. ((q + 1) * m) % m = 0 /\ (1 * m) % m = 0
  BY <1>2, MultipleMod
<1>6. r = 0 => a + m = (q + 1) * m
  BY <1>1, <1>2, <1>4
<1>7. a + (m - r) = (q + 1) * m
  BY <1>1, <1>2, <1>4
<1>8. r = 0 /\ m <= a => (a - m) % m = 0
  <2> SUFFICES ASSUME r = 0, m <= a
               PROVE  (a - m) % m = 0
    OBVIOUS
  <2>1. q # 0
    BY <1>1, <1>2
  <2>2. q - 1 \in Nat
    BY <1>2, <2>1
  <2>3. a - m = (q - 1) * m
    BY <1>1, <1>2, <1>4
  <2> QED
    BY <2>2, <2>3, MultipleMod
<1>9. 1 * m = m
  BY <1>1
<1> QED
  BY <1>3, <1>5, <1>6, <1>7, <1>8, <1>9

LEMMA CubeType ==
  ASSUME cube \in Cubes
  PROVE  /\ \A r \in Axes : cube.size[r] \in Positive
         /\ cube.sliced \subseteq Axes
         /\ cube.stroke \in Positive
         /\ cube.bias \in Nat
         /\ cube.width \in Positive
         /\ cube.fresh \in BOOLEAN
         /\ cube.traces \in BOOLEAN
BY CubesAssumption

LEMMA ExtentType ==
  ASSUME cube \in Cubes
  PROVE  \A S : Extent(S) \in Positive
<1> SUFFICES ASSUME NEW S
             PROVE  Extent(S) \in Positive
  OBVIOUS
<1>1. \A r \in Axes : Factor(S, r) \in Positive
  BY CubeType DEF Factor, Positive
<1>2. Factor(S, 1) \in Positive /\ Factor(S, 2) \in Positive /\ Factor(S, 3) \in Positive
  BY <1>1 DEF Axes
<1> HIDE DEF Positive
<1>3. Factor(S, 1) * Factor(S, 2) \in Positive
  BY <1>2, PositiveProduct
<1>4. Factor(S, 1) * Factor(S, 2) * Factor(S, 3) \in Positive
  BY <1>2, <1>3, PositiveProduct
<1> QED
  BY <1>4 DEF Extent

LEMMA CubeFacts ==
  ASSUME cube \in Cubes
  PROVE  /\ slice_max \in Positive
         /\ slice_tic \in Positive
         /\ Total \in Positive
         /\ \A s \in Nat : Prefix(s) \in Nat
         /\ Slices = 0 .. slice_max - 1
         /\ Slices \subseteq Nat
<1>1. slice_max \in Positive
  BY ExtentType DEF slice_max
<1>2. slice_tic \in Positive
  BY ExtentType, CubeType, PositiveProduct DEF slice_tic
<1>3. Total \in Positive
  BY ExtentType, CubeType, PositiveProduct DEF Total
<1>4. \A s \in Nat : Prefix(s) \in Nat
  <2> SUFFICES ASSUME NEW s \in Nat
               PROVE  Prefix(s) \in Nat
    OBVIOUS
  <2>1. s + 1 \in Nat /\ cube.bias \in Nat
    BY CubeType
  <2> QED
    BY <2>1, Product DEF Prefix
<1> QED
  BY <1>1, <1>2, <1>3, <1>4 DEF Slices

LEMMA BiasType ==
  ASSUME SliceTypeOK
  PROVE  \A s \in Slices : s \in Nat /\ Bias(s) \in Nat
BY CubeFacts DEF SliceTypeOK, Bias

LEMMA OrdinalType ==
  ASSUME cube \in Cubes, NEW t \in Nat, NEW r \in Axes
  PROVE  Ordinal(t, r) \in Nat
<1> DEFINE n == t \div Stripe(r)
<1>1. Stripe(r) \in Positive
  BY ExtentType DEF Stripe
<1>2. n \in Nat
  BY <1>1, Division
<1> HIDE DEF n
<1>3. n % cube.size[r] \in Nat
  BY <1>2, CubeType, Division
<1> QED
  BY <1>2, <1>3 DEF Ordinal, n

LEMMA StepType ==
  ASSUME cube \in Cubes, NEW t \in Nat, NEW r \in Axes
  PROVE  Ordinal(t, r) * Stride(r) \in Nat
<1>1. Stride(r) \in Positive
  BY ExtentType, CubeType, PositiveProduct DEF Stride
<1>2. Stride(r) \in Nat
  BY <1>1 DEF Positive
<1> QED
  BY <1>2, OrdinalType, Product

LEMMA Target ==
  ASSUME cube \in Cubes, NEW p \in Nat
  PROVE  /\ SliceOf(p) \in Nat
         /\ OffsetOf(p) \in Nat
         /\ p \div cube.stroke \in Nat
<1>1. cube.stroke \in Positive
  BY CubeType
<1>2. p \div cube.stroke \in Nat /\ p % cube.stroke \in Nat
  BY <1>1, Division
<1> DEFINE Step(r) == Ordinal(p \div cube.stroke, r) * Stride(r)
<1>3. Step(1) \in Nat /\ Step(2) \in Nat /\ Step(3) \in Nat
  BY <1>2, StepType DEF Axes
<1> HIDE DEF Step
<1>4. \A S : Sum(Step, S) \in Nat
  BY <1>3 DEF Sum
<1>5. SliceOf(p) = Sum(Step, Sliced) /\ OffsetOf(p) = Sum(Step, Whole) + (p % cube.stroke)
  BY DEF SliceOf, OffsetOf, Step
<1> QED
  BY <1>2, <1>4, <1>5

-----------------------------------------------------------------------------
(* The inductive invariant                                                 *)

(* The traces of every slice are taken to begin after its line headers.    *)
Based == trace_bias = [s \in Slices |-> Prefix(s)]

(* No stream stands before the traces of its slice.                        *)
Placed == Based /\ \A s \in Slices : Bias(s) <= pos[s]

(* The slice before s has passed its run.                                  *)
Behind(s) ==
  s # 0 => Bias(Former(s)) + slice_tic <= pos[Former(s)]

(* What the current slice has passed and has left is at least a run; it is *)
(* yet to be moved only if the slice before it has passed its own.         *)
Ready ==
  /\ slice_now \in Slices /\ slice_now \in deseek =>
       slice_toc = slice_tic /\ Behind(slice_now)
  /\ slice_now \in Slices /\ slice_now \notin deseek =>
       Bias(slice_now) + slice_tic <= pos[slice_now] + slice_toc
  /\ slice_now \notin Slices => slice_toc > 0

WriteOnSlice == call.op = "write" => TurnedNow \in Slices

IInv == SliceTypeOK /\ Placed /\ Ready /\ WriteOnSlice

(* Slices that are not begun stand at the start of their files: no seek    *)
(* has moved them, and none is waiting to.                                 *)
Starting ==
  /\ ~ cube.early
  /\ eof # {} => cube.fresh /\ deseek = {} /\ call.op # "read"
  /\ \A s \in eof : pos[s] = 0

(* So no slice is begun anywhere else.                                     *)
Kept == trace_bias' = trace_bias /\ eof' \subseteq eof

LEMMA Turning ==
  ASSUME SliceTypeOK, Placed, Ready
  PROVE  /\ TurnedToc \in 1 .. slice_tic
         /\ TurnedNow \in Nat
         /\ slice_toc = 0 => TurnedNow \in Slices
         /\ TurnedNow \in Slices =>
              /\ Offset(TurnedNow) \in Nat
              /\ slice_tic <= Offset(TurnedNow) + TurnedToc
              /\ TurnedNow \in deseek =>
                   TurnedToc = slice_tic /\ Behind(TurnedNow)
         /\ TurnedNow \notin Slices =>
              TurnedNow = slice_now /\ TurnedToc = slice_toc
<1>1. /\ slice_max \in Positive /\ slice_tic \in Positive
      /\ \A s \in Slices : s \in Nat /\ Bias(s) \in Nat
      /\ Slices = 0 .. slice_max - 1
  BY CubeFacts, BiasType DEF SliceTypeOK
<1>2. /\ pos \in [Slices -> Nat] /\ slice_now \in Nat
      /\ slice_toc \in 0 .. slice_tic
  BY DEF SliceTypeOK
<1>3. \A s \in Slices : Former(s) \in Slices
  BY <1>1 DEF Former, Positive
<1>4. \A s \in Slices : pos[s] - Bias(s) \in Nat
  BY <1>1, <1>2 DEF Placed
<1>5. CASE slice_toc > 0
  <2>1. TurnedNow = slice_now /\ TurnedToc = slice_toc
    BY <1>5 DEF TurnedNow, TurnedToc
  <2>2. CASE slice_now \in Slices /\ slice_now \in deseek
    <3>1. slice_toc = slice_tic /\ Behind(slice_now)
      BY <2>2 DEF Ready
    <3> DEFINE f == Former(slice_now)
    <3>2. f \in Slices /\ pos[f] - Bias(f) \in Nat
      BY <1>3, <1>4, <2>2
    <3>3. Offset(slice_now)
            = pos[f] - Bias(f) - (IF slice_now = 0 THEN 0 ELSE slice_tic)
      BY <2>2 DEF Offset
    <3>4. slice_now # 0 => Bias(f) + slice_tic <= pos[f]
      BY <3>1 DEF Behind
    <3>5. pos[f] \in Nat /\ Bias(f) \in Nat /\ slice_tic \in Nat
      BY <3>2, <1>1, <1>2 DEF Positive
    <3> HIDE DEF f
    <3>6. Offset(slice_now) \in Nat
      BY <3>2, <3>3, <3>4, <3>5
    <3> QED
      BY <1>2, <1>5, <2>1, <2>2, <3>1, <3>5, <3>6
  <2>3. CASE slice_now \in Slices /\ slice_now \notin deseek
    <3>1. Bias(slice_now) + slice_tic <= pos[slice_now] + slice_toc
      BY <2>3 DEF Ready
    <3>2. Offset(slice_now) = pos[slice_now] - Bias(slice_now)
      BY <2>3 DEF Offset
    <3>3. pos[slice_now] \in Nat /\ Bias(slice_now) \in Nat /\ slice_tic \in Nat
      BY <1>1, <1>2, <2>3 DEF Positive
    <3> QED
      BY <1>2, <1>4, <1>5, <2>1, <2>3, <3>1, <3>2, <3>3
  <2>4. CASE slice_now \notin Slices
    BY <1>2, <1>5, <2>1, <2>4
  <2> QED
    BY <2>2, <2>3, <2>4
<1>6. CASE slice_toc = 0
  <2>1. slice_now \in Slices
    BY <1>6 DEF Ready
  <2>2. slice_now \notin deseek
    BY <1>1, <1>6, <2>1 DEF Ready, Positive
  <2>3. Bias(slice_now) + slice_tic <= pos[slice_now]
    BY <1>1, <1>2, <1>6, <2>1, <2>2 DEF Ready, Positive
  <2> DEFINE t == TurnedNow
  <2>4. t \in Slices /\ Former(t) = slice_now
    BY <1>1, <1>2, <1>6, <2>1 DEF TurnedNow, Former, Positive
  <2>5. TurnedToc = slice_tic
    BY <1>6 DEF TurnedToc
  <2>6. Behind(t)
    BY <2>3, <2>4 DEF Behind
  <2>7. /\ pos[slice_now] \in Nat /\ Bias(slice_now) \in Nat
        /\ pos[t] - Bias(t) \in Nat /\ slice_tic \in Nat /\ slice_tic > 0
    BY <1>1, <1>2, <1>4, <2>1, <2>4 DEF Positive
  <2> HIDE DEF t
  <2>8. Offset(t) \in Nat
    BY <2>3, <2>4, <2>7 DEF Offset
  <2> QED
    BY <1>1, <2>4, <2>5, <2>6, <2>7, <2>8 DEF t
<1> QED
  BY <1>1, <1>2, <1>5, <1>6 DEF Positive

LEMMA FormerType ==
  ASSUME cube \in Cubes
  PROVE  \A s \in Slices : Former(s) \in Slices
<1>1. slice_max \in Nat /\ slice_max > 0 /\ Slices = 0 .. slice_max - 1
  BY CubeFacts DEF Positive
<1> QED
  BY <1>1 DEF Former

LEMMA SameCube ==
  ASSUME cube' = cube
  PROVE  /\ Slices' = Slices /\ slice_tic' = slice_tic /\ slice_max' = slice_max
         /\ \A s : Prefix(s)' = Prefix(s)
         /\ \A s : Former(s)' = Former(s)
BY DEF Slices, slice_tic, slice_max, Prefix, Former, Extent, Factor, Sliced, Whole

LEMMA SameBias ==
  ASSUME UNCHANGED <<cube, trace_bias>>
  PROVE  /\ \A s : Bias(s)' = Bias(s)
         /\ Based => Based'
<1>1. Slices' = Slices /\ \A s : Prefix(s)' = Prefix(s)
  BY SameCube
<1> QED
  BY <1>1 DEF Bias, Based

(* So the place in the file is the offset from where its traces begin.     *)
LEMMA AtOffset ==
  ASSUME SliceTypeOK, Placed, NEW s \in Slices
  PROVE  At(s) = Offset(s) /\ Bias(s) = Prefix(s)
<1>1. Bias(s) = Prefix(s)
  BY DEF Placed, Based, Bias
<1>2. /\ \A r \in Slices : r \in Nat /\ Bias(r) \in Nat /\ pos[r] \in Nat
      /\ slice_tic \in Nat /\ Former(s) \in Slices
  BY BiasType, FormerType, CubeFacts DEF SliceTypeOK, Positive
<1>3. Offset(s) \in Int
  BY <1>2 DEF Offset
<1> QED
  BY <1>1, <1>2, <1>3 DEF At

(* Turned or not, the current slice has a run to go, or is ahead of none.  *)
LEMMA TurnedOnSlice ==
  ASSUME SliceTypeOK, Placed, Ready, slice_now \in Slices
  PROVE  TurnedNow \in Slices
<1>1. slice_toc > 0 => TurnedNow = slice_now
  BY DEF TurnedNow
<1>2. slice_toc \in Nat
  BY CubeFacts DEF SliceTypeOK
<1> QED
  BY <1>1, <1>2, Turning

(* A transfer of some units of the run, on the slice it has come to.       *)
LEMMA PassReady ==
  ASSUME SliceTypeOK, Placed, Ready, UNCHANGED <<cube, trace_bias>>,
         NEW t \in Slices, t = TurnedNow, NEW n \in Nat, n <= TurnedToc,
         Pass(t, n), slice_now' = t, slice_toc' = TurnedToc - n
  PROVE  /\ pos' \in [Slices -> Nat]
         /\ deseek' \subseteq Slices
         /\ slice_now' \in Slices
         /\ slice_toc' \in 0 .. slice_tic
         /\ Placed'
         /\ Ready'
<1>1. /\ slice_tic \in Nat /\ \A s \in Slices : s \in Nat /\ Bias(s) \in Nat
  BY CubeFacts, BiasType DEF SliceTypeOK, Positive
<1>2. /\ TurnedToc \in 1 .. slice_tic /\ Offset(t) \in Nat
      /\ slice_tic <= Offset(t) + TurnedToc
  BY Turning
<1>3. pos' = [pos EXCEPT ![t] = Bias(t) + Offset(t) + n] /\ deseek' = deseek \ {t}
  BY DEF Pass
<1>4. pos \in [Slices -> Nat] /\ deseek \subseteq Slices
  BY DEF SliceTypeOK
<1>5. t \in Slices /\ Bias(t) \in Nat
  BY <1>1
<1>6. slice_now' = t /\ slice_toc' = TurnedToc - n
  OBVIOUS
<1>7. Bias(t) + Offset(t) + n \in Nat
  BY <1>2, <1>5
<1>8. pos' \in [Slices -> Nat]
  BY <1>3, <1>4, <1>5, <1>7
<1>9. pos'[t] = Bias(t) + Offset(t) + n /\ \A s \in Slices \ {t} : pos'[s] = pos[s]
  BY <1>3, <1>4, <1>5
<1>10. slice_toc' \in 0 .. slice_tic
  BY <1>1, <1>2, <1>6
<1>11. Bias(t) <= pos'[t]
  BY <1>2, <1>5, <1>9
<1>12. Placed'
  <2>1. \A s \in Slices : Bias(s) <= pos'[s]
    BY <1>9, <1>11 DEF Placed
  <2> QED
    BY <2>1, SameCube, SameBias DEF Placed, Bias
<1>13. Ready'
  <2>1. t \notin deseek'
    BY <1>3
  <2>2. Bias(t) + slice_tic <= pos'[t] + slice_toc'
    BY <1>1, <1>2, <1>5, <1>6, <1>9
  <2>3. Slices' = Slices /\ slice_tic' = slice_tic
    BY SameCube
  <2> QED
    BY <1>5, <1>6, <2>1, <2>2, <2>3 DEF Ready, Bias
<1> QED
  BY <1>3, <1>4, <1>5, <1>6, <1>8, <1>10, <1>12, <1>13

(* The slice is turned to, and nothing is transferred.                     *)
LEMMA TurnReady ==
  ASSUME SliceTypeOK, Placed, Ready, UNCHANGED <<cube, trace_bias, pos, deseek>>,
         NEW t, t = TurnedNow, slice_now' = t, slice_toc' = TurnedToc
  PROVE  slice_now' \in Nat /\ slice_toc' \in 0 .. slice_tic /\ Placed' /\ Ready'
<1>1. /\ slice_tic \in Nat /\ \A s \in Slices : s \in Nat /\ Bias(s) \in Nat
      /\ pos \in [Slices -> Nat] /\ deseek \subseteq Slices
      /\ slice_toc \in 0 .. slice_tic
  BY CubeFacts, BiasType DEF SliceTypeOK, Positive
<1>2. /\ TurnedToc \in 1 .. slice_tic /\ t \in Nat
      /\ t \in Slices => Offset(t) \in Nat /\ slice_tic <= Offset(t) + TurnedToc
      /\ t \in Slices /\ t \in deseek => TurnedToc = slice_tic /\ Behind(t)
      /\ t \notin Slices => t = slice_now /\ TurnedToc = slice_toc
  BY Turning
<1>3. Placed'
  BY SameCube, SameBias DEF Placed, Bias
<1>6. slice_now' = t /\ slice_toc' = TurnedToc /\ deseek' = deseek /\ pos' = pos
  OBVIOUS
<1>7. /\ Slices' = Slices /\ slice_tic' = slice_tic /\ slice_max' = slice_max
  BY SameCube
<1>8. t \in Slices /\ t \notin deseek => Bias(t) + slice_tic <= pos[t] + TurnedToc
  <2> SUFFICES ASSUME t \in Slices, t \notin deseek
               PROVE  Bias(t) + slice_tic <= pos[t] + TurnedToc
    OBVIOUS
  <2>1. Offset(t) = pos[t] - Bias(t) /\ pos[t] \in Nat /\ Bias(t) \in Nat
    BY <1>1 DEF Offset
  <2> QED
    BY <1>1, <1>2, <2>1
<1>9. Ready'
  <2>1. t \in Slices /\ t \in deseek =>
          /\ TurnedToc = slice_tic
          /\ t # 0 => Bias(Former(t)) + slice_tic <= pos[Former(t)]
    BY <1>2 DEF Behind
  <2>2. t \notin Slices => TurnedToc > 0
    BY <1>1, <1>2
  <2> QED
    BY <1>6, <1>7, <1>8, <2>1, <2>2 DEF Ready, Behind, Bias, Former
<1> QED
  BY <1>1, <1>2, <1>3, <1>6, <1>9

(* A seek that succeeds: its slice is moved, and all others are to follow. *)
LEMMA MoveReady ==
  ASSUME SliceTypeOK, Placed, UNCHANGED <<cube, trace_bias>>, NEW p \in Nat, MoveTo(p)
  PROVE  /\ pos' \in [Slices -> Nat]
         /\ deseek' \subseteq Slices
         /\ slice_now' \in Nat
         /\ slice_toc' \in 0 .. slice_tic
         /\ LineTrc' \in Nat
         /\ Placed'
         /\ Ready'
<1> DEFINE last == SliceOf(p) = slice_max /\ OffsetOf(p) = 0
<1>1. PICK s : s = IF last THEN slice_max - 1 ELSE SliceOf(p)
  OBVIOUS
<1>2. PICK at : at = IF last THEN slice_tic ELSE OffsetOf(p)
  OBVIOUS
<1>3. PICK toc : toc = IF last THEN 0 ELSE slice_tic - (OffsetOf(p) % slice_tic)
  OBVIOUS
<1>4. /\ LineTrc' = p \div cube.stroke + 1
      /\ slice_now' = s
      /\ slice_toc' = toc
      /\ pos' = IF s \in Slices THEN [pos EXCEPT ![s] = Bias(s) + at] ELSE pos
      /\ deseek' = Slices \ {s}
  BY <1>1, <1>2, <1>3 DEF MoveTo, Sought, Bias
<1>5. /\ slice_max \in Nat /\ slice_max > 0 /\ slice_tic \in Nat /\ slice_tic > 0
      /\ slice_tic \in Positive
      /\ Slices = 0 .. slice_max - 1 /\ \A r \in Slices : Bias(r) \in Nat
  <2>1. cube \in Cubes
    BY DEF SliceTypeOK
  <2>2. /\ slice_tic \in Positive /\ slice_max \in Positive
        /\ Slices = 0 .. slice_max - 1 /\ \A r \in Slices : Bias(r) \in Nat
    BY <2>1, CubeFacts, BiasType
  <2> QED
    BY <2>2 DEF Positive
<1>6. SliceOf(p) \in Nat /\ OffsetOf(p) \in Nat /\ p \div cube.stroke \in Nat
  BY Target DEF SliceTypeOK
<1>7. OffsetOf(p) % slice_tic \in 0 .. slice_tic - 1
      /\ OffsetOf(p) % slice_tic <= OffsetOf(p)
  BY <1>5, <1>6, Division
<1>8. pos \in [Slices -> Nat]
  BY DEF SliceTypeOK
<1>9. s \in Nat /\ at \in Nat /\ toc \in 0 .. slice_tic /\ slice_tic <= at + toc
  <2>1. CASE last
    BY <1>1, <1>2, <1>3, <1>5, <2>1
  <2>2. CASE ~ last
    <3>1. s = SliceOf(p) /\ at = OffsetOf(p)
          /\ toc = slice_tic - (OffsetOf(p) % slice_tic)
      BY <1>1, <1>2, <1>3, <2>2
    <3> QED
      BY <1>5, <1>6, <1>7, <3>1, SMTT(30)
  <2> QED
    BY <2>1, <2>2
<1>10. s \notin Slices => toc > 0
  <2>1. last => s \in Slices
    BY <1>1, <1>5
  <2>2. ~ last => toc > 0
    BY <1>3, <1>5, <1>7
  <2> QED
    BY <2>1, <2>2
<1> HIDE DEF last
<1>11. /\ pos' \in [Slices -> Nat]
       /\ s \in Slices => pos'[s] = Bias(s) + at
       /\ \A r \in Slices \ {s} : pos'[r] = pos[r]
  BY <1>4, <1>5, <1>8, <1>9, SMTT(30)
<1>12. Placed'
  <2>1. \A r \in Slices : Bias(r) <= pos'[r]
    <3> SUFFICES ASSUME NEW r \in Slices
                 PROVE  Bias(r) <= pos'[r]
      OBVIOUS
    <3>1. Bias(r) \in Nat
      BY <1>5
    <3>2. CASE r = s
      BY <1>9, <1>11, <3>1, <3>2
    <3>3. CASE r # s
      BY <1>11, <3>3 DEF Placed
    <3> QED
      BY <3>2, <3>3
  <2> QED
    BY <2>1, SameCube, SameBias DEF Placed, Bias
<1>13. Ready'
  <2>1. s \in Slices => s \notin deseek' /\ Bias(s) + slice_tic <= pos'[s] + toc
    <3> SUFFICES ASSUME s \in Slices
                 PROVE  Bias(s) + slice_tic <= pos'[s] + toc
      BY <1>4
    <3>1. Bias(s) \in Nat /\ pos'[s] = Bias(s) + at
      BY <1>5, <1>11
    <3> QED
      BY <1>5, <1>9, <3>1
  <2>2. Slices' = Slices /\ slice_tic' = slice_tic
    BY SameCube
  <2> QED
    BY <1>4, <1>10, <2>1, <2>2 DEF Ready, Bias
<1> QED
  BY <1>4, <1>5, <1>6, <1>9, <1>11, <1>12, <1>13, SMTT(30)

LEMMA ReachReady ==
  ASSUME SliceTypeOK, Placed, Ready, UNCHANGED <<cube, trace_bias>>,
         NEW whence, NEW offset, NEW p, Reach(whence, offset, p)
  PROVE  /\ pos' \in [Slices -> Nat]
         /\ deseek' \subseteq Slices
         /\ slice_now' \in Nat
         /\ slice_toc' \in 0 .. slice_tic
         /\ LineTrc' \in Nat
         /\ Placed'
         /\ Ready'
<1>1. CASE p \in 0 .. Limit /\ MoveTo(p)
  <2>1. p \in Nat
    BY <1>1, BoundsAssumption
  <2> QED
    BY <1>1, <2>1, MoveReady
<1>2. CASE UNCHANGED <<pos, deseek, slice_now, slice_toc, LineTrc>>
  <2>1. Slices' = Slices /\ slice_tic' = slice_tic /\ slice_max' = slice_max
    BY SameCube
  <2>2. Placed' /\ Ready'
    BY <1>2, <2>1, SameBias DEF Placed, Ready, Behind, Bias, Former
  <2> QED
    BY <1>2, <2>2 DEF SliceTypeOK
<1> QED
  BY <1>1, <1>2 DEF Reach

-----------------------------------------------------------------------------
(* The files                                                               *)

LEMMA PutType ==
  ASSUME NEW units \in Seq(Int), NEW at \in Nat, NEW n \in Nat, NEW value \in Int
  PROVE  Put(units, at, n, value) \in Seq(Int)
<1>1. Len(units) \in Nat /\ \A i \in 1 .. Len(units) : units[i] \in Int
  OBVIOUS
<1> DEFINE m == IF at + n > Len(units) THEN at + n ELSE Len(units)
           elt(i) == IF i \in at + 1 .. at + n THEN value
                     ELSE IF i <= Len(units) THEN units[i] ELSE Hole
<1>2. m \in Nat
  BY <1>1
<1>3. \A i \in 1 .. m : elt(i) \in Int
  BY <1>1 DEF Hole
<1> HIDE DEF m, elt
<1>4. [i \in 1 .. m |-> elt(i)] \in Seq(Int)
  BY <1>2, <1>3
<1> QED
  BY <1>4 DEF Put, m, elt

LEMMA InitReady ==
  ASSUME SliceInit
  PROVE  IInv
<1>1. cube \in Cubes
  BY DEF SliceInit
<1>2. /\ slice_max \in Positive /\ slice_tic \in Positive /\ Total \in Positive
      /\ \A s \in Slices : s \in Nat /\ Prefix(s) \in Nat
      /\ Slices = 0 .. slice_max - 1
  BY <1>1, CubeFacts
<1>3. Total \in Nat /\ slice_tic \in Nat /\ slice_tic > 0 /\ 0 \in Slices
  BY <1>2 DEF Positive
<1>4. file \in [Slices -> Seq(Int)]
  <2> DEFINE m == IF cube.fresh THEN 0 ELSE Total \div slice_max
             units(s) == [i \in 1 .. m |-> Total * s + i]
  <2>1. m \in Nat
    BY <1>2, <1>3, Division
  <2>2. \A s \in Slices : \A i \in 1 .. m : Total * s + i \in Int
    <3> SUFFICES ASSUME NEW s \in Slices, NEW i \in 1 .. m
                 PROVE  Total * s + i \in Int
      OBVIOUS
    <3>1. Total * s \in Nat /\ i \in Int
      BY <1>2, <1>3, <2>1, Product
    <3> QED
      BY <3>1
  <2> HIDE DEF m
  <2>3. \A s \in Slices : units(s) \in Seq(Int)
    BY <2>1, <2>2
  <2>4. file = [s \in Slices |-> units(s)]
    BY DEF SliceInit, m
  <2> QED
    BY <2>3, <2>4
<1>5. /\ pos \in [Slices -> Nat] /\ \A s \in Slices : pos[s] = Bias(s) /\ Bias(s) \in Nat
      /\ trace_bias \in [Slices -> Nat] /\ eof \subseteq Slices /\ Based
      /\ deseek = {} /\ slice_now = 0 /\ slice_toc = slice_tic /\ LineTrc = 1
      /\ call.op = "none" /\ call = [op |-> "none", left |-> 0] /\ writes = 0
  BY <1>2 DEF SliceInit, Bias, Based
<1>6. SliceTypeOK
  BY <1>1, <1>3, <1>4, <1>5, BoundsAssumption DEF SliceTypeOK
<1>7. Placed
  BY <1>2, <1>5 DEF Placed
<1>8. Ready
  <2>1. slice_now \in Slices /\ slice_now \notin deseek /\ pos[slice_now] = Bias(slice_now)
    BY <1>3, <1>5
  <2>2. Bias(slice_now) \in Nat
    BY <1>5, <2>1
  <2> QED
    BY <1>3, <1>5, <2>1, <2>2 DEF Ready
<1>9. WriteOnSlice
  BY <1>5 DEF WriteOnSlice
<1> QED
  BY <1>6, <1>7, <1>8, <1>9 DEF IInv

-----------------------------------------------------------------------------
(* The steps                                                               *)

(* Elements wanted of a run are no more than wanted, and fit in the run.   *)
LEMMA WantFits ==
  ASSUME SliceTypeOK, NEW toc \in Nat
  PROVE  /\ Want(toc) \in Nat
         /\ Want(toc) <= call.left
         /\ Want(toc) * cube.width <= toc
<1>1. cube.width \in Positive /\ cube.width \in Nat
  BY CubeType DEF SliceTypeOK, Positive
<1>2. call.left \in Nat
  BY DEF SliceTypeOK
<1>3. CASE call.left * cube.width > toc
  <2>1. Want(toc) = toc \div cube.width
    BY <1>3 DEF Want
  <2>2. toc \div cube.width \in Nat /\ (toc \div cube.width) * cube.width <= toc
    BY <1>1, Division
  <2>3. toc \div cube.width < call.left
    BY <1>1, <1>2, <1>3, Shorter
  <2> QED
    BY <1>2, <2>1, <2>2, <2>3
<1>4. CASE ~ (call.left * cube.width > toc)
  <2>1. call.left * cube.width \in Nat
    BY <1>1, <1>2, Product
  <2> QED
    BY <1>2, <1>4, <2>1 DEF Want
<1> QED
  BY <1>3, <1>4

(* A transfer of n elements, of those wanted, on the slice it has come to. *)
LEMMA MovedReady ==
  ASSUME SliceTypeOK, Placed, Ready, UNCHANGED <<cube, trace_bias>>,
         NEW t \in Slices, t = TurnedNow, NEW n \in Nat, n <= Want(TurnedToc),
         Moved(t, n)
  PROVE  /\ pos' \in [Slices -> Nat]
         /\ deseek' \subseteq Slices
         /\ slice_now' \in Slices
         /\ slice_toc' \in 0 .. slice_tic
         /\ LineTrc' \in Nat
         /\ call' \in [op : {"none", "read", "write"}, left : Nat]
         /\ call'.op = call.op
         /\ Placed'
         /\ Ready'
<1>1. TurnedToc \in Nat
  BY Turning
<1>2. /\ Want(TurnedToc) \in Nat /\ Want(TurnedToc) <= call.left
      /\ Want(TurnedToc) * cube.width <= TurnedToc
  BY <1>1, WantFits
<1>3. cube.width \in Nat
  BY CubeType DEF SliceTypeOK, Positive
<1>4. n * cube.width \in Nat
  BY <1>3, Product
<1>5. n * cube.width <= TurnedToc
  <2>1. n * cube.width <= Want(TurnedToc) * cube.width
    BY <1>2, <1>3, Monotone
  <2>2. Want(TurnedToc) * cube.width \in Nat
    BY <1>2, <1>3, Product
  <2> QED
    BY <1>1, <1>2, <1>4, <2>1, <2>2
<1>6. PICK u \in Nat : u = n * cube.width
  BY <1>4
<1>7. Pass(t, u) /\ slice_now' = t /\ slice_toc' = TurnedToc - u
  BY <1>6 DEF Moved
<1>8. u <= TurnedToc
  BY <1>5, <1>6
<1>9. /\ pos' \in [Slices -> Nat] /\ deseek' \subseteq Slices
      /\ slice_now' \in Slices /\ slice_toc' \in 0 .. slice_tic
      /\ Placed' /\ Ready'
  BY <1>7, <1>8, PassReady
<1>10. LineTrc' \in Nat
  BY DEF Moved, Count, SliceTypeOK
<1>11. call' = [call EXCEPT !.left = @ - n]
  BY DEF Moved
<1>12. call \in [op : {"none", "read", "write"}, left : Nat]
  BY DEF SliceTypeOK
<1>13. call.left - n \in Nat
  BY <1>2, <1>12
<1> QED
  BY <1>9, <1>10, <1>11, <1>12, <1>13

(* What has to be shown of a step.                                         *)
LEMMA StepReady ==
  ASSUME SliceTypeOK, cube' = cube, Kept,
         file' \in [Slices -> Seq(Int)],
         pos' \in [Slices -> Nat], deseek' \subseteq Slices,
         slice_now' \in Nat, slice_toc' \in 0 .. slice_tic, LineTrc' \in Nat,
         call' \in [op : {"none", "read", "write"}, left : Nat],
         writes' \in Nat,
         Placed', Ready',
         call'.op = "write" => slice_now' \in Slices \/ TurnedNow' \in Slices
  PROVE  IInv'
<1>1. Slices' = Slices /\ slice_tic' = slice_tic /\ slice_max' = slice_max
  BY SameCube
<1>2. cube' \in Cubes
  BY DEF SliceTypeOK
<1>3. SliceTypeOK'
  BY <1>1, <1>2 DEF SliceTypeOK, Kept
<1>4. slice_now' \in Slices => TurnedNow' \in Slices
  <2>1. slice_max \in Nat /\ slice_max > 0 /\ Slices = 0 .. slice_max - 1
    BY CubeFacts DEF SliceTypeOK, Positive
  <2>2. TurnedNow' = IF slice_toc' > 0 THEN slice_now'
                     ELSE IF slice_now' = slice_max - 1 THEN 0 ELSE slice_now' + 1
    BY <1>1 DEF TurnedNow
  <2>3. CASE slice_toc' > 0
    BY <2>2, <2>3
  <2>4. CASE ~ (slice_toc' > 0)
    <3>1. TurnedNow' = IF slice_now' = slice_max - 1 THEN 0 ELSE slice_now' + 1
      BY <2>2, <2>4
    <3>2. PICK now : now = slice_now'
      OBVIOUS
    <3>3. now \in Slices =>
            (IF now = slice_max - 1 THEN 0 ELSE now + 1) \in Slices
      BY <2>1
    <3> QED
      BY <3>1, <3>2, <3>3
  <2> QED
    BY <2>3, <2>4
<1>5. WriteOnSlice'
  BY <1>1, <1>4 DEF WriteOnSlice
<1> QED
  BY <1>3, <1>5 DEF IInv

(* The call ends, or another begins, where the transfer stands.            *)
LEMMA StillReady ==
  ASSUME IInv, Kept,
         UNCHANGED <<cube, trace_bias, file, pos, deseek, slice_now, slice_toc, LineTrc>>,
         call' \in [op : {"none", "read", "write"}, left : Nat],
         writes' \in Nat,
         call'.op = "write" => TurnedNow \in Slices
  PROVE  IInv'
<1>1. SliceTypeOK /\ Placed /\ Ready
  BY DEF IInv
<1>2. Slices' = Slices /\ slice_tic' = slice_tic /\ slice_max' = slice_max
  BY SameCube
<1>3. Placed' /\ Ready'
  BY <1>1, <1>2, SameBias DEF Placed, Ready, Behind, Bias, Former
<1>4. TurnedNow' = TurnedNow
  BY <1>2 DEF TurnedNow
<1> QED
  BY <1>1, <1>3, <1>4, StepReady DEF SliceTypeOK

(* The call ends after the slice has been turned to.                       *)
LEMMA TurnedReady ==
  ASSUME IInv, Kept,
         UNCHANGED <<cube, trace_bias, file, pos, deseek, LineTrc, writes>>, Return,
         slice_now' = TurnedNow, slice_toc' = TurnedToc
  PROVE  IInv'
<1>1. SliceTypeOK /\ Placed /\ Ready
  BY DEF IInv
<1>2. PICK t : t = TurnedNow
  OBVIOUS
<1>3. slice_now' = t
  BY <1>2
<1>4. slice_now' \in Nat /\ slice_toc' \in 0 .. slice_tic /\ Placed' /\ Ready'
  BY <1>1, <1>2, <1>3, TurnReady
<1>5. call'.op = "none" /\ call' \in [op : {"none", "read", "write"}, left : Nat]
  BY DEF Return, Idle
<1> QED
  BY <1>1, <1>4, <1>5, StepReady DEF SliceTypeOK

(* A seek: nothing but the position changes.                               *)
LEMMA SoughtReady ==
  ASSUME IInv, Kept, UNCHANGED <<cube, file, call, writes>>, call = Idle,
         pos' \in [Slices -> Nat], deseek' \subseteq Slices,
         slice_now' \in Nat, slice_toc' \in 0 .. slice_tic, LineTrc' \in Nat,
         Placed', Ready'
  PROVE  IInv'
<1>1. SliceTypeOK
  BY DEF IInv
<1>2. call'.op = "none"
  BY DEF Idle
<1> QED
  BY <1>1, <1>2, StepReady DEF SliceTypeOK

LEMMA AvailableType ==
  ASSUME SliceTypeOK, Placed, NEW t \in Slices, Offset(t) \in Nat
  PROVE  Available(t) \in Nat
<1>1. file[t] \in Seq(Int) /\ cube \in Cubes
  BY DEF SliceTypeOK
<1>2. Len(file[t]) \in Nat
  BY <1>1
<1>3. Offset(t) <= Len(file[t]) => Len(file[t]) - Offset(t) \in Nat
  BY <1>2
<1>4. cube.width \in Positive
  BY <1>1, CubeType
<1>5. Offset(t) <= Len(file[t]) =>
        (Len(file[t]) - Offset(t)) \div cube.width \in Nat
  BY <1>3, <1>4, Division
<1>6. At(t) = Offset(t)
  BY AtOffset
<1> QED
  BY <1>2, <1>5, <1>6 DEF Available

LEMMA IdleType == Idle \in [op : {"none", "read", "write"}, left : Nat]
BY DEF Idle

(* The application does not seek from the position to before the start.    *)
NoBack == \A c \in Cubes : ~ c.back

LEMMA SliceStep ==
  ASSUME NoBack, IInv, Kept, [SliceNext]_sliceVars
  PROVE  IInv'
<1>0. trace_bias' = trace_bias
  BY DEF Kept
<1>1. /\ SliceTypeOK /\ Placed /\ Ready /\ WriteOnSlice
      /\ cube \in Cubes
      /\ call \in [op : {"none", "read", "write"}, left : Nat]
      /\ file \in [Slices -> Seq(Int)]
      /\ writes \in Nat
  BY DEF IInv, SliceTypeOK
<1>2. CASE CallRead
  <2>1. PICK n \in 1 .. MaxCount : call' = [op |-> "read", left |-> n]
    BY <1>2 DEF CallRead
  <2>2. n \in Nat
    BY BoundsAssumption
  <2>3. call' \in [op : {"none", "read", "write"}, left : Nat] /\ call'.op = "read"
    BY <2>1, <2>2
  <2>4. UNCHANGED <<cube, trace_bias, file, pos, deseek, slice_now, slice_toc, LineTrc, writes>>
    BY <1>2 DEF CallRead
  <2> QED
    BY <1>1, <2>3, <2>4, StillReady
<1>3. CASE ReadChunk
  <2>1. PICK t : t = TurnedNow
    OBVIOUS
  <2>2. t \in Slices
    BY <1>1, <1>3, <2>1, Turning, CubeFacts DEF ReadChunk, Positive
  <2>3. PICK n : n = Smaller(Want(TurnedToc), Available(t)) /\ n > 0 /\ Moved(t, n)
    BY <1>3, <2>1 DEF ReadChunk
  <2>4. UNCHANGED <<cube, file, writes>>
    BY <1>3 DEF ReadChunk
  <2>5. TurnedToc \in Nat /\ Offset(t) \in Nat
    BY <1>1, <2>1, <2>2, Turning
  <2>6. Want(TurnedToc) \in Nat
    BY <1>1, <2>5, WantFits
  <2>7. Available(t) \in Nat
    BY <1>1, <2>2, <2>5, AvailableType
  <2>8. n \in Nat /\ n <= Want(TurnedToc)
    BY <2>3, <2>6, <2>7 DEF Smaller
  <2>9. /\ pos' \in [Slices -> Nat] /\ deseek' \subseteq Slices
        /\ slice_now' \in Slices /\ slice_toc' \in 0 .. slice_tic
        /\ LineTrc' \in Nat
        /\ call' \in [op : {"none", "read", "write"}, left : Nat]
        /\ Placed' /\ Ready'
    BY <1>0, <1>1, <2>1, <2>2, <2>3, <2>4, <2>8, MovedReady
  <2>10. slice_now' \in Nat
    BY <1>1, <2>9, CubeFacts
  <2> QED
    BY <1>1, <2>4, <2>9, <2>10, StepReady
<1>4. CASE ReadReturns
  <2>1. UNCHANGED <<cube, trace_bias, file, pos, deseek, LineTrc, writes>> /\ Return
    BY <1>4 DEF ReadReturns
  <2>2. CASE UNCHANGED <<slice_now, slice_toc>>
    <3>1. call' = Idle /\ call'.op = "none"
      BY <2>1 DEF Return, Idle
    <3> QED
      BY <1>1, <2>1, <2>2, <3>1, IdleType, StillReady
  <2>3. CASE slice_now' = TurnedNow /\ slice_toc' = TurnedToc
    BY <2>1, <2>3, TurnedReady
  <2> QED
    BY <1>4, <2>2, <2>3 DEF ReadReturns
<1>5. CASE ReadStops
  <2>1. PICK t : t = TurnedNow
    OBVIOUS
  <2>2. t \in Slices
    BY <1>1, <1>5, <2>1, Turning, CubeFacts DEF ReadStops, Positive
  <2>3. PICK n \in Nat : n = 0
    OBVIOUS
  <2>4. TurnedToc \in Nat
    BY <1>1, Turning
  <2>5. /\ UNCHANGED <<cube, file, LineTrc, writes>> /\ call' = Idle
        /\ Pass(t, n) /\ slice_now' = t
    BY <1>5, <2>1, <2>3 DEF ReadStops, Return
  <2>6. slice_toc' = TurnedToc - n /\ n <= TurnedToc
    BY <1>5, <2>3, <2>4 DEF ReadStops
  <2>7. /\ pos' \in [Slices -> Nat] /\ deseek' \subseteq Slices
        /\ slice_now' \in Slices /\ slice_toc' \in 0 .. slice_tic
        /\ Placed' /\ Ready'
    BY <1>0, <1>1, <2>1, <2>2, <2>5, <2>6, PassReady
  <2>8. slice_now' \in Nat
    BY <1>1, <2>7, CubeFacts
  <2>9. LineTrc' \in Nat
    BY <1>1, <2>5 DEF SliceTypeOK
  <2> QED
    BY <1>1, <2>5, <2>7, <2>8, <2>9, IdleType, StepReady
<1>6. CASE CallWrite
  <2>1. PICK n \in 1 .. MaxCount : call' = [op |-> "write", left |-> n]
    BY <1>6 DEF CallWrite
  <2>2. n \in Nat
    BY BoundsAssumption
  <2>3. call' \in [op : {"none", "read", "write"}, left : Nat]
    BY <2>1, <2>2
  <2>4. UNCHANGED <<cube, trace_bias, file, pos, deseek, slice_now, slice_toc, LineTrc>>
    BY <1>6 DEF CallWrite
  <2>5. writes' \in Nat
    BY <1>1, <1>6, BoundsAssumption DEF CallWrite
  <2>6. TurnedNow \in Slices
    BY <1>1, <1>6, Turning, CubeFacts DEF CallWrite, Positive
  <2> QED
    BY <2>3, <2>4, <2>5, <2>6, StillReady
<1>7. CASE WriteChunk
  <2>1. PICK t : t = TurnedNow
    OBVIOUS
  <2>2. t \in Slices
    BY <1>1, <1>7, <2>1 DEF WriteOnSlice, WriteChunk
  <2>3. PICK n : n = Want(TurnedToc)
    OBVIOUS
  <2>4. WriteSlice = t
    <3>1. TurnedNow < slice_max
      BY <1>1, <2>1, <2>2, CubeFacts DEF Positive
    <3> QED
      BY <2>1, <3>1 DEF WriteSlice
  <2>5. /\ Moved(t, n) /\ UNCHANGED <<cube, writes>>
        /\ file' = [file EXCEPT ![t] =
                      Put(file[t], Offset(t), n * cube.width, - writes)]
    <3>1. At(t) = Offset(t)
      BY <1>1, <2>2, AtOffset
    <3> QED
      BY <1>7, <2>3, <2>4, <3>1 DEF WriteChunk
  <2>6. TurnedToc \in Nat /\ Offset(t) \in Nat
    BY <1>1, <2>1, <2>2, Turning
  <2>7. n \in Nat /\ n <= Want(TurnedToc)
    BY <1>1, <2>3, <2>6, WantFits
  <2>8. file' \in [Slices -> Seq(Int)]
    <3>1. n * cube.width \in Nat
      BY <1>1, <2>7, CubeType, Product DEF Positive
    <3>2. - writes \in Int
      BY <1>1, BoundsAssumption
    <3>3. file[t] \in Seq(Int)
      BY <1>1, <2>2
    <3>4. Put(file[t], Offset(t), n * cube.width, - writes) \in Seq(Int)
      BY <2>6, <3>1, <3>2, <3>3, PutType
    <3> QED
      BY <1>1, <2>2, <2>5, <3>4
  <2>9. /\ pos' \in [Slices -> Nat] /\ deseek' \subseteq Slices
        /\ slice_now' \in Slices /\ slice_toc' \in 0 .. slice_tic
        /\ LineTrc' \in Nat
        /\ call' \in [op : {"none", "read", "write"}, left : Nat]
        /\ Placed' /\ Ready'
    BY <1>0, <1>1, <2>1, <2>2, <2>5, <2>7, MovedReady
  <2>10. slice_now' \in Nat
    BY <1>1, <2>9, CubeFacts
  <2> QED
    BY <1>1, <2>5, <2>8, <2>9, <2>10, StepReady
<1>8. CASE WriteReturns
  <2>1. UNCHANGED <<cube, trace_bias, file, pos, deseek, LineTrc, writes>> /\ Return
    BY <1>8 DEF WriteReturns
  <2>2. CASE UNCHANGED <<slice_now, slice_toc>>
    <3>1. call' = Idle /\ call'.op = "none"
      BY <2>1 DEF Return, Idle
    <3> QED
      BY <1>1, <2>1, <2>2, <3>1, IdleType, StillReady
  <2>3. CASE slice_now' = TurnedNow /\ slice_toc' = TurnedToc
    BY <2>1, <2>3, TurnedReady
  <2> QED
    BY <1>8, <2>2, <2>3 DEF WriteReturns
<1>9. CASE SeekSet
  <2>1. PICK offset : Reach("set", offset, offset)
    BY <1>9 DEF SeekSet
  <2>2. UNCHANGED <<cube, file, call, writes>> /\ call = Idle
    BY <1>9 DEF SeekSet, MaySeek
  <2> QED
    BY <1>0, <1>1, <2>1, <2>2, ReachReady, SoughtReady
<1>10. CASE SeekEnd
  <2>1. PICK offset, p : Reach("end", offset, p)
    BY <1>10 DEF SeekEnd
  <2>2. UNCHANGED <<cube, file, call, writes>> /\ call = Idle
    BY <1>10 DEF SeekEnd, MaySeek
  <2> QED
    BY <1>0, <1>1, <2>1, <2>2, ReachReady, SoughtReady
<1>11. CASE SeekCur
  <2>1. UNCHANGED <<cube, file, call, writes>> /\ call = Idle
    BY <1>11 DEF SeekCur, MaySeek
  <2>2. CASE \E offset, p : Reach("cur", offset, p)
    BY <1>0, <1>1, <2>1, <2>2, ReachReady, SoughtReady
  <2>3. CASE \E p : p \in 0 .. Limit /\ MoveTo(p)
    <3>1. PICK p \in Nat : MoveTo(p)
      BY <2>3, BoundsAssumption
    <3> QED
      BY <1>0, <1>1, <2>1, <3>1, MoveReady, SoughtReady
  <2>4. CASE UNCHANGED <<pos, deseek, slice_now, slice_toc, LineTrc>>
    BY <1>0, <1>1, <2>1, <2>4, StillReady DEF Idle
  <2>5. ~ cube.back
    BY <1>1 DEF NoBack
  <2> QED
    BY <1>11, <2>2, <2>3, <2>4, <2>5 DEF SeekCur
<1>12. CASE UNCHANGED sliceVars
  <2>1. UNCHANGED <<cube, trace_bias, file, pos, deseek, slice_now, slice_toc, LineTrc, call, writes>>
    BY <1>12 DEF sliceVars
  <2> QED
    BY <1>1, <2>1, StillReady DEF WriteOnSlice
<1> QED
  BY <1>2, <1>3, <1>4, <1>5, <1>6, <1>7, <1>8, <1>9, <1>10, <1>11, <1>12
     DEF SliceNext

-----------------------------------------------------------------------------
(* The runs                                                                *)

(* What slice s has passed, and what is left of its run if it is current.  *)
Run(s) == pos[s] - Bias(s) + (IF s = slice_now THEN slice_toc ELSE 0)

(* Every slice that is in its place has whole runs; the current one, if it *)
(* is yet to be moved, comes after one that is in its place.               *)
WholeRun == \A s \in Slices \ deseek : Run(s) % slice_tic = 0

Trailing == slice_now \in deseek => Former(slice_now) \in Slices \ deseek

RunInv == WholeRun /\ Trailing

(* The slice that the transfer comes to has whole runs once it is in its   *)
(* place, and is beside a slice that is in its own.                        *)
LEMMA TurnRuns ==
  ASSUME SliceTypeOK, Placed, Ready, RunInv, TurnedNow \in Slices
  PROVE  /\ (Offset(TurnedNow) + TurnedToc) % slice_tic = 0
         /\ TurnedNow \in deseek => Former(TurnedNow) \in Slices \ deseek
<1>1. /\ slice_max \in Nat /\ slice_max > 0
      /\ slice_tic \in Positive /\ slice_tic \in Nat /\ slice_tic > 0
      /\ \A s \in Slices : s \in Nat /\ Bias(s) \in Nat
      /\ Slices = 0 .. slice_max - 1
  <2>1. /\ slice_max \in Positive /\ slice_tic \in Positive
        /\ \A s \in Slices : s \in Nat /\ Bias(s) \in Nat
        /\ Slices = 0 .. slice_max - 1
    BY CubeFacts, BiasType DEF SliceTypeOK
  <2> QED
    BY <2>1 DEF Positive
<1>2. /\ pos \in [Slices -> Nat] /\ slice_now \in Nat
      /\ slice_toc \in 0 .. slice_tic /\ deseek \subseteq Slices
  BY DEF SliceTypeOK
<1>3. \A s \in Slices : pos[s] - Bias(s) \in Nat
  BY <1>1, <1>2 DEF Placed
<1>4. /\ \A s \in Slices \ deseek : Run(s) % slice_tic = 0
      /\ slice_now \in deseek => Former(slice_now) \in Slices \ deseek
  BY DEF RunInv, WholeRun, Trailing
<1> DEFINE t == TurnedNow
<1>5. Offset(t) \in Nat
  BY Turning
<1>6. PICK f : f = Former(t)
  OBVIOUS
(* Beside a slice that has passed whole runs.                              *)
<1>7. ASSUME t \in deseek, f \in Slices \ deseek, Run(f) = pos[f] - Bias(f)
      PROVE  (Offset(t) + slice_tic) % slice_tic = 0
  <2> DEFINE a == pos[f] - Bias(f)
  <2>1. a \in Nat /\ a % slice_tic = 0
    BY <1>3, <1>4, <1>7
  <2>2. Offset(t) = a - (IF t = 0 THEN 0 ELSE slice_tic)
    BY <1>6, <1>7 DEF Offset
  <2> HIDE DEF a
  <2>3. Offset(t) % slice_tic = 0
    <3>1. CASE t = 0
      BY <2>1, <2>2, <3>1
    <3>2. CASE t # 0
      <4>1. Offset(t) = a - slice_tic /\ slice_tic <= a
        BY <1>1, <1>5, <2>1, <2>2, <3>2
      <4>2. (a - slice_tic) % slice_tic = 0
        BY <1>1, <2>1, <4>1, WholeRuns
      <4> QED
        BY <4>1, <4>2
    <3> QED
      BY <3>1, <3>2
  <2> QED
    BY <1>1, <1>5, <2>3, WholeRuns
<1>8. CASE slice_toc > 0
  <2>1. t = slice_now /\ TurnedToc = slice_toc
    BY <1>8 DEF TurnedNow, TurnedToc
  <2>2. CASE t \in deseek
    <3>1. slice_toc = slice_tic
      BY <2>1, <2>2 DEF Ready
    <3>2. f \in Slices \ deseek /\ f # slice_now
      BY <1>4, <1>6, <2>1, <2>2
    <3>3. pos[f] - Bias(f) \in Nat
      BY <1>3, <3>2
    <3>4. Run(f) = pos[f] - Bias(f)
      BY <3>2, <3>3 DEF Run
    <3> QED
      BY <1>6, <1>7, <2>1, <2>2, <3>1, <3>2, <3>4
  <2>3. CASE t \notin deseek
    <3>1. Run(t) = Offset(t) + TurnedToc
      BY <2>1, <2>3 DEF Run, Offset
    <3> QED
      BY <1>4, <2>3, <3>1
  <2> QED
    BY <2>2, <2>3
<1>9. CASE slice_toc = 0
  <2>1. slice_now \in Slices \ deseek
    BY <1>1, <1>9 DEF Ready
  <2>2. t = (IF slice_now = slice_max - 1 THEN 0 ELSE slice_now + 1) /\ TurnedToc = slice_tic
    BY <1>9 DEF TurnedNow, TurnedToc
  <2>3. f = slice_now
    BY <1>1, <1>2, <1>6, <2>1, <2>2 DEF Former
  <2>4. pos[slice_now] - Bias(slice_now) \in Nat
    BY <1>3, <2>1
  <2>5. Run(slice_now) = pos[slice_now] - Bias(slice_now)
    BY <1>9, <2>4 DEF Run
  <2>6. CASE t \in deseek
    BY <1>6, <1>7, <2>1, <2>2, <2>3, <2>5, <2>6
  <2>7. CASE t \notin deseek
    <3>1. Offset(t) = pos[t] - Bias(t)
      BY <2>7 DEF Offset
    <3>2. Run(t) = Offset(t)
      BY <1>5, <1>9, <3>1 DEF Run
    <3>3. Offset(t) % slice_tic = 0
      BY <1>4, <2>7, <3>2
    <3> QED
      BY <1>1, <1>5, <2>2, <2>7, <3>3, WholeRuns
  <2> QED
    BY <2>6, <2>7
<1> QED
  BY <1>1, <1>2, <1>8, <1>9

(* A transfer of some units of the run keeps the runs whole.               *)
LEMMA PassRuns ==
  ASSUME SliceTypeOK, Placed, Ready, RunInv, UNCHANGED <<cube, trace_bias>>,
         NEW t \in Slices, t = TurnedNow, NEW n \in Nat, n <= TurnedToc,
         Pass(t, n), slice_now' = t, slice_toc' = TurnedToc - n
  PROVE  RunInv'
<1>1. /\ slice_tic \in Positive /\ slice_tic \in Nat
      /\ \A s \in Slices : s \in Nat /\ Bias(s) \in Nat
  BY CubeFacts, BiasType DEF SliceTypeOK, Positive
<1>2. /\ TurnedToc \in 1 .. slice_tic /\ Offset(t) \in Nat
      /\ (Offset(t) + TurnedToc) % slice_tic = 0
  BY Turning, TurnRuns
<1>3. pos \in [Slices -> Nat] /\ deseek \subseteq Slices /\ slice_toc \in 0 .. slice_tic
  BY DEF SliceTypeOK
<1>4. pos' = [pos EXCEPT ![t] = Bias(t) + Offset(t) + n] /\ deseek' = deseek \ {t}
  BY DEF Pass
<1>5. pos'[t] = Bias(t) + Offset(t) + n /\ \A s \in Slices \ {t} : pos'[s] = pos[s]
  BY <1>3, <1>4
<1>6. \A s : Run(s)' = pos'[s] - Bias(s) + (IF s = slice_now' THEN slice_toc' ELSE 0)
  BY SameCube DEF Run, Bias
<1>7. Run(t)' = Offset(t) + TurnedToc
  <2>1. Run(t)' = pos'[t] - Bias(t) + slice_toc'
    BY <1>6
  <2>2. Bias(t) \in Nat
    BY <1>1
  <2> QED
    BY <1>2, <1>5, <2>1, <2>2
(* No other slice had anything left of its run.                            *)
<1>8. \A s \in Slices \ {t} : Run(s)' = Run(s)
  <2> SUFFICES ASSUME NEW s \in Slices \ {t}
               PROVE  Run(s)' = Run(s)
    OBVIOUS
  <2>1. Run(s)' = pos[s] - Bias(s) + 0
    BY <1>5, <1>6
  <2>2. s = slice_now => slice_toc = 0
    BY <1>3 DEF TurnedNow
  <2> QED
    BY <2>1, <2>2 DEF Run
<1>9. Slices' = Slices /\ slice_tic' = slice_tic
  BY SameCube
<1>10. \A s \in Slices \ deseek : Run(s) % slice_tic = 0
  BY DEF RunInv, WholeRun
<1>11. \A s \in Slices \ deseek' : Run(s)' % slice_tic = 0
  BY <1>2, <1>4, <1>7, <1>8, <1>10
<1>12. WholeRun'
  BY <1>9, <1>11 DEF WholeRun
<1>13. Trailing'
  BY <1>4 DEF Trailing
<1> QED
  BY <1>12, <1>13 DEF RunInv

(* So does a turn to the next slice.                                       *)
LEMMA TurnedRuns ==
  ASSUME SliceTypeOK, Placed, Ready, RunInv, UNCHANGED <<cube, trace_bias, pos, deseek>>,
         NEW t, t = TurnedNow, slice_now' = t, slice_toc' = TurnedToc
  PROVE  RunInv'
<1>1. /\ slice_tic \in Positive /\ slice_tic \in Nat
      /\ \A s \in Slices : s \in Nat /\ Bias(s) \in Nat
  BY CubeFacts, BiasType DEF SliceTypeOK, Positive
<1>2. /\ TurnedToc \in 1 .. slice_tic /\ t \in Nat
      /\ t \notin Slices => t = slice_now /\ TurnedToc = slice_toc
      /\ slice_toc = 0 => t \in Slices
  BY Turning
<1>3. t \in Slices =>
        /\ (Offset(t) + TurnedToc) % slice_tic = 0
        /\ t \in deseek => Former(t) \in Slices \ deseek
  BY TurnRuns
<1>4. pos \in [Slices -> Nat] /\ deseek \subseteq Slices /\ slice_toc \in 0 .. slice_tic
  BY DEF SliceTypeOK
<1>5. /\ Slices' = Slices /\ slice_tic' = slice_tic
      /\ \A s : Former(s)' = Former(s)
  BY SameCube
<1>6. \A s : Run(s)' = pos[s] - Bias(s) + (IF s = t THEN TurnedToc ELSE 0)
  BY SameCube DEF Run, Bias
<1>7. \A s \in Slices \ deseek : Run(s)' % slice_tic = 0
  <2> SUFFICES ASSUME NEW s \in Slices \ deseek
               PROVE  Run(s)' % slice_tic = 0
    OBVIOUS
  <2>1. CASE s = t
    <3>1. Run(s)' = Offset(t) + TurnedToc
      BY <1>6, <2>1 DEF Offset
    <3> QED
      BY <1>3, <2>1, <3>1
  <2>2. CASE s # t
    <3>1. s = slice_now => slice_toc = 0
      BY <1>4, <2>2 DEF TurnedNow
    <3>2. Run(s)' = Run(s)
      BY <1>6, <2>2, <3>1 DEF Run
    <3> QED
      BY <3>2 DEF RunInv, WholeRun
  <2> QED
    BY <2>1, <2>2
<1>8. WholeRun'
  BY <1>5, <1>7 DEF WholeRun
<1>9. t \in deseek => Former(t) \in Slices \ deseek
  BY <1>3, <1>4
<1>10. Trailing'
  <2>1. Trailing' = (t \in deseek => Former(t)' \in Slices' \ deseek)
    BY DEF Trailing, Former
  <2> QED
    BY <1>5, <1>9, <2>1
<1> QED
  BY <1>8, <1>10 DEF RunInv

(* A seek leaves one slice in its place, with what is left of its run.     *)
LEMMA MoveRuns ==
  ASSUME SliceTypeOK, UNCHANGED <<cube, trace_bias>>, NEW p \in Nat, MoveTo(p)
  PROVE  RunInv'
<1> DEFINE last == SliceOf(p) = slice_max /\ OffsetOf(p) = 0
<1>1. PICK s : s = IF last THEN slice_max - 1 ELSE SliceOf(p)
  OBVIOUS
<1>2. PICK at : at = IF last THEN slice_tic ELSE OffsetOf(p)
  OBVIOUS
<1>3. PICK toc : toc = IF last THEN 0 ELSE slice_tic - (OffsetOf(p) % slice_tic)
  OBVIOUS
<1>4. /\ slice_now' = s
      /\ slice_toc' = toc
      /\ pos' = IF s \in Slices THEN [pos EXCEPT ![s] = Bias(s) + at] ELSE pos
      /\ deseek' = Slices \ {s}
  BY <1>1, <1>2, <1>3 DEF MoveTo, Sought, Bias
<1>5. /\ slice_tic \in Positive /\ slice_tic \in Nat
      /\ \A r \in Slices : Bias(r) \in Nat
  BY CubeFacts, BiasType DEF SliceTypeOK, Positive
<1>6. OffsetOf(p) \in Nat
  BY Target DEF SliceTypeOK
<1>7. OffsetOf(p) % slice_tic \in 0 .. slice_tic - 1
  BY <1>5, <1>6, Division
<1>8. at \in Nat /\ toc \in Nat /\ (at + toc) % slice_tic = 0
  <2>1. CASE last
    <3>1. at = slice_tic /\ toc = 0
      BY <1>2, <1>3, <2>1
    <3>2. slice_tic % slice_tic = 0 /\ slice_tic + 0 = slice_tic
      BY <1>5, WholeRuns
    <3> QED
      BY <1>5, <3>1, <3>2
  <2>2. CASE ~ last
    <3>1. at = OffsetOf(p) /\ toc = slice_tic - (OffsetOf(p) % slice_tic)
      BY <1>2, <1>3, <2>2
    <3>2. (OffsetOf(p) + (slice_tic - (OffsetOf(p) % slice_tic))) % slice_tic = 0
      BY <1>5, <1>6, WholeRuns
    <3> QED
      BY <1>5, <1>6, <1>7, <3>1, <3>2
  <2> QED
    BY <2>1, <2>2
<1> HIDE DEF last
<1>9. pos \in [Slices -> Nat]
  BY DEF SliceTypeOK
<1>10. Slices' = Slices /\ slice_tic' = slice_tic
  BY SameCube
<1>11. \A r : Run(r)' = pos'[r] - Bias(r) + (IF r = slice_now' THEN slice_toc' ELSE 0)
  BY SameCube DEF Run, Bias
<1>12. \A r \in Slices \ deseek' : Run(r)' % slice_tic = 0
  <2> SUFFICES ASSUME NEW r \in Slices \ deseek'
               PROVE  Run(r)' % slice_tic = 0
    OBVIOUS
  <2>1. r = s /\ s \in Slices
    BY <1>4
  <2>2. pos'[s] = Bias(s) + at /\ Bias(s) \in Nat
    BY <1>4, <1>5, <1>9, <2>1
  <2>3. Run(s)' = pos'[s] - Bias(s) + toc
    BY <1>4, <1>11
  <2>4. Run(s)' = at + toc
    BY <1>8, <2>2, <2>3
  <2> QED
    BY <1>8, <2>1, <2>4
<1>13. WholeRun'
  BY <1>10, <1>12 DEF WholeRun
<1>14. Trailing'
  BY <1>4 DEF Trailing
<1> QED
  BY <1>13, <1>14 DEF RunInv

LEMMA SameRuns ==
  ASSUME RunInv, UNCHANGED <<cube, trace_bias, pos, deseek, slice_now, slice_toc>>
  PROVE  RunInv'
<1>1. Slices' = Slices /\ slice_tic' = slice_tic
  BY SameCube
<1>2. \A s : Run(s)' = Run(s)
  BY DEF Run, Bias
<1>3. WholeRun'
  BY <1>1, <1>2 DEF RunInv, WholeRun
<1>4. Trailing'
  BY <1>1, SameCube DEF RunInv, Trailing, Former
<1> QED
  BY <1>3, <1>4 DEF RunInv

LEMMA ReachRuns ==
  ASSUME SliceTypeOK, RunInv, UNCHANGED <<cube, trace_bias>>,
         NEW whence, NEW offset, NEW p, Reach(whence, offset, p)
  PROVE  RunInv'
<1>1. CASE p \in 0 .. Limit /\ MoveTo(p)
  <2>1. p \in Nat
    BY <1>1, BoundsAssumption
  <2> QED
    BY <1>1, <2>1, MoveRuns
<1>2. CASE UNCHANGED <<pos, deseek, slice_now, slice_toc, LineTrc>>
  BY <1>2, SameRuns
<1> QED
  BY <1>1, <1>2 DEF Reach

LEMMA InitRuns ==
  ASSUME SliceInit
  PROVE  RunInv
<1>1. cube \in Cubes
  BY DEF SliceInit
<1>2. /\ slice_tic \in Positive /\ slice_tic \in Nat /\ slice_tic > 0
      /\ \A s \in Slices : s \in Nat /\ Prefix(s) \in Nat
  <2>1. /\ slice_tic \in Positive
        /\ \A s \in Slices : s \in Nat /\ Prefix(s) \in Nat
    BY <1>1, CubeFacts
  <2> QED
    BY <2>1 DEF Positive
<1>3. /\ \A s \in Slices : pos[s] = Bias(s) /\ Bias(s) \in Nat
      /\ deseek = {} /\ slice_now = 0 /\ slice_toc = slice_tic
  BY <1>2 DEF SliceInit, Bias
<1>4. \A s \in Slices : Run(s) = (IF s = slice_now THEN slice_tic ELSE 0)
  BY <1>2, <1>3 DEF Run
<1>5. slice_tic % slice_tic = 0 /\ 0 % slice_tic = 0
  <2>1. (0 * slice_tic) % slice_tic = 0 /\ 0 * slice_tic = 0
    BY <1>2, MultipleMod
  <2> QED
    BY <1>2, <2>1, WholeRuns
<1>6. WholeRun
  BY <1>4, <1>5 DEF WholeRun
<1> QED
  BY <1>3, <1>6 DEF RunInv, Trailing

LEMMA MovedRuns ==
  ASSUME SliceTypeOK, Placed, Ready, RunInv, UNCHANGED <<cube, trace_bias>>,
         NEW t \in Slices, t = TurnedNow, NEW n \in Nat, n <= Want(TurnedToc),
         Moved(t, n)
  PROVE  RunInv'
<1>1. TurnedToc \in Nat
  BY Turning
<1>2. /\ Want(TurnedToc) \in Nat /\ Want(TurnedToc) <= call.left
      /\ Want(TurnedToc) * cube.width <= TurnedToc
  BY <1>1, WantFits
<1>3. cube.width \in Nat
  BY CubeType DEF SliceTypeOK, Positive
<1>4. n * cube.width \in Nat
  BY <1>3, Product
<1>5. n * cube.width <= TurnedToc
  <2>1. n * cube.width <= Want(TurnedToc) * cube.width
    BY <1>2, <1>3, Monotone
  <2>2. Want(TurnedToc) * cube.width \in Nat
    BY <1>2, <1>3, Product
  <2> QED
    BY <1>1, <1>2, <1>4, <2>1, <2>2
<1>6. PICK u \in Nat : u = n * cube.width
  BY <1>4
<1>7. Pass(t, u) /\ slice_now' = t /\ slice_toc' = TurnedToc - u
  BY <1>6 DEF Moved
<1>8. u <= TurnedToc
  BY <1>5, <1>6
<1> QED
  BY <1>7, <1>8, PassRuns

(* Every step keeps the runs whole.                                        *)
LEMMA RunStep ==
  ASSUME NoBack, IInv, Kept, RunInv, [SliceNext]_sliceVars
  PROVE  RunInv'
<1>0. trace_bias' = trace_bias
  BY DEF Kept
<1>1. /\ SliceTypeOK /\ Placed /\ Ready /\ WriteOnSlice
      /\ cube \in Cubes
      /\ file \in [Slices -> Seq(Int)]
  BY DEF IInv, SliceTypeOK
<1>2. CASE UNCHANGED <<cube, trace_bias, pos, deseek, slice_now, slice_toc>>
  BY <1>2, SameRuns
<1>3. CASE ReadChunk
  <2>1. PICK t : t = TurnedNow
    OBVIOUS
  <2>2. t \in Slices
    BY <1>1, <1>3, <2>1, Turning, CubeFacts DEF ReadChunk, Positive
  <2>3. PICK n : n = Smaller(Want(TurnedToc), Available(t)) /\ n > 0 /\ Moved(t, n)
    BY <1>3, <2>1 DEF ReadChunk
  <2>4. cube' = cube
    BY <1>3 DEF ReadChunk
  <2>5. TurnedToc \in Nat /\ Offset(t) \in Nat
    BY <1>1, <2>1, <2>2, Turning
  <2>6. Want(TurnedToc) \in Nat
    BY <1>1, <2>5, WantFits
  <2>7. Available(t) \in Nat
    BY <1>1, <2>2, <2>5, AvailableType
  <2>8. n \in Nat /\ n <= Want(TurnedToc)
    BY <2>3, <2>6, <2>7 DEF Smaller
  <2> QED
    BY <1>0, <1>1, <2>1, <2>2, <2>3, <2>4, <2>8, MovedRuns
<1>4. CASE ReadReturns
  <2>1. UNCHANGED <<cube, trace_bias, pos, deseek>>
    BY <1>4 DEF ReadReturns
  <2>2. CASE slice_now' = TurnedNow /\ slice_toc' = TurnedToc
    BY <1>1, <2>1, <2>2, TurnedRuns
  <2> QED
    BY <1>2, <1>4, <2>1, <2>2 DEF ReadReturns
<1>5. CASE ReadStops
  <2>1. PICK t : t = TurnedNow
    OBVIOUS
  <2>2. t \in Slices
    BY <1>1, <1>5, <2>1, Turning, CubeFacts DEF ReadStops, Positive
  <2>3. PICK n \in Nat : n = 0
    OBVIOUS
  <2>4. TurnedToc \in Nat
    BY <1>1, Turning
  <2>5. cube' = cube /\ Pass(t, n) /\ slice_now' = t
    BY <1>5, <2>1, <2>3 DEF ReadStops
  <2>6. slice_toc' = TurnedToc - n /\ n <= TurnedToc
    BY <1>5, <2>3, <2>4 DEF ReadStops
  <2> QED
    BY <1>0, <1>1, <2>1, <2>2, <2>5, <2>6, PassRuns
<1>6. CASE WriteChunk
  <2>1. PICK t : t = TurnedNow
    OBVIOUS
  <2>2. t \in Slices
    BY <1>1, <1>6, <2>1 DEF WriteOnSlice, WriteChunk
  <2>3. PICK n : n = Want(TurnedToc)
    OBVIOUS
  <2>4. WriteSlice = t
    <3>1. TurnedNow < slice_max
      BY <1>1, <2>1, <2>2, CubeFacts DEF Positive
    <3> QED
      BY <2>1, <3>1 DEF WriteSlice
  <2>5. Moved(t, n) /\ cube' = cube
    BY <1>6, <2>3, <2>4 DEF WriteChunk
  <2>6. TurnedToc \in Nat
    BY <1>1, Turning
  <2>7. n \in Nat /\ n <= Want(TurnedToc)
    BY <1>1, <2>3, <2>6, WantFits
  <2> QED
    BY <1>0, <1>1, <2>1, <2>2, <2>5, <2>7, MovedRuns
<1>7. CASE WriteReturns
  <2>1. UNCHANGED <<cube, trace_bias, pos, deseek>>
    BY <1>7 DEF WriteReturns
  <2>2. CASE slice_now' = TurnedNow /\ slice_toc' = TurnedToc
    BY <1>1, <2>1, <2>2, TurnedRuns
  <2> QED
    BY <1>2, <1>7, <2>1, <2>2 DEF WriteReturns
<1>8. CASE SeekSet
  BY <1>0, <1>1, <1>8, ReachRuns DEF SeekSet
<1>9. CASE SeekEnd
  BY <1>0, <1>1, <1>9, ReachRuns DEF SeekEnd
<1>10. CASE SeekCur
  <2>1. cube' = cube
    BY <1>10 DEF SeekCur
  <2>2. CASE \E offset, p : Reach("cur", offset, p)
    BY <1>0, <1>1, <2>1, <2>2, ReachRuns
  <2>3. CASE \E p : p \in 0 .. Limit /\ MoveTo(p)
    <3>1. PICK p \in Nat : MoveTo(p)
      BY <2>3, BoundsAssumption
    <3> QED
      BY <1>0, <1>1, <2>1, <3>1, MoveRuns
  <2>4. CASE UNCHANGED <<pos, deseek, slice_now, slice_toc, LineTrc>>
    BY <1>0, <1>2, <2>1, <2>4
  <2>5. ~ cube.back
    BY <1>1 DEF NoBack
  <2> QED
    BY <1>10, <2>2, <2>3, <2>4, <2>5 DEF SeekCur
<1> QED
  BY <1>2, <1>3, <1>4, <1>5, <1>6, <1>7, <1>8, <1>9, <1>10
     DEF SliceNext, CallRead, CallWrite, sliceVars

-----------------------------------------------------------------------------
(* Results                                                                 *)

(* The application does not seek before it has written to every slice that *)
(* is created.                                                             *)
NoEarly == \A c \in Cubes : ~ c.early

SliceInv == IInv /\ Starting

(* A slice that is created is begun at the start of its file.              *)
LEMMA StartKept ==
  ASSUME SliceInv, [SliceNext]_sliceVars
  PROVE  Kept /\ Starting'
<1>1. /\ SliceTypeOK /\ Placed /\ Ready /\ WriteOnSlice /\ Starting
      /\ cube \in Cubes /\ eof \subseteq Slices
  BY DEF SliceInv, IInv, SliceTypeOK
<1>2. CASE /\ UNCHANGED <<cube, trace_bias, eof, deseek, pos>>
           /\ call'.op = "read" => eof = {} \/ call.op = "read"
  BY <1>1, <1>2 DEF Starting, Kept
<1>3. CASE UNCHANGED <<cube, trace_bias>> /\ eof = {} /\ eof' = {}
  BY <1>1, <1>3 DEF Starting, Kept
<1>4. CASE CallRead \/ CallWrite
  BY <1>1, <1>2, <1>4 DEF CallRead, CallWrite, Starting
<1>5. CASE ReadReturns \/ WriteReturns
  <2>1. call'.op = "none"
    BY <1>5 DEF ReadReturns, WriteReturns, Return, Idle
  <2> QED
    BY <1>2, <1>5, <2>1 DEF ReadReturns, WriteReturns
<1>6. CASE ReadChunk \/ ReadStops
  BY <1>1, <1>3, <1>6 DEF ReadChunk, ReadStops, Starting
<1>7. CASE WriteChunk
  <2>1. PICK t : t = TurnedNow
    OBVIOUS
  <2>2. t \in Slices
    BY <1>1, <1>7, <2>1 DEF WriteOnSlice, WriteChunk
  <2>3. WriteSlice = t
    <3>1. TurnedNow < slice_max
      BY <1>1, <2>1, <2>2, CubeFacts DEF Positive
    <3> QED
      BY <2>1, <3>1 DEF WriteSlice
  <2>4. PICK n : n = Want(TurnedToc)
    OBVIOUS
  <2>5. /\ cube' = cube /\ eof' = eof \ {t} /\ Moved(t, n)
        /\ trace_bias' = Begun(t, Bias(t) + Offset(t))
        /\ call.op = "write"
    BY <1>7, <2>3, <2>4 DEF WriteChunk
  <2>6. trace_bias' = trace_bias
    <3>1. CASE t \in eof
      <4>1. cube.fresh /\ t \notin deseek /\ pos[t] = 0
        BY <1>1, <3>1 DEF Starting
      <4>2. cube.bias = 0
        BY <1>1, <4>1, CubesAssumption
      <4>3. Prefix(t) = 0
        BY <1>1, <2>2, <4>2, BiasType DEF Prefix
      <4>4. Bias(t) = 0 /\ trace_bias[t] = 0
        BY <1>1, <2>2, <4>3, AtOffset DEF Bias
      <4>5. Bias(t) + Offset(t) = 0
        BY <4>1, <4>4 DEF Offset
      <4>6. trace_bias' = [trace_bias EXCEPT ![t] = 0]
        BY <2>5, <3>1, <4>5 DEF Begun
      <4>7. trace_bias \in [Slices -> Nat]
        BY <1>1 DEF SliceTypeOK
      <4> QED
        BY <2>2, <4>4, <4>6, <4>7
    <3>2. CASE t \notin eof
      BY <2>5, <3>2 DEF Begun
    <3> QED
      BY <3>1, <3>2
  <2>7. deseek' \subseteq deseek /\ \A s \in Slices \ {t} : pos'[s] = pos[s]
    <3>1. pos \in [Slices -> Nat]
      BY <1>1 DEF SliceTypeOK
    <3> QED
      BY <2>5, <3>1 DEF Moved, Pass
  <2>8. call'.op = "write"
    <3>1. call \in [op : {"none", "read", "write"}, left : Nat]
      BY <1>1 DEF SliceTypeOK
    <3> QED
      BY <2>5, <3>1 DEF Moved
  <2> QED
    BY <1>1, <2>5, <2>6, <2>7, <2>8 DEF Starting, Kept
<1>8. CASE SeekSet \/ SeekEnd \/ SeekCur
  <2>1. eof = {} /\ cube' = cube
    BY <1>1, <1>8 DEF SeekSet, SeekEnd, SeekCur, MaySeek, Starting
  <2>2. CASE \E p : MoveTo(p)
    BY <1>3, <2>1, <2>2 DEF MoveTo, Sought, Begun
  <2>3. CASE UNCHANGED <<trace_bias, eof>>
    BY <1>3, <2>1, <2>3
  <2> QED
    BY <1>8, <2>2, <2>3 DEF SeekSet, SeekEnd, SeekCur, Reach, Lost
<1>9. CASE UNCHANGED sliceVars
  BY <1>2, <1>9 DEF sliceVars
<1> QED
  BY <1>4, <1>5, <1>6, <1>7, <1>8, <1>9 DEF SliceNext

LEMMA StartInit ==
  ASSUME NoEarly, SliceInit
  PROVE  Starting
<1>1. cube \in Cubes
  BY DEF SliceInit
<1>2. CASE cube.fresh
  <2>1. cube.bias = 0 /\ \A s \in Slices : s \in Nat
    BY <1>1, <1>2, CubesAssumption, CubeFacts
  <2>2. \A s \in Slices : Prefix(s) = 0
    BY <2>1 DEF Prefix
  <2>3. \A s \in Slices : pos[s] = 0
    BY <2>2 DEF SliceInit
  <2> QED
    BY <1>1, <1>2, <2>3 DEF SliceInit, Starting, NoEarly
<1>3. CASE ~ cube.fresh
  BY <1>1, <1>3 DEF SliceInit, Starting, NoEarly
<1> QED
  BY <1>2, <1>3

(* Whatever is read, written and sought, in whatever order, the streams of *)
(* the slices stand behind their line headers, every slice that is created *)
(* is begun at the start of its file, the run left is no longer than a     *)
(* run, and the inductive invariant holds (readslice.c, writeslicet.c,     *)
(* seekslice.c, c_write.c).                                                *)
THEOREM SliceInvariant ==
  ASSUME NoBack, NoEarly
  PROVE  SliceSpec => []SliceInv
<1>1. SliceInit => SliceInv
  BY InitReady, StartInit DEF SliceInv
<1>2. SliceInv /\ [SliceNext]_sliceVars => SliceInv'
  BY SliceStep, StartKept DEF SliceInv
<1> QED
  BY <1>1, <1>2, PTL DEF SliceSpec

(* The state of a sliced binary has its types: no stream is positioned     *)
(* before the start of its file, and the run never exceeds slice_tic.      *)
THEOREM SliceTypes ==
  ASSUME NoBack, NoEarly
  PROVE  SliceSpec => []SliceTypeOK
<1>1. SliceInv => SliceTypeOK
  BY DEF SliceInv, IInv
<1> QED
  BY <1>1, SliceInvariant, PTL

(* The "deseek" errors of ddsReadSlice and its like and the assertion of   *)
(* ddsSeekSlice never strike: the slice the transfer comes to can be       *)
(* positioned, whatever slices a seek has left behind.                     *)
THEOREM SlicesPositioned ==
  ASSUME NoBack, NoEarly
  PROVE  SliceSpec => []PositionKnown
<1>1. SliceInv => PositionKnown
  <2> SUFFICES ASSUME SliceInv, TurnedNow < slice_max
               PROVE  Offset(TurnedNow) >= 0
    BY DEF PositionKnown
  <2>1. SliceTypeOK /\ Placed /\ Ready /\ cube \in Cubes
    BY DEF SliceInv, IInv, SliceTypeOK
  <2>2. TurnedNow \in Slices
    BY <2>1, Turning, CubeFacts DEF Positive
  <2>3. Offset(TurnedNow) \in Nat
    BY <2>1, <2>2, Turning
  <2> QED
    BY <2>3
<1> QED
  BY <1>1, SliceInvariant, PTL

(* Whatever is read, written and sought, with whatever slices left to be   *)
(* moved later, slice_toc is what remains of the run of the current slice: *)
(* the counter of the master and the position of the stream of the slice   *)
(* never part, so that a transfer stops at the end of a run and nowhere    *)
(* else (slice_toc in readslice.c, writeslicet.c and seekslice.c).         *)
THEOREM RunsRemain ==
  ASSUME NoBack, NoEarly
  PROVE  SliceSpec => []RunRemains
<1>1. SliceInit => RunInv
  BY InitRuns
<1>2. SliceInv /\ RunInv /\ [SliceNext]_sliceVars => RunInv'
  BY RunStep, StartKept DEF SliceInv
<1>3. RunInv => RunRemains
  <2> SUFFICES ASSUME RunInv, slice_now \in Slices \ deseek
               PROVE  (Offset(slice_now) + slice_toc) % slice_tic = 0
    BY DEF RunRemains
  <2>1. Run(slice_now) = Offset(slice_now) + slice_toc
    BY DEF Run, Offset
  <2> QED
    BY <2>1 DEF RunInv, WholeRun
<1> QED
  BY <1>1, <1>2, <1>3, SliceInvariant, PTL DEF SliceSpec

-----------------------------------------------------------------------------
(* Quotients and remainders                                                *)

LEMMA Quotient ==
  ASSUME NEW a \in Nat, NEW b \in Positive, NEW q \in Nat, NEW r \in 0 .. b - 1,
         a = b * q + r
  PROVE  a \div b = q /\ a % b = r
<1> DEFINE k == a \div b
           u == a % b
<1>1. b \in Nat /\ b > 0 /\ r \in Nat /\ r < b
  BY DEF Positive
<1>2. k \in Nat /\ u \in 0 .. b - 1 /\ a = b * k + u
  BY Division
<1>3. a \div b = k /\ a % b = u
  OBVIOUS
<1> HIDE DEF k, u
<1>4. b * (k - q) = r - u
  BY <1>1, <1>2
<1>5. CASE k - q >= 1
  <2>1. k - q - 1 \in Nat /\ b * (k - q) = b + b * (k - q - 1)
    BY <1>1, <1>2, <1>5
  <2>2. b * (k - q - 1) \in Nat
    BY <1>1, <2>1, Product
  <2> QED
    BY <1>1, <1>2, <1>4, <2>1, <2>2
<1>6. CASE k - q <= -1
  <2>1. q - k - 1 \in Nat /\ b * (k - q) = - b - b * (q - k - 1)
    BY <1>1, <1>2, <1>6
  <2>2. b * (q - k - 1) \in Nat
    BY <1>1, <2>1, Product
  <2> QED
    BY <1>1, <1>2, <1>4, <2>1, <2>2
<1>7. CASE k = q
  <2>1. b * k = b * q /\ b * q \in Nat
    BY <1>1, <1>7, Product
  <2> QED
    BY <1>1, <1>2, <1>3, <1>7, <2>1
<1> QED
  BY <1>2, <1>5, <1>6, <1>7

(* A digit below another is less than one of the other.                    *)
LEMMA Digits ==
  ASSUME NEW a \in Positive, NEW b \in Positive,
         NEW s \in 0 .. b - 1, NEW r \in 0 .. a - 1
  PROVE  a * s + r \in 0 .. a * b - 1
<1>1. a \in Nat /\ b \in Nat /\ s \in Nat /\ r \in Nat /\ r < a /\ b - 1 - s \in Nat
  BY DEF Positive
<1>2. a * b = a * s + a + a * (b - 1 - s)
  BY <1>1
<1>3. a * s \in Nat /\ a * (b - 1 - s) \in Nat /\ a * b \in Nat
  BY <1>1, Product
<1> QED
  BY <1>1, <1>2, <1>3

(* Division in two steps.                                                  *)
LEMMA TwoSteps ==
  ASSUME NEW t \in Nat, NEW a \in Positive, NEW b \in Positive
  PROVE  /\ (t \div a) \div b = t \div (a * b)
         /\ t % (a * b) = (t % a) + a * ((t \div a) % b)
         /\ t \div a = b * (t \div (a * b)) + ((t \div a) % b)
         /\ t = a * (b * (t \div (a * b)) + ((t \div a) % b)) + (t % a)
<1> DEFINE k == t \div a
           r == t % a
           h == k \div b
           s == k % b
           m == a * b
<1>1. a \in Nat /\ b \in Nat /\ m \in Positive
  BY PositiveProduct DEF Positive
<1>2. k \in Nat /\ r \in 0 .. a - 1 /\ t = a * k + r
  BY Division
<1>3. h \in Nat /\ s \in 0 .. b - 1 /\ k = b * h + s
  BY <1>2, Division
<1>4. t \div a = k /\ t % a = r /\ k \div b = h /\ k % b = s /\ a * b = m
  OBVIOUS
<1>5. a * s + r \in 0 .. m - 1
  BY <1>2, <1>3, Digits
<1> HIDE DEF k, r, h, s
<1>6. t = m * h + (a * s + r)
  BY <1>1, <1>2, <1>3
<1> HIDE DEF m
<1>7. t \div m = h /\ t % m = a * s + r
  BY <1>1, <1>3, <1>5, <1>6, Quotient
<1>8. a * s \in Int /\ r \in Int
  BY <1>1, <1>2, <1>3
<1>9. a * s + r = r + a * s
  BY <1>8
<1> QED
  BY <1>2, <1>3, <1>4, <1>7, <1>9

LEMMA ByOne ==
  ASSUME NEW t \in Nat
  PROVE  t \div 1 = t /\ t % 1 = 0
OBVIOUS

-----------------------------------------------------------------------------
(* Neighbouring sliced axes                                                *)

(* The sliced axes have none between them that is not.                     *)
Adjacent == \A c \in Cubes : c.sliced \in {{1}, {2}, {3}, {1, 2}, {2, 3}, {1, 2, 3}}

(* Traces in one slice before the next one is turned to.                   *)
RunTraces == Extent({r \in Axes \ {Highest} : 1 .. r \subseteq Whole})

(* Slice of trace t, and its place there.                                  *)
FileNumber(t) ==
  IF Highest \in Sliced THEN t \div RunTraces ELSE (t \div RunTraces) % slice_max

FileTrace(t) ==
  IF Highest \in Sliced THEN t % RunTraces
  ELSE RunTraces * (t \div (RunTraces * slice_max)) + (t % RunTraces)

LEMMA Sizes ==
  ASSUME cube \in Cubes
  PROVE  /\ cube.size[1] \in Positive /\ cube.size[2] \in Positive
         /\ cube.size[3] \in Positive /\ cube.stroke \in Positive
         /\ cube.size[1] \in Nat /\ cube.size[2] \in Nat
         /\ cube.size[3] \in Nat /\ cube.stroke \in Nat
         /\ RunTraces \in Positive /\ slice_max \in Positive
         /\ slice_tic = cube.stroke * RunTraces
<1>1. 1 \in Axes /\ 2 \in Axes /\ 3 \in Axes
  BY DEF Axes
<1> QED
  BY <1>1, CubeType, ExtentType, CubeFacts DEF Positive, RunTraces, slice_tic

LEMMA Stripes ==
  ASSUME cube \in Cubes
  PROVE  /\ Stripe(1) = 1 /\ Stripe(2) = cube.size[1]
         /\ Stripe(3) = cube.size[1] * cube.size[2]
<1>1. /\ cube.size[1] \in Nat /\ cube.size[2] \in Nat
      /\ cube.size[1] * cube.size[2] \in Nat
  BY Sizes, Product
<1>2. Extent(1 .. 0) = 1
  BY DEF Extent, Factor
<1>3. Extent(1 .. 1) = cube.size[1]
  BY <1>1 DEF Extent, Factor
<1>4. Extent(1 .. 2) = cube.size[1] * cube.size[2]
  BY <1>1 DEF Extent, Factor
<1>5. 1 - 1 = 0 /\ 2 - 1 = 1 /\ 3 - 1 = 2
  OBVIOUS
<1> QED
  BY <1>2, <1>3, <1>4, <1>5 DEF Stripe

LEMMA OrdinalOf ==
  ASSUME cube \in Cubes, NEW t \in Nat
  PROVE  /\ Ordinal(t, 1) = t % cube.size[1]
         /\ Ordinal(t, 2) = (t \div cube.size[1]) % cube.size[2]
         /\ Ordinal(t, 3) = t \div (cube.size[1] * cube.size[2])
<1>1. t \div 1 = t
  BY ByOne
<1> QED
  BY <1>1, Stripes DEF Ordinal, Highest

(* Extents of sets of axes given one by one.                               *)
LEMMA ExtentOf ==
  ASSUME cube \in Cubes
  PROVE  /\ Extent({}) = 1
         /\ Extent({1}) = cube.size[1]
         /\ Extent({2}) = cube.size[2]
         /\ Extent({3}) = cube.size[3]
         /\ Extent({1, 2}) = cube.size[1] * cube.size[2]
         /\ Extent({2, 3}) = cube.size[2] * cube.size[3]
         /\ Extent({1, 2, 3}) = cube.size[1] * cube.size[2] * cube.size[3]
<1> DEFINE x == cube.size[1]
           y == cube.size[2]
           z == cube.size[3]
<1>1. x \in Nat /\ y \in Nat /\ z \in Nat
  BY Sizes
<1> DEFINE F(S) == (IF 1 \in S THEN x ELSE 1) * (IF 2 \in S THEN y ELSE 1)
                     * (IF 3 \in S THEN z ELSE 1)
<1>2. \A S : Extent(S) = F(S)
  BY DEF Extent, Factor
<1> HIDE DEF x, y, z
<1>3. F({}) = 1
  OBVIOUS
<1>4. F({1}) = x
  BY <1>1
<1>5. F({2}) = y
  BY <1>1
<1>6. F({3}) = z
  BY <1>1
<1>7. F({1, 2}) = x * y
  <2>1. F({1, 2}) = x * y * 1
    OBVIOUS
  <2> QED
    BY <1>1, <2>1, Product
<1>8. F({2, 3}) = y * z
  <2>1. F({2, 3}) = 1 * y * z
    OBVIOUS
  <2> QED
    BY <1>1, <2>1
<1>9. F({1, 2, 3}) = x * y * z
  OBVIOUS
<1> HIDE DEF F
<1> QED
  BY <1>2, <1>3, <1>4, <1>5, <1>6, <1>7, <1>8, <1>9 DEF x, y, z

(* Axes below r of some set.                                               *)
LEMMA Below ==
  /\ \A S : S \cap (1 .. 1 - 1) = {}
  /\ {1} \cap (1 .. 2 - 1) = {1} /\ {1} \cap (1 .. 3 - 1) = {1}
  /\ {2} \cap (1 .. 2 - 1) = {} /\ {2} \cap (1 .. 3 - 1) = {2}
  /\ {3} \cap (1 .. 2 - 1) = {} /\ {3} \cap (1 .. 3 - 1) = {}
  /\ {1, 2} \cap (1 .. 2 - 1) = {1} /\ {1, 2} \cap (1 .. 3 - 1) = {1, 2}
  /\ {2, 3} \cap (1 .. 2 - 1) = {} /\ {2, 3} \cap (1 .. 3 - 1) = {2}
  /\ {1, 3} \cap (1 .. 2 - 1) = {1} /\ {1, 3} \cap (1 .. 3 - 1) = {1}
  /\ {1, 2, 3} \cap (1 .. 2 - 1) = {1} /\ {1, 2, 3} \cap (1 .. 3 - 1) = {1, 2}
<1>1. 1 .. 1 - 1 = {} /\ 1 .. 2 - 1 = {1} /\ 1 .. 3 - 1 = {1, 2}
  OBVIOUS
<1> QED
  BY <1>1

(* The axes below the lowest that is sliced.                               *)
LEMMA RunAxes ==
  ASSUME NEW W
  PROVE  /\ W = {} => {r \in {1, 2} : 1 .. r \subseteq W} = {}
         /\ W = {3} => {r \in {1, 2} : 1 .. r \subseteq W} = {}
         /\ W = {2, 3} => {r \in {1, 2} : 1 .. r \subseteq W} = {}
         /\ W = {1} => {r \in {1, 2} : 1 .. r \subseteq W} = {1}
         /\ W = {1, 3} => {r \in {1, 2} : 1 .. r \subseteq W} = {1}
         /\ W = {1, 2} => {r \in {1, 2} : 1 .. r \subseteq W} = {1, 2}
<1>1. 1 .. 1 = {1} /\ 1 .. 2 = {1, 2}
  OBVIOUS
<1>2. (1 .. 1 \subseteq W <=> 1 \in W) /\ (1 .. 2 \subseteq W <=> 1 \in W /\ 2 \in W)
  BY <1>1
<1> QED
  BY <1>2

LEMMA Shapes ==
  ASSUME cube \in Cubes,
         NEW x, x = cube.size[1], NEW y, y = cube.size[2], NEW z, z = cube.size[3],
         NEW q, q = cube.stroke
  PROVE  /\ Sliced = {1} =>
              /\ Whole = {2, 3} /\ RunTraces = 1 /\ slice_max = x
              /\ Stride(1) = 1 /\ Stride(2) = q /\ Stride(3) = q * y
         /\ Sliced = {2} =>
              /\ Whole = {1, 3} /\ RunTraces = x /\ slice_max = y
              /\ Stride(1) = q /\ Stride(2) = 1 /\ Stride(3) = q * x
         /\ Sliced = {3} =>
              /\ Whole = {1, 2} /\ RunTraces = x * y /\ slice_max = z
              /\ Stride(1) = q /\ Stride(2) = q * x /\ Stride(3) = 1
         /\ Sliced = {1, 2} =>
              /\ Whole = {3} /\ RunTraces = 1 /\ slice_max = x * y
              /\ Stride(1) = 1 /\ Stride(2) = x /\ Stride(3) = q
         /\ Sliced = {2, 3} =>
              /\ Whole = {1} /\ RunTraces = x /\ slice_max = y * z
              /\ Stride(1) = q /\ Stride(2) = 1 /\ Stride(3) = y
         /\ Sliced = {1, 2, 3} =>
              /\ Whole = {} /\ RunTraces = 1 /\ slice_max = x * y * z
              /\ Stride(1) = 1 /\ Stride(2) = x /\ Stride(3) = x * y
<1>1. x \in Nat /\ y \in Nat /\ z \in Nat /\ q \in Nat
  BY Sizes
<1>2. /\ Axes = {1, 2, 3} /\ Axes \ {Highest} = {1, 2}
  BY DEF Axes, Highest
<1>3. RunTraces = Extent({r \in {1, 2} : 1 .. r \subseteq Whole})
  BY <1>2 DEF RunTraces
<1>4. /\ Extent({}) = 1 /\ Extent({1}) = x /\ Extent({2}) = y /\ Extent({3}) = z
      /\ Extent({1, 2}) = x * y /\ Extent({2, 3}) = y * z
      /\ Extent({1, 2, 3}) = x * y * z
  BY ExtentOf
<1>5. q * 1 = q
  BY <1>1
<1>6. \A r : Stride(r) = IF r \in Sliced THEN Extent(Sliced \cap (1 .. r - 1))
                         ELSE q * Extent(Whole \cap (1 .. r - 1))
  BY DEF Stride
<1>7. CASE Sliced = {1}
  <2>1. Whole = {2, 3}
    BY <1>2, <1>7 DEF Whole
  <2>2. RunTraces = 1 /\ slice_max = x
    BY <1>3, <1>4, <1>7, <2>1, RunAxes, SMTT(30) DEF slice_max
  <2>3. Stride(1) = 1 /\ Stride(2) = q /\ Stride(3) = q * y
    BY <1>4, <1>5, <1>6, <1>7, <2>1, Below
  <2> QED
    BY <1>7, <2>1, <2>2, <2>3
<1>8. CASE Sliced = {2}
  <2>1. Whole = {1, 3}
    BY <1>2, <1>8 DEF Whole
  <2>2. RunTraces = x /\ slice_max = y
    <3>1. {r \in {1, 2} : 1 .. r \subseteq Whole} = {1}
      BY <2>1, RunAxes
    <3> QED
      BY <1>3, <1>4, <1>8, <3>1 DEF slice_max
  <2>3. Stride(1) = q /\ Stride(2) = 1 /\ Stride(3) = q * x
    BY <1>4, <1>5, <1>6, <1>8, <2>1, Below
  <2> QED
    BY <1>8, <2>1, <2>2, <2>3
<1>9. CASE Sliced = {3}
  <2>1. Whole = {1, 2}
    BY <1>2, <1>9 DEF Whole
  <2>2. RunTraces = x * y /\ slice_max = z
    <3>1. {r \in {1, 2} : 1 .. r \subseteq Whole} = {1, 2}
      BY <2>1, RunAxes
    <3> QED
      BY <1>3, <1>4, <1>9, <3>1 DEF slice_max
  <2>3. Stride(1) = q /\ Stride(2) = q * x /\ Stride(3) = 1
    BY <1>4, <1>5, <1>6, <1>9, <2>1, Below
  <2> QED
    BY <1>9, <2>1, <2>2, <2>3
<1>10. CASE Sliced = {1, 2}
  <2>1. Whole = {3}
    BY <1>2, <1>10 DEF Whole
  <2>2. RunTraces = 1 /\ slice_max = x * y
    <3>1. {r \in {1, 2} : 1 .. r \subseteq Whole} = {}
      BY <2>1, RunAxes
    <3> QED
      BY <1>3, <1>4, <1>10, <3>1 DEF slice_max
  <2>3. Stride(1) = 1 /\ Stride(2) = x /\ Stride(3) = q
    BY <1>4, <1>5, <1>6, <1>10, <2>1, Below
  <2> QED
    BY <1>10, <2>1, <2>2, <2>3
<1>11. CASE Sliced = {2, 3}
  <2>1. Whole = {1}
    BY <1>2, <1>11 DEF Whole
  <2>2. RunTraces = x /\ slice_max = y * z
    <3>1. {r \in {1, 2} : 1 .. r \subseteq Whole} = {1}
      BY <2>1, RunAxes
    <3> QED
      BY <1>3, <1>4, <1>11, <3>1 DEF slice_max
  <2>3. Stride(1) = q /\ Stride(2) = 1 /\ Stride(3) = y
    BY <1>4, <1>5, <1>6, <1>11, <2>1, Below
  <2> QED
    BY <1>11, <2>1, <2>2, <2>3
<1>12. CASE Sliced = {1, 2, 3}
  <2>1. Whole = {}
    BY <1>2, <1>12 DEF Whole
  <2>2. RunTraces = 1 /\ slice_max = x * y * z
    <3>1. {r \in {1, 2} : 1 .. r \subseteq Whole} = {}
      BY <2>1, RunAxes
    <3> QED
      BY <1>3, <1>4, <1>12, <3>1 DEF slice_max
  <2>3. Stride(1) = 1 /\ Stride(2) = x /\ Stride(3) = x * y
    BY <1>4, <1>5, <1>6, <1>12, <2>1, Below
  <2> QED
    BY <1>12, <2>1, <2>2, <2>3
<1> QED
  BY <1>7, <1>8, <1>9, <1>10, <1>11, <1>12

(* The slice of a trace, and its offset in units: as ddsSeekSlice adds     *)
(* them up, axis by axis.                                                  *)
LEMMA TraceHome ==
  ASSUME cube \in Cubes, Adjacent, NEW t \in Nat
  PROVE  LET Step(r) == Ordinal(t, r) * Stride(r)
         IN  /\ Sum(Step, Sliced) = FileNumber(t)
             /\ Sum(Step, Whole) = cube.stroke * FileTrace(t)
<1> DEFINE Step(r) == Ordinal(t, r) * Stride(r)
<1>1. PICK x, y, z, q : /\ x = cube.size[1] /\ y = cube.size[2]
                        /\ z = cube.size[3] /\ q = cube.stroke
  OBVIOUS
<1>2. /\ x \in Nat /\ y \in Nat /\ z \in Nat /\ q \in Nat
      /\ x \in Positive /\ y \in Positive /\ z \in Positive /\ q \in Positive
  BY <1>1, Sizes
<1>3. PICK k, h, r, s : /\ k = t \div x /\ r = t % x
                        /\ h = t \div (x * y) /\ s = (t \div x) % y
  OBVIOUS
<1>4. k \in Nat /\ r \in Nat /\ s \in Nat /\ h \in Nat
  <2>1. k \in Nat /\ r \in Nat
    BY <1>2, <1>3, Division
  <2>2. s \in Nat
    BY <1>2, <1>3, <2>1, Division
  <2>3. x * y \in Positive
    BY <1>2, PositiveProduct
  <2> QED
    BY <1>3, <2>1, <2>2, <2>3, Division
<1>5. /\ k \div y = h /\ t % (x * y) = r + x * s
      /\ k = y * h + s /\ t = x * (y * h + s) + r
  <2>1. /\ (t \div x) \div y = t \div (x * y)
        /\ t % (x * y) = (t % x) + x * ((t \div x) % y)
        /\ t \div x = y * (t \div (x * y)) + ((t \div x) % y)
        /\ t = x * (y * (t \div (x * y)) + ((t \div x) % y)) + (t % x)
    BY <1>2, TwoSteps, ZenonT(30)
  <2> QED
    BY <1>3, <2>1, Zenon
<1>6. Ordinal(t, 1) = r /\ Ordinal(t, 2) = s /\ Ordinal(t, 3) = h
  BY <1>1, <1>3, OrdinalOf
<1>7. Step(1) = r * Stride(1) /\ Step(2) = s * Stride(2) /\ Step(3) = h * Stride(3)
  BY <1>6
<1>8. t \div 1 = t /\ t % 1 = 0
  BY ByOne
<1>9. Highest = 3
  BY DEF Highest
<1> HIDE DEF Step
<1>10. Sum(Step, Sliced) = FileNumber(t) /\ Sum(Step, Whole) = q * FileTrace(t)
  <2>1. CASE Sliced = {1}
    <3>1. /\ Whole = {2, 3} /\ RunTraces = 1 /\ slice_max = x
          /\ Stride(1) = 1 /\ Stride(2) = q /\ Stride(3) = q * y
      BY <1>1, <2>1, Shapes
    <3>2. Step(1) = r /\ Step(2) = s * q /\ Step(3) = h * (q * y)
      BY <1>4, <1>7, <3>1
    <3>3. Sum(Step, Sliced) = r /\ Sum(Step, Whole) = s * q + h * (q * y)
      <4>1. s * q \in Nat /\ q * y \in Nat /\ h * (q * y) \in Nat
        BY <1>2, <1>4, Product
      <4> QED
        BY <1>4, <2>1, <3>1, <3>2, <4>1 DEF Sum
    <3>4. FileNumber(t) = r
      BY <1>3, <1>8, <1>9, <2>1, <3>1 DEF FileNumber
    <3>5. FileTrace(t) = k
      <4>1. 1 * x = x
        BY <1>2
      <4>2. FileTrace(t) = 1 * (t \div (1 * x)) + (t % 1)
        BY <1>9, <2>1, <3>1 DEF FileTrace
      <4> QED
        BY <1>3, <1>4, <1>8, <4>1, <4>2
    <3>6. s * q + h * (q * y) = q * (y * h + s)
      BY <1>2, <1>4
    <3> QED
      BY <1>5, <3>3, <3>4, <3>5, <3>6
  <2>2. CASE Sliced = {2}
    <3>1. /\ Whole = {1, 3} /\ RunTraces = x /\ slice_max = y
          /\ Stride(1) = q /\ Stride(2) = 1 /\ Stride(3) = q * x
      BY <1>1, <2>2, Shapes
    <3>2. Step(1) = r * q /\ Step(2) = s /\ Step(3) = h * (q * x)
      BY <1>4, <1>7, <3>1
    <3>3. Sum(Step, Sliced) = s /\ Sum(Step, Whole) = r * q + h * (q * x)
      <4>1. r * q \in Nat /\ q * x \in Nat /\ h * (q * x) \in Nat
        BY <1>2, <1>4, Product
      <4> QED
        BY <1>4, <2>2, <3>1, <3>2, <4>1 DEF Sum
    <3>4. FileNumber(t) = s
      BY <1>3, <1>9, <2>2, <3>1 DEF FileNumber
    <3>5. FileTrace(t) = x * h + r
      BY <1>3, <1>9, <2>2, <3>1 DEF FileTrace
    <3>6. r * q + h * (q * x) = q * (x * h + r)
      BY <1>2, <1>4
    <3> QED
      BY <3>3, <3>4, <3>5, <3>6
  <2>3. CASE Sliced = {3}
    <3>1. /\ Whole = {1, 2} /\ RunTraces = x * y /\ slice_max = z
          /\ Stride(1) = q /\ Stride(2) = q * x /\ Stride(3) = 1
      BY <1>1, <2>3, Shapes
    <3>2. Step(1) = r * q /\ Step(2) = s * (q * x) /\ Step(3) = h
      BY <1>4, <1>7, <3>1
    <3>3. Sum(Step, Sliced) = h /\ Sum(Step, Whole) = r * q + s * (q * x)
      <4>1. r * q \in Nat /\ q * x \in Nat /\ s * (q * x) \in Nat
        BY <1>2, <1>4, Product
      <4> QED
        BY <1>4, <2>3, <3>1, <3>2, <4>1 DEF Sum
    <3>4. FileNumber(t) = h
      BY <1>3, <1>9, <2>3, <3>1 DEF FileNumber
    <3>5. FileTrace(t) = r + x * s
      BY <1>5, <1>9, <2>3, <3>1 DEF FileTrace
    <3>6. r * q + s * (q * x) = q * (r + x * s)
      BY <1>2, <1>4
    <3> QED
      BY <3>3, <3>4, <3>5, <3>6
  <2>4. CASE Sliced = {1, 2}
    <3>1. /\ Whole = {3} /\ RunTraces = 1 /\ slice_max = x * y
          /\ Stride(1) = 1 /\ Stride(2) = x /\ Stride(3) = q
      BY <1>1, <2>4, Shapes
    <3>2. Step(1) = r /\ Step(2) = s * x /\ Step(3) = h * q
      BY <1>4, <1>7, <3>1
    <3>3. Sum(Step, Sliced) = r + s * x /\ Sum(Step, Whole) = h * q
      <4>1. s * x \in Nat /\ h * q \in Nat
        BY <1>2, <1>4, Product
      <4> QED
        BY <1>4, <2>4, <3>1, <3>2, <4>1 DEF Sum
    <3>4. FileNumber(t) = r + x * s
      BY <1>5, <1>8, <1>9, <2>4, <3>1 DEF FileNumber
    <3>5. FileTrace(t) = h
      <4>1. 1 * (x * y) = x * y
        BY <1>2, Product
      <4>2. FileTrace(t) = 1 * (t \div (1 * (x * y))) + (t % 1)
        BY <1>9, <2>4, <3>1 DEF FileTrace
      <4> QED
        BY <1>3, <1>4, <1>8, <4>1, <4>2
    <3>6. s * x = x * s /\ h * q = q * h
      BY <1>2, <1>4
    <3> QED
      BY <3>3, <3>4, <3>5, <3>6
  <2>5. CASE Sliced = {2, 3}
    <3>1. /\ Whole = {1} /\ RunTraces = x /\ slice_max = y * z
          /\ Stride(1) = q /\ Stride(2) = 1 /\ Stride(3) = y
      BY <1>1, <2>5, Shapes
    <3>2. Step(1) = r * q /\ Step(2) = s /\ Step(3) = h * y
      BY <1>4, <1>7, <3>1
    <3>3. Sum(Step, Sliced) = s + h * y /\ Sum(Step, Whole) = r * q
      <4>1. r * q \in Nat /\ h * y \in Nat
        BY <1>2, <1>4, Product
      <4> QED
        BY <1>4, <2>5, <3>1, <3>2, <4>1 DEF Sum
    <3>4. FileNumber(t) = k /\ FileTrace(t) = r
      BY <1>3, <1>9, <2>5, <3>1 DEF FileNumber, FileTrace
    <3>5. s + h * y = y * h + s /\ r * q = q * r
      BY <1>2, <1>4
    <3> QED
      BY <1>5, <3>3, <3>4, <3>5
  <2>6. CASE Sliced = {1, 2, 3}
    <3>1. /\ Whole = {} /\ RunTraces = 1 /\ slice_max = x * y * z
          /\ Stride(1) = 1 /\ Stride(2) = x /\ Stride(3) = x * y
      BY <1>1, <2>6, Shapes
    <3>2. Step(1) = r /\ Step(2) = s * x /\ Step(3) = h * (x * y)
      BY <1>4, <1>7, <3>1
    <3>3. Sum(Step, Sliced) = r + s * x + h * (x * y) /\ Sum(Step, Whole) = 0
      <4>1. s * x \in Nat /\ x * y \in Nat /\ h * (x * y) \in Nat
        BY <1>2, <1>4, Product
      <4> QED
        BY <1>4, <2>6, <3>1, <3>2, <4>1 DEF Sum
    <3>4. FileNumber(t) = t /\ FileTrace(t) = 0
      BY <1>8, <1>9, <2>6, <3>1 DEF FileNumber, FileTrace
    <3>5. r + s * x + h * (x * y) = x * (y * h + s) + r /\ q * 0 = 0
      BY <1>2, <1>4
    <3> QED
      BY <1>5, <3>3, <3>4, <3>5
  <2>7. Sliced \in {{1}, {2}, {3}, {1, 2}, {2, 3}, {1, 2, 3}}
    BY DEF Adjacent, Sliced
  <2> QED
    BY <2>1, <2>2, <2>3, <2>4, <2>5, <2>6, <2>7
<1> QED
  BY <1>1, <1>10 DEF Step

(* The same of units.                                                      *)
LEMMA UnitHome ==
  ASSUME cube \in Cubes, Adjacent, NEW p \in Nat,
         NEW t, t = p \div cube.stroke
  PROVE  /\ SliceOf(p) = FileNumber(t)
         /\ OffsetOf(p) = cube.stroke * FileTrace(t) + (p % cube.stroke)
<1>1. p \div cube.stroke \in Nat
  BY Sizes, Division
<1>2. LET Step(r) == Ordinal(p \div cube.stroke, r) * Stride(r)
      IN  /\ Sum(Step, Sliced) = FileNumber(p \div cube.stroke)
          /\ Sum(Step, Whole) = cube.stroke * FileTrace(p \div cube.stroke)
  BY <1>1, TraceHome
<1> QED
  BY <1>2, Zenon DEF SliceOf, OffsetOf

LEMMA Located ==
  ASSUME cube \in Cubes, Adjacent, NEW p \in Nat
  PROVE  /\ Highest \in Sliced =>
              SliceOf(p) = p \div slice_tic /\ OffsetOf(p) = p % slice_tic
         /\ Highest \notin Sliced =>
              /\ SliceOf(p) = (p \div slice_tic) % slice_max
              /\ OffsetOf(p) =
                   slice_tic * (p \div (slice_tic * slice_max)) + (p % slice_tic)
<1>1. PICK q, a, b : q = cube.stroke /\ a = RunTraces /\ b = slice_max
  OBVIOUS
<1>2. /\ q \in Positive /\ a \in Positive /\ b \in Positive
      /\ q \in Nat /\ a \in Nat /\ b \in Nat
      /\ slice_tic = q * a
  BY <1>1, Sizes DEF Positive
<1>3. PICK t, u : t = p \div q /\ u = p % q
  OBVIOUS
<1>4. t \in Nat /\ u \in Nat
  <2>1. p \div q \in Nat /\ p % q \in 0 .. q - 1
    BY <1>2, Division
  <2> QED
    BY <1>2, <1>3, <2>1
<1>5. PICK k, r, h : k = t \div a /\ r = t % a /\ h = t \div (a * b)
  OBVIOUS
<1>6. k \in Nat /\ r \in Nat /\ h \in Nat
  <2>1. a * b \in Positive
    BY <1>2, PositiveProduct
  <2>2. t \div a \in Nat /\ t % a \in 0 .. a - 1
    BY <1>2, <1>4, Division
  <2>3. t \div (a * b) \in Nat
    BY <1>4, <2>1, Division
  <2> QED
    BY <1>2, <1>5, <2>2, <2>3
<1>7. p \div (q * a) = k /\ p % (q * a) = u + q * r
  <2>1. (p \div q) \div a = p \div (q * a) /\ p % (q * a) = (p % q) + q * ((p \div q) % a)
    BY <1>2, TwoSteps, ZenonT(30)
  <2> QED
    BY <1>3, <1>5, <2>1, Zenon
<1>8. p \div ((q * a) * b) = h
  <2>1. q * a \in Positive
    BY <1>2, PositiveProduct
  <2>2. (p \div (q * a)) \div b = p \div ((q * a) * b)
    BY <1>2, <2>1, TwoSteps, ZenonT(30)
  <2>3. (t \div a) \div b = t \div (a * b)
    <3>1. a \in Positive /\ b \in Positive /\ t \in Nat
      BY <1>2, <1>4
    <3> QED
      BY <3>1, TwoSteps, Zenon
  <2> QED
    BY <1>5, <1>7, <2>2, <2>3, Zenon
<1>9. SliceOf(p) = FileNumber(t) /\ OffsetOf(p) = q * FileTrace(t) + u
  BY <1>1, <1>3, UnitHome
<1>10. ASSUME Highest \in Sliced
       PROVE  SliceOf(p) = p \div slice_tic /\ OffsetOf(p) = p % slice_tic
  <2>1. FileNumber(t) = k /\ FileTrace(t) = r
    BY <1>1, <1>5, <1>10 DEF FileNumber, FileTrace
  <2>2. q * r + u = u + q * r
    BY <1>2, <1>4, <1>6, Product
  <2> QED
    BY <1>2, <1>7, <1>9, <2>1, <2>2
<1>11. ASSUME Highest \notin Sliced
       PROVE  /\ SliceOf(p) = (p \div slice_tic) % slice_max
              /\ OffsetOf(p) =
                   slice_tic * (p \div (slice_tic * slice_max)) + (p % slice_tic)
  <2>1. FileNumber(t) = k % b /\ FileTrace(t) = a * h + r
    BY <1>1, <1>5, <1>11 DEF FileNumber, FileTrace
  <2>2. q * (a * h + r) + u = (q * a) * h + (u + q * r)
    BY <1>2, <1>4, <1>6
  <2>3. (p \div slice_tic) % slice_max = k % b
    BY <1>1, <1>2, <1>7
  <2>4. slice_tic * (p \div (slice_tic * slice_max)) + (p % slice_tic)
          = (q * a) * h + (u + q * r)
    BY <1>1, <1>2, <1>7, <1>8
  <2> QED
    BY <1>9, <2>1, <2>2, <2>3, <2>4
<1> QED
  BY <1>10, <1>11

(* Traces are in the same file when they have the same number there.       *)
LEMMA SameFile ==
  ASSUME cube \in Cubes, Adjacent, NEW t \in Nat, NEW u \in Nat
  PROVE  (\A r \in cube.sliced : Ordinals(cube, u)[r] = Ordinals(cube, t)[r])
           <=> FileNumber(u) = FileNumber(t)
<1>1. PICK x, y, z, q : /\ x = cube.size[1] /\ y = cube.size[2]
                        /\ z = cube.size[3] /\ q = cube.stroke
  OBVIOUS
<1>2. /\ x \in Nat /\ y \in Nat /\ z \in Nat /\ q \in Nat
      /\ x \in Positive /\ y \in Positive /\ z \in Positive
  BY <1>1, Sizes
<1> DEFINE f(i) == i % x
           g(i) == (i \div x) % y
           h(i) == i \div (x * y)
<1>3. \A i : /\ Ordinals(cube, i)[1] = f(i) /\ Ordinals(cube, i)[2] = g(i)
             /\ Ordinals(cube, i)[3] = h(i)
  BY <1>1 DEF Ordinals
<1>4. \A i \in Nat : /\ f(i) \in 0 .. x - 1 /\ g(i) \in 0 .. y - 1 /\ h(i) \in Nat
                     /\ i \div x = y * h(i) + g(i)
                     /\ i = x * (y * h(i) + g(i)) + f(i)
                     /\ i % (x * y) = f(i) + x * g(i)
  <2> SUFFICES ASSUME NEW i \in Nat
               PROVE  /\ f(i) \in 0 .. x - 1 /\ g(i) \in 0 .. y - 1 /\ h(i) \in Nat
                      /\ i \div x = y * h(i) + g(i)
                      /\ i = x * (y * h(i) + g(i)) + f(i)
                      /\ i % (x * y) = f(i) + x * g(i)
    OBVIOUS
  <2>1. x * y \in Positive /\ i \div x \in Nat
    BY <1>2, PositiveProduct, Division
  <2>2. f(i) \in 0 .. x - 1 /\ g(i) \in 0 .. y - 1 /\ h(i) \in Nat
    BY <1>2, <2>1, Division
  <2> QED
    BY <1>2, <2>2, TwoSteps, ZenonT(60)
<1>5. \A i \in Nat :
        /\ Sliced = {1} => FileNumber(i) = f(i)
        /\ Sliced = {2} => FileNumber(i) = g(i)
        /\ Sliced = {3} => FileNumber(i) = h(i)
        /\ Sliced = {1, 2} => FileNumber(i) = i % (x * y)
        /\ Sliced = {2, 3} => FileNumber(i) = i \div x
        /\ Sliced = {1, 2, 3} => FileNumber(i) = i
  <2> SUFFICES ASSUME NEW i \in Nat
               PROVE  /\ Sliced = {1} => FileNumber(i) = f(i)
                      /\ Sliced = {2} => FileNumber(i) = g(i)
                      /\ Sliced = {3} => FileNumber(i) = h(i)
                      /\ Sliced = {1, 2} => FileNumber(i) = i % (x * y)
                      /\ Sliced = {2, 3} => FileNumber(i) = i \div x
                      /\ Sliced = {1, 2, 3} => FileNumber(i) = i
    OBVIOUS
  <2>1. i \div 1 = i
    BY ByOne
  <2>2. FileNumber(i) = IF 3 \in Sliced THEN i \div RunTraces
                        ELSE (i \div RunTraces) % slice_max
    BY DEF FileNumber, Highest
  <2>3. /\ Sliced = {1} => RunTraces = 1 /\ slice_max = x
        /\ Sliced = {2} => RunTraces = x /\ slice_max = y
        /\ Sliced = {3} => RunTraces = x * y
        /\ Sliced = {1, 2} => RunTraces = 1 /\ slice_max = x * y
        /\ Sliced = {2, 3} => RunTraces = x
        /\ Sliced = {1, 2, 3} => RunTraces = 1
    BY <1>1, Shapes
  <2>4. Sliced = {1} => FileNumber(i) = f(i)
    BY <2>1, <2>2, <2>3
  <2>5. Sliced = {2} => FileNumber(i) = g(i)
    BY <2>2, <2>3
  <2>6. Sliced = {3} => FileNumber(i) = h(i)
    BY <2>2, <2>3
  <2>7. Sliced = {1, 2} => FileNumber(i) = i % (x * y)
    BY <2>1, <2>2, <2>3
  <2>8. Sliced = {2, 3} => FileNumber(i) = i \div x
    BY <2>2, <2>3
  <2>9. Sliced = {1, 2, 3} => FileNumber(i) = i
    BY <2>1, <2>2, <2>3
  <2> QED
    BY <2>4, <2>5, <2>6, <2>7, <2>8, <2>9
<1>6. cube.sliced = Sliced
  BY DEF Sliced
<1>7. PICK a, b, c, d, e, m : /\ a = f(t) /\ b = g(t) /\ c = h(t)
                              /\ d = f(u) /\ e = g(u) /\ m = h(u)
  OBVIOUS
<1>8. /\ a \in 0 .. x - 1 /\ d \in 0 .. x - 1 /\ b \in 0 .. y - 1 /\ e \in 0 .. y - 1
      /\ c \in Nat /\ m \in Nat
      /\ t \div x = y * c + b /\ t = x * (y * c + b) + a /\ t % (x * y) = a + x * b
      /\ u \div x = y * m + e /\ u = x * (y * m + e) + d /\ u % (x * y) = d + x * e
  BY <1>4, <1>7
<1>9. /\ \A r \in {1, 2, 3} : Ordinals(cube, t)[r] =
           (IF r = 1 THEN a ELSE IF r = 2 THEN b ELSE c)
      /\ \A r \in {1, 2, 3} : Ordinals(cube, u)[r] =
           (IF r = 1 THEN d ELSE IF r = 2 THEN e ELSE m)
  BY <1>3, <1>7
<1> HIDE DEF f, g, h
(* Digits are told from the number.                                        *)
<1>10. a + x * b = d + x * e => a = d /\ b = e
  <2>1. b \in Nat /\ e \in Nat /\ a \in Nat /\ d \in Nat
    BY <1>8
  <2>2. PICK n : n = a + x * b
    OBVIOUS
  <2>3. n \in Nat /\ n = x * b + a
    BY <1>2, <2>1, <2>2, Product
  <2>4. n \div x = b /\ n % x = a
    BY <1>2, <1>8, <2>1, <2>3, Quotient, ZenonT(30)
  <2>5. n = d + x * e => n = x * e + d
    BY <1>2, <2>1, Product
  <2>6. ASSUME n = x * e + d
        PROVE  n \div x = e /\ n % x = d
    <3>1. n \in Nat /\ x \in Positive /\ e \in Nat /\ d \in 0 .. x - 1
      BY <1>2, <1>8, <2>1, <2>3
    <3> QED
      BY <2>6, <3>1, Quotient
  <2> QED
    BY <2>2, <2>4, <2>5, <2>6
<1>11. y * c + b = y * m + e => c = m /\ b = e
  <2>1. b \in Nat /\ e \in Nat
    BY <1>8
  <2>2. PICK n : n = y * c + b
    OBVIOUS
  <2>3. n \in Nat
    BY <1>2, <1>8, <2>1, <2>2, Product
  <2>4. n \div y = c /\ n % y = b
    BY <1>2, <1>8, <2>2, <2>3, Quotient, ZenonT(30)
  <2>5. ASSUME n = y * m + e
        PROVE  n \div y = m /\ n % y = e
    BY <1>2, <1>8, <2>3, <2>5, Quotient, ZenonT(30)
  <2> QED
    BY <2>2, <2>4, <2>5
<1>12. CASE Sliced = {1}
  BY <1>5, <1>6, <1>7, <1>9, <1>12
<1>13. CASE Sliced = {2}
  BY <1>5, <1>6, <1>7, <1>9, <1>13
<1>14. CASE Sliced = {3}
  BY <1>5, <1>6, <1>7, <1>9, <1>14
<1>15. CASE Sliced = {1, 2}
  <2>1. FileNumber(u) = d + x * e /\ FileNumber(t) = a + x * b
    BY <1>5, <1>8, <1>15
  <2>2. (\A r \in Sliced : Ordinals(cube, u)[r] = Ordinals(cube, t)[r])
          <=> d = a /\ e = b
    BY <1>9, <1>15
  <2> QED
    BY <1>6, <1>10, <2>1, <2>2
<1>16. CASE Sliced = {2, 3}
  <2>1. FileNumber(u) = y * m + e /\ FileNumber(t) = y * c + b
    BY <1>5, <1>8, <1>16
  <2>2. (\A r \in Sliced : Ordinals(cube, u)[r] = Ordinals(cube, t)[r])
          <=> e = b /\ m = c
    BY <1>9, <1>16
  <2> QED
    BY <1>6, <1>11, <2>1, <2>2
<1>17. CASE Sliced = {1, 2, 3}
  <2>1. FileNumber(u) = u /\ FileNumber(t) = t
    BY <1>5, <1>17
  <2>2. (\A r \in Sliced : Ordinals(cube, u)[r] = Ordinals(cube, t)[r])
          <=> d = a /\ e = b /\ m = c
    BY <1>9, <1>17
  <2>3. u = t => d = a /\ e = b /\ m = c
    BY <1>7
  <2>4. d = a /\ e = b /\ m = c => u = t
    BY <1>8
  <2> QED
    BY <1>6, <2>1, <2>2, <2>3, <2>4
<1>18. Sliced \in {{1}, {2}, {3}, {1, 2}, {2, 3}, {1, 2, 3}}
  BY DEF Adjacent, Sliced
<1> QED
  BY <1>12, <1>13, <1>14, <1>15, <1>16, <1>17, <1>18

(* Trace t of the cube, from its slice and the place it has there.         *)
LEMMA FileParts ==
  ASSUME cube \in Cubes, NEW t \in Nat
  PROVE  /\ FileNumber(t) \in Nat /\ FileTrace(t) \in Nat
         /\ \E h \in Nat, r \in 0 .. RunTraces - 1 :
              /\ t = RunTraces * (slice_max * h + FileNumber(t)) + r
              /\ FileTrace(t) = RunTraces * h + r
              /\ Highest \in Sliced => h = 0
              /\ Highest \notin Sliced => FileNumber(t) < slice_max
<1>1. PICK a, b : a = RunTraces /\ b = slice_max
  OBVIOUS
<1>2. a \in Positive /\ b \in Positive /\ a \in Nat /\ b \in Nat /\ a * b \in Positive
  BY <1>1, Sizes, PositiveProduct DEF Positive
<1>3. PICK k, r : k = t \div a /\ r = t % a
  OBVIOUS
<1>4. k \in Nat /\ r \in 0 .. a - 1 /\ t = a * k + r
  BY <1>2, <1>3, Division
<1>5. PICK h, s : h = t \div (a * b) /\ s = k % b
  OBVIOUS
<1>6. h \in Nat /\ s \in 0 .. b - 1 /\ k = b * h + s
  <2>1. t \div (a * b) \in Nat
    BY <1>2, Division
  <2>2. k % b \in 0 .. b - 1
    BY <1>2, <1>4, Division
  <2>3. t \div a = b * (t \div (a * b)) + ((t \div a) % b)
    BY <1>2, TwoSteps, Zenon
  <2> QED
    BY <1>3, <1>5, <2>1, <2>2, <2>3
<1>7. CASE Highest \in Sliced
  <2>1. FileNumber(t) = k /\ FileTrace(t) = r
    BY <1>1, <1>3, <1>7 DEF FileNumber, FileTrace
  <2>2. t = a * (b * 0 + k) + r /\ r = a * 0 + r
    BY <1>2, <1>4
  <2>3. /\ FileNumber(t) \in Nat /\ FileTrace(t) \in Nat
        /\ 0 \in Nat /\ r \in 0 .. RunTraces - 1
        /\ t = RunTraces * (slice_max * 0 + FileNumber(t)) + r
        /\ FileTrace(t) = RunTraces * 0 + r
    BY <1>1, <1>2, <1>4, <2>1, <2>2
  <2> QED
    BY <1>7, <2>3, Zenon
<1>8. CASE Highest \notin Sliced
  <2>1. FileNumber(t) = s /\ FileTrace(t) = a * h + r
    BY <1>1, <1>3, <1>5, <1>8 DEF FileNumber, FileTrace
  <2>2. t = a * (b * h + s) + r
    BY <1>2, <1>4, <1>6
  <2>3. a * h + r \in Nat /\ s < b
    BY <1>2, <1>4, <1>6, Product
  <2>4. /\ FileNumber(t) \in Nat /\ FileTrace(t) \in Nat
        /\ h \in Nat /\ r \in 0 .. RunTraces - 1
        /\ t = RunTraces * (slice_max * h + FileNumber(t)) + r
        /\ FileTrace(t) = RunTraces * h + r
        /\ FileNumber(t) < slice_max
    BY <1>1, <1>2, <1>4, <1>6, <2>1, <2>2, <2>3
  <2> QED
    BY <1>8, <2>4, Zenon
<1> QED
  BY <1>7, <1>8

(* The reverse.                                                            *)
LEMMA FromParts ==
  ASSUME cube \in Cubes, NEW h \in Nat, NEW s \in Nat, NEW r \in 0 .. RunTraces - 1,
         Highest \in Sliced => h = 0,
         Highest \notin Sliced => s < slice_max
  PROVE  LET t == RunTraces * (slice_max * h + s) + r
         IN  t \in Nat /\ FileNumber(t) = s /\ FileTrace(t) = RunTraces * h + r
<1>1. PICK a, b : a = RunTraces /\ b = slice_max
  OBVIOUS
<1>2. a \in Positive /\ b \in Positive /\ a \in Nat /\ b \in Nat /\ a * b \in Positive
  BY <1>1, Sizes, PositiveProduct DEF Positive
<1>3. PICK k : k = b * h + s
  OBVIOUS
<1>4. k \in Nat
  BY <1>2, <1>3, Product
<1>5. PICK t : t = a * k + r
  OBVIOUS
<1>6. t \in Nat /\ r \in Nat /\ r \in 0 .. a - 1
  BY <1>1, <1>2, <1>4, <1>5, Product
<1>7. t \div a = k /\ t % a = r
  BY <1>2, <1>4, <1>5, <1>6, Quotient
<1>8. CASE Highest \in Sliced
  <2>1. h = 0 /\ k = s /\ a * h + r = r
    BY <1>2, <1>3, <1>6, <1>8
  <2>2. FileNumber(t) = k /\ FileTrace(t) = r
    BY <1>1, <1>7, <1>8 DEF FileNumber, FileTrace
  <2> QED
    BY <1>1, <1>3, <1>5, <1>6, <2>1, <2>2
<1>9. CASE Highest \notin Sliced
  <2>1. s \in 0 .. b - 1
    BY <1>1, <1>2, <1>9
  <2>2. k \div b = h /\ k % b = s
    BY <1>2, <1>3, <1>4, <2>1, Quotient
  <2>3. (t \div a) \div b = t \div (a * b)
    <3>1. t \in Nat /\ a \in Positive /\ b \in Positive
      BY <1>2, <1>6
    <3> QED
      BY <3>1, TwoSteps, Zenon
  <2>4. t \div (a * b) = h
    BY <1>7, <2>2, <2>3
  <2>5. FileNumber(t) = s /\ FileTrace(t) = a * h + r
    BY <1>1, <1>7, <1>9, <2>2, <2>4 DEF FileNumber, FileTrace
  <2> QED
    BY <1>1, <1>3, <1>5, <1>6, <2>5
<1> QED
  BY <1>8, <1>9

(* The first trace of a file.                                              *)
LEMMA FirstOfFile ==
  ASSUME cube \in Cubes, NEW t \in Nat
  PROVE  /\ RunTraces * FileNumber(t) <= t
         /\ \A k \in 0 .. FileNumber(t) :
              RunTraces * k \in Nat /\ FileNumber(RunTraces * k) = k
<1>1. PICK h \in Nat, r \in 0 .. RunTraces - 1 :
              /\ t = RunTraces * (slice_max * h + FileNumber(t)) + r
              /\ FileTrace(t) = RunTraces * h + r
              /\ Highest \in Sliced => h = 0
              /\ Highest \notin Sliced => FileNumber(t) < slice_max
  BY FileParts
<1>2. PICK a, b, n : a = RunTraces /\ b = slice_max /\ n = FileNumber(t)
  OBVIOUS
<1>3. a \in Positive /\ b \in Positive /\ a \in Nat /\ b \in Nat /\ a > 0 /\ n \in Nat
  <2>1. RunTraces \in Positive /\ slice_max \in Positive /\ FileNumber(t) \in Nat
    BY Sizes, FileParts
  <2> QED
    BY <1>2, <2>1 DEF Positive
<1>4. r \in Nat /\ 0 \in 0 .. a - 1
  BY <1>1, <1>2, <1>3
<1>5. a * n <= t
  <2>1. t = a * (b * h) + a * n + r
    BY <1>1, <1>2, <1>3, <1>4
  <2>2. a * (b * h) \in Nat /\ a * n \in Nat
    BY <1>3, Product
  <2> QED
    BY <1>4, <2>1, <2>2
<1>6. ASSUME NEW k \in 0 .. n
      PROVE  a * k \in Nat /\ FileNumber(a * k) = k
  <2>1. k \in Nat /\ (Highest \notin Sliced => k < b)
    BY <1>1, <1>2, <1>3
  <2>2. FileNumber(a * (b * 0 + k) + 0) = k
    BY <1>2, <1>4, <2>1, FromParts
  <2>3. a * (b * 0 + k) + 0 = a * k /\ a * k \in Nat
    BY <1>3, <2>1, Product
  <2> QED
    BY <2>2, <2>3
<1> QED
  BY <1>2, <1>5, <1>6

(* The traces of a file are in their order.                                *)
LEMMA TraceOrder ==
  ASSUME cube \in Cubes, NEW t \in Nat, NEW u \in Nat,
         FileNumber(u) = FileNumber(t), u < t
  PROVE  FileTrace(u) < FileTrace(t)
<1>1. PICK h \in Nat, r \in 0 .. RunTraces - 1 :
              /\ t = RunTraces * (slice_max * h + FileNumber(t)) + r
              /\ FileTrace(t) = RunTraces * h + r
  BY FileParts
<1>2. PICK g \in Nat, q \in 0 .. RunTraces - 1 :
              /\ u = RunTraces * (slice_max * g + FileNumber(u)) + q
              /\ FileTrace(u) = RunTraces * g + q
  BY FileParts
<1>3. PICK a, b, n : a = RunTraces /\ b = slice_max /\ n = FileNumber(t)
  OBVIOUS
<1>4. a \in Nat /\ b \in Nat /\ b >= 1 /\ a >= 1 /\ n \in Nat
  <2>1. RunTraces \in Positive /\ slice_max \in Positive /\ FileNumber(t) \in Nat
    BY Sizes, FileParts
  <2> QED
    BY <1>3, <2>1 DEF Positive
<1>5. /\ t = a * (b * h + n) + r /\ u = a * (b * g + n) + q
      /\ r \in 0 .. a - 1 /\ q \in 0 .. a - 1
  BY <1>1, <1>2, <1>3
<1>6. CASE h = g
  <2>1. a * (b * h + n) \in Int /\ a * h \in Int
    BY <1>4
  <2>2. q < r
    BY <1>4, <1>5, <1>6, <2>1
  <2>3. FileTrace(t) = a * h + r /\ FileTrace(u) = a * h + q
    BY <1>1, <1>2, <1>3, <1>6
  <2> QED
    BY <1>4, <1>5, <2>1, <2>2, <2>3
<1>7. CASE h > g
  <2>1. h - g - 1 \in Nat
    BY <1>7
  <2>2. a * h + r = a * g + a + a * (h - g - 1) + r
    BY <1>4, <1>5
  <2>3. a * (h - g - 1) \in Nat /\ a * g \in Nat
    BY <1>4, <2>1, Product
  <2> QED
    BY <1>1, <1>2, <1>3, <1>4, <1>5, <2>2, <2>3
<1>8. CASE h < g
  <2>1. g - h - 1 \in Nat /\ b - 1 \in Nat
    BY <1>4, <1>8
  <2>2. u = a * (b * h + n) + a + a * (b - 1) + a * (b * (g - h - 1)) + q
    BY <1>4, <1>5
  <2>3. /\ a * (b - 1) \in Nat /\ b * (g - h - 1) \in Nat
        /\ a * (b * (g - h - 1)) \in Nat
    BY <1>4, <2>1, Product
  <2>4. a * (b * h + n) \in Int
    BY <1>4
  <2> QED
    BY <1>4, <1>5, <2>2, <2>3, <2>4
<1> QED
  BY <1>6, <1>7, <1>8

(* There is none missing.                                                  *)
LEMMA TraceThere ==
  ASSUME cube \in Cubes, NEW t \in Nat, NEW j \in Nat, j < FileTrace(t)
  PROVE  \E u \in Nat : u < t /\ FileNumber(u) = FileNumber(t) /\ FileTrace(u) = j
<1>1. PICK h \in Nat, r \in 0 .. RunTraces - 1 :
              /\ t = RunTraces * (slice_max * h + FileNumber(t)) + r
              /\ FileTrace(t) = RunTraces * h + r
              /\ Highest \in Sliced => h = 0
              /\ Highest \notin Sliced => FileNumber(t) < slice_max
  BY FileParts
<1>2. PICK a, b, n : a = RunTraces /\ b = slice_max /\ n = FileNumber(t)
  OBVIOUS
<1>3. /\ a \in Nat /\ b \in Nat /\ b >= 1 /\ a >= 1 /\ n \in Nat
      /\ a \in Positive
  <2>1. RunTraces \in Positive /\ slice_max \in Positive /\ FileNumber(t) \in Nat
    BY Sizes, FileParts
  <2> QED
    BY <1>2, <2>1 DEF Positive
<1>4. PICK g, q : g = j \div a /\ q = j % a
  OBVIOUS
<1>5. g \in Nat /\ q \in 0 .. a - 1 /\ j = a * g + q
  BY <1>3, <1>4, Division
<1>6. r \in 0 .. a - 1 /\ j < a * h + r
  BY <1>1, <1>2
<1>7. g <= h
  <2>1. CASE g >= h + 1
    <3>1. g - h - 1 \in Nat
      BY <1>5, <2>1
    <3>2. a * g = a * h + a + a * (g - h - 1)
      BY <1>3, <1>5
    <3>3. a * (g - h - 1) \in Nat /\ a * h \in Nat
      BY <1>3, <3>1, Product
    <3> QED
      BY <1>3, <1>5, <1>6, <3>2, <3>3
  <2> QED
    BY <1>5, <2>1
<1>8. Highest \in Sliced => g = 0
  BY <1>1, <1>5, <1>7
<1>9. PICK u : u = a * (b * g + n) + q
  OBVIOUS
<1>10. u \in Nat /\ FileNumber(u) = n /\ FileTrace(u) = a * g + q
  BY <1>1, <1>2, <1>3, <1>5, <1>8, <1>9, FromParts, ZenonT(30)
<1>11. ~ (t < u)
  <2> SUFFICES ASSUME t < u
               PROVE  FALSE
    OBVIOUS
  <2>1. FileTrace(t) < FileTrace(u)
    BY <1>2, <1>10, TraceOrder
  <2>2. FileTrace(t) \in Nat
    BY FileParts
  <2> QED
    BY <1>5, <1>10, <2>1, <2>2
<1>12. u # t
  BY <1>5, <1>10, FileParts
<1> QED
  BY <1>2, <1>5, <1>10, <1>11, <1>12

LEMMA Increasing ==
  ASSUME NEW a \in Positive, NEW k \in Nat, NEW n \in Nat
  PROVE  k < n <=> a * k < a * n
<1>1. a \in Nat /\ a >= 1
  BY DEF Positive
<1>2. ASSUME k < n
      PROVE  a * k < a * n
  <2>1. n - k - 1 \in Nat /\ a * n = a * k + a + a * (n - k - 1)
    BY <1>1, <1>2
  <2>2. a * (n - k - 1) \in Nat /\ a * k \in Nat
    BY <1>1, <2>1, Product
  <2> QED
    BY <1>1, <2>1, <2>2
<1>3. ASSUME ~ (k < n)
      PROVE  ~ (a * k < a * n)
  <2>1. k - n \in Nat /\ a * k = a * n + a * (k - n)
    BY <1>1, <1>3
  <2>2. a * (k - n) \in Nat /\ a * n \in Nat
    BY <1>1, <2>1, Product
  <2> QED
    BY <2>1, <2>2
<1> QED
  BY <1>2, <1>3

(* The files whose first trace comes before that of the file of t.         *)
LEMMA EarlierFiles ==
  ASSUME cube \in Cubes, NEW N \in Nat, NEW t \in 0 .. N, NEW E,
         \A u : u \in E <=>
           /\ u \in 0 .. N
           /\ \A v \in 0 .. N : FileNumber(v) = FileNumber(u) => u <= v
           /\ \A w \in 0 .. N : FileNumber(w) = FileNumber(t) => u < w
  PROVE  Cardinality(E) = FileNumber(t)
<1>1. PICK a, n : a = RunTraces /\ n = FileNumber(t)
  OBVIOUS
<1>2. t \in Nat /\ t <= N
  OBVIOUS
<1>3. a \in Positive /\ a \in Nat /\ n \in Nat
  BY <1>1, <1>2, Sizes, FileParts DEF Positive
<1>4. /\ a * n <= t
      /\ \A k \in 0 .. n : a * k \in Nat /\ FileNumber(a * k) = k
  BY <1>1, <1>2, FirstOfFile
<1>5. \A v \in Nat : /\ FileNumber(v) \in Nat
                     /\ a * FileNumber(v) <= v
                     /\ a * FileNumber(v) \in Nat
                     /\ FileNumber(a * FileNumber(v)) = FileNumber(v)
  <2> SUFFICES ASSUME NEW v \in Nat
               PROVE  /\ FileNumber(v) \in Nat
                      /\ a * FileNumber(v) <= v
                      /\ a * FileNumber(v) \in Nat
                      /\ FileNumber(a * FileNumber(v)) = FileNumber(v)
    OBVIOUS
  <2>1. FileNumber(v) \in Nat
    BY FileParts
  <2>2. FileNumber(v) \in 0 .. FileNumber(v)
    BY <2>1
  <2> QED
    BY <1>1, <2>1, <2>2, FirstOfFile
<1>6. ASSUME NEW k \in 0 .. n - 1
      PROVE  a * k \in E
  <2>1. k \in Nat /\ k < n /\ k \in 0 .. n
    BY <1>3
  <2>2. a * k \in Nat /\ FileNumber(a * k) = k
    BY <1>4, <2>1
  <2>3. a * k < a * n
    BY <1>3, <2>1, Increasing
  <2>4. a * n \in Nat
    BY <1>3, Product
  <2>5. a * k \in 0 .. N
    BY <1>2, <1>4, <2>2, <2>3, <2>4
  <2>6. \A v \in 0 .. N : FileNumber(v) = k => a * k <= v
    BY <1>5
  <2>7. \A w \in 0 .. N : FileNumber(w) = n => a * k < w
    <3> SUFFICES ASSUME NEW w \in 0 .. N, FileNumber(w) = n
                 PROVE  a * k < w
      OBVIOUS
    <3>1. a * n <= w /\ w \in Nat
      BY <1>5
    <3> QED
      BY <2>2, <2>3, <2>4, <3>1
  <2> QED
    BY <1>1, <2>2, <2>5, <2>6, <2>7
<1>7. ASSUME NEW u \in E
      PROVE  \E k \in 0 .. n - 1 : u = a * k
  <2>1. /\ u \in 0 .. N
        /\ \A v \in 0 .. N : FileNumber(v) = FileNumber(u) => u <= v
        /\ \A w \in 0 .. N : FileNumber(w) = n => u < w
    BY <1>1
  <2>2. PICK k : k = FileNumber(u)
    OBVIOUS
  <2>3. k \in Nat /\ a * k <= u /\ a * k \in Nat /\ FileNumber(a * k) = k
    BY <1>5, <2>1, <2>2
  <2>4. a * k \in 0 .. N
    BY <2>1, <2>3
  <2>5. u <= a * k
    BY <2>1, <2>2, <2>3, <2>4
  <2>6. u = a * k
    BY <2>1, <2>3, <2>5
  <2>7. a * n \in 0 .. N /\ FileNumber(a * n) = n
    <3>1. a * n \in Nat /\ n \in 0 .. n
      BY <1>3, Product
    <3> QED
      BY <1>2, <1>4, <3>1
  <2>8. a * k < a * n
    BY <2>1, <2>6, <2>7
  <2>9. k < n
    BY <1>3, <2>3, <2>8, Increasing
  <2> QED
    <3>1. k \in 0 .. n - 1
      BY <1>3, <2>3, <2>9
    <3> QED
      BY <2>6, <3>1
<1> DEFINE g == [i \in 1 .. n |-> a * (i - 1)]
<1>8. g \in Bijection(1 .. n, E)
  <2>1. \A i \in 1 .. n : g[i] \in E
    <3> SUFFICES ASSUME NEW i \in 1 .. n
                 PROVE  g[i] \in E
      OBVIOUS
    <3>1. i - 1 \in 0 .. n - 1
      BY <1>3
    <3> QED
      BY <1>6, <3>1
  <2>2. \A i, j \in 1 .. n : g[i] = g[j] => i = j
    <3> SUFFICES ASSUME NEW i \in 1 .. n, NEW j \in 1 .. n, i < j
                 PROVE  g[i] # g[j]
      BY <1>3
    <3>1. i - 1 \in Nat /\ j - 1 \in Nat /\ i - 1 < j - 1
      BY <1>3
    <3>2. a * (i - 1) < a * (j - 1)
      BY <1>3, <3>1, Increasing
    <3>3. a * (i - 1) \in Nat
      BY <1>3, <3>1, Product
    <3> QED
      BY <3>2, <3>3
  <2>3. \A u \in E : \E i \in 1 .. n : g[i] = u
    <3> SUFFICES ASSUME NEW u \in E
                 PROVE  \E i \in 1 .. n : g[i] = u
      OBVIOUS
    <3>1. PICK k \in 0 .. n - 1 : u = a * k
      BY <1>7
    <3>2. k + 1 \in 1 .. n /\ (k + 1) - 1 = k
      BY <1>3
    <3>3. g[k + 1] = u
      BY <3>1, <3>2
    <3> QED
      BY <3>2, <3>3
  <2> QED
    BY <2>1, <2>2, <2>3 DEF Bijection, Injection, Surjection, IsInjective
<1>9. ExistsBijection(1 .. n, E)
  BY <1>8 DEF ExistsBijection
<1> QED
  BY <1>1, <1>3, <1>9, FS_CountingElements

(* The traces before t in its file.                                        *)
LEMMA BeforeInFile ==
  ASSUME cube \in Cubes, NEW N \in Nat, NEW t \in 0 .. N, NEW S,
         \A u : u \in S <=> u \in 0 .. N /\ FileNumber(u) = FileNumber(t) /\ u < t
  PROVE  Cardinality(S) = FileTrace(t)
<1>1. t \in Nat /\ t <= N
  OBVIOUS
<1>2. PICK n : n = FileTrace(t)
  OBVIOUS
<1>3. n \in Nat
  BY <1>1, <1>2, FileParts
<1>4. \A u \in S : u \in Nat /\ FileTrace(u) \in Nat /\ FileTrace(u) < n
  <2> SUFFICES ASSUME NEW u \in S
               PROVE  u \in Nat /\ FileTrace(u) \in Nat /\ FileTrace(u) < n
    OBVIOUS
  <2>1. u \in Nat /\ FileNumber(u) = FileNumber(t) /\ u < t
    OBVIOUS
  <2> QED
    BY <1>1, <1>2, <2>1, TraceOrder, FileParts
<1> DEFINE f == [u \in S |-> FileTrace(u)]
<1>5. f \in Bijection(S, 0 .. n - 1)
  <2>1. \A u \in S : f[u] \in 0 .. n - 1
    BY <1>3, <1>4
  <2>2. \A u, v \in S : f[u] = f[v] => u = v
    <3> SUFFICES ASSUME NEW u \in S, NEW v \in S, u < v
                 PROVE  FileTrace(u) # FileTrace(v)
      BY <1>4
    <3>1. u \in Nat /\ v \in Nat /\ FileNumber(u) = FileNumber(v)
      BY <1>4
    <3>2. FileTrace(u) < FileTrace(v)
      BY <3>1, TraceOrder
    <3> QED
      BY <1>4, <3>2
  <2>3. \A j \in 0 .. n - 1 : \E u \in S : f[u] = j
    <3> SUFFICES ASSUME NEW j \in 0 .. n - 1
                 PROVE  \E u \in S : f[u] = j
      OBVIOUS
    <3>1. j \in Nat /\ j < n
      BY <1>3
    <3>2. PICK u \in Nat : u < t /\ FileNumber(u) = FileNumber(t) /\ FileTrace(u) = j
      BY <1>1, <1>2, <3>1, TraceThere
    <3>3. u \in S
      BY <1>1, <3>2
    <3> QED
      BY <3>2, <3>3
  <2> QED
    BY <2>1, <2>2, <2>3 DEF Bijection, Injection, Surjection, IsInjective
<1>6. ExistsBijection(S, 0 .. n - 1)
  BY <1>5 DEF ExistsBijection
<1>7. IsFiniteSet(S)
  <2>1. IsFiniteSet(0 .. N)
    BY FS_Interval
  <2>2. S \in SUBSET (0 .. N)
    OBVIOUS
  <2> QED
    BY <2>1, <2>2, FS_Subset
<1>8. Cardinality(0 .. n - 1) = Cardinality(S)
  BY <1>6, <1>7, FS_Bijection
<1>9. Cardinality(0 .. n - 1) = n
  <2>1. Cardinality(0 .. n - 1) = IF 0 > n - 1 THEN 0 ELSE (n - 1) - 0 + 1
    BY <1>3, FS_Interval
  <2> QED
    BY <1>3, <2>1
<1> QED
  BY <1>2, <1>8, <1>9

(* A unit belongs where ddsSeekSlice seeks it: the products of strides     *)
(* count the files and the traces that come before.                        *)
LEMMA HomeIs ==
  ASSUME cube \in Cubes, Adjacent, NEW p \in 0 .. Limit
  PROVE  Home[cube][p] = [slice |-> SliceOf(p), offset |-> OffsetOf(p)]
<1>1. PICK q : q = cube.stroke
  OBVIOUS
<1>2. q \in Positive /\ q \in Nat /\ Limit \in Nat /\ p \in Nat
  BY <1>1, Sizes, BoundsAssumption DEF Positive
<1> DEFINE N == Limit \div cube.stroke
           t == p \div cube.stroke
           File == [i \in 0 .. N |-> {u \in 0 .. N : \A r \in cube.sliced :
                                        Ordinals(cube, u)[r] = Ordinals(cube, i)[r]}]
           Earlier(i) == {u \in 0 .. N : \A v \in File[u] : u <= v
                            /\ \A w \in File[i] : u < w}
           Before(i) == {u \in File[i] : u < i}
<1>3. N \in Nat /\ t \in Nat /\ t <= N
  <2>1. PICK m, k : m = Limit \div q /\ k = p \div q
    OBVIOUS
  <2>2. PICK r, s : r = Limit % q /\ s = p % q
    OBVIOUS
  <2>3. /\ m \in Nat /\ r \in 0 .. q - 1 /\ Limit = q * m + r
        /\ k \in Nat /\ s \in 0 .. q - 1 /\ p = q * k + s
    BY <1>2, <2>1, <2>2, Division
  <2>4. CASE m < k
    <3>1. k - m - 1 \in Nat /\ q * k = q * m + q + q * (k - m - 1)
      BY <1>2, <2>3, <2>4
    <3>2. q * (k - m - 1) \in Nat /\ q * m \in Nat
      BY <1>2, <2>3, <3>1, Product
    <3> QED
      BY <1>2, <2>3, <3>1, <3>2
  <2> QED
    BY <1>1, <2>1, <2>3, <2>4
<1>4. Home[cube][p] = [slice |-> Cardinality(Earlier(t)),
                       offset |-> Cardinality(Before(t)) * cube.stroke + (p % cube.stroke)]
  BY DEF Home, HomeOf
<1>5. t \in 0 .. N
  BY <1>3
<1> HIDE DEF N, t
<1>6. \A i \in 0 .. N : \A u :
        u \in File[i] <=> u \in 0 .. N /\ FileNumber(u) = FileNumber(i)
  <2> SUFFICES ASSUME NEW i \in 0 .. N, NEW u
               PROVE  u \in File[i] <=> u \in 0 .. N /\ FileNumber(u) = FileNumber(i)
    OBVIOUS
  <2>1. u \in 0 .. N => u \in Nat
    BY <1>3
  <2>2. i \in Nat
    BY <1>3
  <2> QED
    BY <2>1, <2>2, SameFile
<1> HIDE DEF File
<1>7. \A u : u \in Earlier(t) <=>
           /\ u \in 0 .. N
           /\ \A v \in 0 .. N : FileNumber(v) = FileNumber(u) => u <= v
           /\ \A w \in 0 .. N : FileNumber(w) = FileNumber(t) => u < w
  BY <1>5, <1>6
<1>8. \A u : u \in Before(t) <=>
                u \in 0 .. N /\ FileNumber(u) = FileNumber(t) /\ u < t
  BY <1>5, <1>6
<1> HIDE DEF Earlier, Before
<1>9. Cardinality(Earlier(t)) = FileNumber(t)
  BY <1>3, <1>5, <1>7, EarlierFiles
<1>10. Cardinality(Before(t)) = FileTrace(t)
  BY <1>3, <1>5, <1>8, BeforeInFile
<1>11. /\ SliceOf(p) = FileNumber(t)
       /\ OffsetOf(p) = cube.stroke * FileTrace(t) + (p % cube.stroke)
  BY <1>2, UnitHome DEF t
<1>12. cube.stroke * FileTrace(t) = FileTrace(t) * cube.stroke
  BY <1>1, <1>2, <1>3, FileParts
<1> QED
  BY <1>4, <1>9, <1>10, <1>11, <1>12

-----------------------------------------------------------------------------
(* The position                                                            *)

LEMMA Units ==
  ASSUME cube \in Cubes
  PROVE  /\ slice_tic \in Positive /\ slice_tic \in Nat /\ slice_tic >= 1
         /\ slice_max \in Positive /\ slice_max \in Nat /\ slice_max >= 1
         /\ slice_tic * slice_max \in Positive
         /\ Slices = 0 .. slice_max - 1
         /\ \A s \in Slices : s \in Nat /\ Prefix(s) \in Nat
         /\ Limit \in Nat
<1>1. /\ slice_tic \in Positive /\ slice_max \in Positive
      /\ Slices = 0 .. slice_max - 1 /\ Slices \subseteq Nat
      /\ \A s \in Nat : Prefix(s) \in Nat
  BY CubeFacts
<1>2. slice_tic * slice_max \in Positive
  BY <1>1, PositiveProduct
<1>3. /\ slice_tic \in Nat /\ slice_tic >= 1 /\ slice_max \in Nat /\ slice_max >= 1
      /\ Limit \in Nat
  BY <1>1, BoundsAssumption DEF Positive
<1> QED
  BY <1>1, <1>2, <1>3

(* The slice and the offset of a place, run by run.                        *)
LEMMA AtPlace ==
  ASSUME cube \in Cubes, Adjacent,
         NEW h \in Nat, NEW s \in Nat, NEW r \in 0 .. slice_tic - 1,
         Highest \in Sliced => h = 0,
         Highest \notin Sliced => s < slice_max,
         NEW p, p = slice_tic * (slice_max * h + s) + r
  PROVE  p \in Nat /\ SliceOf(p) = s /\ OffsetOf(p) = slice_tic * h + r
<1>1. PICK c, b : c = slice_tic /\ b = slice_max
  OBVIOUS
<1>2. /\ c \in Positive /\ c \in Nat /\ b \in Positive /\ b \in Nat
      /\ r \in Nat /\ r \in 0 .. c - 1
  BY <1>1, Units
<1>3. PICK k : k = b * h + s
  OBVIOUS
<1>4. k \in Nat
  BY <1>2, <1>3, Product
<1>5. p = c * k + r /\ p \in Nat
  <2>1. c * k \in Nat
    BY <1>2, <1>4, Product
  <2> QED
    BY <1>1, <1>2, <1>3, <2>1
<1>6. p \div c = k /\ p % c = r
  <2>1. p \in Nat /\ c \in Positive /\ k \in Nat /\ r \in 0 .. c - 1 /\ p = c * k + r
    BY <1>2, <1>4, <1>5
  <2> QED
    BY <2>1, Quotient
<1>7. CASE Highest \in Sliced
  <2>1. SliceOf(p) = k /\ OffsetOf(p) = r
    BY <1>1, <1>5, <1>6, <1>7, Located
  <2>2. h = 0 /\ k = s /\ c * h + r = r
    BY <1>2, <1>3, <1>7
  <2> QED
    BY <1>1, <1>5, <2>1, <2>2
<1>8. CASE Highest \notin Sliced
  <2>1. s \in 0 .. b - 1
    BY <1>1, <1>2, <1>8
  <2>2. k \div b = h /\ k % b = s
    BY <1>2, <1>3, <1>4, <2>1, Quotient
  <2>3. (p \div c) \div b = p \div (c * b)
    BY <1>2, <1>5, TwoSteps, Zenon
  <2>4. p \div (c * b) = h
    BY <1>6, <2>2, <2>3
  <2>5. SliceOf(p) = k % b /\ OffsetOf(p) = c * h + r
    BY <1>1, <1>5, <1>6, <1>8, <2>4, Located
  <2> QED
    BY <1>1, <1>5, <2>2, <2>5
<1> QED
  BY <1>7, <1>8

LEMMA PlaceParts ==
  ASSUME cube \in Cubes, Adjacent, NEW p \in Nat
  PROVE  \E h \in Nat, r \in 0 .. slice_tic - 1 :
           /\ p = slice_tic * (slice_max * h + SliceOf(p)) + r
           /\ OffsetOf(p) = slice_tic * h + r
           /\ Highest \in Sliced => h = 0
           /\ Highest \notin Sliced => SliceOf(p) < slice_max
           /\ SliceOf(p) \in Nat
<1>1. PICK c, b : c = slice_tic /\ b = slice_max
  OBVIOUS
<1>2. c \in Positive /\ c \in Nat /\ b \in Positive /\ b \in Nat /\ b >= 1
  BY <1>1, Units
<1>3. PICK k, r : k = p \div c /\ r = p % c
  OBVIOUS
<1>4. k \in Nat /\ r \in 0 .. c - 1 /\ p = c * k + r
  BY <1>2, <1>3, Division
<1>5. PICK h, s : h = k \div b /\ s = k % b
  OBVIOUS
<1>6. h \in Nat /\ s \in 0 .. b - 1 /\ k = b * h + s
  BY <1>2, <1>4, <1>5, Division
<1>7. CASE Highest \in Sliced
  <2>1. /\ 0 \in Nat /\ r \in 0 .. slice_tic - 1
        /\ p = slice_tic * (slice_max * 0 + k) + r
        /\ r = slice_tic * 0 + r
    BY <1>1, <1>2, <1>4
  <2>2. SliceOf(p) = k /\ OffsetOf(p) = r
    BY <1>1, <1>3, <1>7, Located
  <2> QED
    BY <1>4, <1>7, <2>1, <2>2, Zenon
<1>8. CASE Highest \notin Sliced
  <2>1. s < slice_max /\ s \in Nat /\ r \in 0 .. slice_tic - 1
    BY <1>1, <1>2, <1>4, <1>6
  <2>2. p = slice_tic * (slice_max * h + s) + r
    BY <1>1, <1>4, <1>6
  <2>3. SliceOf(p) = s /\ OffsetOf(p) = slice_tic * h + r
    BY <1>6, <1>8, <2>1, <2>2, AtPlace
  <2> QED
    BY <1>6, <1>8, <2>1, <2>2, <2>3, Zenon
<1> QED
  BY <1>7, <1>8

(* No two places are at the same offset of the same slice.                 *)
LEMMA OnePlace ==
  ASSUME cube \in Cubes, Adjacent, NEW p \in Nat, NEW u \in Nat,
         SliceOf(p) = SliceOf(u), OffsetOf(p) = OffsetOf(u)
  PROVE  p = u
<1>1. PICK h \in Nat, r \in 0 .. slice_tic - 1 :
           /\ p = slice_tic * (slice_max * h + SliceOf(p)) + r
           /\ OffsetOf(p) = slice_tic * h + r
  BY PlaceParts
<1>2. PICK g \in Nat, q \in 0 .. slice_tic - 1 :
           /\ u = slice_tic * (slice_max * g + SliceOf(u)) + q
           /\ OffsetOf(u) = slice_tic * g + q
  BY PlaceParts
<1>3. PICK c, n : c = slice_tic /\ n = OffsetOf(p)
  OBVIOUS
<1>4. c \in Positive /\ n \in Nat
  BY <1>3, Units, Target
<1>5. n = c * h + r /\ r \in 0 .. c - 1 /\ n = c * g + q /\ q \in 0 .. c - 1
  BY <1>1, <1>2, <1>3
<1>6. n \div c = h /\ n % c = r
  BY <1>4, <1>5, Quotient
<1>7. n \div c = g /\ n % c = q
  BY <1>4, <1>5, Quotient
<1> QED
  BY <1>1, <1>2, <1>6, <1>7

(* So a place is known by its home.                                        *)
LEMMA PlaceChosen ==
  ASSUME cube \in Cubes, Adjacent, NEW p \in 0 .. Limit, ~ AtEnd,
         SliceOf(p) = TurnedNow,
         OffsetOf(p) = IF TurnedNow < slice_max THEN At(TurnedNow)
                       ELSE slice_tic - slice_toc
  PROVE  Place = p
<1> DEFINE home == [slice |-> TurnedNow,
                    offset |-> IF TurnedNow < slice_max THEN At(TurnedNow)
                               ELSE slice_tic - slice_toc]
           places == {u \in 0 .. Limit : Home[cube][u] = home}
<1>1. Limit \in Nat
  BY BoundsAssumption
<1>2. Home[cube][p] = home
  BY HomeIs
<1>3. \A u \in 0 .. Limit : Home[cube][u] = home => u = p
  <2> SUFFICES ASSUME NEW u \in 0 .. Limit, Home[cube][u] = home
               PROVE  u = p
    OBVIOUS
  <2>1. Home[cube][u] = [slice |-> SliceOf(u), offset |-> OffsetOf(u)]
    BY HomeIs
  <2>2. SliceOf(u) = home.slice /\ OffsetOf(u) = home.offset
    BY <2>1
  <2>3. SliceOf(u) = SliceOf(p) /\ OffsetOf(u) = OffsetOf(p)
    BY <2>2
  <2> QED
    BY <1>1, <2>3, OnePlace
<1> HIDE DEF home
<1>4. places # {} /\ \A u \in places : u = p
  BY <1>2, <1>3
<1>5. Place = IF places = {} THEN -1 ELSE CHOOSE u \in places : TRUE
  BY DEF Place, home
<1>6. (CHOOSE u \in places : TRUE) \in places
  BY <1>4
<1> QED
  BY <1>4, <1>5, <1>6

(* The whole cube has so many rounds through all slices.                   *)
LEMMA Complete ==
  ASSUME cube \in Cubes, Adjacent
  PROVE  \E m \in Positive :
           /\ Total = slice_tic * (slice_max * m)
           /\ Total \div slice_max = slice_tic * m
           /\ Highest \in Sliced => m = 1
<1>1. PICK x, y, z, q : /\ x = cube.size[1] /\ y = cube.size[2]
                        /\ z = cube.size[3] /\ q = cube.stroke
  OBVIOUS
<1>2. /\ x \in Nat /\ y \in Nat /\ z \in Nat /\ q \in Nat
      /\ x \in Positive /\ y \in Positive /\ z \in Positive
  BY <1>1, Sizes
<1>3. Total = q * (x * y * z)
  BY <1>1, ExtentOf DEF Total, Axes
<1>4. slice_tic = q * RunTraces /\ slice_tic \in Nat /\ slice_max \in Positive /\ slice_max \in Nat
  BY <1>1, Sizes, Units
<1>5. ASSUME NEW m \in Positive, Total = slice_tic * (slice_max * m),
             Highest \in Sliced => m = 1
      PROVE  \E k \in Positive :
               /\ Total = slice_tic * (slice_max * k)
               /\ Total \div slice_max = slice_tic * k
               /\ Highest \in Sliced => k = 1
  <2>1. m \in Nat
    BY DEF Positive
  <2>2. slice_tic * m \in Nat
    BY <1>4, <2>1, Product
  <2>3. Total = slice_max * (slice_tic * m) + 0
    BY <1>4, <1>5, <2>1, <2>2
  <2>4. Total \in Nat
    BY <1>4, <2>2, <2>3, Product
  <2>5. 0 \in 0 .. slice_max - 1
    BY <1>4 DEF Positive
  <2>6. Total \div slice_max = slice_tic * m
    BY <1>4, <2>2, <2>3, <2>4, <2>5, Quotient
  <2> QED
    BY <1>5, <2>6
<1>6. Highest \in Sliced <=> 3 \in Sliced
  BY DEF Highest
<1>7. y * z \in Positive /\ 1 \in Positive
  BY <1>2, PositiveProduct DEF Positive
<1>8. CASE Sliced = {1}
  <2>1. RunTraces = 1 /\ slice_max = x
    BY <1>1, <1>8, Shapes
  <2>2. q * (x * y * z) = (q * 1) * (x * (y * z))
    BY <1>2
  <2> QED
    <3>1. Total = slice_tic * (slice_max * (y * z)) /\ Highest \notin Sliced
      BY <1>3, <1>4, <1>6, <1>8, <2>1, <2>2
    <3> QED
      BY <1>5, <1>7, <3>1
<1>9. CASE Sliced = {2}
  <2>1. RunTraces = x /\ slice_max = y
    BY <1>1, <1>9, Shapes
  <2>2. q * (x * y * z) = (q * x) * (y * z)
    BY <1>2
  <2> QED
    BY <1>2, <1>3, <1>4, <1>5, <1>6, <1>9, <2>1, <2>2
<1>10. CASE Sliced = {3}
  <2>1. RunTraces = x * y /\ slice_max = z
    BY <1>1, <1>10, Shapes
  <2>2. q * (x * y * z) = (q * (x * y)) * (z * 1)
    BY <1>2
  <2> QED
    BY <1>3, <1>4, <1>5, <1>7, <2>1, <2>2
<1>11. CASE Sliced = {1, 2}
  <2>1. RunTraces = 1 /\ slice_max = x * y
    BY <1>1, <1>11, Shapes
  <2>2. q * (x * y * z) = (q * 1) * ((x * y) * z)
    BY <1>2
  <2> QED
    BY <1>2, <1>3, <1>4, <1>5, <1>6, <1>11, <2>1, <2>2
<1>12. CASE Sliced = {2, 3}
  <2>1. RunTraces = x /\ slice_max = y * z
    BY <1>1, <1>12, Shapes
  <2>2. q * (x * y * z) = (q * x) * ((y * z) * 1)
    BY <1>2
  <2> QED
    BY <1>3, <1>4, <1>5, <1>7, <2>1, <2>2
<1>13. CASE Sliced = {1, 2, 3}
  <2>1. RunTraces = 1 /\ slice_max = x * y * z
    BY <1>1, <1>13, Shapes
  <2>2. q * (x * y * z) = (q * 1) * ((x * y * z) * 1)
    BY <1>2
  <2> QED
    BY <1>3, <1>4, <1>5, <1>7, <2>1, <2>2
<1>14. Sliced \in {{1}, {2}, {3}, {1, 2}, {2, 3}, {1, 2, 3}}
  BY DEF Adjacent, Sliced
<1> QED
  BY <1>8, <1>9, <1>10, <1>11, <1>12, <1>13, <1>14

(* The position p is so far behind the start: h rounds through all slices, *)
(* the runs of the slices before the current one, and what is not left of  *)
(* its own.  The slices that are in their place have passed a run more     *)
(* than those that are yet to come in this round.                          *)
Spot(p, h) ==
  /\ p = slice_tic * (slice_max * h + slice_now + 1) - slice_toc
  /\ \A s \in Slices \ deseek :
       Run(s) = slice_tic * (IF s <= slice_now THEN h + 1 ELSE h)
  /\ Highest \in Sliced => h = 0
  /\ Highest \notin Sliced => slice_now \in Slices

(* The same of the slice that the transfer comes to.                       *)
TurnedSpot(p, h) ==
  /\ p = slice_tic * (slice_max * h + TurnedNow + 1) - TurnedToc
  /\ TurnedNow \in Slices => Offset(TurnedNow) + TurnedToc = slice_tic * (h + 1)
  /\ \A s \in Slices \ deseek : s # TurnedNow =>
       pos[s] - Bias(s) = slice_tic * (IF s <= TurnedNow THEN h + 1 ELSE h)
  /\ Highest \in Sliced => h = 0
  /\ Highest \notin Sliced => TurnedNow \in Slices

LEMMA TurnSpot ==
  ASSUME SliceTypeOK, Placed, Ready, RunInv, ~ AtEnd, NEW p, NEW h \in Nat, Spot(p, h)
  PROVE  \E g \in Nat : TurnedSpot(p, g)
<1>1. PICK c, b : c = slice_tic /\ b = slice_max
  OBVIOUS
<1>2. /\ c \in Nat /\ b \in Nat /\ b >= 1 /\ Slices = 0 .. b - 1 /\ c >= 1
      /\ \A s \in Slices : s \in Nat /\ Bias(s) \in Nat
  BY <1>1, Units, BiasType DEF SliceTypeOK
<1>3. /\ pos \in [Slices -> Nat] /\ slice_now \in Nat /\ slice_toc \in 0 .. c
      /\ deseek \subseteq Slices
  BY <1>1 DEF SliceTypeOK
<1>4. /\ p = c * (b * h + slice_now + 1) - slice_toc
      /\ \A s \in Slices \ deseek : Run(s) = c * (IF s <= slice_now THEN h + 1 ELSE h)
      /\ Highest \in Sliced => h = 0
      /\ Highest \notin Sliced => slice_now \in Slices
  BY <1>1 DEF Spot
<1>5. slice_now \in deseek => Former(slice_now) \in Slices \ deseek
  BY DEF RunInv, Trailing
<1>6. PICK t : t = TurnedNow
  OBVIOUS
<1>7. \A s \in Slices : pos[s] - Bias(s) \in Int
  BY <1>2, <1>3
(* No slice but the current one has anything left of its run.              *)
<1>8. \A s \in Slices \ deseek : s # slice_now \/ slice_toc = 0 =>
        pos[s] - Bias(s) = c * (IF s <= slice_now THEN h + 1 ELSE h)
  <2> SUFFICES ASSUME NEW s \in Slices \ deseek, s # slice_now \/ slice_toc = 0
               PROVE  pos[s] - Bias(s) = c * (IF s <= slice_now THEN h + 1 ELSE h)
    OBVIOUS
  <2>1. Run(s) = pos[s] - Bias(s)
    BY <1>7 DEF Run
  <2> QED
    BY <1>4, <2>1
<1>9. c * (h + 1) = c * h + c
  BY <1>2
<1>10. CASE slice_toc > 0
  <2>1. t = slice_now /\ TurnedToc = slice_toc
    BY <1>6, <1>10 DEF TurnedNow, TurnedToc
  <2>2. ASSUME t \in Slices
        PROVE  Offset(t) + slice_toc = c * (h + 1)
    <3>1. CASE t \notin deseek
      <4>1. Run(t) = Offset(t) + slice_toc
        BY <2>1, <3>1 DEF Run, Offset
      <4> QED
        BY <1>3, <1>4, <2>1, <2>2, <3>1, <4>1
    <3>2. CASE t \in deseek
      <4>1. PICK f : f = Former(t)
        OBVIOUS
      <4>2. f \in Slices \ deseek /\ f # slice_now
        BY <1>5, <2>1, <3>2, <4>1
      <4>3. slice_toc = c
        BY <1>1, <2>1, <2>2, <3>2 DEF Ready
      <4>4. pos[f] - Bias(f) = c * (IF f <= slice_now THEN h + 1 ELSE h)
        BY <1>8, <4>2
      <4>5. Offset(t) = pos[f] - Bias(f) - (IF t = 0 THEN 0 ELSE c)
        BY <1>1, <3>2, <4>1 DEF Offset
      <4>6. CASE t = 0
        <5>1. f = b - 1 /\ ~ (f <= slice_now)
          BY <1>1, <1>2, <2>1, <4>1, <4>2, <4>6 DEF Former
        <5>2. c * h \in Int
          BY <1>2
        <5> QED
          BY <1>2, <1>9, <4>3, <4>4, <4>5, <4>6, <5>1, <5>2
      <4>7. CASE t # 0
        <5>1. f = t - 1 /\ f <= slice_now
          BY <1>2, <1>3, <2>1, <4>1, <4>7 DEF Former
        <5>2. c * h \in Int /\ c * (h + 1) \in Int
          BY <1>2
        <5> QED
          BY <1>2, <4>3, <4>4, <4>5, <4>7, <5>1, <5>2
      <4> QED
        BY <4>6, <4>7
    <3> QED
      BY <3>1, <3>2
  <2>3. TurnedSpot(p, h)
    BY <1>1, <1>4, <1>6, <1>8, <2>1, <2>2 DEF TurnedSpot
  <2> QED
    BY <2>3
<1>11. CASE slice_toc = 0 /\ slice_now # b - 1
  <2>1. slice_now \in Slices \ deseek
    BY <1>1, <1>2, <1>11 DEF Ready
  <2>2. t = slice_now + 1 /\ TurnedToc = c /\ t \in Slices
    BY <1>1, <1>2, <1>6, <1>11, <2>1 DEF TurnedNow, TurnedToc
  <2>3. Offset(t) + c = c * (h + 1)
    <3>1. CASE t \notin deseek
      <4>1. Offset(t) = c * h
        BY <1>2, <1>8, <1>11, <2>1, <2>2, <3>1 DEF Offset
      <4> QED
        BY <1>9, <4>1
    <3>2. CASE t \in deseek
      <4>1. Former(t) = slice_now /\ t # 0
        BY <1>2, <1>3, <2>2 DEF Former
      <4>2. Offset(t) = c * (h + 1) - c
        BY <1>1, <1>2, <1>3, <1>8, <1>11, <2>1, <3>2, <4>1 DEF Offset
      <4> QED
        BY <1>2, <4>2
    <3> QED
      BY <3>1, <3>2
  <2>4. p = c * (b * h + t + 1) - c
    <3>1. c * (b * h + t + 1) = c * (b * h + slice_now + 1) + c
      BY <1>2, <1>3, <2>2
    <3>2. c * (b * h + slice_now + 1) \in Int
      BY <1>2, <1>3
    <3> QED
      BY <1>2, <1>4, <1>11, <3>1, <3>2
  <2>5. \A s \in Slices \ deseek : s # t =>
          pos[s] - Bias(s) = c * (IF s <= t THEN h + 1 ELSE h)
    <3> SUFFICES ASSUME NEW s \in Slices \ deseek, s # t
                 PROVE  pos[s] - Bias(s) = c * (IF s <= t THEN h + 1 ELSE h)
      OBVIOUS
    <3>1. s <= t <=> s <= slice_now
      BY <1>2, <1>3, <2>2
    <3> QED
      BY <1>8, <1>11, <3>1
  <2>6. TurnedSpot(p, h)
    BY <1>1, <1>4, <1>6, <2>2, <2>3, <2>4, <2>5 DEF TurnedSpot
  <2> QED
    BY <2>6
<1>12. CASE slice_toc = 0 /\ slice_now = b - 1
  <2>1. slice_now \in Slices \ deseek
    BY <1>1, <1>2, <1>12 DEF Ready
  <2>2. Highest \notin Sliced
    BY <1>1, <1>12 DEF AtEnd
  <2>3. t = 0 /\ TurnedToc = c /\ t \in Slices
    BY <1>1, <1>2, <1>6, <1>12 DEF TurnedNow, TurnedToc
  <2>4. \A s \in Slices \ deseek : pos[s] - Bias(s) = c * (h + 1)
    <3> SUFFICES ASSUME NEW s \in Slices \ deseek
                 PROVE  pos[s] - Bias(s) = c * (h + 1)
      OBVIOUS
    <3>1. s <= slice_now
      BY <1>2, <1>12
    <3> QED
      BY <1>8, <1>12, <3>1
  <2>5. Offset(t) = c * (h + 1)
    <3>1. CASE t \notin deseek
      BY <2>3, <2>4, <3>1 DEF Offset
    <3>2. CASE t \in deseek
      <4>1. Former(t) = slice_now
        BY <1>1, <1>12, <2>3 DEF Former
      <4>2. Offset(t) = c * (h + 1) - 0
        BY <2>1, <2>3, <2>4, <3>2, <4>1 DEF Offset
      <4> QED
        BY <1>2, <4>2
    <3> QED
      BY <3>1, <3>2
  <2>6. p = c * (b * (h + 1) + t + 1) - c
    <3>1. c * (b * (h + 1) + 0 + 1) = c * (b * h + (b - 1) + 1) + c
      BY <1>2
    <3>2. c * (b * h + (b - 1) + 1) \in Int
      BY <1>2
    <3> QED
      BY <1>2, <1>4, <1>12, <2>3, <3>1, <3>2
  <2>7. Offset(t) + c = c * ((h + 1) + 1)
    BY <1>2, <2>5
  <2>8. \A s \in Slices \ deseek : s # t =>
          pos[s] - Bias(s) = c * (IF s <= t THEN (h + 1) + 1 ELSE h + 1)
    BY <1>2, <2>3, <2>4
  <2>9. h + 1 \in Nat /\ TurnedSpot(p, h + 1)
    BY <1>1, <1>6, <2>2, <2>3, <2>6, <2>7, <2>8 DEF TurnedSpot
  <2> QED
    BY <2>9
<1> QED
  BY <1>2, <1>3, <1>10, <1>11, <1>12

LEMMA Outcomes ==
  ASSUME UNCHANGED <<cube, trace_bias>>
  PROVE  /\ Slices' = Slices /\ slice_tic' = slice_tic /\ slice_max' = slice_max
         /\ Sliced' = Sliced
         /\ \A s : Bias(s)' = Bias(s)
         /\ \A s : Run(s)' = pos'[s] - Bias(s) + (IF s = slice_now' THEN slice_toc' ELSE 0)
BY SameCube DEF Sliced, Run, Bias

(* Where the transfer is, the position is.                                 *)
LEMMA SpotIsPlace ==
  ASSUME SliceTypeOK, Placed, Ready, RunInv, Adjacent,
         NEW p \in 0 .. Limit, NEW h \in Nat, Spot(p, h)
  PROVE  Place = p
<1>1. PICK c, b : c = slice_tic /\ b = slice_max
  OBVIOUS
<1>2. /\ c \in Nat /\ b \in Nat /\ b >= 1 /\ Slices = 0 .. b - 1 /\ c >= 1
      /\ cube \in Cubes /\ Limit \in Nat
  BY <1>1, Units DEF SliceTypeOK
<1>3. CASE AtEnd
  <2>1. slice_toc = 0 /\ slice_now = b - 1 /\ Highest \in Sliced
    BY <1>1, <1>3 DEF AtEnd
  <2>2. p = c * (b * 0 + (b - 1) + 1) - 0
    BY <1>1, <2>1 DEF Spot
  <2>3. p = c * (b * 1)
    BY <1>2, <2>2
  <2>4. Total = c * (b * 1)
    BY <1>1, <1>2, <2>1, Complete
  <2> QED
    BY <1>3, <2>3, <2>4 DEF Place
<1>4. CASE ~ AtEnd
  <2>1. PICK g \in Nat : TurnedSpot(p, g)
    BY <1>4, TurnSpot
  <2>2. PICK t, r : t = TurnedNow /\ r = c - TurnedToc
    OBVIOUS
  <2>3. /\ TurnedToc \in 1 .. c /\ t \in Nat
        /\ t \in Slices => Offset(t) \in Nat
        /\ t \notin Slices => t = slice_now /\ TurnedToc = slice_toc
    BY <1>1, <2>2, Turning
  <2>4. /\ p = c * (b * g + t + 1) - TurnedToc
        /\ t \in Slices => Offset(t) + TurnedToc = c * (g + 1)
        /\ Highest \in Sliced => g = 0
        /\ Highest \notin Sliced => t \in Slices
    BY <1>1, <2>1, <2>2 DEF TurnedSpot
  <2>5. r \in 0 .. c - 1
    BY <1>2, <2>2, <2>3
  <2>6. p = c * (b * g + t) + r
    <3>1. c * (b * g + t + 1) = c * (b * g + t) + c /\ c * (b * g + t) \in Int
      BY <1>2, <2>3
    <3> QED
      BY <1>2, <2>2, <2>3, <2>4, <3>1
  <2>7. Highest \notin Sliced => t < b
    BY <1>2, <2>4
  <2>8. SliceOf(p) = t /\ OffsetOf(p) = c * g + r
    <3>1. /\ r \in 0 .. slice_tic - 1 /\ p = slice_tic * (slice_max * g + t) + r
          /\ Highest \notin Sliced => t < slice_max
          /\ Highest \in Sliced => g = 0
          /\ cube \in Cubes /\ t \in Nat
      BY <1>1, <1>2, <2>3, <2>4, <2>5, <2>6, <2>7
    <3>2. SliceOf(p) = t /\ OffsetOf(p) = slice_tic * g + r
      BY <3>1, AtPlace
    <3> QED
      BY <1>1, <3>2
  <2>9. ASSUME t < b
        PROVE  OffsetOf(p) = At(t)
    <3>1. t \in Slices
      BY <1>2, <2>3, <2>9
    <3>2. c * (g + 1) = c * g + c /\ c * g \in Int
      BY <1>2
    <3>3. OffsetOf(p) = Offset(t)
      BY <1>2, <2>2, <2>3, <2>4, <2>8, <3>1, <3>2
    <3> QED
      BY <3>1, <3>3, AtOffset
  <2>10. ASSUME ~ (t < b)
         PROVE  OffsetOf(p) = c - slice_toc
    <3>1. t \notin Slices
      BY <1>2, <2>3, <2>10
    <3>2. g = 0 /\ c * g = 0
      BY <1>2, <2>4, <3>1
    <3> QED
      BY <1>2, <2>2, <2>3, <2>5, <2>8, <3>1, <3>2
  <2> QED
    BY <1>1, <1>2, <1>4, <2>2, <2>8, <2>9, <2>10, PlaceChosen
<1> QED
  BY <1>3, <1>4

(* A transfer passes the position by what it moves.                        *)
LEMMA PassSpot ==
  ASSUME SliceTypeOK, Placed, Ready, RunInv, UNCHANGED <<cube, trace_bias>>, ~ AtEnd,
         NEW t \in Slices, t = TurnedNow, NEW n \in Nat, n <= TurnedToc,
         Pass(t, n), slice_now' = t, slice_toc' = TurnedToc - n,
         NEW p \in Nat, NEW g \in Nat, TurnedSpot(p, g)
  PROVE  Spot(p + n, g)'
<1>1. PICK c, b : c = slice_tic /\ b = slice_max
  OBVIOUS
<1>2. /\ c \in Nat /\ b \in Nat /\ b >= 1 /\ Slices = 0 .. b - 1 /\ c >= 1
      /\ \A s \in Slices : s \in Nat /\ Bias(s) \in Nat
  BY <1>1, Units, BiasType DEF SliceTypeOK
<1>3. pos \in [Slices -> Nat] /\ deseek \subseteq Slices
  BY DEF SliceTypeOK
<1>4. TurnedToc \in 1 .. c /\ Offset(t) \in Nat
  BY <1>1, Turning
<1>5. /\ p = c * (b * g + t + 1) - TurnedToc
      /\ Offset(t) + TurnedToc = c * (g + 1)
      /\ \A s \in Slices \ deseek : s # t =>
           pos[s] - Bias(s) = c * (IF s <= t THEN g + 1 ELSE g)
      /\ Highest \in Sliced => g = 0
  BY <1>1 DEF TurnedSpot
<1>6. pos' = [pos EXCEPT ![t] = Bias(t) + Offset(t) + n] /\ deseek' = deseek \ {t}
  BY DEF Pass
<1>7. pos'[t] = Bias(t) + Offset(t) + n /\ \A s \in Slices \ {t} : pos'[s] = pos[s]
  BY <1>3, <1>6
<1>8. \A s : Run(s)' = pos'[s] - Bias(s) + (IF s = t THEN TurnedToc - n ELSE 0)
  BY Outcomes
<1>9. Run(t)' = c * (g + 1)
  <2>1. Run(t)' = pos'[t] - Bias(t) + (TurnedToc - n)
    BY <1>8, Zenon
  <2>2. Bias(t) \in Nat
    BY <1>2
  <2> QED
    BY <1>4, <1>5, <1>7, <2>1, <2>2
<1>10. \A s \in Slices \ deseek' : Run(s)' = c * (IF s <= t THEN g + 1 ELSE g)
  <2> SUFFICES ASSUME NEW s \in Slices \ deseek'
               PROVE  Run(s)' = c * (IF s <= t THEN g + 1 ELSE g)
    OBVIOUS
  <2>1. CASE s = t
    BY <1>2, <1>9, <2>1
  <2>2. CASE s # t
    <3>1. Run(s)' = pos[s] - Bias(s) + 0
      BY <1>7, <1>8, <2>2
    <3>2. pos[s] - Bias(s) \in Int
      BY <1>2, <1>3
    <3> QED
      BY <1>5, <1>6, <2>2, <3>1, <3>2
  <2> QED
    BY <2>1, <2>2
<1>11. p + n = c * (b * g + t + 1) - (TurnedToc - n)
  <2>1. c * (b * g + t + 1) \in Int
    BY <1>2
  <2> QED
    BY <1>4, <1>5, <2>1
<1> QED
  BY <1>1, <1>5, <1>10, <1>11, Outcomes DEF Spot

(* A turn to the next slice leaves the position.                           *)
LEMMA TurnedStill ==
  ASSUME SliceTypeOK, Placed, Ready, RunInv, UNCHANGED <<cube, trace_bias, pos, deseek>>, ~ AtEnd,
         NEW t, t = TurnedNow, slice_now' = t, slice_toc' = TurnedToc,
         NEW p \in Nat, NEW g \in Nat, TurnedSpot(p, g)
  PROVE  Spot(p, g)'
<1>1. PICK c, b : c = slice_tic /\ b = slice_max
  OBVIOUS
<1>2. /\ \A s \in Slices : s \in Nat /\ Bias(s) \in Nat
  BY Units, BiasType DEF SliceTypeOK
<1>3. pos \in [Slices -> Nat] /\ deseek \subseteq Slices
  BY DEF SliceTypeOK
<1>4. /\ p = c * (b * g + t + 1) - TurnedToc
      /\ t \in Slices => Offset(t) + TurnedToc = c * (g + 1)
      /\ \A s \in Slices \ deseek : s # t =>
           pos[s] - Bias(s) = c * (IF s <= t THEN g + 1 ELSE g)
      /\ Highest \in Sliced => g = 0
      /\ Highest \notin Sliced => t \in Slices
  BY <1>1 DEF TurnedSpot
<1>5. \A s : Run(s)' = pos[s] - Bias(s) + (IF s = t THEN TurnedToc ELSE 0)
  BY Outcomes
<1>6. \A s \in Slices \ deseek : Run(s)' = c * (IF s <= t THEN g + 1 ELSE g)
  <2> SUFFICES ASSUME NEW s \in Slices \ deseek
               PROVE  Run(s)' = c * (IF s <= t THEN g + 1 ELSE g)
    OBVIOUS
  <2>1. CASE s = t
    <3>1. Run(s)' = Offset(t) + TurnedToc
      BY <1>5, <2>1 DEF Offset
    <3> QED
      BY <1>2, <1>4, <2>1, <3>1
  <2>2. CASE s # t
    <3>1. Run(s)' = pos[s] - Bias(s) + 0
      BY <1>5, <2>2
    <3>2. pos[s] - Bias(s) \in Int
      BY <1>2, <1>3
    <3> QED
      BY <1>4, <2>2, <3>1, <3>2
  <2> QED
    BY <2>1, <2>2
<1> QED
  BY <1>1, <1>4, <1>6, Outcomes DEF Spot

LEMMA SameSpot ==
  ASSUME UNCHANGED <<cube, trace_bias, pos, deseek, slice_now, slice_toc>>,
         NEW p, NEW g, Spot(p, g)
  PROVE  Spot(p, g)'
<1>1. \A s : Run(s)' = Run(s)
  BY DEF Run, Bias
<1> QED
  BY <1>1, Outcomes DEF Spot

(* A seek puts it where it says.                                           *)
LEMMA MoveSpot ==
  ASSUME SliceTypeOK, Adjacent, UNCHANGED <<cube, trace_bias>>, NEW p \in Nat, MoveTo(p)
  PROVE  \E g \in Nat : Spot(p, g)'
<1>1. PICK c, b : c = slice_tic /\ b = slice_max
  OBVIOUS
<1>2. /\ c \in Nat /\ b \in Nat /\ b >= 1 /\ Slices = 0 .. b - 1 /\ c >= 1
      /\ c \in Positive
      /\ \A s \in Slices : s \in Nat /\ Bias(s) \in Nat
      /\ cube \in Cubes
  BY <1>1, Units, BiasType DEF SliceTypeOK
<1>3. pos \in [Slices -> Nat]
  BY DEF SliceTypeOK
<1>4. PICK g \in Nat, r \in 0 .. c - 1 :
           /\ p = c * (b * g + SliceOf(p)) + r
           /\ OffsetOf(p) = c * g + r
           /\ Highest \in Sliced => g = 0
           /\ Highest \notin Sliced => SliceOf(p) < b
           /\ SliceOf(p) \in Nat
  BY <1>1, <1>2, PlaceParts, ZenonT(30)
<1>5. r \in Nat /\ c * g \in Nat
  BY <1>2, <1>4, Product
<1> DEFINE last == SliceOf(p) = slice_max /\ OffsetOf(p) = 0
<1>6. PICK s, at, toc : /\ s = IF last THEN slice_max - 1 ELSE SliceOf(p)
                        /\ at = IF last THEN slice_tic ELSE OffsetOf(p)
                        /\ toc = IF last THEN 0 ELSE slice_tic - (OffsetOf(p) % slice_tic)
  OBVIOUS
<1>7. /\ slice_now' = s /\ slice_toc' = toc
      /\ pos' = IF s \in Slices THEN [pos EXCEPT ![s] = Bias(s) + at] ELSE pos
      /\ deseek' = Slices \ {s}
  BY <1>6 DEF MoveTo, Sought, Bias
<1>8. /\ p = c * (b * g + s + 1) - toc
      /\ at + toc = c * (g + 1)
      /\ at \in Nat /\ toc \in Nat
      /\ s \in Nat
      /\ Highest \notin Sliced => s \in Slices
  <2>1. CASE last
    <3>1. s = b - 1 /\ at = c /\ toc = 0 /\ SliceOf(p) = b /\ OffsetOf(p) = 0
      BY <1>1, <1>6, <2>1
    <3>2. Highest \in Sliced
      BY <1>2, <1>4, <3>1
    <3>3. g = 0 /\ r = 0
      BY <1>2, <1>4, <1>5, <3>1, <3>2
    <3>4. c * (b * g + b) + 0 = c * (b * g + (b - 1) + 1) - 0
      BY <1>2
    <3>5. c + 0 = c * (0 + 1)
      BY <1>2
    <3> QED
      BY <1>2, <1>4, <3>1, <3>2, <3>3, <3>4, <3>5
  <2>2. CASE ~ last
    <3>1. s = SliceOf(p) /\ at = c * g + r /\ toc = c - (OffsetOf(p) % c)
      BY <1>1, <1>4, <1>6, <2>2
    <3>2. OffsetOf(p) % c = r
      <4>1. c * g + r \in Nat
        BY <1>5
      <4> QED
        BY <1>2, <1>4, <4>1, Quotient
    <3>3. c * (b * g + s + 1) = c * (b * g + s) + c /\ c * (b * g + s) \in Int
      BY <1>2, <1>4, <3>1
    <3>4. c * (g + 1) = c * g + c
      BY <1>2
    <3>5. toc = c - r /\ toc \in Nat /\ at \in Nat
      BY <1>2, <1>4, <1>5, <3>1, <3>2, SMTT(30)
    <3>6. p = c * (b * g + s + 1) - toc
      <4>1. p = c * (b * g + s) + r
        BY <1>4, <3>1
      <4> QED
        BY <1>2, <1>5, <3>3, <3>5, <4>1
    <3>7. at + toc = c * (g + 1)
      BY <1>2, <1>5, <3>1, <3>4, <3>5
    <3>8. Highest \notin Sliced => s \in Slices
      BY <1>2, <1>4, <3>1
    <3> QED
      BY <1>4, <3>1, <3>5, <3>6, <3>7, <3>8
  <2> QED
    BY <2>1, <2>2
<1>9. \A u \in Slices \ deseek' : Run(u)' = c * (IF u <= s THEN g + 1 ELSE g)
  <2> SUFFICES ASSUME NEW u \in Slices \ deseek'
               PROVE  Run(u)' = c * (IF u <= s THEN g + 1 ELSE g)
    OBVIOUS
  <2>1. u = s /\ s \in Slices
    BY <1>7
  <2>2. Run(s)' = pos'[s] - Bias(s) + toc
    BY <1>7, Outcomes
  <2>3. pos'[s] = Bias(s) + at /\ Bias(s) \in Nat
    BY <1>2, <1>3, <1>7, <2>1
  <2>4. Run(s)' = at + toc
    BY <1>8, <2>2, <2>3
  <2> QED
    BY <1>8, <2>1, <2>4
<1> QED
  BY <1>1, <1>4, <1>7, <1>8, <1>9, Outcomes DEF Spot

-----------------------------------------------------------------------------
(* The position and the trace number                                       *)

(* The places of a cube are within the bound on the positions.             *)
Fitting == \A c \in Cubes : c.stroke * (c.size[1] * c.size[2] * c.size[3]) <= Limit

(* Where traces are transferred, the type that is has their stroke.        *)
Tracewise == \A c \in Cubes : c.traces => c.width = c.stroke

(* No file is longer than its part of the cube, and those that were there  *)
(* before hold all of it.                                                  *)
Filed ==
  \A s \in Slices :
    /\ Len(file[s]) <= Total \div slice_max
    /\ ~ cube.fresh => Len(file[s]) = Total \div slice_max

(* A write in progress has room within the cube.                           *)
Room(p) == call.op = "write" => p + call.left * cube.width <= Total

Numbered(p) == cube.traces => LineTrc = p \div cube.stroke + 1

(* There is a position, the cube counts the traces up to it.               *)
PlaceInv ==
  Filed /\ \E p \in 0 .. Limit, h \in Nat : Spot(p, h) /\ Numbered(p) /\ Room(p)

LEMMA TotalFits ==
  ASSUME cube \in Cubes, Fitting
  PROVE  Total <= Limit
<1>1. Axes = {1, 2, 3}
  BY DEF Axes
<1>2. Total = cube.stroke * (cube.size[1] * cube.size[2] * cube.size[3])
  BY <1>1, ExtentOf DEF Total
<1> QED
  BY <1>2 DEF Fitting

(* What a transfer moves in a file is in its part of the cube just if it   *)
(* is within the cube.                                                     *)
LEMMA InRange ==
  ASSUME SliceTypeOK, Placed, Ready, Adjacent,
         NEW p \in Nat, NEW g \in Nat, TurnedSpot(p, g),
         NEW t \in Slices, t = TurnedNow, NEW u \in Nat, u <= TurnedToc
  PROVE  /\ p + u <= Total => Offset(t) + u <= Total \div slice_max
         /\ u > 0 /\ Offset(t) + u <= Total \div slice_max => p + u <= Total
<1>1. PICK c, b : c = slice_tic /\ b = slice_max
  OBVIOUS
<1>2. /\ c \in Positive /\ c \in Nat /\ b \in Positive /\ b \in Nat
      /\ cube \in Cubes /\ t \in Nat /\ t < b
  BY <1>1, Units DEF SliceTypeOK
<1>3. PICK m \in Positive : /\ Total = c * (b * m)
                            /\ Total \div slice_max = c * m
  BY <1>1, <1>2, Complete
<1>4. m \in Nat
  BY DEF Positive
<1>5. /\ TurnedToc \in 1 .. c
      /\ p = c * (b * g + t + 1) - TurnedToc
      /\ Offset(t) + TurnedToc = c * (g + 1) /\ Offset(t) \in Nat
  BY <1>1, Turning DEF TurnedSpot
<1>6. PICK v : v = c - TurnedToc + u
  OBVIOUS
<1>7. v \in 0 .. c /\ u <= v
  BY <1>2, <1>5, <1>6
<1>8. PICK k \in Nat : k = b * g + t
  BY <1>2, Product
<1>9. /\ c * g \in Nat /\ c * k \in Nat /\ c * (b * m) \in Nat /\ c * m \in Nat
      /\ b * g \in Nat /\ b * m \in Nat
  BY <1>2, <1>4, Product
<1>10. Offset(t) + u = c * g + v
  <2>1. c * (g + 1) = c * g + c
    BY <1>2
  <2> QED
    BY <1>2, <1>5, <1>6, <1>9, <2>1
<1>11. p + u = c * k + v
  <2>1. c * (k + 1) = c * k + c
    BY <1>2
  <2>2. p = c * (k + 1) - TurnedToc
    BY <1>5, <1>8
  <2> QED
    BY <1>2, <1>5, <1>6, <1>9, <2>1, <2>2
<1>12. CASE g < m
  <2>1. g + 1 \in Nat /\ k + 1 \in Nat /\ g + 1 <= m
    BY <1>4, <1>12
  <2>2. (g + 1) * c <= m * c
    BY <1>2, <1>4, <2>1, Monotone
  <2>3. c * g + c <= c * m
    BY <1>2, <1>4, <2>2
  <2>4. (g + 1) * b <= m * b
    BY <1>2, <1>4, <2>1, Monotone
  <2>5. k + 1 <= b * m
    <3>1. (g + 1) * b = b * g + b /\ m * b = b * m
      BY <1>2, <1>4
    <3> QED
      BY <1>2, <1>8, <1>9, <2>4, <3>1
  <2>6. (k + 1) * c <= (b * m) * c
    BY <1>2, <1>9, <2>1, <2>5, Monotone
  <2>7. c * k + c <= c * (b * m)
    <3>1. (k + 1) * c = c * k + c /\ (b * m) * c = c * (b * m)
      BY <1>2, <1>9
    <3> QED
      BY <2>6, <3>1
  <2> QED
    BY <1>2, <1>3, <1>7, <1>9, <1>10, <1>11, <2>3, <2>7
<1>13. CASE ~ (g < m)
  <2>1. m * c <= g * c /\ m * b <= g * b
    BY <1>2, <1>4, <1>13, Monotone
  <2>2. c * m <= c * g /\ b * m <= b * g
    BY <1>2, <1>4, <2>1
  <2>3. ~ (u > 0 /\ Offset(t) + u <= c * m)
    BY <1>7, <1>9, <1>10, <2>2
  <2>4. ASSUME p + u <= c * (b * m)
        PROVE  Offset(t) + u <= c * m
    <3>1. c * k <= c * (b * m)
      BY <1>7, <1>9, <1>11, <2>4
    <3>2. ~ (b * m < k)
      <4>1. PICK w \in Nat : w = b * m
        BY <1>9
      <4>2. w < k <=> c * w < c * k
        BY <1>2, Increasing
      <4>3. ~ (c * w < c * k)
        BY <1>9, <3>1, <4>1
      <4> QED
        BY <4>1, <4>2, <4>3
    <3>3. k = b * m /\ b * g <= b * m
      BY <1>2, <1>8, <1>9, <2>2, <3>2
    <3>4. v = 0
      BY <1>7, <1>9, <1>11, <2>4, <3>3
    <3>5. ~ (m < g)
      BY <1>2, <1>4, <1>9, <3>3, Increasing
    <3>6. g = m
      BY <1>4, <1>13, <3>5
    <3> QED
      BY <1>9, <1>10, <3>4, <3>6
  <2> QED
    BY <1>3, <2>3, <2>4
<1> QED
  BY <1>12, <1>13

LEMMA AddQuotient ==
  ASSUME NEW p \in Nat, NEW n \in Nat, NEW q \in Positive
  PROVE  (p + n * q) \div q = p \div q + n
<1>1. PICK k, r : k = p \div q /\ r = p % q
  OBVIOUS
<1>2. k \in Nat /\ r \in 0 .. q - 1 /\ p = q * k + r /\ q \in Nat
  BY <1>1, Division DEF Positive
<1>3. q * (k + n) + r = p + n * q
  BY <1>2
<1>4. p + n * q \in Nat /\ k + n \in Nat
  BY <1>2, Product
<1>5. (p + n * q) \div q = k + n
  BY <1>2, <1>3, <1>4, Quotient
<1> QED
  BY <1>1, <1>5

LEMMA PutLength ==
  ASSUME NEW units \in Seq(Int), NEW at \in Nat, NEW n \in Nat, NEW value \in Int
  PROVE  Len(Put(units, at, n, value)) = (IF at + n > Len(units) THEN at + n ELSE Len(units))
<1>1. PICK m : m = IF at + n > Len(units) THEN at + n ELSE Len(units)
  OBVIOUS
<1>2. m \in Nat
  BY <1>1
<1>3. PICK f : f = [i \in 1 .. m |-> IF i \in at + 1 .. at + n THEN value
                          ELSE IF i <= Len(units) THEN units[i] ELSE Hole]
  OBVIOUS
<1>4. Put(units, at, n, value) = f
  BY <1>1, <1>3 DEF Put
<1>5. f \in Seq(Int)
  BY <1>4, PutType
<1>6. DOMAIN f = 1 .. m
  BY <1>3
<1>7. Len(f) = m
  BY <1>2, <1>5, <1>6
<1> QED
  BY <1>1, <1>4, <1>7

(* A transfer of n elements: the position passes them, traces are counted, *)
(* and a write has room for what is left.                                  *)
LEMMA MovedPlace ==
  ASSUME SliceTypeOK, Placed, Ready, RunInv, Tracewise, UNCHANGED <<cube, trace_bias>>, ~ AtEnd,
         NEW t \in Slices, t = TurnedNow, NEW n \in Nat, n <= Want(TurnedToc),
         Moved(t, n), NEW p \in Nat, NEW g \in Nat, TurnedSpot(p, g),
         Numbered(p), Room(p),
         NEW u, u = n * cube.width
  PROVE  /\ u \in Nat /\ u <= TurnedToc
         /\ Spot(p + u, g)' /\ Numbered(p + u)' /\ Room(p + u)'
         /\ call.op = "write" => p + u <= Total
<1>1. /\ cube \in Cubes /\ LineTrc \in Nat
      /\ call \in [op : {"none", "read", "write"}, left : Nat]
  BY DEF SliceTypeOK
<1>2. cube.width \in Nat /\ cube.stroke \in Positive /\ Total \in Nat
  BY <1>1, CubeType, CubeFacts DEF Positive
<1>3. TurnedToc \in Nat
  BY Turning
<1>4. /\ Want(TurnedToc) \in Nat /\ Want(TurnedToc) <= call.left
      /\ Want(TurnedToc) * cube.width <= TurnedToc
  BY <1>3, WantFits
<1>5. u \in Nat
  BY <1>2, Product
<1>6. u <= TurnedToc
  <2>1. n * cube.width <= Want(TurnedToc) * cube.width
    BY <1>2, <1>4, Monotone
  <2>2. Want(TurnedToc) * cube.width \in Nat
    BY <1>2, <1>4, Product
  <2> QED
    BY <1>3, <1>4, <1>5, <2>1, <2>2
<1>7. Pass(t, u) /\ slice_now' = t /\ slice_toc' = TurnedToc - u
  BY DEF Moved
<1>8. Spot(p + u, g)'
  BY <1>5, <1>6, <1>7, PassSpot
<1>9. Numbered(p + u)'
  <2> SUFFICES ASSUME cube.traces
               PROVE  LineTrc' = (p + u) \div cube.stroke + 1
    BY DEF Numbered
  <2>1. u = n * cube.stroke
    BY <1>1 DEF Tracewise
  <2>2. (p + u) \div cube.stroke = p \div cube.stroke + n
    BY <1>2, <2>1, AddQuotient
  <2>3. LineTrc' = LineTrc + n /\ LineTrc = p \div cube.stroke + 1
    BY DEF Moved, Count, Numbered
  <2>4. p \div cube.stroke \in Nat
    BY <1>2, Division
  <2> QED
    BY <2>2, <2>3, <2>4
<1>10. n <= call.left /\ call.left \in Nat /\ call.left - n \in Nat
  BY <1>1, <1>4
<1>11. call.left * cube.width = u + (call.left - n) * cube.width
  BY <1>2, <1>10
<1>12. (call.left - n) * cube.width \in Nat
  BY <1>2, <1>10, Product
<1>13. call' = [call EXCEPT !.left = call.left - n]
  BY DEF Moved
<1>14. call'.op = call.op /\ call'.left = call.left - n
  BY <1>1, <1>13
<1>15. call.op = "write" => p + (u + (call.left - n) * cube.width) <= Total
  BY <1>11 DEF Room
<1>16. call.op = "write" => p + u <= Total
  BY <1>2, <1>5, <1>12, <1>15
<1>17. Room(p + u)'
  <2>1. Total' = Total
    BY DEF Total, Extent, Factor
  <2>2. call.op = "write" => p + u + (call.left - n) * cube.width <= Total
    BY <1>5, <1>12, <1>15
  <2> QED
    BY <1>14, <2>1, <2>2 DEF Room
<1> QED
  BY <1>5, <1>6, <1>8, <1>9, <1>16, <1>17

LEMMA SameFiled ==
  ASSUME Filed, UNCHANGED <<cube, file>>
  PROVE  Filed'
<1>1. Total' = Total
  BY DEF Total, Extent, Factor
<1> QED
  BY <1>1, SameCube DEF Filed

(* What keeps the files and ends or begins no write.                       *)
LEMMA PlaceStep ==
  ASSUME Filed', NEW p \in 0 .. Limit, NEW h \in Nat,
         Spot(p, h)', Numbered(p)', Room(p)'
  PROVE  PlaceInv'
<1>1. \E q \in 0 .. Limit, k \in Nat : Spot(q, k)' /\ Numbered(q)' /\ Room(q)'
  OBVIOUS
<1> QED
  BY <1>1 DEF PlaceInv

LEMMA NoWrite ==
  ASSUME NEW p, call'.op # "write"
  PROVE  Room(p)'
BY DEF Room

LEMMA SameNumber ==
  ASSUME NEW p, Numbered(p), UNCHANGED <<cube, LineTrc>>
  PROVE  Numbered(p)'
BY DEF Numbered

LEMMA InitSpot ==
  ASSUME SliceInit
  PROVE  Spot(0, 0)
<1>1. cube \in Cubes
  BY DEF SliceInit
<1>2. /\ slice_tic \in Nat /\ slice_max \in Nat /\ slice_max >= 1
      /\ Slices = 0 .. slice_max - 1
      /\ \A s \in Slices : s \in Nat /\ Prefix(s) \in Nat
  BY <1>1, Units
<1>3. /\ \A s \in Slices : pos[s] = Bias(s) /\ Bias(s) \in Nat
      /\ deseek = {} /\ slice_now = 0 /\ slice_toc = slice_tic
  BY <1>2 DEF SliceInit, Bias
<1>4. 0 = slice_tic * (slice_max * 0 + 0 + 1) - slice_tic
  BY <1>2
<1>5. \A s \in Slices : Run(s) = slice_tic * (IF s <= 0 THEN 0 + 1 ELSE 0)
  <2> SUFFICES ASSUME NEW s \in Slices
               PROVE  Run(s) = slice_tic * (IF s <= 0 THEN 0 + 1 ELSE 0)
    OBVIOUS
  <2>1. Run(s) = IF s = 0 THEN slice_tic ELSE 0
    BY <1>2, <1>3 DEF Run
  <2>2. s \in Nat /\ slice_tic * (0 + 1) = slice_tic /\ slice_tic * 0 = 0
    BY <1>2
  <2> QED
    BY <2>1, <2>2
<1>6. 0 \in Slices
  BY <1>2
<1> QED
  BY <1>3, <1>4, <1>5, <1>6 DEF Spot

LEMMA InitPlace ==
  ASSUME Adjacent, SliceInit
  PROVE  PlaceInv
<1>1. cube \in Cubes
  BY DEF SliceInit
<1>2. /\ slice_tic \in Nat /\ slice_max \in Nat /\ slice_max >= 1
      /\ Slices = 0 .. slice_max - 1 /\ Limit \in Nat
      /\ \A s \in Slices : s \in Nat /\ Prefix(s) \in Nat
  BY <1>1, Units
<1>3. /\ \A s \in Slices : pos[s] = Bias(s) /\ Bias(s) \in Nat
      /\ deseek = {} /\ slice_now = 0 /\ slice_toc = slice_tic
      /\ LineTrc = 1 /\ call = [op |-> "none", left |-> 0]
  BY <1>2 DEF SliceInit, Bias
<1>4. Filed
  <2>1. PICK m \in Positive : Total \div slice_max = slice_tic * m
    BY <1>1, Complete
  <2>2. PICK k \in Nat : k = Total \div slice_max
    BY <1>2, <2>1, Product DEF Positive
  <2> SUFFICES ASSUME NEW s \in Slices
               PROVE  Len(file[s]) <= k /\ (~ cube.fresh => Len(file[s]) = k)
    BY <2>2 DEF Filed
  <2>3. file[s] = [i \in 1 .. (IF cube.fresh THEN 0 ELSE k) |-> Total * s + i]
    BY <2>2 DEF SliceInit
  <2>4. CASE cube.fresh
    <3>1. file[s] = [i \in 1 .. 0 |-> Total * s + i]
      BY <2>3, <2>4
    <3>2. Len(file[s]) = 0
      BY <3>1
    <3> QED
      BY <2>4, <3>2
  <2>5. CASE ~ cube.fresh
    <3>1. file[s] = [i \in 1 .. k |-> Total * s + i]
      BY <2>3, <2>5
    <3>2. Len(file[s]) = k
      BY <3>1
    <3> QED
      BY <2>5, <3>2
  <2> QED
    BY <2>4, <2>5
<1>5. Spot(0, 0)
  BY InitSpot
<1>6. Numbered(0)
  <2>1. 0 \div cube.stroke = 0
    BY <1>1, CubeType, AddQuotient DEF Positive
  <2> QED
    BY <1>3, <2>1 DEF Numbered
<1>7. Room(0)
  BY <1>3 DEF Room
<1> QED
  BY <1>2, <1>4, <1>5, <1>6, <1>7 DEF PlaceInv

(* One element is wanted of a run that may hold some.                      *)
LEMMA WantSome ==
  ASSUME SliceTypeOK, NEW toc \in Positive, ~ Misaligned(toc), call.left > 0
  PROVE  Want(toc) >= 1 /\ cube.width <= toc
<1>1. PICK w, l, k : w = cube.width /\ l = call.left /\ k = toc \div w
  OBVIOUS
<1>2. w \in Positive /\ w \in Nat /\ l \in Nat /\ l >= 1 /\ toc \in Nat /\ toc >= 1
  BY <1>1, CubeType DEF SliceTypeOK, Positive
<1>3. k \in Nat /\ toc = w * k + (toc % w) /\ toc % w \in 0 .. w - 1
  BY <1>1, <1>2, Division
<1>4. CASE toc % w = 0
  <2>1. toc = w * k
    BY <1>2, <1>3, <1>4
  <2>2. k # 0
    BY <1>2, <2>1
  <2>3. k - 1 \in Nat /\ k >= 1
    BY <1>3, <2>2
  <2>4. w * (k - 1) \in Nat
    BY <1>2, <2>3, Product
  <2>5. w <= toc
    BY <1>2, <1>3, <2>1, <2>4
  <2> QED
    BY <1>1, <1>2, <2>3, <2>5 DEF Want
<1>5. CASE ~ (l * w > toc)
  <2>1. w * (l - 1) \in Nat
    BY <1>2, Product
  <2>2. w <= toc
    BY <1>2, <1>5, <2>1
  <2> QED
    BY <1>1, <1>2, <1>5, <2>2 DEF Want
<1> QED
  BY <1>1, <1>4, <1>5 DEF Misaligned

(* A seek puts the position and the trace number to the same place.        *)
LEMMA MovePlace ==
  ASSUME SliceTypeOK, Adjacent, Filed, UNCHANGED <<cube, trace_bias, file, call>>, call = Idle,
         NEW p \in 0 .. Limit, MoveTo(p)
  PROVE  PlaceInv'
<1>1. p \in Nat
  BY BoundsAssumption
<1>2. PICK g \in Nat : Spot(p, g)'
  BY <1>1, MoveSpot
<1>3. Numbered(p)'
  BY DEF Numbered, MoveTo
<1>4. Room(p)'
  BY NoWrite DEF Idle
<1> QED
  BY <1>2, <1>3, <1>4, SameFiled, PlaceStep

(* What moves nothing and begins no write leaves the position.             *)
LEMMA StillPlace ==
  ASSUME PlaceInv,
         UNCHANGED <<cube, trace_bias, file, pos, deseek, slice_now, slice_toc, LineTrc>>,
         call' = call \/ call'.op # "write"
  PROVE  PlaceInv'
<1>1. PICK p \in 0 .. Limit, h \in Nat : Spot(p, h) /\ Numbered(p) /\ Room(p)
  BY DEF PlaceInv
<1>2. Filed /\ Filed'
  BY SameFiled DEF PlaceInv
<1>3. Spot(p, h)' /\ Numbered(p)'
  BY <1>1, SameSpot, SameNumber
<1>4. Room(p)'
  <2>1. CASE call' = call
    <3>1. Total' = Total
      BY DEF Total, Extent, Factor
    <3> QED
      BY <1>1, <2>1, <3>1 DEF Room
  <2>2. CASE call'.op # "write"
    BY <2>2, NoWrite
  <2> QED
    BY <2>1, <2>2
<1> QED
  BY <1>2, <1>3, <1>4, PlaceStep

LEMMA ReachPlace ==
  ASSUME SliceTypeOK, Adjacent, PlaceInv, UNCHANGED <<cube, trace_bias, file, call>>, call = Idle,
         NEW whence, NEW offset, NEW p, Reach(whence, offset, p)
  PROVE  PlaceInv'
<1>1. CASE p \in 0 .. Limit /\ MoveTo(p)
  BY <1>1, MovePlace DEF PlaceInv
<1>2. CASE UNCHANGED <<pos, deseek, slice_now, slice_toc, LineTrc>>
  BY <1>2, StillPlace
<1> QED
  BY <1>1, <1>2 DEF Reach

(* A turn to the next slice with which a call returns.                     *)
LEMMA TurnedPlace ==
  ASSUME SliceTypeOK, Placed, Ready, RunInv, PlaceInv, ~ AtEnd, Return,
         UNCHANGED <<cube, trace_bias, file, pos, deseek, LineTrc>>,
         slice_now' = TurnedNow, slice_toc' = TurnedToc
  PROVE  PlaceInv'
<1>1. PICK p \in 0 .. Limit, h \in Nat : Spot(p, h) /\ Numbered(p) /\ Room(p)
  BY DEF PlaceInv
<1>2. Filed /\ Filed'
  BY SameFiled DEF PlaceInv
<1>3. PICK g \in Nat : TurnedSpot(p, g)
  BY <1>1, TurnSpot
<1>4. p \in Nat
  BY BoundsAssumption
<1>5. PICK t : t = TurnedNow
  OBVIOUS
<1>6. slice_now' = t
  BY <1>5
<1>7. Spot(p, g)'
  BY <1>3, <1>4, <1>5, <1>6, TurnedStill
<1>8. Numbered(p)' /\ Room(p)'
  BY <1>1, SameNumber, NoWrite DEF Return, Idle
<1> QED
  BY <1>2, <1>7, <1>8, PlaceStep

(* A write that has something left is not at the end of the cube.          *)
LEMMA WriteNotAtEnd ==
  ASSUME SliceTypeOK, Placed, Ready, RunInv, Adjacent, PlaceInv,
         call.op = "write", call.left > 0
  PROVE  ~ AtEnd
<1>1. SUFFICES ASSUME AtEnd
               PROVE  FALSE
  OBVIOUS
<1>2. PICK p \in 0 .. Limit, h \in Nat : Spot(p, h) /\ Numbered(p) /\ Room(p)
  BY DEF PlaceInv
<1>3. Place = p
  BY <1>2, SpotIsPlace
<1>4. p = Total
  BY <1>1, <1>3 DEF Place
<1>5. p + call.left * cube.width <= Total
  BY <1>2 DEF Room
<1>6. call.left \in Positive /\ cube.width \in Positive /\ Total \in Nat
  BY CubeType, CubeFacts DEF SliceTypeOK, Positive
<1>7. call.left * cube.width \in Positive
  BY <1>6, PositiveProduct
<1> QED
  BY <1>4, <1>5, <1>6, <1>7 DEF Positive

(* A transfer of some units, u, from the position on, g rounds behind the  *)
(* start, in slice t.                                                      *)
Moves(p, g, t, u) ==
  /\ t = TurnedNow /\ TurnedSpot(p, g) /\ u > 0 /\ u <= TurnedToc
  /\ p + u <= Total /\ p + u \in 0 .. Limit
  /\ Spot(p + u, g)' /\ Numbered(p + u)' /\ Room(p + u)'

(* What is read is in the cube, and in the file of the slice.              *)
LEMMA ReadChunkMoves ==
  ASSUME SliceTypeOK, Placed, Ready, RunInv, Adjacent, Fitting, Tracewise, Filed, ReadChunk,
         NEW p \in 0 .. Limit, NEW h \in Nat, Spot(p, h), Numbered(p), Room(p)
  PROVE  \E g \in Nat, t \in Slices, u \in Nat :
           /\ Moves(p, g, t, u)
           /\ Offset(t) + u <= Len(file[t])
           /\ got' = SubSeq(file[t], Offset(t) + 1, Offset(t) + u)
<1>2. cube \in Cubes /\ p \in Nat /\ file \in [Slices -> Seq(Int)]
  BY BoundsAssumption DEF SliceTypeOK
<1>3. PICK t : t = TurnedNow
  OBVIOUS
<1>4. t \in Slices /\ ~ AtEnd
  BY <1>2, <1>3, Turning, CubeFacts DEF ReadChunk, Positive
<1>5. PICK n : n = Smaller(Want(TurnedToc), Available(t)) /\ n > 0 /\ Moved(t, n)
  BY <1>3 DEF ReadChunk
<1>6. UNCHANGED <<cube, trace_bias, file, writes>> /\ call.op = "read"
  BY DEF ReadChunk
<1>7. TurnedToc \in Nat /\ Offset(t) \in Nat
  BY <1>3, <1>4, Turning
<1>8. Want(TurnedToc) \in Nat
  BY <1>7, WantFits
<1>9. Available(t) \in Nat
  BY <1>4, <1>7, AvailableType
<1>10. n \in Nat /\ n <= Want(TurnedToc) /\ n <= Available(t)
  BY <1>5, <1>8, <1>9 DEF Smaller
<1>11. PICK g \in Nat : TurnedSpot(p, g)
  BY <1>4, TurnSpot
<1>12. PICK u : u = n * cube.width
  OBVIOUS
<1>13. /\ u \in Nat /\ u <= TurnedToc
       /\ Spot(p + u, g)' /\ Numbered(p + u)' /\ Room(p + u)'
  BY <1>2, <1>3, <1>4, <1>5, <1>6, <1>10, <1>11, <1>12, MovedPlace
<1>14. cube.width \in Positive /\ cube.width \in Nat
  BY <1>2, CubeType DEF Positive
<1>15. u > 0
  BY <1>5, <1>10, <1>12, <1>14, PositiveProduct DEF Positive
<1>16. Len(file[t]) \in Nat /\ Len(file[t]) <= Total \div slice_max
  BY <1>2, <1>4 DEF Filed
<1>25. At(t) = Offset(t)
  BY <1>4, AtOffset
<1>17. Offset(t) + u <= Len(file[t])
  <2>1. ~ (Offset(t) > Len(file[t]))
    BY <1>5, <1>10, <1>25 DEF Available
  <2>2. Available(t) = (Len(file[t]) - Offset(t)) \div cube.width
    BY <1>25, <2>1 DEF Available
  <2>3. Len(file[t]) - Offset(t) \in Nat
    BY <1>7, <1>16, <2>1
  <2>4. Available(t) * cube.width <= Len(file[t]) - Offset(t)
    BY <1>14, <2>2, <2>3, Division
  <2>5. n * cube.width <= Available(t) * cube.width
    BY <1>9, <1>10, <1>14, Monotone
  <2>6. Available(t) * cube.width \in Nat
    BY <1>9, <1>14, Product
  <2> QED
    BY <1>7, <1>12, <1>13, <1>16, <2>4, <2>5, <2>6, SMTT(30)
<1>18. Total \in Nat /\ Total \div slice_max \in Nat
  BY <1>2, CubeFacts, Division DEF Positive
<1>19. Offset(t) + u <= Total \div slice_max
  BY <1>7, <1>13, <1>16, <1>17, <1>18
<1>20. p + u <= Total
  BY <1>2, <1>3, <1>4, <1>11, <1>13, <1>15, <1>19, InRange
<1>21. Total <= Limit
  BY <1>2, TotalFits
<1>22. p + u \in 0 .. Limit
  BY <1>2, <1>13, <1>18, <1>20, <1>21, BoundsAssumption
<1>23. got' = SubSeq(file[t], Offset(t) + 1, Offset(t) + u)
  BY <1>3, <1>5, <1>12, <1>25 DEF ReadChunk
<1>24. Moves(p, g, t, u)
  BY <1>3, <1>11, <1>13, <1>15, <1>20, <1>22 DEF Moves
<1> QED
  BY <1>4, <1>13, <1>17, <1>23, <1>24

LEMMA ReadChunkPlace ==
  ASSUME SliceTypeOK, Placed, Ready, RunInv, Adjacent, Fitting, Tracewise, PlaceInv, ReadChunk
  PROVE  PlaceInv'
<1>1. PICK p \in 0 .. Limit, h \in Nat : Spot(p, h) /\ Numbered(p) /\ Room(p)
  BY DEF PlaceInv
<1>2. PICK g \in Nat, t \in Slices, u \in Nat : Moves(p, g, t, u)
  BY <1>1, ReadChunkMoves DEF PlaceInv
<1>3. Filed'
  BY SameFiled DEF PlaceInv, ReadChunk
<1> QED
  BY <1>2, <1>3, PlaceStep DEF Moves

(* What is written is in the cube, and in its part of the file.            *)
LEMMA WriteChunkMoves ==
  ASSUME IInv, Kept, RunInv, Adjacent, Fitting, Tracewise, PlaceInv, WriteChunk,
         NEW p \in 0 .. Limit, NEW h \in Nat, Spot(p, h), Numbered(p), Room(p)
  PROVE  \E g \in Nat, t \in Slices, u \in Nat :
           /\ Moves(p, g, t, u)
           /\ Offset(t) \in Nat /\ Offset(t) + u <= Total \div slice_max
           /\ file' = [file EXCEPT ![t] = Put(file[t], Offset(t), u, - writes)]
<1>2. /\ SliceTypeOK /\ Placed /\ Ready /\ WriteOnSlice
      /\ cube \in Cubes /\ p \in Nat /\ file \in [Slices -> Seq(Int)]
      /\ writes \in Nat
  BY BoundsAssumption DEF IInv, SliceTypeOK
<1>3. PICK t : t = TurnedNow
  OBVIOUS
<1>4. t \in Slices
  BY <1>2, <1>3 DEF WriteOnSlice, WriteChunk
<1>5. ~ AtEnd /\ call.op = "write"
  BY <1>2, WriteNotAtEnd DEF WriteChunk
<1>6. PICK n : n = Want(TurnedToc)
  OBVIOUS
<1>7. WriteSlice = t
  <2>1. TurnedNow < slice_max
    BY <1>2, <1>3, <1>4, CubeFacts DEF Positive
  <2> QED
    BY <1>3, <2>1 DEF WriteSlice
<1>8. PICK u : u = n * cube.width
  OBVIOUS
<1>9. /\ Moved(t, n) /\ UNCHANGED <<cube, trace_bias, writes>>
      /\ file' = [file EXCEPT ![t] = Put(file[t], Offset(t), u, - writes)]
  <2>1. At(t) = Offset(t)
    BY <1>2, <1>4, AtOffset
  <2> QED
    BY <1>6, <1>7, <1>8, <2>1 DEF WriteChunk, Kept
<1>10. TurnedToc \in Nat /\ Offset(t) \in Nat
  BY <1>2, <1>3, <1>4, Turning
<1>11. n \in Nat /\ n <= Want(TurnedToc)
  BY <1>2, <1>6, <1>10, WantFits
<1>12. PICK g \in Nat : TurnedSpot(p, g)
  BY <1>2, <1>5, TurnSpot
<1>13. /\ u \in Nat /\ u <= TurnedToc
       /\ Spot(p + u, g)' /\ Numbered(p + u)' /\ Room(p + u)'
       /\ p + u <= Total
  BY <1>2, <1>3, <1>4, <1>5, <1>8, <1>9, <1>11, <1>12, MovedPlace
<1>14. Offset(t) + u <= Total \div slice_max
  BY <1>2, <1>3, <1>4, <1>12, <1>13, InRange
<1>15. Total \in Nat /\ Total \div slice_max \in Nat /\ Total <= Limit
  BY <1>2, CubeFacts, TotalFits, Division DEF Positive
<1>16. p + u \in 0 .. Limit
  BY <1>2, <1>13, <1>15, BoundsAssumption
<1>17. u > 0
  <2>1. n >= 1
    BY <1>2, <1>3, <1>4, <1>6, Turning, WantSome DEF WriteChunk, Positive
  <2> QED
    BY <1>2, <1>8, <1>11, <1>13, <2>1, CubeType, PositiveProduct DEF Positive
<1>18. Moves(p, g, t, u)
  BY <1>3, <1>12, <1>13, <1>16, <1>17 DEF Moves
<1> QED
  BY <1>4, <1>9, <1>10, <1>13, <1>14, <1>18

LEMMA WriteChunkPlace ==
  ASSUME IInv, Kept, RunInv, Adjacent, Fitting, Tracewise, PlaceInv, WriteChunk
  PROVE  PlaceInv'
<1>1. PICK p \in 0 .. Limit, h \in Nat : Spot(p, h) /\ Numbered(p) /\ Room(p)
  BY DEF PlaceInv
<1>2. /\ SliceTypeOK /\ cube \in Cubes /\ file \in [Slices -> Seq(Int)]
      /\ writes \in Nat
  BY DEF IInv, SliceTypeOK
<1>3. PICK g \in Nat, t \in Slices, u \in Nat :
        /\ Moves(p, g, t, u)
        /\ Offset(t) \in Nat /\ Offset(t) + u <= Total \div slice_max
        /\ file' = [file EXCEPT ![t] = Put(file[t], Offset(t), u, - writes)]
  BY <1>1, WriteChunkMoves
<1>4. Filed'
  <2>1. PICK k \in Nat : k = Total \div slice_max
    BY <1>2, CubeFacts, Division DEF Positive
  <2>2. \A s \in Slices : Len(file[s]) <= k /\ (~ cube.fresh => Len(file[s]) = k)
    BY <2>1 DEF PlaceInv, Filed
  <2>3. file[t] \in Seq(Int) /\ Len(file[t]) \in Nat /\ - writes \in Int
    BY <1>2, BoundsAssumption
  <2>4. Len(file'[t]) = IF Offset(t) + u > Len(file[t]) THEN Offset(t) + u
                        ELSE Len(file[t])
    <3>1. file'[t] = Put(file[t], Offset(t), u, - writes)
      BY <1>2, <1>3
    <3>2. PICK old, at, value : /\ old = file[t] /\ at = Offset(t)
                                /\ value = - writes
      OBVIOUS
    <3>3. old \in Seq(Int) /\ at \in Nat /\ value \in Int
      BY <1>3, <2>3, <3>2
    <3>4. Len(Put(old, at, u, value)) =
            IF at + u > Len(old) THEN at + u ELSE Len(old)
      BY <3>3, PutLength
    <3> QED
      BY <3>1, <3>2, <3>4
  <2>5. \A s \in Slices : Len(file'[s]) <= k /\ (~ cube.fresh => Len(file'[s]) = k)
    <3> SUFFICES ASSUME NEW s \in Slices
                 PROVE  Len(file'[s]) <= k /\ (~ cube.fresh => Len(file'[s]) = k)
      OBVIOUS
    <3>1. CASE s = t
      BY <1>3, <2>1, <2>2, <2>3, <2>4, <3>1
    <3>2. CASE s # t
      <4>1. file'[s] = file[s]
        BY <1>2, <1>3, <3>2
      <4> QED
        BY <2>2, <4>1
    <3> QED
      BY <3>1, <3>2
  <2>6. cube' = cube
    BY DEF WriteChunk
  <2>7. Total' = Total /\ Slices' = Slices /\ slice_max' = slice_max
    BY <2>6, SameCube DEF Total, Extent, Factor
  <2> QED
    BY <2>1, <2>5, <2>6, <2>7 DEF Filed
<1> QED
  BY <1>3, <1>4, PlaceStep DEF Moves

LEMMA ReadStopsPlace ==
  ASSUME IInv, RunInv, PlaceInv, ReadStops
  PROVE  PlaceInv'
<1>1. PICK p \in 0 .. Limit, h \in Nat : Spot(p, h) /\ Numbered(p) /\ Room(p)
  BY DEF PlaceInv
<1>2. SliceTypeOK /\ Placed /\ Ready /\ p \in Nat /\ cube \in Cubes
  BY BoundsAssumption DEF IInv, SliceTypeOK
<1>3. PICK t : t = TurnedNow
  OBVIOUS
<1>4. t \in Slices /\ ~ AtEnd
  BY <1>2, <1>3, Turning, CubeFacts DEF ReadStops, Positive
<1>5. PICK n \in Nat : n = 0
  OBVIOUS
<1>6. TurnedToc \in Nat
  BY <1>2, Turning
<1>7. UNCHANGED <<cube, trace_bias, file, LineTrc>> /\ call' = Idle /\ Pass(t, n) /\ slice_now' = t
  BY <1>3, <1>5 DEF ReadStops, Return
<1>8. slice_toc' = TurnedToc - n /\ n <= TurnedToc
  BY <1>5, <1>6 DEF ReadStops
<1>9. PICK g \in Nat : TurnedSpot(p, g)
  BY <1>1, <1>2, <1>4, TurnSpot
<1>10. Spot(p + n, g)'
  BY <1>2, <1>3, <1>4, <1>7, <1>8, <1>9, PassSpot
<1>11. p + n = p
  BY <1>2, <1>5
<1>12. Spot(p, g)'
  BY <1>10, <1>11
<1>13. Numbered(p)' /\ Room(p)' /\ Filed'
  BY <1>1, <1>7, SameNumber, NoWrite, SameFiled DEF Idle, PlaceInv
<1> QED
  BY <1>12, <1>13, PlaceStep

LEMMA CallWritePlace ==
  ASSUME IInv, RunInv, Adjacent, PlaceInv, CallWrite
  PROVE  PlaceInv'
<1>1. PICK p \in 0 .. Limit, h \in Nat : Spot(p, h) /\ Numbered(p) /\ Room(p)
  BY DEF PlaceInv
<1>2. Place = p
  BY <1>1, SpotIsPlace DEF IInv
<1>3. UNCHANGED <<cube, trace_bias, file, pos, deseek, slice_now, slice_toc, LineTrc>>
  BY DEF CallWrite
<1>4. Spot(p, h)' /\ Numbered(p)' /\ Filed'
  BY <1>1, <1>3, SameSpot, SameNumber, SameFiled DEF PlaceInv
<1>5. PICK n \in 1 .. MaxCount : /\ Place + n * cube.width <= Total
                                 /\ call' = [op |-> "write", left |-> n]
  BY DEF CallWrite
<1>6. Room(p)'
  <2>1. Total' = Total
    BY <1>3 DEF Total, Extent, Factor
  <2>2. p + call'.left * cube.width <= Total
    BY <1>2, <1>5
  <2> QED
    BY <1>3, <2>1, <2>2 DEF Room
<1> QED
  BY <1>4, <1>6, PlaceStep

(* Every step keeps the position and what is counted up to it.             *)
LEMMA PlaceInvStep ==
  ASSUME NoBack, Adjacent, Fitting, Tracewise,
         IInv, Kept, RunInv, PlaceInv, [SliceNext]_sliceVars
  PROVE  PlaceInv'
<1>1. SliceTypeOK /\ Placed /\ Ready /\ cube \in Cubes
  BY DEF IInv, SliceTypeOK
<1>2. CASE CallRead
  <2>1. call'.op = "read"
    BY <1>2 DEF CallRead
  <2>2. UNCHANGED <<cube, trace_bias, file, pos, deseek, slice_now, slice_toc, LineTrc>>
    BY <1>2 DEF CallRead
  <2> QED
    BY <2>1, <2>2, StillPlace
<1>3. CASE ReadChunk
  BY <1>1, <1>3, ReadChunkPlace
<1>4. CASE ReadReturns
  <2>1. UNCHANGED <<cube, trace_bias, file, pos, deseek, LineTrc>> /\ Return
    BY <1>4 DEF ReadReturns
  <2>2. CASE UNCHANGED <<slice_now, slice_toc>>
    <3>1. call'.op # "write"
      BY <2>1 DEF Return, Idle
    <3> QED
      BY <2>1, <2>2, <3>1, StillPlace
  <2>3. CASE ~ AtEnd /\ slice_now' = TurnedNow /\ slice_toc' = TurnedToc
    BY <1>1, <2>1, <2>3, TurnedPlace
  <2> QED
    BY <1>4, <2>2, <2>3 DEF ReadReturns
<1>5. CASE ReadStops
  BY <1>5, ReadStopsPlace
<1>6. CASE CallWrite
  BY <1>6, CallWritePlace
<1>7. CASE WriteChunk
  BY <1>7, WriteChunkPlace
<1>8. CASE WriteReturns
  <2>1. UNCHANGED <<cube, trace_bias, file, pos, deseek, LineTrc>> /\ Return /\ call.op = "write"
    BY <1>8 DEF WriteReturns
  <2>2. CASE UNCHANGED <<slice_now, slice_toc>>
    <3>1. call'.op # "write"
      BY <2>1 DEF Return, Idle
    <3> QED
      BY <2>1, <2>2, <3>1, StillPlace
  <2>3. CASE call.left > 0 /\ slice_now' = TurnedNow /\ slice_toc' = TurnedToc
    <3>1. ~ AtEnd
      BY <1>1, <2>1, <2>3, WriteNotAtEnd
    <3> QED
      BY <1>1, <2>1, <2>3, <3>1, TurnedPlace
  <2> QED
    BY <1>8, <2>2, <2>3 DEF WriteReturns
<1>9. CASE SeekSet
  <2>1. UNCHANGED <<cube, trace_bias, file, call>> /\ call = Idle
    BY <1>9 DEF SeekSet, MaySeek, Kept
  <2>2. PICK offset, p : Reach("set", offset, p)
    BY <1>9 DEF SeekSet
  <2> QED
    BY <1>1, <2>1, <2>2, ReachPlace
<1>10. CASE SeekEnd
  <2>1. UNCHANGED <<cube, trace_bias, file, call>> /\ call = Idle
    BY <1>10 DEF SeekEnd, MaySeek, Kept
  <2>2. PICK offset, p : Reach("end", offset, p)
    BY <1>10 DEF SeekEnd
  <2> QED
    BY <1>1, <2>1, <2>2, ReachPlace
<1>11. CASE SeekCur
  <2>1. UNCHANGED <<cube, trace_bias, file, call>> /\ call = Idle
    BY <1>11 DEF SeekCur, MaySeek, Kept
  <2>2. CASE \E offset, p : Reach("cur", offset, p)
    BY <1>1, <2>1, <2>2, ReachPlace
  <2>3. CASE \E p : p \in 0 .. Limit /\ MoveTo(p)
    BY <1>1, <2>1, <2>3, MovePlace DEF PlaceInv
  <2>4. CASE UNCHANGED <<pos, deseek, slice_now, slice_toc, LineTrc>>
    BY <2>1, <2>4, StillPlace
  <2>5. ~ cube.back
    BY <1>1 DEF NoBack
  <2> QED
    BY <1>11, <2>2, <2>3, <2>4, <2>5 DEF SeekCur
<1>12. CASE UNCHANGED sliceVars
  BY <1>12, StillPlace DEF sliceVars
<1> QED
  BY <1>2, <1>3, <1>4, <1>5, <1>6, <1>7, <1>8, <1>9, <1>10, <1>11, <1>12 DEF SliceNext

-----------------------------------------------------------------------------
(* The end of the data                                                     *)

(* Only cubes that are there are read; beyond the last slice, the position *)
(* is not where the cube ends: ddsSeekSlice puts that to the last slice.   *)
Beyond ==
  /\ call.op = "read" => ~ cube.fresh
  /\ slice_now \notin Slices => slice_now > slice_max \/ slice_toc < slice_tic

LEMMA MoveBeyond ==
  ASSUME SliceTypeOK, Adjacent, UNCHANGED <<cube, call>>, Beyond, NEW p \in Nat, MoveTo(p)
  PROVE  Beyond'
<1> DEFINE last == SliceOf(p) = slice_max /\ OffsetOf(p) = 0
<1>1. PICK c, b, k, o : c = slice_tic /\ b = slice_max /\ k = SliceOf(p) /\ o = OffsetOf(p)
  OBVIOUS
<1>2. /\ c \in Positive /\ c \in Nat /\ b \in Nat /\ b >= 1 /\ Slices = 0 .. b - 1
      /\ k \in Nat /\ o \in Nat
  BY <1>1, Units, Target DEF SliceTypeOK
<1>3. Slices' = Slices /\ slice_tic' = slice_tic /\ slice_max' = slice_max
  BY SameCube
<1>4. o % c \in 0 .. c - 1
  BY <1>2, Division
<1>5. CASE k = b /\ o = 0
  <2>1. slice_now' = b - 1
    BY <1>1, <1>5 DEF MoveTo
  <2> QED
    BY <1>2, <1>3, <2>1 DEF Beyond
<1>6. CASE ~ (k = b /\ o = 0)
  <2>1. slice_now' = k /\ slice_toc' = c - (o % c)
    BY <1>1, <1>6 DEF MoveTo
  <2>2. CASE k < b
    BY <1>2, <1>3, <2>1, <2>2 DEF Beyond
  <2>3. CASE k > b
    BY <1>1, <1>2, <1>3, <2>1, <2>3 DEF Beyond
  <2>4. CASE k = b
    <3>1. PICK h \in Nat, r \in 0 .. slice_tic - 1 :
             /\ p = slice_tic * (slice_max * h + SliceOf(p)) + r
             /\ OffsetOf(p) = slice_tic * h + r
             /\ Highest \in Sliced => h = 0
             /\ Highest \notin Sliced => SliceOf(p) < slice_max
      BY PlaceParts DEF SliceTypeOK
    <3>2. h = 0 /\ o = c * 0 + r /\ r \in 0 .. c - 1
      BY <1>1, <1>2, <2>4, <3>1
    <3>3. o = r
      BY <1>2, <3>2
    <3>4. o = c * 0 + o /\ o \in 0 .. c - 1
      BY <1>2, <3>2, <3>3
    <3>5. o % c = o
      BY <1>2, <3>4, Quotient
    <3>6. c - (o % c) < c
      BY <1>2, <1>6, <2>4, <3>5
    <3> QED
      BY <1>1, <1>3, <2>1, <3>6 DEF Beyond
  <2> QED
    BY <1>2, <2>2, <2>3, <2>4
<1> QED
  BY <1>5, <1>6

LEMMA StillBeyond ==
  ASSUME Beyond, UNCHANGED <<cube, slice_now, slice_toc>>,
         call'.op = "read" => call.op = "read" \/ ~ cube.fresh
  PROVE  Beyond'
BY SameCube DEF Beyond

LEMMA TurnedBeyond ==
  ASSUME SliceTypeOK, Placed, Ready, Beyond, cube' = cube,
         slice_now' = TurnedNow, slice_toc' = TurnedToc,
         call'.op = "read" => call.op = "read"
  PROVE  Beyond'
<1>1. TurnedNow \notin Slices => TurnedNow = slice_now /\ TurnedToc = slice_toc
  BY Turning
<1> QED
  BY <1>1, SameCube DEF Beyond

LEMMA MovedBeyond ==
  ASSUME SliceTypeOK, Beyond, cube' = cube, NEW t \in Slices, NEW n, Moved(t, n)
  PROVE  Beyond'
<1>1. call'.op = call.op
  BY DEF Moved, SliceTypeOK
<1>2. slice_now' \in Slices'
  BY SameCube DEF Moved
<1> QED
  BY <1>1, <1>2 DEF Beyond

LEMMA BeyondStep ==
  ASSUME NoBack, Adjacent, IInv, Beyond, [SliceNext]_sliceVars
  PROVE  Beyond'
<1>1. SliceTypeOK /\ Placed /\ Ready /\ WriteOnSlice /\ cube \in Cubes
  BY DEF IInv, SliceTypeOK
<1>2. CASE CallRead
  BY <1>2, StillBeyond DEF CallRead
<1>3. CASE ReadChunk
  <2>1. PICK t : t = TurnedNow
    OBVIOUS
  <2>2. t \in Slices
    BY <1>1, <1>3, <2>1, Turning, CubeFacts DEF ReadChunk, Positive
  <2>3. PICK n : Moved(t, n)
    BY <1>3, <2>1 DEF ReadChunk
  <2>4. cube' = cube
    BY <1>3 DEF ReadChunk
  <2> QED
    BY <1>1, <2>2, <2>3, <2>4, MovedBeyond
<1>4. CASE ReadReturns \/ WriteReturns
  <2>1. cube' = cube /\ call'.op = "none"
    BY <1>4 DEF ReadReturns, WriteReturns, Return, Idle
  <2>2. CASE UNCHANGED <<slice_now, slice_toc>>
    BY <2>1, <2>2, StillBeyond
  <2>3. CASE slice_now' = TurnedNow /\ slice_toc' = TurnedToc
    BY <1>1, <2>1, <2>3, TurnedBeyond
  <2> QED
    BY <1>4, <2>2, <2>3 DEF ReadReturns, WriteReturns
<1>5. CASE ReadStops
  <2>1. /\ cube' = cube /\ call'.op = "none"
        /\ slice_now' = TurnedNow /\ slice_toc' = TurnedToc
    BY <1>5 DEF ReadStops, Return, Idle
  <2> QED
    BY <1>1, <2>1, TurnedBeyond
<1>6. CASE CallWrite
  <2>1. call'.op = "write"
    BY <1>6 DEF CallWrite
  <2> QED
    BY <1>6, <2>1, StillBeyond DEF CallWrite
<1>7. CASE WriteChunk
  <2>1. PICK t : t = TurnedNow
    OBVIOUS
  <2>2. t \in Slices
    BY <1>1, <1>7, <2>1 DEF WriteOnSlice, WriteChunk
  <2>3. WriteSlice = t
    <3>1. TurnedNow < slice_max
      BY <1>1, <2>1, <2>2, CubeFacts DEF Positive
    <3> QED
      BY <2>1, <3>1 DEF WriteSlice
  <2>4. PICK n : Moved(t, n)
    BY <1>7, <2>3 DEF WriteChunk
  <2>5. cube' = cube
    BY <1>7 DEF WriteChunk
  <2> QED
    BY <1>1, <2>2, <2>4, <2>5, MovedBeyond
<1>8. CASE SeekSet \/ SeekEnd \/ SeekCur
  <2>1. UNCHANGED <<cube, call>>
    BY <1>8 DEF SeekSet, SeekEnd, SeekCur
  <2>2. CASE \E p : p \in 0 .. Limit /\ MoveTo(p)
    <3>1. PICK p \in Nat : MoveTo(p)
      BY <2>2, BoundsAssumption
    <3> QED
      BY <1>1, <2>1, <3>1, MoveBeyond
  <2>3. CASE UNCHANGED <<pos, deseek, slice_now, slice_toc, LineTrc>>
    BY <2>1, <2>3, StillBeyond
  <2>4. ~ cube.back
    BY <1>1 DEF NoBack
  <2> QED
    BY <1>8, <2>2, <2>3, <2>4 DEF SeekSet, SeekEnd, SeekCur, Reach
<1>9. CASE UNCHANGED sliceVars
  BY <1>9, StillBeyond DEF sliceVars
<1> QED
  BY <1>2, <1>3, <1>4, <1>5, <1>6, <1>7, <1>8, <1>9 DEF SliceNext

(* A file that has nothing for the next element has nothing at all: runs   *)
(* end with whole elements, or the call has not come here.                 *)
LEMMA FileEnded ==
  ASSUME SliceTypeOK, Placed, Ready, Adjacent, Filed, ~ cube.fresh,
         NEW p \in Nat, NEW g \in Nat, TurnedSpot(p, g),
         NEW t \in Slices, t = TurnedNow,
         ~ Misaligned(TurnedToc), call.left > 0, Available(t) = 0
  PROVE  Total <= p
<1>1. PICK c, b : c = slice_tic /\ b = slice_max
  OBVIOUS
<1>2. /\ c \in Positive /\ c \in Nat /\ b \in Positive /\ b \in Nat
      /\ cube \in Cubes /\ file \in [Slices -> Seq(Int)]
  BY <1>1, Units DEF SliceTypeOK
<1>3. PICK m \in Positive : Total \div slice_max = c * m
  BY <1>1, <1>2, Complete
<1>4. m \in Nat /\ c * m \in Nat /\ Total \in Nat
  BY <1>2, <1>3, Product, CubeFacts DEF Positive
<1>5. TurnedToc \in Positive /\ TurnedToc \in Nat /\ Offset(t) \in Nat
  BY Turning DEF Positive
<1>6. Offset(t) + TurnedToc = c * (g + 1)
  BY <1>1 DEF TurnedSpot
<1>7. cube.width <= TurnedToc /\ cube.width \in Positive /\ cube.width \in Nat
  BY <1>2, <1>5, WantSome, CubeType DEF Positive
<1>8. Len(file[t]) = c * m
  BY <1>3 DEF Filed
<1>13. At(t) = Offset(t)
  BY AtOffset
<1>9. c * m <= Offset(t)
  <2>1. SUFFICES ASSUME Offset(t) < c * m
                 PROVE  FALSE
    BY <1>4, <1>5
  <2>2. g < m
    <3>1. SUFFICES ASSUME m <= g
                   PROVE  FALSE
      BY <1>4
    <3>2. m * c <= g * c
      BY <1>2, <1>4, <3>1, Monotone
    <3>3. c * m <= c * g /\ c * g \in Nat /\ c * (g + 1) = c * g + c
      BY <1>2, <1>4, <3>2
    <3>4. TurnedToc <= c
      BY <1>1, Turning
    <3>5. PICK k \in Nat : k = c * g
      BY <3>3
    <3>6. Offset(t) + TurnedToc = k + c
      BY <1>6, <3>3, <3>5
    <3>7. k <= Offset(t)
      BY <1>2, <1>5, <3>4, <3>6
    <3>8. c * m <= k
      BY <3>3, <3>5
    <3> QED
      BY <1>4, <1>5, <2>1, <3>7, <3>8
  <2>3. g + 1 \in Nat /\ g + 1 <= m
    BY <1>4, <2>2
  <2>4. (g + 1) * c <= m * c
    BY <1>2, <1>4, <2>3, Monotone
  <2>5. c * (g + 1) <= c * m
    BY <1>2, <1>4, <2>4
  <2>6. PICK rest \in Nat : rest = c * m - Offset(t)
    BY <1>4, <1>5, <2>1
  <2>7. cube.width <= rest
    <3>1. c * (g + 1) \in Nat
      BY <1>5, <1>6
    <3> QED
      BY <1>4, <1>5, <1>6, <1>7, <2>5, <2>6, <3>1
  <2>8. rest \div cube.width = 0
    <3>1. ~ (Offset(t) > Len(file[t]))
      BY <1>4, <1>5, <1>8, <2>1
    <3> QED
      BY <1>8, <1>13, <2>6, <3>1 DEF Available
  <2>9. rest < cube.width
    <3>1. rest = cube.width * (rest \div cube.width) + (rest % cube.width)
      BY <1>7, Division
    <3>2. rest % cube.width \in 0 .. cube.width - 1
      BY <1>7, Division
    <3>3. cube.width * 0 = 0
      BY <1>7
    <3>4. rest = rest % cube.width
      BY <1>7, <2>8, <3>1, <3>2, <3>3
    <3> QED
      BY <1>7, <3>2, <3>4
  <2> QED
    BY <1>7, <2>7, <2>9
<1>10. SUFFICES ASSUME p < Total
                PROVE  FALSE
  BY <1>4
<1>11. p + 1 <= Total /\ 1 \in Nat /\ 1 <= TurnedToc
  BY <1>4, <1>5, <1>10 DEF Positive
<1>12. Offset(t) + 1 <= Total \div slice_max
  BY <1>11, InRange
<1> QED
  BY <1>3, <1>4, <1>5, <1>9, <1>12

(* Beyond the last slice the position is behind the end of the cube.       *)
LEMMA BehindCube ==
  ASSUME SliceTypeOK, Placed, Ready, Adjacent, Beyond,
         NEW p \in Nat, NEW g \in Nat, TurnedSpot(p, g), TurnedNow >= slice_max
  PROVE  Total < p
<1>1. PICK c, b, t : c = slice_tic /\ b = slice_max /\ t = TurnedNow
  OBVIOUS
<1>2. /\ c \in Positive /\ c \in Nat /\ c >= 1 /\ b \in Nat
      /\ Slices = 0 .. b - 1 /\ cube \in Cubes
  BY <1>1, Units DEF SliceTypeOK
<1>3. t \notin Slices /\ t \in Nat /\ TurnedToc \in 1 .. c /\ t >= b
  BY <1>1, <1>2, Turning
<1>4. t = slice_now /\ TurnedToc = slice_toc
  BY <1>1, <1>3, Turning
<1>5. Highest \in Sliced /\ g = 0 /\ p = c * (b * g + t + 1) - TurnedToc
  BY <1>1, <1>3 DEF TurnedSpot
<1>6. Total = c * b
  <2>1. PICK m \in Positive : Total = c * (b * m) /\ (Highest \in Sliced => m = 1)
    BY <1>1, <1>2, Complete
  <2> QED
    BY <1>2, <1>5, <2>1
<1>7. t > b \/ TurnedToc < c
  BY <1>1, <1>3, <1>4 DEF Beyond
<1>8. PICK d \in Nat : d = t - b
  BY <1>2, <1>3
<1>9. p = c * b + c * d + (c - TurnedToc)
  <2>1. p = c * (b * 0 + t + 1) - TurnedToc
    BY <1>5
  <2>2. b * 0 + t + 1 = b + d + 1
    BY <1>2, <1>3, <1>8
  <2>3. c * (b + d + 1) = c * b + c * d + c
    BY <1>2
  <2>4. c * b \in Nat /\ c * d \in Nat
    BY <1>2, Product
  <2> QED
    BY <1>2, <1>3, <2>1, <2>2, <2>3, <2>4
<1>10. c * b \in Nat /\ c * d \in Nat
  BY <1>2, Product
<1>11. CASE TurnedToc < c
  BY <1>2, <1>3, <1>6, <1>9, <1>10, <1>11
<1>12. CASE t > b
  <2>1. d \in Positive
    BY <1>2, <1>3, <1>8, <1>12 DEF Positive
  <2>2. c * d \in Positive
    BY <1>2, <2>1, PositiveProduct
  <2> QED
    BY <1>2, <1>3, <1>6, <1>9, <1>10, <2>2 DEF Positive
<1> QED
  BY <1>7, <1>11, <1>12

(* A call that ends early ends with the data, or at the end of a run that  *)
(* would break an element.                                                 *)
LEMMA EndStep ==
  ASSUME Adjacent, IInv, RunInv, PlaceInv, Beyond, SliceNext,
         call # Idle, call' = Idle, call.left > 0
  PROVE  \/ call.op = "read" /\ Place \notin DOMAIN Content
         \/ Misaligned(TurnedToc)
<1>1. PICK p \in 0 .. Limit, h \in Nat : Spot(p, h) /\ Numbered(p) /\ Room(p)
  BY DEF PlaceInv
<1>2. /\ SliceTypeOK /\ Placed /\ Ready /\ cube \in Cubes /\ p \in Nat /\ Filed
  BY BoundsAssumption DEF IInv, SliceTypeOK, PlaceInv
<1>3. Place = p
  BY <1>1, <1>2, SpotIsPlace
<1>4. Total \in Nat /\ (Total <= p => Place \notin DOMAIN Content)
  BY <1>2, <1>3, CubeFacts DEF Content, Positive
<1>5. CASE ReadReturns
  <2>1. CASE AtEnd
    <3>1. p = Total
      BY <1>3, <2>1 DEF Place
    <3> QED
      BY <1>4, <1>5, <3>1 DEF ReadReturns
  <2>2. CASE Misaligned(TurnedToc)
    BY <2>2
  <2>3. CASE ~ AtEnd /\ TurnedNow >= slice_max
    <3>1. PICK g \in Nat : TurnedSpot(p, g)
      BY <1>1, <1>2, <2>3, TurnSpot
    <3>2. Total < p
      BY <1>2, <2>3, <3>1, BehindCube
    <3> QED
      BY <1>2, <1>4, <1>5, <3>2 DEF ReadReturns
  <2> QED
    BY <1>2, <1>5, <2>1, <2>2, <2>3 DEF ReadReturns, SliceTypeOK
<1>6. CASE ReadStops
  <2>1. PICK t : t = TurnedNow
    OBVIOUS
  <2>2. t \in Slices /\ ~ AtEnd
    BY <1>2, <1>6, <2>1, Turning, CubeFacts DEF ReadStops, Positive
  <2>3. PICK g \in Nat : TurnedSpot(p, g)
    BY <1>1, <1>2, <2>2, TurnSpot
  <2>4. call.op = "read" /\ ~ Misaligned(TurnedToc) /\ Available(t) = 0
    BY <1>6, <2>1 DEF ReadStops
  <2>5. ~ cube.fresh
    BY <2>4 DEF Beyond
  <2>6. Total <= p
    BY <1>2, <2>1, <2>2, <2>3, <2>4, <2>5, FileEnded
  <2> QED
    BY <1>4, <2>4, <2>6
<1>7. CASE WriteReturns
  <2>1. ~ WriteAtEnd
    BY <1>2, <1>7, WriteNotAtEnd DEF WriteReturns, WriteAtEnd
  <2> QED
    BY <1>2, <1>7, <2>1 DEF WriteReturns, SliceTypeOK
<1>8. CASE ReadChunk \/ WriteChunk
  <2>1. call'.op = call.op /\ call.op # "none"
    BY <1>2, <1>8 DEF ReadChunk, WriteChunk, Moved, SliceTypeOK
  <2> QED
    BY <2>1 DEF Idle
<1> QED
  BY <1>5, <1>6, <1>7, <1>8 DEF SliceNext, CallRead, CallWrite, SeekSet, SeekEnd, SeekCur, MaySeek

LEMMA InitBeyond ==
  ASSUME SliceInit
  PROVE  Beyond
<1>1. cube \in Cubes /\ slice_now = 0 /\ call.op = "none"
  BY DEF SliceInit
<1>2. 0 \in Slices
  BY <1>1, Units
<1> QED
  BY <1>1, <1>2 DEF Beyond

(* All that is proved of a sliced binary at once.                          *)
SolidInv == SliceInv /\ RunInv /\ PlaceInv /\ Beyond

LEMMA SolidParts ==
  ASSUME SolidInv
  PROVE  /\ IInv /\ Starting /\ RunInv /\ PlaceInv /\ Beyond
         /\ SliceTypeOK /\ Placed /\ Ready
BY DEF SolidInv, SliceInv, IInv

LEMMA SolidKept ==
  ASSUME SolidInv, [SliceNext]_sliceVars
  PROVE  Kept
BY StartKept DEF SolidInv

(* Between any two calls the streams of the slices are at the ends of      *)
(* whole runs, or waiting for their seek beside one that is, and together  *)
(* with slice_now and slice_toc they stand for one place of the cube (what *)
(* readslice.c, writeslice.c, writeslicet.c and seekslice.c keep up).      *)
THEOREM SolidInvariant ==
  ASSUME NoBack, NoEarly, Adjacent, Fitting, Tracewise
  PROVE  SliceSpec => []SolidInv
<1>1. SliceInit => SolidInv
  BY InitReady, StartInit, InitRuns, InitPlace, InitBeyond DEF SolidInv, SliceInv
<1>2. SolidInv /\ [SliceNext]_sliceVars => SolidInv'
  BY StartKept, SliceStep, RunStep, PlaceInvStep, BeyondStep DEF SolidInv, SliceInv
<1> QED
  BY <1>1, <1>2, PTL DEF SliceSpec

(* Whatever is read, written and sought, the number of the next trace is   *)
(* that of the trace at the position: counting in the transfers, slices    *)
(* that are positioned late, and the arithmetic of ddsSeekSlice that turns *)
(* places into slices and back come to the same (LineTrc in readslice.c,   *)
(* writeslicet.c and seekslice.c; ddsCubeInc).  No slice is moved before   *)
(* its first write, which takes the start of its traces from where it      *)
(* stands (NoEarly; trace_bias in c_write.c).                              *)
THEOREM TracesOnPlace ==
  ASSUME NoBack, NoEarly, Adjacent, Fitting, Tracewise
  PROVE  SliceSpec => []LineTrcOnPlace
<1>1. SolidInv => LineTrcOnPlace
  <2> SUFFICES ASSUME IInv, RunInv, PlaceInv
               PROVE  LineTrcOnPlace
    BY SolidParts
  <2>1. PICK p \in 0 .. Limit, h \in Nat : Spot(p, h) /\ Numbered(p)
    BY DEF PlaceInv
  <2>2. Place = p
    BY <2>1, SpotIsPlace DEF IInv
  <2> QED
    BY <2>1, <2>2 DEF LineTrcOnPlace, Numbered
<1> QED
  BY <1>1, SolidInvariant, PTL

(* A call on a sliced binary returns less than was asked for only where    *)
(* the cube ends, however it is spread over files, or at the end of a run  *)
(* that would break an element: no slice ends a call because a file that   *)
(* still has its part of the cube was thought to be at its end, or because *)
(* there is no slice to turn to (the return 0 at slice_max, and the break  *)
(* on an empty chunk, of ddsReadSlice; the check of the run in             *)
(* ddsWriteSliceT).                                                        *)
THEOREM CallsEndAtEnd ==
  ASSUME NoBack, NoEarly, Adjacent, Fitting, Tracewise
  PROVE  SliceSpec => EndsAtEnd
<1>1. SolidInv /\ [SliceNext]_sliceVars =>
        [call # Idle /\ call' = Idle /\ call.left > 0 =>
           \/ call.op = "read" /\ Place \notin DOMAIN Content
           \/ Misaligned(TurnedToc)]_sliceVars
  BY EndStep, SolidParts
<1> QED
  BY <1>1, SolidInvariant, PTL DEF SliceSpec, EndsAtEnd

-----------------------------------------------------------------------------
(* From a slice and an offset back to the place                            *)

LEMMA SmallMod ==
  ASSUME NEW a \in Nat, NEW b \in Positive, a < b
  PROVE  a % b = a
<1>1. b \in Nat /\ a \in 0 .. b - 1 /\ 0 \in Nat /\ a = b * 0 + a
  BY DEF Positive
<1> QED
  BY <1>1, Quotient

LEMMA LessQuotient ==
  ASSUME NEW a \in Nat, NEW b \in Positive, NEW c \in Positive, a < b * c
  PROVE  a \div b < c
<1>1. PICK q : q = a \div b
  OBVIOUS
<1>2. q \in Nat /\ a = b * q + (a % b) /\ a % b \in Nat /\ b \in Nat /\ c \in Nat
  BY <1>1, Division DEF Positive
<1>3. b * q \in Nat /\ b * c \in Nat
  BY <1>2, Product
<1>4. b * q < b * c
  BY <1>2, <1>3
<1>5. q < c
  BY <1>2, <1>4, Increasing
<1> QED
  BY <1>1, <1>5

(* What one axis adds to the number of a trace, from its slice and its     *)
(* place there.                                                            *)
AxisPart(s, v, r) ==
  Stripe(r) *
    (IF r \in Sliced THEN (s \div Extent(Sliced \cap (1 .. r - 1))) % cube.size[r]
     ELSE IF r = Highest THEN v \div Extent(Whole \cap (1 .. r - 1))
     ELSE (v \div Extent(Whole \cap (1 .. r - 1))) % cube.size[r])

LEMMA TraceBack ==
  ASSUME cube \in Cubes, Adjacent, NEW t \in Nat, FileNumber(t) < slice_max
  PROVE  AxisPart(FileNumber(t), FileTrace(t), 1)
           + AxisPart(FileNumber(t), FileTrace(t), 2)
           + AxisPart(FileNumber(t), FileTrace(t), 3) = t
<1>1. PICK x, y, z, q : /\ x = cube.size[1] /\ y = cube.size[2]
                        /\ z = cube.size[3] /\ q = cube.stroke
  OBVIOUS
<1>2. /\ x \in Nat /\ y \in Nat /\ z \in Nat
      /\ x \in Positive /\ y \in Positive /\ z \in Positive
      /\ x * y \in Positive /\ x * y \in Nat
  BY <1>1, Sizes, PositiveProduct DEF Positive
<1>3. PICK k, h, r, s : /\ k = t \div x /\ r = t % x
                        /\ h = t \div (x * y) /\ s = (t \div x) % y
  OBVIOUS
<1>4. /\ k \in Nat /\ r \in 0 .. x - 1 /\ s \in 0 .. y - 1 /\ h \in Nat
      /\ r \in Nat /\ s \in Nat
  <2>1. k \in Nat /\ r \in 0 .. x - 1
    BY <1>2, <1>3, Division
  <2>2. s \in 0 .. y - 1
    BY <1>2, <1>3, <2>1, Division
  <2> QED
    BY <1>2, <1>3, <2>1, <2>2, Division
<1>5. /\ k \div y = h /\ k % y = s /\ t % (x * y) = r + x * s
      /\ k = y * h + s /\ t = x * (y * h + s) + r
  <2>1. /\ (t \div x) \div y = t \div (x * y)
        /\ t % (x * y) = (t % x) + x * ((t \div x) % y)
        /\ t \div x = y * (t \div (x * y)) + ((t \div x) % y)
        /\ t = x * (y * (t \div (x * y)) + ((t \div x) % y)) + (t % x)
    BY <1>2, TwoSteps, ZenonT(30)
  <2> QED
    BY <1>3, <2>1, Zenon
<1>6. t = 1 * r + x * s + (x * y) * h
  BY <1>2, <1>4, <1>5
<1>7. /\ \A n \in Nat : n \div 1 = n /\ n % 1 = 0
      /\ r % x = r /\ s % y = s
  BY <1>2, <1>4, ByOne, SmallMod, SMTT(30)
<1>8. /\ Stripe(1) = 1 /\ Stripe(2) = x /\ Stripe(3) = x * y
      /\ Extent({}) = 1 /\ Extent({1}) = x /\ Extent({2}) = y
      /\ Extent({1, 2}) = x * y
  BY <1>1, Stripes, ExtentOf
<1>9. Highest = 3
  BY DEF Highest
<1>10. PICK n, v : n = FileNumber(t) /\ v = FileTrace(t)
  OBVIOUS
<1>11. /\ AxisPart(n, v, 1) = 1 * (IF 1 \in Sliced THEN (n \div 1) % x
                                   ELSE (v \div 1) % x)
       /\ AxisPart(n, v, 2) = x * (IF 2 \in Sliced
                                   THEN (n \div Extent(Sliced \cap {1})) % y
                                   ELSE (v \div Extent(Whole \cap {1})) % y)
       /\ AxisPart(n, v, 3) = (x * y) * (IF 3 \in Sliced
                                         THEN (n \div Extent(Sliced \cap {1, 2})) % z
                                         ELSE v \div Extent(Whole \cap {1, 2}))
  <2>1. 1 .. 1 - 1 = {} /\ 1 .. 2 - 1 = {1} /\ 1 .. 3 - 1 = {1, 2}
    OBVIOUS
  <2>2. Sliced \cap {} = {} /\ Whole \cap {} = {}
    OBVIOUS
  <2>3. AxisPart(n, v, 1) = 1 * (IF 1 \in Sliced THEN (n \div 1) % x
                                ELSE (v \div 1) % x)
    BY <1>1, <1>8, <1>9, <2>1, <2>2 DEF AxisPart
  <2>4. AxisPart(n, v, 2) = x * (IF 2 \in Sliced
                                   THEN (n \div Extent(Sliced \cap {1})) % y
                                   ELSE (v \div Extent(Whole \cap {1})) % y)
    BY <1>1, <1>8, <1>9, <2>1 DEF AxisPart
  <2>5. AxisPart(n, v, 3) = (x * y) * (IF 3 \in Sliced
                                         THEN (n \div Extent(Sliced \cap {1, 2})) % z
                                         ELSE v \div Extent(Whole \cap {1, 2}))
    BY <1>1, <1>8, <1>9, <2>1 DEF AxisPart
  <2> QED
    BY <2>3, <2>4, <2>5
<1>12. SUFFICES /\ AxisPart(n, v, 1) = 1 * r
                /\ AxisPart(n, v, 2) = x * s
                /\ AxisPart(n, v, 3) = (x * y) * h
  BY <1>6, <1>10
<1>13. CASE Sliced = {1}
  <2>1. Whole = {2, 3} /\ RunTraces = 1 /\ slice_max = x
    BY <1>1, <1>13, Shapes
  <2>2. n = r
    BY <1>3, <1>7, <1>9, <1>10, <1>13, <2>1 DEF FileNumber
  <2>3. v = k
    <3>1. 1 * x = x
      BY <1>2
    <3>2. v = 1 * (t \div (1 * x)) + (t % 1)
      BY <1>9, <1>10, <1>13, <2>1 DEF FileTrace
    <3> QED
      BY <1>3, <1>4, <1>7, <3>1, <3>2
  <2>4. AxisPart(n, v, 1) = 1 * ((n \div 1) % x)
    BY <1>11, <1>13
  <2>5. AxisPart(n, v, 2) = x * ((v \div 1) % y)
    <3>1. {2, 3} \cap {1} = {}
      OBVIOUS
    <3> QED
      BY <1>8, <1>11, <1>13, <2>1, <3>1
  <2>6. AxisPart(n, v, 3) = (x * y) * (v \div y)
    <3>1. {2, 3} \cap {1, 2} = {2}
      OBVIOUS
    <3> QED
      BY <1>8, <1>11, <1>13, <2>1, <3>1
  <2> QED
    BY <1>4, <1>5, <1>7, <2>2, <2>3, <2>4, <2>5, <2>6
<1>14. CASE Sliced = {2}
  <2>1. Whole = {1, 3} /\ RunTraces = x /\ slice_max = y
    BY <1>1, <1>14, Shapes
  <2>2. n = s
    BY <1>3, <1>9, <1>10, <1>14, <2>1 DEF FileNumber
  <2>3. v = x * h + r
    BY <1>3, <1>9, <1>10, <1>14, <2>1 DEF FileTrace
  <2>4. v \in Nat /\ v \div x = h /\ v % x = r
    <3>1. v \in Nat
      BY <1>2, <1>4, <2>3, Product
    <3> QED
      BY <1>2, <1>4, <2>3, <3>1, Quotient
  <2>5. AxisPart(n, v, 1) = 1 * ((v \div 1) % x)
    BY <1>11, <1>14
  <2>6. AxisPart(n, v, 2) = x * ((n \div 1) % y)
    <3>1. {2} \cap {1} = {}
      OBVIOUS
    <3> QED
      BY <1>8, <1>11, <1>14, <3>1
  <2>7. AxisPart(n, v, 3) = (x * y) * (v \div x)
    <3>1. {1, 3} \cap {1, 2} = {1}
      OBVIOUS
    <3> QED
      BY <1>8, <1>11, <1>14, <2>1, <3>1
  <2> QED
    BY <1>4, <1>7, <2>2, <2>4, <2>5, <2>6, <2>7
<1>15. CASE Sliced = {3}
  <2>1. Whole = {1, 2} /\ RunTraces = x * y /\ slice_max = z
    BY <1>1, <1>15, Shapes
  <2>2. n = h /\ h < z
    BY <1>3, <1>9, <1>10, <1>15, <2>1 DEF FileNumber
  <2>3. v = x * s + r
    <3>1. v = r + x * s
      BY <1>5, <1>9, <1>10, <1>15, <2>1 DEF FileTrace
    <3> QED
      BY <1>2, <1>4, <3>1
  <2>4. v \in Nat /\ v \div x = s /\ v % x = r
    <3>1. v \in Nat
      BY <1>2, <1>4, <2>3, Product
    <3> QED
      BY <1>2, <1>4, <2>3, <3>1, Quotient
  <2>5. h % z = h
    BY <1>2, <1>4, <2>2, SmallMod
  <2>6. AxisPart(n, v, 1) = 1 * ((v \div 1) % x)
    BY <1>11, <1>15
  <2>7. AxisPart(n, v, 2) = x * ((v \div x) % y)
    <3>1. {1, 2} \cap {1} = {1}
      OBVIOUS
    <3> QED
      BY <1>8, <1>11, <1>15, <2>1, <3>1
  <2>8. AxisPart(n, v, 3) = (x * y) * ((n \div 1) % z)
    <3>1. {3} \cap {1, 2} = {}
      OBVIOUS
    <3> QED
      BY <1>8, <1>11, <1>15, <3>1
  <2> QED
    BY <1>4, <1>7, <2>2, <2>4, <2>5, <2>6, <2>7, <2>8
<1>16. CASE Sliced = {1, 2}
  <2>1. Whole = {3} /\ RunTraces = 1 /\ slice_max = x * y
    BY <1>1, <1>16, Shapes
  <2>2. n = x * s + r
    <3>1. n = r + x * s
      BY <1>5, <1>7, <1>9, <1>10, <1>16, <2>1 DEF FileNumber
    <3> QED
      BY <1>2, <1>4, <3>1
  <2>3. n \in Nat /\ n \div x = s /\ n % x = r
    <3>1. n \in Nat
      BY <1>2, <1>4, <2>2, Product
    <3> QED
      BY <1>2, <1>4, <2>2, <3>1, Quotient
  <2>4. v = h
    <3>1. 1 * (x * y) = x * y
      BY <1>2
    <3>2. v = 1 * (t \div (1 * (x * y))) + (t % 1)
      BY <1>9, <1>10, <1>16, <2>1 DEF FileTrace
    <3> QED
      BY <1>3, <1>4, <1>7, <3>1, <3>2
  <2>5. AxisPart(n, v, 1) = 1 * ((n \div 1) % x)
    BY <1>11, <1>16
  <2>6. AxisPart(n, v, 2) = x * ((n \div x) % y)
    <3>1. {1, 2} \cap {1} = {1}
      OBVIOUS
    <3> QED
      BY <1>8, <1>11, <1>16, <3>1
  <2>7. AxisPart(n, v, 3) = (x * y) * (v \div 1)
    <3>1. {3} \cap {1, 2} = {}
      OBVIOUS
    <3> QED
      BY <1>8, <1>11, <1>16, <2>1, <3>1
  <2> QED
    BY <1>4, <1>7, <2>3, <2>4, <2>5, <2>6, <2>7
<1>17. CASE Sliced = {2, 3}
  <2>1. Whole = {1} /\ RunTraces = x /\ slice_max = y * z
    BY <1>1, <1>17, Shapes
  <2>2. n = k /\ v = r
    BY <1>3, <1>9, <1>10, <1>17, <2>1 DEF FileNumber, FileTrace
  <2>3. h < z
    BY <1>2, <1>4, <1>5, <1>10, <2>1, <2>2, LessQuotient
  <2>4. h % z = h
    BY <1>2, <1>4, <2>3, SmallMod
  <2>5. AxisPart(n, v, 1) = 1 * ((v \div 1) % x)
    BY <1>11, <1>17
  <2>6. AxisPart(n, v, 2) = x * ((n \div 1) % y)
    <3>1. {2, 3} \cap {1} = {}
      OBVIOUS
    <3> QED
      BY <1>8, <1>11, <1>17, <3>1
  <2>7. AxisPart(n, v, 3) = (x * y) * ((n \div y) % z)
    <3>1. {2, 3} \cap {1, 2} = {2}
      OBVIOUS
    <3> QED
      BY <1>8, <1>11, <1>17, <3>1
  <2> QED
    BY <1>4, <1>5, <1>7, <2>2, <2>4, <2>5, <2>6, <2>7
<1>18. CASE Sliced = {1, 2, 3}
  <2>1. Whole = {} /\ RunTraces = 1 /\ slice_max = x * y * z
    BY <1>1, <1>18, Shapes
  <2>2. n = t
    BY <1>7, <1>9, <1>10, <1>18, <2>1 DEF FileNumber
  <2>3. h < z
    BY <1>2, <1>3, <1>10, <2>1, <2>2, LessQuotient
  <2>4. h % z = h
    BY <1>2, <1>4, <2>3, SmallMod
  <2>5. AxisPart(n, v, 1) = 1 * ((n \div 1) % x)
    BY <1>11, <1>18
  <2>6. AxisPart(n, v, 2) = x * ((n \div x) % y)
    <3>1. {1, 2, 3} \cap {1} = {1}
      OBVIOUS
    <3> QED
      BY <1>8, <1>11, <1>18, <3>1
  <2>7. AxisPart(n, v, 3) = (x * y) * ((n \div (x * y)) % z)
    <3>1. {1, 2, 3} \cap {1, 2} = {1, 2}
      OBVIOUS
    <3> QED
      BY <1>8, <1>11, <1>18, <3>1
  <2> QED
    BY <1>3, <1>7, <2>2, <2>4, <2>5, <2>6, <2>7
<1>19. Sliced \in {{1}, {2}, {3}, {1, 2}, {2, 3}, {1, 2, 3}}
  BY DEF Adjacent, Sliced
<1> QED
  BY <1>13, <1>14, <1>15, <1>16, <1>17, <1>18, <1>19

(* ddsSeekSlice turns a place into a slice and an offset, and back.        *)
LEMMA PlaceBack ==
  ASSUME cube \in Cubes, Adjacent, NEW p \in Nat, SliceOf(p) < slice_max
  PROVE  PlaceOf(SliceOf(p), OffsetOf(p)) = p
<1>1. PICK q, t, n, v, o : /\ q = cube.stroke /\ t = p \div q
                           /\ n = FileNumber(t) /\ v = FileTrace(t)
                           /\ o = OffsetOf(p)
  OBVIOUS
<1>2. q \in Positive /\ q \in Nat
  BY <1>1, Sizes
<1>3. t \in Nat /\ p % q \in 0 .. q - 1 /\ p = q * t + (p % q)
  BY <1>1, <1>2, Division
<1>4. n = SliceOf(p) /\ o = q * v + (p % q)
  BY <1>1, UnitHome
<1>5. v \in Nat
  BY <1>1, <1>3, FileParts
<1>6. o \in Nat
  BY <1>1, Target
<1>7. o \div q = v /\ o % q = p % q
  BY <1>2, <1>3, <1>4, <1>5, <1>6, Quotient
<1>8. AxisPart(n, v, 1) + AxisPart(n, v, 2) + AxisPart(n, v, 3) = t
  BY <1>1, <1>3, <1>4, TraceBack
<1>9. PlaceOf(n, o) =
        (AxisPart(n, o \div q, 1) + AxisPart(n, o \div q, 2)
           + AxisPart(n, o \div q, 3)) * q + (o % q)
  <2>1. 1 \in Axes /\ 2 \in Axes /\ 3 \in Axes
    BY DEF Axes
  <2> QED
    BY <1>1, <2>1, Zenon DEF PlaceOf, AxisPart, Sum
<1>10. PlaceOf(n, o) = t * q + (p % q)
  BY <1>7, <1>8, <1>9
<1>11. t * q = q * t
  BY <1>2, <1>3
<1> QED
  BY <1>1, <1>3, <1>4, <1>10, <1>11

(* The places of the run that is left are in the slice one after the other.*)
LEMMA RunHome ==
  ASSUME SliceTypeOK, Placed, Ready, Adjacent,
         NEW p \in Nat, NEW g \in Nat, TurnedSpot(p, g),
         NEW t \in Slices, t = TurnedNow, NEW j \in Nat, j < TurnedToc
  PROVE  SliceOf(p + j) = t /\ OffsetOf(p + j) = Offset(t) + j
<1>1. PICK c, b : c = slice_tic /\ b = slice_max
  OBVIOUS
<1>2. /\ c \in Positive /\ c \in Nat /\ b \in Positive /\ b \in Nat
      /\ cube \in Cubes /\ t \in Nat /\ t < b
  BY <1>1, Units DEF SliceTypeOK
<1>3. /\ TurnedToc \in 1 .. c
      /\ p = c * (b * g + t + 1) - TurnedToc
      /\ Offset(t) + TurnedToc = c * (g + 1) /\ Offset(t) \in Nat
      /\ Highest \in Sliced => g = 0
  BY <1>1, Turning DEF TurnedSpot
<1>4. PICK r : r = c - TurnedToc + j
  OBVIOUS
<1>5. r \in 0 .. c - 1
  BY <1>2, <1>3, <1>4
<1>6. c * g \in Nat /\ c * (b * g + t) \in Nat
  BY <1>2, Product
<1>7. p + j = c * (b * g + t) + r
  <2>1. c * (b * g + t + 1) = c * (b * g + t) + c
    BY <1>2
  <2> QED
    BY <1>2, <1>3, <1>4, <1>6, <2>1
<1>8. Offset(t) + j = c * g + r
  <2>1. c * (g + 1) = c * g + c
    BY <1>2
  <2> QED
    BY <1>2, <1>3, <1>4, <1>6, <2>1
<1>9. /\ r \in 0 .. slice_tic - 1 /\ p + j = slice_tic * (slice_max * g + t) + r
      /\ Highest \notin Sliced => t < slice_max
      /\ Highest \in Sliced => g = 0
  BY <1>1, <1>2, <1>3, <1>5, <1>7
<1>10. SliceOf(p + j) = t /\ OffsetOf(p + j) = slice_tic * g + r
  BY <1>2, <1>9, AtPlace
<1> QED
  BY <1>1, <1>8, <1>10

(* A place of the cube is in one of its files, within their part of it.    *)
LEMMA InFile ==
  ASSUME cube \in Cubes, Adjacent, NEW p \in Nat, p < Total
  PROVE  SliceOf(p) \in Slices /\ OffsetOf(p) < Total \div slice_max
<1>1. PICK c, b, n : c = slice_tic /\ b = slice_max /\ n = SliceOf(p)
  OBVIOUS
<1>2. /\ c \in Positive /\ c \in Nat /\ b \in Positive /\ b \in Nat
      /\ Slices = 0 .. b - 1
  BY <1>1, Units
<1>3. PICK m \in Positive : /\ Total = c * (b * m)
                            /\ Total \div slice_max = c * m
                            /\ Highest \in Sliced => m = 1
  BY <1>1, Complete
<1>4. m \in Nat
  BY DEF Positive
<1>5. PICK h \in Nat, r \in 0 .. c - 1 :
           /\ p = c * (b * h + n) + r
           /\ OffsetOf(p) = c * h + r
           /\ Highest \in Sliced => h = 0
           /\ Highest \notin Sliced => n < b
           /\ n \in Nat
  BY <1>1, PlaceParts
<1>6. PICK k \in Nat : k = b * h + n
  BY <1>2, <1>5, Product
<1>7. PICK w \in Nat : w = b * m
  BY <1>2, <1>4, Product
<1>8. c * k \in Nat /\ c * w \in Nat /\ c * h \in Nat /\ c * m \in Nat
      /\ b * h \in Nat /\ r \in Nat
  BY <1>2, <1>4, Product
<1>9. c * k < c * w
  BY <1>3, <1>5, <1>6, <1>7, <1>8
<1>10. k < w
  BY <1>2, <1>9, Increasing
<1>11. h < m
  <2>1. b * h < b * m
    BY <1>5, <1>6, <1>7, <1>8, <1>10
  <2> QED
    BY <1>2, <1>4, <2>1, Increasing
<1>12. n < b
  <2>1. CASE Highest \in Sliced
    <3>1. h = 0 /\ m = 1 /\ b * 0 = 0 /\ b * 1 = b
      BY <1>2, <1>3, <1>5, <2>1
    <3> QED
      BY <1>2, <1>5, <1>6, <1>7, <1>10, <3>1
  <2>2. CASE Highest \notin Sliced
    BY <1>5, <2>2
  <2> QED
    BY <2>1, <2>2
<1>13. c * h + c <= c * m
  <2>1. h + 1 \in Nat /\ h + 1 <= m
    BY <1>4, <1>11
  <2>2. (h + 1) * c <= m * c
    BY <1>2, <1>4, <2>1, Monotone
  <2> QED
    BY <1>2, <1>4, <2>2
<1>14. OffsetOf(p) < c * m
  BY <1>2, <1>5, <1>8, <1>13
<1> QED
  BY <1>1, <1>2, <1>3, <1>5, <1>12, <1>14

(* What there is of the cube in some files.                                *)
ContentOf(f) ==
  [p \in {q \in 0 .. Total - 1 : Home[cube][q].offset < Len(f[Home[cube][q].slice])} |->
     f[Home[cube][p].slice][Home[cube][p].offset + 1]]

LEMMA ContentParts ==
  ASSUME cube \in Cubes, Adjacent, Fitting, NEW f
  PROVE  /\ DOMAIN ContentOf(f) = {p \in 0 .. Total - 1 : OffsetOf(p) < Len(f[SliceOf(p)])}
         /\ \A p \in DOMAIN ContentOf(f) : ContentOf(f)[p] = f[SliceOf(p)][OffsetOf(p) + 1]
<1>1. Total \in Nat /\ Total <= Limit /\ Limit \in Nat
  BY CubeFacts, TotalFits, BoundsAssumption DEF Positive
<1>2. \A p \in 0 .. Total - 1 :
        Home[cube][p].slice = SliceOf(p) /\ Home[cube][p].offset = OffsetOf(p)
  <2> SUFFICES ASSUME NEW p \in 0 .. Total - 1
               PROVE  Home[cube][p].slice = SliceOf(p) /\ Home[cube][p].offset = OffsetOf(p)
    OBVIOUS
  <2>1. p \in 0 .. Limit
    BY <1>1
  <2>2. Home[cube][p] = [slice |-> SliceOf(p), offset |-> OffsetOf(p)]
    BY <2>1, HomeIs
  <2> QED
    BY <2>2
<1>3. DOMAIN ContentOf(f) =
        {p \in 0 .. Total - 1 : Home[cube][p].offset < Len(f[Home[cube][p].slice])}
  BY DEF ContentOf
<1>4. \A p \in DOMAIN ContentOf(f) :
        ContentOf(f)[p] = f[Home[cube][p].slice][Home[cube][p].offset + 1]
  BY DEF ContentOf
<1> QED
  BY <1>2, <1>3, <1>4

LEMMA ContentStep ==
  ASSUME cube' = cube
  PROVE  /\ Content = ContentOf(file) /\ Content' = ContentOf(file')
         /\ Total' = Total
<1>1. Total' = Total
  BY DEF Total, Extent, Factor
<1> QED
  BY <1>1 DEF Content, ContentOf

-----------------------------------------------------------------------------
(* One row of units                                                        *)

(* Cubes that are being created are not sliced along the highest axis: the *)
(* end that ddsSeekSlice tells of them is taken from what has reached the  *)
(* disk.                                                                   *)
Created == \A c \in Cubes : c.fresh => Highest \notin c.sliced

PlaceKnown == \A p \in 0 .. Limit, h \in Nat : Spot(p, h) => Place = p

LEMMA PlaceNow == SolidInv /\ Adjacent => PlaceKnown
BY SpotIsPlace, SolidParts DEF PlaceKnown

LEMMA PlaceThen == SolidInv' /\ Adjacent' => PlaceKnown'
BY PlaceNow, PTL

LEMMA PlaceIs ==
  ASSUME SolidInv, Adjacent, NEW p \in 0 .. Limit, NEW h \in Nat, Spot(p, h)
  PROVE  Place = p
BY PlaceNow DEF PlaceKnown

LEMMA PlaceNext ==
  ASSUME SolidInv', Adjacent, NEW p \in 0 .. Limit, NEW h \in Nat, Spot(p, h)'
  PROVE  Place' = p
<1>1. Adjacent'
  BY DEF Adjacent
<1> QED
  BY <1>1, PlaceThen DEF PlaceKnown

LEMMA StretchType ==
  ASSUME NEW s \in Seq(Int), NEW o \in Nat, NEW n \in Nat, o <= n, n <= Len(s)
  PROVE  /\ SubSeq(s, o + 1, n) \in Seq(Int)
         /\ Len(SubSeq(s, o + 1, n)) = n - o
         /\ \A i \in 1 .. n - o : SubSeq(s, o + 1, n)[i] = s[o + i]
OBVIOUS

LEMMA Stretch ==
  ASSUME NEW s \in Seq(Int), NEW o \in Nat, NEW u \in Nat, o + u <= Len(s)
  PROVE  SubSeq(s, o + 1, o + u) = [i \in 1 .. u |-> s[o + i]]
<1>1. PICK n : n = o + u
  OBVIOUS
<1>2. n \in Nat /\ o <= n /\ n <= Len(s) /\ n - o = u
  BY <1>1
<1>3. /\ SubSeq(s, o + 1, n) \in Seq(Int)
      /\ Len(SubSeq(s, o + 1, n)) = n - o
      /\ \A i \in 1 .. n - o : SubSeq(s, o + 1, n)[i] = s[o + i]
  BY <1>2, StretchType
<1>4. PICK x : x = SubSeq(s, o + 1, n)
  OBVIOUS
<1>5. x \in Seq(Int) /\ Len(x) = u /\ \A i \in 1 .. u : x[i] = s[o + i]
  BY <1>2, <1>3, <1>4
<1>6. x = [i \in 1 .. u |-> x[i]]
  BY <1>5
<1> QED
  BY <1>1, <1>4, <1>5, <1>6

(* What returns nothing and moves nothing.                                 *)
LEMMA NothingSolid ==
  ASSUME Adjacent, SolidInv, SolidInv', Silent, UNCHANGED <<cube, file>>,
         NEW p \in 0 .. Limit, NEW h \in Nat, NEW g \in Nat, Spot(p, h), Spot(p, g)'
  PROVE  Solid!Nothing
<1>1. Place = p /\ Place' = p
  BY PlaceIs, PlaceNext
<1>2. Content' = Content /\ Total' = Total
  BY ContentStep
<1> QED
  BY <1>1, <1>2 DEF Silent, Solid!Nothing, NoAnswer, Solid!NoAnswer

LEMMA ReadSolid ==
  ASSUME Adjacent, Fitting, Tracewise, SolidInv, SolidInv', ReadChunk
  PROVE  Solid!Read
<1>1. PICK p \in 0 .. Limit, h \in Nat : Spot(p, h) /\ Numbered(p) /\ Room(p)
  BY DEF SolidInv, PlaceInv
<1>2. /\ SliceTypeOK /\ Placed /\ Ready /\ RunInv /\ Filed
      /\ cube \in Cubes /\ p \in Nat /\ file \in [Slices -> Seq(Int)]
  BY BoundsAssumption, SolidParts DEF PlaceInv, SliceTypeOK
<1>3. PICK g \in Nat, t \in Slices, u \in Nat :
        /\ Moves(p, g, t, u)
        /\ Offset(t) + u <= Len(file[t])
        /\ got' = SubSeq(file[t], Offset(t) + 1, Offset(t) + u)
  BY <1>1, <1>2, ReadChunkMoves
<1>4. /\ t = TurnedNow /\ TurnedSpot(p, g) /\ u > 0 /\ u <= TurnedToc
      /\ p + u <= Total /\ p + u \in 0 .. Limit /\ Spot(p + u, g)'
  BY <1>3 DEF Moves
<1>5. Place = p /\ Place' = p + u
  BY <1>1, <1>4, PlaceIs, PlaceNext
<1>6. cube' = cube /\ file' = file /\ reply' = NoAnswer
  BY DEF ReadChunk
<1>7. /\ Content' = Content /\ Total' = Total
      /\ Content = ContentOf(file)
  BY <1>6, ContentStep
<1>8. Offset(t) \in Nat /\ TurnedToc \in Nat /\ Total \in Nat
  BY <1>2, <1>4, Turning, CubeFacts DEF Positive
<1>9. file[t] \in Seq(Int) /\ Len(file[t]) \in Nat
  BY <1>2
<1>10. \A j \in 0 .. u - 1 : /\ p + j \in DOMAIN Content
                             /\ Content[p + j] = file[t][Offset(t) + j + 1]
  <2> SUFFICES ASSUME NEW j \in 0 .. u - 1
               PROVE  /\ p + j \in DOMAIN Content
                      /\ Content[p + j] = file[t][Offset(t) + j + 1]
    OBVIOUS
  <2>1. j \in Nat /\ j < TurnedToc /\ j < u
    BY <1>4, <1>8
  <2>2. SliceOf(p + j) = t /\ OffsetOf(p + j) = Offset(t) + j
    BY <1>2, <1>4, <2>1, RunHome
  <2>3. p + j \in 0 .. Total - 1
    BY <1>2, <1>4, <1>8, <2>1
  <2>4. OffsetOf(p + j) < Len(file[SliceOf(p + j)])
    BY <1>3, <1>8, <1>9, <2>1, <2>2
  <2>5. p + j \in DOMAIN ContentOf(file)
    BY <1>2, <2>3, <2>4, ContentParts
  <2> QED
    BY <1>2, <1>7, <2>2, <2>5, ContentParts
<1>11. p .. p + u - 1 \subseteq DOMAIN Content
  <2> SUFFICES ASSUME NEW q \in p .. p + u - 1
               PROVE  q \in DOMAIN Content
    OBVIOUS
  <2>1. q - p \in 0 .. u - 1 /\ p + (q - p) = q
    BY <1>2
  <2> QED
    BY <1>10, <2>1
<1>12. got' = [i \in 1 .. u |-> Content[p + i - 1]]
  <2>1. PICK s, o : s = file[t] /\ o = Offset(t)
    OBVIOUS
  <2>3. s \in Seq(Int) /\ o \in Nat /\ o + u <= Len(s)
    BY <1>3, <1>8, <1>9, <2>1
  <2>4. SubSeq(s, o + 1, o + u) = [i \in 1 .. u |-> s[o + i]]
    BY <2>3, Stretch
  <2>5. got' = [i \in 1 .. u |-> file[t][Offset(t) + i]]
    BY <1>3, <2>1, <2>4
  <2>2. \A i \in 1 .. u : Content[p + i - 1] = file[t][Offset(t) + i]
    <3> SUFFICES ASSUME NEW i \in 1 .. u
                 PROVE  Content[p + i - 1] = file[t][Offset(t) + i]
      OBVIOUS
    <3>1. PICK j \in 0 .. u - 1 : j = i - 1
      OBVIOUS
    <3>2. p + j = p + i - 1 /\ Offset(t) + j + 1 = Offset(t) + i
      BY <1>2, <1>8, <3>1
    <3> QED
      BY <1>10, <3>1, <3>2
  <2> QED
    BY <2>2, <2>5
<1>13. u \in 1 .. Total
  BY <1>2, <1>4, <1>8
<1> QED
  BY <1>5, <1>6, <1>7, <1>11, <1>12, <1>13
     DEF Solid!Read, NoAnswer, Solid!NoAnswer

LEMMA PutUnits ==
  ASSUME NEW units \in Seq(Int), NEW at \in Nat, NEW n \in Nat, NEW value \in Int,
         NEW i \in 1 .. Len(Put(units, at, n, value))
  PROVE  Put(units, at, n, value)[i] =
           IF i \in at + 1 .. at + n THEN value
           ELSE IF i <= Len(units) THEN units[i] ELSE Hole
<1>1. PICK m : m = IF at + n > Len(units) THEN at + n ELSE Len(units)
  OBVIOUS
<1>2. i \in 1 .. m
  BY <1>1, PutLength
<1>3. Put(units, at, n, value) =
        [k \in 1 .. m |-> IF k \in at + 1 .. at + n THEN value
                          ELSE IF k <= Len(units) THEN units[k] ELSE Hole]
  BY <1>1 DEF Put
<1> QED
  BY <1>2, <1>3

(* The files with u units of a value put at the position of slice t.       *)
Written(t, u, value) == [file EXCEPT ![t] = Put(file[t], Offset(t), u, value)]

(* A write puts its value where it says, and nowhere else.                 *)
LEMMA WriteContent ==
  ASSUME SliceTypeOK, Placed, Ready, Adjacent, Fitting,
         NEW p \in Nat, NEW g \in Nat, NEW t \in Slices, NEW u \in Nat,
         t = TurnedNow, TurnedSpot(p, g), u > 0, u <= TurnedToc, p + u <= Total,
         NEW value \in Int, NEW f,
         f = Written(t, u, value)
  PROVE  /\ p .. p + u - 1 \subseteq DOMAIN ContentOf(f)
         /\ DOMAIN ContentOf(file) \subseteq DOMAIN ContentOf(f)
         /\ \A q \in DOMAIN ContentOf(f) :
              ContentOf(f)[q] = IF q \in p .. p + u - 1 THEN value
                                ELSE IF q \in DOMAIN ContentOf(file)
                                  THEN ContentOf(file)[q]
                                ELSE Hole
<1>1. PICK at, old, new : /\ at = Offset(t) /\ old = file[t]
                          /\ new = Put(old, at, u, value)
  OBVIOUS
<1>2. /\ t = TurnedNow /\ TurnedSpot(p, g) /\ u > 0 /\ u <= TurnedToc
      /\ p + u <= Total
  OBVIOUS
<1>3. /\ cube \in Cubes /\ Total \in Nat /\ TurnedToc \in Nat /\ at \in Nat
      /\ file \in [Slices -> Seq(Int)] /\ old \in Seq(Int) /\ Len(old) \in Nat
  <2>1. cube \in Cubes /\ file \in [Slices -> Seq(Int)]
    BY DEF SliceTypeOK
  <2>2. Total \in Nat
    BY <2>1, CubeFacts DEF Positive
  <2>3. TurnedToc \in Nat /\ Offset(t) \in Nat
    BY <1>2, Turning
  <2>4. old \in Seq(Int)
    BY <1>1, <2>1
  <2> QED
    BY <1>1, <2>1, <2>2, <2>3, <2>4
<1>4. Len(new) = IF at + u > Len(old) THEN at + u ELSE Len(old)
  BY <1>1, <1>3, PutLength
<1>5. \A i \in 1 .. Len(new) :
        new[i] = IF i \in at + 1 .. at + u THEN value
                 ELSE IF i <= Len(old) THEN old[i] ELSE Hole
  BY <1>1, <1>3, PutUnits
<1>6. f[t] = new /\ \A s \in Slices \ {t} : f[s] = file[s]
  BY <1>1, <1>3 DEF Written
<1>7. \A q \in 0 .. Total - 1 : SliceOf(q) \in Slices /\ OffsetOf(q) \in Nat /\ q \in Nat
  <2> SUFFICES ASSUME NEW q \in 0 .. Total - 1
               PROVE  SliceOf(q) \in Slices /\ OffsetOf(q) \in Nat /\ q \in Nat
    OBVIOUS
  <2>1. q \in Nat /\ q < Total
    BY <1>3
  <2> QED
    BY <1>3, <2>1, InFile, Target
<1>8. \A j \in 0 .. u - 1 : /\ SliceOf(p + j) = t /\ OffsetOf(p + j) = at + j
                            /\ p + j \in 0 .. Total - 1
  <2> SUFFICES ASSUME NEW j \in 0 .. u - 1
               PROVE  /\ SliceOf(p + j) = t /\ OffsetOf(p + j) = at + j
                      /\ p + j \in 0 .. Total - 1
    OBVIOUS
  <2>1. j \in Nat /\ j < TurnedToc /\ j < u
    BY <1>2, <1>3
  <2>2. SliceOf(p + j) = t /\ OffsetOf(p + j) = Offset(t) + j
    BY <1>2, <2>1, RunHome
  <2> QED
    BY <1>1, <1>2, <1>3, <2>1, <2>2
<1> DEFINE there == p .. p + u - 1
(* The places written are those with the units of the file.                *)
<1>9. \A q \in 0 .. Total - 1 :
        q \in there <=> SliceOf(q) = t /\ OffsetOf(q) + 1 \in at + 1 .. at + u
  <2> SUFFICES ASSUME NEW q \in 0 .. Total - 1
               PROVE  q \in there <=>
                        SliceOf(q) = t /\ OffsetOf(q) + 1 \in at + 1 .. at + u
    OBVIOUS
  <2>1. ASSUME q \in there
        PROVE  SliceOf(q) = t /\ OffsetOf(q) + 1 \in at + 1 .. at + u
    <3>1. PICK j \in 0 .. u - 1 : q = p + j
      <4>1. q - p \in 0 .. u - 1 /\ q = p + (q - p)
        BY <2>1
      <4> QED
        BY <4>1
    <3>2. SliceOf(q) = t /\ OffsetOf(q) = at + j
      BY <1>8, <3>1
    <3> QED
      BY <1>3, <3>2
  <2>2. ASSUME SliceOf(q) = t, OffsetOf(q) + 1 \in at + 1 .. at + u
        PROVE  q \in there
    <3>1. PICK j \in 0 .. u - 1 : OffsetOf(q) = at + j
      <4>1. OffsetOf(q) - at \in 0 .. u - 1 /\ OffsetOf(q) = at + (OffsetOf(q) - at)
        <5>1. PICK o \in Nat : o = OffsetOf(q)
          BY <1>7
        <5>2. o + 1 \in at + 1 .. at + u
          BY <2>2, <5>1
        <5> QED
          BY <1>3, <5>1, <5>2, SMTT(30)
      <4> QED
        BY <4>1
    <3>2. PICK w \in Nat : w = p + j
      OBVIOUS
    <3>3. SliceOf(w) = SliceOf(q) /\ OffsetOf(w) = OffsetOf(q)
      BY <1>8, <2>2, <3>1, <3>2
    <3>4. q \in Nat
      BY <1>7
    <3>5. q = w
      BY <1>3, <3>3, <3>4, OnePlace
    <3> QED
      BY <3>2, <3>5
  <2> QED
    BY <2>1, <2>2
<1>10. /\ DOMAIN ContentOf(file) = {q \in 0 .. Total - 1 : OffsetOf(q) < Len(file[SliceOf(q)])}
       /\ \A q \in DOMAIN ContentOf(file) :
            ContentOf(file)[q] = file[SliceOf(q)][OffsetOf(q) + 1]
  BY <1>3, ContentParts
<1>11. /\ DOMAIN ContentOf(f) = {q \in 0 .. Total - 1 : OffsetOf(q) < Len(f[SliceOf(q)])}
       /\ \A q \in DOMAIN ContentOf(f) :
            ContentOf(f)[q] = f[SliceOf(q)][OffsetOf(q) + 1]
  BY <1>3, ContentParts, ZenonT(60)
<1>12. there \subseteq DOMAIN ContentOf(f)
  <2> SUFFICES ASSUME NEW q \in there
               PROVE  q \in DOMAIN ContentOf(f)
    OBVIOUS
  <2>1. q \in 0 .. Total - 1
    BY <1>2, <1>3
  <2>2. SliceOf(q) = t /\ OffsetOf(q) + 1 \in at + 1 .. at + u
    BY <1>9, <2>1
  <2>3. OffsetOf(q) < Len(new)
    BY <1>3, <1>4, <1>7, <2>1, <2>2, SMTT(30)
  <2> QED
    BY <1>6, <1>11, <2>1, <2>2, <2>3
<1>13. DOMAIN ContentOf(file) \subseteq DOMAIN ContentOf(f)
  <2> SUFFICES ASSUME NEW q \in DOMAIN ContentOf(file)
               PROVE  q \in DOMAIN ContentOf(f)
    OBVIOUS
  <2>1. q \in 0 .. Total - 1 /\ OffsetOf(q) < Len(file[SliceOf(q)])
    BY <1>10
  <2>2. CASE SliceOf(q) = t
    <3>1. OffsetOf(q) < Len(new)
      BY <1>1, <1>3, <1>4, <1>7, <2>1, <2>2
    <3> QED
      BY <1>6, <1>11, <2>1, <2>2, <3>1
  <2>3. CASE SliceOf(q) # t
    <3>1. f[SliceOf(q)] = file[SliceOf(q)]
      BY <1>6, <1>7, <2>1, <2>3
    <3> QED
      BY <1>11, <2>1, <3>1
  <2> QED
    BY <2>2, <2>3
<1>14. \A q \in DOMAIN ContentOf(f) :
         ContentOf(f)[q] = IF q \in there THEN value
                           ELSE IF q \in DOMAIN ContentOf(file) THEN ContentOf(file)[q]
                           ELSE Hole
  <2> SUFFICES ASSUME NEW q \in DOMAIN ContentOf(f)
               PROVE  ContentOf(f)[q] =
                        IF q \in there THEN value
                        ELSE IF q \in DOMAIN ContentOf(file) THEN ContentOf(file)[q]
                        ELSE Hole
    OBVIOUS
  <2>1. /\ q \in 0 .. Total - 1 /\ OffsetOf(q) < Len(f[SliceOf(q)])
        /\ ContentOf(f)[q] = f[SliceOf(q)][OffsetOf(q) + 1]
    BY <1>11
  <2>2. q \in DOMAIN ContentOf(file) <=> OffsetOf(q) < Len(file[SliceOf(q)])
    BY <1>10, <2>1
  <2>3. CASE SliceOf(q) # t
    <3>1. f[SliceOf(q)] = file[SliceOf(q)]
      BY <1>6, <1>7, <2>1, <2>3
    <3>2. q \in DOMAIN ContentOf(file) /\ q \notin there
      BY <1>9, <2>1, <2>2, <2>3, <3>1
    <3>3. ContentOf(file)[q] = ContentOf(f)[q]
      BY <1>10, <2>1, <3>1, <3>2
    <3> QED
      BY <3>2, <3>3
  <2>4. CASE SliceOf(q) = t
    <3>1. PICK i : i = OffsetOf(q) + 1
      OBVIOUS
    <3>2. i \in 1 .. Len(new) /\ ContentOf(f)[q] = new[i]
      <4>1. OffsetOf(q) \in Nat /\ OffsetOf(q) < Len(new) /\ Len(new) \in Nat
        <5>1. f[SliceOf(q)] = new
          BY <1>6, <2>4
        <5>2. OffsetOf(q) \in Nat /\ OffsetOf(q) < Len(new)
          BY <1>7, <2>1, <5>1
        <5>3. Len(new) \in Nat
          BY <1>3, <1>4
        <5> QED
          BY <5>2, <5>3
      <4>2. i \in 1 .. Len(new)
        BY <3>1, <4>1
      <4>3. ContentOf(f)[q] = new[i]
        BY <1>6, <2>1, <2>4, <3>1
      <4> QED
        BY <4>2, <4>3
    <3>3. q \in there <=> i \in at + 1 .. at + u
      BY <1>9, <2>1, <2>4, <3>1
    <3>4. q \in DOMAIN ContentOf(file) <=> i <= Len(old)
      BY <1>1, <1>3, <1>7, <2>1, <2>2, <2>4, <3>1
    <3>5. q \in DOMAIN ContentOf(file) => ContentOf(file)[q] = old[i]
      BY <1>1, <1>10, <2>4, <3>1
    <3> HIDE DEF there
    <3> QED
      BY <1>5, <3>2, <3>3, <3>4, <3>5
  <2> QED
    BY <2>3, <2>4
<1> QED
  BY <1>12, <1>13, <1>14

LEMMA WriteSolid ==
  ASSUME Adjacent, Fitting, Tracewise, SolidInv, SolidInv', Kept, WriteChunk
  PROVE  Solid!Write
<1>1. PICK p \in 0 .. Limit, h \in Nat : Spot(p, h) /\ Numbered(p) /\ Room(p)
  BY DEF SolidInv, PlaceInv
<1>2. /\ IInv /\ SliceTypeOK /\ Placed /\ Ready /\ RunInv /\ PlaceInv
      /\ cube \in Cubes /\ p \in Nat /\ - writes \in Int
  <2>1. IInv /\ SliceTypeOK /\ Placed /\ Ready /\ RunInv /\ PlaceInv
    BY SolidParts
  <2>2. cube \in Cubes /\ writes \in Nat /\ Limit \in Nat
    BY <2>1, BoundsAssumption DEF SliceTypeOK
  <2> QED
    BY <1>1, <2>1, <2>2
<1>3. PICK g \in Nat, t \in Slices, u \in Nat :
        /\ Moves(p, g, t, u)
        /\ file' = [file EXCEPT ![t] = Put(file[t], Offset(t), u, - writes)]
  BY <1>1, <1>2, WriteChunkMoves
<1>4. /\ u > 0 /\ p + u <= Total /\ p + u \in 0 .. Limit /\ Spot(p + u, g)'
  BY <1>3 DEF Moves
<1>5. Place = p /\ Place' = p + u
  BY <1>1, <1>4, PlaceIs, PlaceNext
<1>6. cube' = cube /\ reply' = NoAnswer /\ got' = <<>>
  BY DEF WriteChunk, Silent
<1>7. Content' = ContentOf(file') /\ Total' = Total /\ Content = ContentOf(file)
  BY <1>6, ContentStep
<1>8. PICK value \in Int : value = - writes
  BY <1>2
<1>9. file' = [file EXCEPT ![t] = Put(file[t], Offset(t), u, value)]
  BY <1>3, <1>8
<1> DEFINE there == p .. p + u - 1
<1>10. /\ there \subseteq DOMAIN Content'
       /\ DOMAIN Content \subseteq DOMAIN Content'
       /\ \A q \in DOMAIN Content' :
            Content'[q] = IF q \in there THEN value
                          ELSE IF q \in DOMAIN Content THEN Content[q]
                          ELSE Hole
  <2>1. /\ there \subseteq DOMAIN ContentOf(file')
        /\ DOMAIN ContentOf(file) \subseteq DOMAIN ContentOf(file')
        /\ \A q \in DOMAIN ContentOf(file') :
             ContentOf(file')[q] = IF q \in there THEN value
                                   ELSE IF q \in DOMAIN ContentOf(file)
                                     THEN ContentOf(file)[q]
                                   ELSE Hole
    <3>1. PICK f : f = file'
      OBVIOUS
    <3>2. f = Written(t, u, value)
      BY <1>9, <3>1 DEF Written
    <3>3. /\ there \subseteq DOMAIN ContentOf(f)
          /\ DOMAIN ContentOf(file) \subseteq DOMAIN ContentOf(f)
          /\ \A q \in DOMAIN ContentOf(f) :
               ContentOf(f)[q] = IF q \in there THEN value
                                 ELSE IF q \in DOMAIN ContentOf(file)
                                   THEN ContentOf(file)[q]
                                 ELSE Hole
      <4>1. /\ SliceTypeOK /\ Placed /\ Ready /\ p \in Nat
            /\ t = TurnedNow /\ TurnedSpot(p, g) /\ u > 0 /\ u <= TurnedToc
            /\ p + u <= Total
        BY <1>2, <1>3 DEF Moves
      <4> QED
        BY <3>2, <4>1, WriteContent
    <3> QED
      BY <3>1, <3>3
  <2> QED
    BY <1>7, <2>1, Zenon
<1>11. p \in there /\ Content'[p] = value
  <2>1. p \in there
    BY <1>2, <1>4
  <2> QED
    BY <1>10, <2>1
<1>12. u \in 1 .. Total /\ Place .. Place + u - 1 = there
  BY <1>2, <1>4, <1>5, CubeFacts DEF Positive
<1> HIDE DEF there
<1>13. /\ there \cup DOMAIN Content \subseteq DOMAIN Content'
       /\ \E v \in {Content'[Place]} :
            \A q \in DOMAIN Content' :
              Content'[q] = IF q \in there THEN v
                            ELSE IF q \in DOMAIN Content THEN Content[q]
                            ELSE Hole
  BY <1>5, <1>10, <1>11
<1> QED
  BY <1>5, <1>6, <1>7, <1>12, <1>13, Zenon
     DEF Solid!Write, NoAnswer, Solid!NoAnswer

(* A seek from where it starts puts the position where it tells.           *)
LEMMA ReachSolid ==
  ASSUME Adjacent, SolidInv, SolidInv', UNCHANGED <<cube, trace_bias, file>>, got' = <<>>,
         NEW whence \in {"set", "cur", "end"}, NEW offset \in Offsets,
         NEW start \in Int, start \in Solid!Starts(whence, Place),
         NEW p, p = start + offset, Reach(whence, offset, p)
  PROVE  Solid!Seek
<1>1. PICK u \in 0 .. Limit, h \in Nat : Spot(u, h)
  BY DEF SolidInv, PlaceInv
<1>2. SliceTypeOK /\ offset \in Int /\ Limit \in Nat
  BY BoundsAssumption, SolidParts
<1>3. Content' = Content /\ Total' = Total
  BY ContentStep
<1>4. CASE p \in 0 .. Limit /\ MoveTo(p) /\ Answer(whence, offset, p)
  <2>1. p \in Nat
    BY <1>2, <1>4
  <2>2. PICK g \in Nat : Spot(p, g)'
    BY <1>2, <1>4, <2>1, MoveSpot
  <2>3. Place' = p
    BY <1>4, <2>2, PlaceNext
  <2>4. PICK a : a = [whence |-> whence, offset |-> offset, result |-> p]
    OBVIOUS
  <2>5. a \in Solid!Answers
    BY <1>2, <1>4, <2>4 DEF Solid!Answers, Solid!Whences
  <2>6. reply' = a
    BY <1>4, <2>4 DEF Answer
  <2>7. /\ start \in Solid!Starts(a.whence, Place)
        /\ a.result = start + a.offset /\ a.result >= 0 /\ Place' = a.result
    BY <2>1, <2>3, <2>4
  <2> QED
    BY <1>3, <2>5, <2>6, <2>7, Zenon DEF Solid!Seek
<1>5. CASE /\ p < 0 /\ Answer(whence, offset, -1)
           /\ UNCHANGED <<pos, deseek, slice_now, slice_toc, LineTrc>>
  <2>1. Spot(u, h)'
    BY <1>1, <1>5, SameSpot
  <2>2. Place' = Place
    BY <1>1, <2>1, PlaceIs, PlaceNext
  <2>3. PICK a : a = [whence |-> whence, offset |-> offset, result |-> -1]
    OBVIOUS
  <2>4. a \in Solid!Answers
    BY <1>2, <2>3 DEF Solid!Answers, Solid!Whences
  <2>5. reply' = a
    BY <1>5, <2>3 DEF Answer
  <2>6. /\ start \in Solid!Starts(a.whence, Place)
        /\ a.result = -1 /\ start + a.offset < 0 /\ Place' = Place
    BY <1>5, <2>2, <2>3
  <2> QED
    BY <1>3, <2>4, <2>5, <2>6, Zenon DEF Solid!Seek
<1> QED
  BY <1>4, <1>5 DEF Reach

(* Of a complete cube the end is told right.                               *)
LEMMA EndTold ==
  ASSUME SliceTypeOK, Placed, Adjacent, Fitting, Created, Filed, NEW size \in SizesOnDisk
  PROVE  /\ slice_max * size \in Int
         /\ ~ cube.fresh => slice_max * size = Total
         /\ slice_max * size \in 0 .. Limit
<1>1. PICK c, b, s : c = slice_tic /\ b = slice_max /\ s = b - 1
  OBVIOUS
<1>2. /\ c \in Nat /\ b \in Nat /\ s \in Slices /\ cube \in Cubes
      /\ file \in [Slices -> Seq(Int)] /\ Limit \in Nat
  BY <1>1, Units DEF SliceTypeOK
<1>3. PICK m \in Positive : Total = c * (b * m) /\ Total \div slice_max = c * m
  BY <1>1, <1>2, Complete
<1>4. m \in Nat /\ c * m \in Nat /\ Total \in Nat /\ Total <= Limit
  BY <1>2, <1>3, Product, TotalFits, CubeFacts DEF Positive
<1>5. PICK k \in Nat : k = c * m
  BY <1>4
<1>6. b * k = Total
  BY <1>2, <1>3, <1>4, <1>5
<1>7. Len(file[s]) \in Nat /\ Len(file[s]) <= k /\ (~ cube.fresh => Len(file[s]) = k)
  BY <1>2, <1>3, <1>5 DEF Filed
<1>8. size \in 0 .. k /\ (~ cube.fresh => size = k)
  <2>1. PICK a, n : a = Prefix(s) /\ n = Len(file[s])
    OBVIOUS
  <2>2. Bias(s) = a /\ a \in Nat
    BY <1>2, <2>1, AtOffset, BiasType
  <2>3. size \in {k0 - Bias(s) : k0 \in IF cube.fresh THEN 0 .. a + n ELSE {a + n}}
    BY <1>1, <2>1 DEF SizesOnDisk
  <2>4. CASE cube.fresh
    <3>1. cube.bias = 0
      BY <1>2, <2>4, CubesAssumption
    <3>2. a = 0
      BY <1>2, <2>1, <3>1, BiasType DEF Prefix
    <3>3. PICK i \in 0 .. a + n : size = i - a
      BY <2>2, <2>3, <2>4
    <3> QED
      BY <1>7, <2>1, <2>4, <3>2, <3>3
  <2>5. CASE ~ cube.fresh
    <3>1. PICK k0 \in {a + n} : size = k0 - a
      BY <2>2, <2>3, <2>5
    <3>2. size = n
      BY <1>7, <2>1, <2>2, <3>1
    <3> QED
      BY <1>7, <2>1, <2>5, <3>2
  <2> QED
    BY <2>4, <2>5
<1>9. size \in Nat /\ size <= k
  BY <1>8
<1>10. size * b <= k * b
  BY <1>2, <1>9, Monotone
<1>11. b * size = size * b /\ b * k = k * b /\ b * size \in Nat
  BY <1>2, <1>9, Product
<1> QED
  BY <1>1, <1>2, <1>4, <1>6, <1>8, <1>10, <1>11

LEMMA SeekSetSolid ==
  ASSUME Adjacent, SolidInv, SolidInv', Kept, SeekSet
  PROVE  Solid!Seek
<1>1. PICK offset \in Offsets : Reach("set", offset, offset)
  BY DEF SeekSet
<1>2. offset = 0 + offset /\ 0 \in Solid!Starts("set", Place)
  BY <1>1, BoundsAssumption DEF Solid!Starts
<1>3. UNCHANGED <<cube, trace_bias, file>> /\ got' = <<>>
  BY DEF SeekSet, Kept
<1> QED
  BY <1>1, <1>2, <1>3, ReachSolid

LEMMA SeekEndSolid ==
  ASSUME Adjacent, Fitting, Created, SolidInv, SolidInv', Kept, SeekEnd
  PROVE  Solid!Seek
<1>1. PICK offset \in Offsets, size \in SizesOnDisk :
        Reach("end", offset, offset + slice_max * size)
  BY DEF SeekEnd
<1>2. PICK start, p : start = slice_max * size /\ p = offset + start
  OBVIOUS
<1>3. /\ start \in Int /\ start \in 0 .. Limit /\ offset \in Int
      /\ ~ cube.fresh => start = Total
  BY <1>2, EndTold, SolidParts, BoundsAssumption DEF PlaceInv
<1>4. start \in Solid!Starts("end", Place)
  BY <1>3 DEF Solid!Starts
<1>5. p = start + offset /\ Reach("end", offset, p)
  BY <1>1, <1>2, <1>3
<1>6. UNCHANGED <<cube, trace_bias, file>> /\ got' = <<>>
  BY DEF SeekEnd, Kept
<1> QED
  BY <1>3, <1>4, <1>5, <1>6, ReachSolid

LEMMA SeekCurSolid ==
  ASSUME NoBack, Adjacent, Fitting, Created, SolidInv, SolidInv', Kept, SeekCur
  PROVE  Solid!Seek
<1>1. PICK u \in 0 .. Limit, h \in Nat : Spot(u, h)
  BY DEF SolidInv, PlaceInv
<1>2. /\ SliceTypeOK /\ Placed /\ Ready /\ RunInv /\ Filed /\ Beyond
      /\ cube \in Cubes /\ Limit \in Nat /\ u \in Nat /\ Total \in Nat
  <2>1. /\ SliceTypeOK /\ Placed /\ Ready /\ RunInv /\ Filed /\ Beyond
    BY SolidParts DEF PlaceInv
  <2>2. cube \in Cubes
    BY <2>1 DEF SliceTypeOK
  <2>3. Total \in Nat
    BY <2>2, CubeFacts DEF Positive
  <2>4. Limit \in Nat /\ u \in Nat
    BY <1>1, BoundsAssumption
  <2> QED
    BY <2>1, <2>2, <2>3, <2>4
<1>3. Place = u
  BY <1>1, PlaceIs
<1>4. UNCHANGED <<cube, trace_bias, file>> /\ got' = <<>>
  BY DEF SeekCur, Kept
<1>5. \A n : n \in Solid!Starts("cur", n)
  BY DEF Solid!Starts
<1>6. PICK offset \in Offsets :
       \/ /\ AtEnd
          /\ \E size \in SizesOnDisk :
               Reach("cur", offset, offset + slice_max * size)
       \/ /\ ~ AtEnd /\ TurnedNow < slice_max
          /\ \E p \in {offset + PlaceOf(TurnedNow, Offset(TurnedNow))} :
               \/ p \in 0 .. Limit /\ MoveTo(p) /\ Answer("cur", offset, p)
               \/ p < 0 /\ cube.back /\ Lost /\ Answer("cur", offset, -1)
       \/ /\ ~ AtEnd /\ TurnedNow >= slice_max
          /\ Answer("cur", offset, -1)
          /\ UNCHANGED <<pos, trace_bias, eof, deseek, slice_now, slice_toc,
                         LineTrc>>
  BY DEF SeekCur
<1>7. offset \in Int
  BY BoundsAssumption
<1>8. CASE /\ AtEnd
           /\ \E size \in SizesOnDisk :
                Reach("cur", offset, offset + slice_max * size)
  <2>1. PICK size \in SizesOnDisk : Reach("cur", offset, offset + slice_max * size)
    BY <1>8
  <2>2. PICK start, p : start = slice_max * size /\ p = offset + start
    OBVIOUS
  <2>3. ~ cube.fresh
    BY <1>2, <1>8 DEF AtEnd, Created, Sliced
  <2>4. start \in Int /\ start = Total
    BY <1>2, <2>2, <2>3, EndTold
  <2>5. Place = Total
    BY <1>8 DEF Place
  <2>6. start \in Solid!Starts("cur", Place)
    BY <1>5, <2>4, <2>5
  <2>7. p = start + offset /\ Reach("cur", offset, p)
    BY <1>7, <2>1, <2>2, <2>4
  <2> QED
    BY <1>4, <2>4, <2>6, <2>7, ReachSolid
<1>9. CASE /\ ~ AtEnd /\ TurnedNow < slice_max
           /\ \E p \in {offset + PlaceOf(TurnedNow, Offset(TurnedNow))} :
                \/ p \in 0 .. Limit /\ MoveTo(p) /\ Answer("cur", offset, p)
                \/ p < 0 /\ cube.back /\ Lost /\ Answer("cur", offset, -1)
  <2>1. PICK g \in Nat : TurnedSpot(u, g)
    BY <1>1, <1>2, <1>9, TurnSpot
  <2>2. PICK t : t = TurnedNow
    OBVIOUS
  <2>3. t \in Slices
    BY <1>2, <1>9, <2>2, Turning, CubeFacts DEF Positive
  <2>4. TurnedToc > 0 /\ 0 \in Nat
    BY <1>2, Turning
  <2>5. SliceOf(u + 0) = t /\ OffsetOf(u + 0) = Offset(t) + 0
    BY <1>2, <2>1, <2>2, <2>3, <2>4, RunHome
  <2>6. SliceOf(u) = t /\ OffsetOf(u) = Offset(t)
    <3>1. Offset(t) \in Nat
      BY <1>2, <2>2, <2>3, Turning
    <3>2. u + 0 = u /\ Offset(t) + 0 = Offset(t)
      BY <1>2, <3>1
    <3> QED
      BY <2>5, <3>2
  <2>7. PlaceOf(t, Offset(t)) = u
    BY <1>2, <1>9, <2>2, <2>6, PlaceBack
  <2>8. ~ cube.back
    BY <1>2 DEF NoBack
  <2>9. PICK p : p = offset + u
    OBVIOUS
  <2>10. p \in 0 .. Limit /\ MoveTo(p) /\ Answer("cur", offset, p)
    BY <1>9, <2>2, <2>7, <2>8, <2>9
  <2>11. Reach("cur", offset, p)
    BY <2>10 DEF Reach
  <2>12. p = u + offset /\ u \in Int /\ u \in Solid!Starts("cur", Place)
    BY <1>2, <1>3, <1>5, <1>7, <2>9
  <2> QED
    BY <1>4, <2>11, <2>12, ReachSolid
<1>10. CASE /\ ~ AtEnd /\ TurnedNow >= slice_max
            /\ Answer("cur", offset, -1)
            /\ UNCHANGED <<pos, trace_bias, eof, deseek, slice_now, slice_toc,
                         LineTrc>>
  <2>1. PICK g \in Nat : TurnedSpot(u, g)
    BY <1>1, <1>2, <1>10, TurnSpot
  <2>2. Total < u
    BY <1>2, <1>10, <2>1, BehindCube
  <2>3. Spot(u, h)'
    BY <1>1, <1>4, <1>10, SameSpot
  <2>4. Place' = Place
    BY <1>1, <2>3, PlaceIs, PlaceNext
  <2>5. PICK a : a = [whence |-> "cur", offset |-> offset, result |-> -1]
    OBVIOUS
  <2>6. a \in Solid!Answers
    BY <1>2, <2>5 DEF Solid!Answers, Solid!Whences
  <2>7. reply' = a
    BY <1>10, <2>5 DEF Answer
  <2>8. /\ Place \in Solid!Starts(a.whence, Place)
        /\ a.result = -1 /\ a.whence = "cur" /\ Place > Total /\ Place' = Place
    BY <1>2, <1>3, <1>5, <2>2, <2>4, <2>5
  <2>9. Content' = Content /\ Total' = Total
    BY <1>4, ContentStep
  <2> QED
    BY <1>4, <2>6, <2>7, <2>8, <2>9, Zenon DEF Solid!Seek
<1> QED
  BY <1>6, <1>8, <1>9, <1>10

(* The files at the start: all of the cube, or nothing.                    *)
LEMMA InitSolid ==
  ASSUME Adjacent, Fitting, SliceInit, SolidInv
  PROVE  Solid!SolidInit
<1>1. cube \in Cubes /\ cube.fresh \in BOOLEAN /\ Total \in Nat
  BY CubeType, CubeFacts DEF SliceInit, Positive
<1>2. 0 \in 0 .. Limit /\ 0 \in Nat
  BY BoundsAssumption
<1>3. Place = 0
  BY <1>2, InitSpot, PlaceIs
<1>4. got = <<>> /\ reply = NoAnswer
  BY DEF SliceInit, NoAnswer
<1>5. DOMAIN Content = {p \in 0 .. Total - 1 : OffsetOf(p) < Len(file[SliceOf(p)])}
  BY <1>1, ContentParts DEF Content, ContentOf
<1>6. \A p \in 0 .. Total - 1 : /\ SliceOf(p) \in Slices
                                /\ OffsetOf(p) < Total \div slice_max
                                /\ OffsetOf(p) \in Nat
  BY <1>1, InFile, Target
<1>7. CASE cube.fresh
  <2>1. \A s \in Slices : Len(file[s]) = 0
    <3> SUFFICES ASSUME NEW s \in Slices
                 PROVE  Len(file[s]) = 0
      OBVIOUS
    <3>1. file[s] = [i \in 1 .. 0 |-> Total * s + i]
      BY <1>7 DEF SliceInit
    <3> QED
      BY <3>1
  <2>2. DOMAIN Content = {}
    BY <1>5, <1>6, <2>1
  <2> QED
    BY <1>1, <1>3, <1>4, <1>7, <2>2
       DEF Solid!SolidInit, NoAnswer, Solid!NoAnswer
<1>8. CASE ~ cube.fresh
  <2>1. \A s \in Slices : Len(file[s]) = Total \div slice_max
    BY <1>8 DEF SolidInv, PlaceInv, Filed
  <2>2. DOMAIN Content = 0 .. Total - 1
    BY <1>5, <1>6, <2>1
  <2> QED
    BY <1>1, <1>3, <1>4, <1>8, <2>2
       DEF Solid!SolidInit, NoAnswer, Solid!NoAnswer
<1> QED
  BY <1>7, <1>8

(* What moves nothing, or only turns to the next slice, is not seen.       *)
LEMMA StillSolid ==
  ASSUME Adjacent, SolidInv, SolidInv', Silent,
         UNCHANGED <<cube, trace_bias, file, pos, deseek, slice_now, slice_toc>>
  PROVE  Solid!Nothing
<1>1. PICK p \in 0 .. Limit, h \in Nat : Spot(p, h)
  BY DEF SolidInv, PlaceInv
<1>2. Spot(p, h)'
  BY <1>1, SameSpot
<1> QED
  BY <1>1, <1>2, NothingSolid

LEMMA TurnedSolid ==
  ASSUME Adjacent, SolidInv, SolidInv', Silent, ~ AtEnd,
         UNCHANGED <<cube, trace_bias, file, pos, deseek>>,
         slice_now' = TurnedNow, slice_toc' = TurnedToc
  PROVE  Solid!Nothing
<1>1. PICK p \in 0 .. Limit, h \in Nat : Spot(p, h)
  BY DEF SolidInv, PlaceInv
<1>2. SliceTypeOK /\ Placed /\ Ready /\ RunInv /\ p \in Nat
  BY BoundsAssumption, SolidParts
<1>3. PICK g \in Nat : TurnedSpot(p, g)
  BY <1>1, <1>2, TurnSpot
<1>4. PICK t : t = TurnedNow
  OBVIOUS
<1>5. slice_now' = t
  BY <1>4
<1>6. Spot(p, g)'
  BY <1>2, <1>3, <1>4, <1>5, TurnedStill
<1> QED
  BY <1>1, <1>6, NothingSolid

LEMMA ReadStopsSolid ==
  ASSUME Adjacent, SolidInv, SolidInv', ReadStops
  PROVE  Solid!Nothing
<1>1. PICK p \in 0 .. Limit, h \in Nat : Spot(p, h)
  BY DEF SolidInv, PlaceInv
<1>2. /\ SliceTypeOK /\ Placed /\ Ready /\ RunInv /\ p \in Nat
      /\ cube \in Cubes
  BY BoundsAssumption, SolidParts DEF SliceTypeOK
<1>3. PICK t : t = TurnedNow
  OBVIOUS
<1>4. t \in Slices /\ ~ AtEnd
  BY <1>2, <1>3, Turning, CubeFacts DEF ReadStops, Positive
<1>5. PICK n \in Nat : n = 0
  OBVIOUS
<1>6. TurnedToc \in Nat
  BY <1>2, Turning
<1>7. UNCHANGED <<cube, trace_bias, file>> /\ Silent /\ Pass(t, n) /\ slice_now' = t
  BY <1>3, <1>5 DEF ReadStops
<1>8. slice_toc' = TurnedToc - n /\ n <= TurnedToc
  BY <1>5, <1>6 DEF ReadStops
<1>9. PICK g \in Nat : TurnedSpot(p, g)
  BY <1>1, <1>2, <1>4, TurnSpot
<1>10. Spot(p + n, g)'
  BY <1>2, <1>3, <1>4, <1>7, <1>8, <1>9, PassSpot
<1>11. p + n = p
  BY <1>2, <1>5
<1>12. Spot(p, g)'
  BY <1>10, <1>11
<1> QED
  BY <1>1, <1>7, <1>12, NothingSolid

(* Every step of a sliced binary is a step of the one row of units.        *)
LEMMA SolidStep ==
  ASSUME NoBack, Adjacent, Fitting, Tracewise, Created, SolidInv, SolidInv',
         [SliceNext]_sliceVars
  PROVE  [Solid!SolidNext]_(Solid!solidVars)
<1>0. Kept
  BY SolidKept
<1>1. CASE CallRead
  BY <1>1, StillSolid DEF CallRead, Solid!SolidNext
<1>2. CASE ReadChunk
  BY <1>2, ReadSolid DEF Solid!SolidNext
<1>3. CASE ReadReturns
  <2>1. Silent /\ UNCHANGED <<cube, trace_bias, file, pos, deseek>>
    BY <1>3 DEF ReadReturns
  <2>2. CASE UNCHANGED <<slice_now, slice_toc>>
    BY <2>1, <2>2, StillSolid DEF Solid!SolidNext
  <2>3. CASE ~ AtEnd /\ slice_now' = TurnedNow /\ slice_toc' = TurnedToc
    BY <2>1, <2>3, TurnedSolid DEF Solid!SolidNext
  <2> QED
    BY <1>3, <2>2, <2>3 DEF ReadReturns
<1>4. CASE ReadStops
  BY <1>4, ReadStopsSolid DEF Solid!SolidNext
<1>5. CASE CallWrite
  BY <1>5, StillSolid DEF CallWrite, Solid!SolidNext
<1>6. CASE WriteChunk
  BY <1>0, <1>6, WriteSolid DEF Solid!SolidNext
<1>7. CASE WriteReturns
  <2>1. Silent /\ UNCHANGED <<cube, trace_bias, file, pos, deseek>> /\ call.op = "write"
    BY <1>7 DEF WriteReturns
  <2>2. CASE UNCHANGED <<slice_now, slice_toc>>
    BY <2>1, <2>2, StillSolid DEF Solid!SolidNext
  <2>3. CASE call.left > 0 /\ slice_now' = TurnedNow /\ slice_toc' = TurnedToc
    <3>1. ~ AtEnd
      BY <2>1, <2>3, WriteNotAtEnd, SolidParts
    <3> QED
      BY <2>1, <2>3, <3>1, TurnedSolid DEF Solid!SolidNext
  <2> QED
    BY <1>7, <2>2, <2>3 DEF WriteReturns
<1>8. CASE SeekSet
  BY <1>0, <1>8, SeekSetSolid DEF Solid!SolidNext
<1>9. CASE SeekEnd
  BY <1>0, <1>9, SeekEndSolid DEF Solid!SolidNext
<1>10. CASE SeekCur
  BY <1>0, <1>10, SeekCurSolid DEF Solid!SolidNext
<1>11. CASE UNCHANGED sliceVars
  <2>1. UNCHANGED <<cube, trace_bias, file, pos, deseek, slice_now, slice_toc, got, reply>>
    BY <1>11 DEF sliceVars
  <2>2. PICK p \in 0 .. Limit, h \in Nat : Spot(p, h)
    BY DEF SolidInv, PlaceInv
  <2>3. Spot(p, h)'
    BY <2>1, <2>2, SameSpot
  <2>4. Place' = Place
    BY <2>2, <2>3, PlaceIs, PlaceNext
  <2>5. Content' = Content /\ Total' = Total
    BY <2>1, ContentStep
  <2> QED
    BY <2>1, <2>4, <2>5 DEF Solid!solidVars
<1> QED
  BY <1>1, <1>2, <1>3, <1>4, <1>5, <1>6, <1>7, <1>8, <1>9, <1>10, <1>11
     DEF SliceNext

(* A binary over many files is one row of units with one position: what    *)
(* ddsReadSlice returns is what was put there last or was there when it    *)
(* was opened, ddsWriteSlice and ddsWriteSliceT change the units at the    *)
(* position and no others, and ddsSeekSlice puts the position where it     *)
(* tells, although a seek moves one file and leaves the others behind and  *)
(* each created file finds the start of its traces by itself (c_write.c),  *)
(* which it does when no seek comes before its first write (NoEarly).      *)
THEOREM ManyFilesAreOne ==
  ASSUME NoBack, NoEarly, Adjacent, Fitting, Tracewise, Created
  PROVE  SliceSpec => ImplementsSolid
<1>1. SliceInit /\ SolidInv => Solid!SolidInit
  BY InitSolid
<1>2. SolidInv /\ SolidInv' /\ [SliceNext]_sliceVars
        => [Solid!SolidNext]_(Solid!solidVars)
  BY SolidStep
<1> QED
  BY <1>1, <1>2, SolidInvariant, PTL DEF SliceSpec, ImplementsSolid, Solid!SolidSpec
=============================================================================
