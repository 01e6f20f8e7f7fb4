--------------------------- MODULE OpenedBagProof ---------------------------
(***************************************************************************)
(* Theorems about a bag that is opened by name and read as a Python        *)
(* sequence: about PythonReader and about BulkOpen.                        *)
(*                                                                         *)
(* PythonReader, for any bags, any bounds and steps of slices, and any     *)
(* number of readers made of readers.  The records of a view lie at        *)
(* Place(view, i), evenly spaced and all in the bag, so that neither the   *)
(* sums nor the products that they are computed from wrap (InBag,          *)
(* PlaceFacts); slices taken by slice.compute are evenly spaced indices of *)
(* the view (ComputedSliceFacts), and slicing the view and the list shows  *)
(* the same records (SliceFacts, SliceStep).  The invariant is that the    *)
(* list is what lies at the places (ViewInv), that the step of a reader    *)
(* with records fits (StepInv), so that the slice that index searches has  *)
(* a step of 0 only if the reader has, and that only a reader whose step   *)
(* is 0 is refused when it is restored (RaisedInv).                        *)
(*                                                                         *)
(* BulkOpen, for any specs, any finite stores and any number of changes of *)
(* the registry.  Files that are ordered as the code asks can be ordered   *)
(* in one way (ListingUnique), so that what is found for the names of a    *)
(* part is its listing (PartFound) and what is found for a group is what   *)
(* its parts stand for (GroupNames, GroupFound).  The invariant is that    *)
(* the result is what the parts before the current group stand for         *)
(* (OpenInv); the limits of a bag of one part lie in the order of its      *)
(* records (LimitsFollow), so that halves pair them (HalvesFit).           *)
(***************************************************************************)
EXTENDS PythonReader, BulkOpen, FiniteSetTheorems, WellFoundedInduction,
        SequenceTheorems, TLAPS

-----------------------------------------------------------------------------
(* Positions that are evenly spaced *)

\* What is less than a modulus is its own remainder.
LEMMA ModSmall ==
  ASSUME NEW M \in Nat \ {0}, NEW x \in 0..M-1
  PROVE  x % M = x
OBVIOUS

\* One less than nothing is the largest.
LEMMA MinusOne ==
  ASSUME NEW M \in Nat \ {0}, M # 1
  PROVE  (-1) % M \in Nat \ {0}
<1>1. (-1) % M \in 0..M-1
  OBVIOUS
<1>2. (-1) % M # 0
  OBVIOUS
<1>3. QED
  BY <1>1, <1>2

\* A multiple of a step lies between none of it and more of it.
LEMMA Multiples ==
  ASSUME NEW step \in Int, NEW k \in Nat, NEW n \in Nat, k <= n
  PROVE  /\ k * step \in Int /\ n * step \in Int
         /\ \/ 0 <= k * step /\ k * step <= n * step
            \/ k * step <= 0 /\ n * step <= k * step
<1>1. k * step \in Int /\ n * step \in Int
  OBVIOUS
<1>2. CASE step >= 0
  BY <1>2
<1>3. CASE step <= 0
  BY <1>3
<1>4. QED
  BY <1>1, <1>2, <1>3

\* What lies between two places of a range lies in the range.
LEMMA Between ==
  ASSUME NEW first \in Int, NEW step \in Int, NEW n \in Nat, NEW bound \in Int,
         first \in 0..bound, first + n * step \in 0..bound,
         NEW k \in 0..n
  PROVE  first + k * step \in 0..bound
<1> DEFINE x == k * step
           y == n * step
<1>1. /\ x \in Int /\ y \in Int
      /\ \/ 0 <= x /\ x <= y
         \/ x <= 0 /\ y <= x
  BY Multiples
<1>2. first + y \in 0..bound
  OBVIOUS
<1> HIDE DEF x, y
<1>3. first + x \in 0..bound
  BY <1>1, <1>2
<1>4. QED
  BY <1>3 DEF x

\* size_t and int64_t keep what is in their range.
LEMMA Exact ==
  ASSUME NEW n \in Nat, n < SizeModulus \div 2
  PROVE  /\ SizeModulus \in Nat \ {0}
         /\ 2 * n < SizeModulus
         /\ \A x \in 0..2*n : Size(x) = x
         /\ \A x \in -n..n : Int64(x) = x
<1> DEFINE h == SizeModulus \div 2
<1>1. SizeModulus \in Nat \ {0} /\ h \in Int /\ 2 * h <= SizeModulus
  BY SizeModulusAssumption
<1>2. n < h
  OBVIOUS
<1>3. \A x \in Int : Int64(x) = ((x + h) % SizeModulus) - h
  BY DEF Int64
<1> HIDE DEF h
<1>4. 2 * n < SizeModulus
  BY <1>1, <1>2
<1>5. ASSUME NEW x \in 0..2*n
      PROVE  Size(x) = x
  <2>1. x \in 0..SizeModulus-1
    BY <1>1, <1>4
  <2>2. QED
    BY <1>1, <2>1, ModSmall DEF Size
<1>6. ASSUME NEW x \in -n..n
      PROVE  Int64(x) = x
  <2> DEFINE y == x + h
  <2>1. y \in 0..SizeModulus-1 /\ y - h = x
    BY <1>1, <1>2
  <2>2. Int64(x) = (y % SizeModulus) - h
    BY <1>3
  <2> HIDE DEF y
  <2>3. y % SizeModulus = y
    BY <1>1, <2>1, ModSmall
  <2>4. QED
    BY <2>1, <2>2, <2>3
<1>7. QED
  BY <1>1, <1>4, <1>5, <1>6

-----------------------------------------------------------------------------
(* Slices of views *)

\* Where the i-th record of a view is, if no sum wraps.
Place(view, i) == view.start + i * view.step

\* The places of a view are in a bag of N records.
InBag(view, N) ==
  /\ view.start \in Nat /\ view.step \in Int /\ view.length \in 0..N
  /\ view.length = 0 => view.start = 0
  /\ view.step = 0 => view.length \in {0, 1}
  /\ view.length # 0 =>
       Place(view, 0) \in 0..N-1 /\ Place(view, view.length - 1) \in 0..N-1

\* Indices that are evenly spaced and lie in a range.
Spaced(first, step, n, N) ==
  /\ first \in Int /\ step \in Int /\ n \in 0..N
  /\ n # 0 => first \in 0..N-1 /\ first + (n - 1) * step \in 0..N-1

\* So do all between the first and the last.
LEMMA SpacedFacts ==
  ASSUME NEW N \in Nat, NEW first, NEW step, NEW n, Spaced(first, step, n, N),
         NEW k \in 0..n-1
  PROVE  first + k * step \in 0..N-1
<1>1. n - 1 \in Nat /\ N - 1 \in Int /\ k \in 0..(n - 1) /\ n # 0
  BY DEF Spaced
<1>2. first \in Int /\ step \in Int /\ first \in 0..(N - 1)
      /\ first + (n - 1) * step \in 0..(N - 1)
  BY <1>1 DEF Spaced
<1> DEFINE m == n - 1
           b == N - 1
<1>3. m \in Nat /\ b \in Int /\ k \in 0..m /\ first \in 0..b /\ first + m * step \in 0..b
  BY <1>1, <1>2
<1> HIDE DEF m, b
<1>4. first + k * step \in 0..b
  BY <1>2, <1>3, Between
<1>5. QED
  BY <1>4 DEF b

\* The places of all records of a view are in the bag: nothing wraps.
LEMMA PlaceFacts ==
  ASSUME NEW N \in Nat, N < SizeModulus \div 2, NEW view, InBag(view, N),
         NEW i \in 0..view.length-1
  PROVE  Place(view, i) \in 0..N-1 /\ GlobalIndex(view, i) = Place(view, i)
<1>1. Spaced(view.start, view.step, view.length, N)
  <2>1. 0 * view.step = 0 /\ view.start + 0 = view.start
    BY DEF InBag
  <2>2. QED
    BY <2>1 DEF InBag, Spaced, Place
<1> DEFINE x == view.start + i * view.step
<1>2. x \in 0..N-1
  BY <1>1, SpacedFacts
<1>3. Place(view, i) = x /\ GlobalIndex(view, i) = Size(x)
  BY DEF Place, GlobalIndex
<1> HIDE DEF x
<1>4. x \in 0..2*N
  BY <1>2
<1>5. Size(x) = x
  BY <1>4, Exact
<1>6. QED
  BY <1>2, <1>3, <1>5

\* The places of every other, of a step of steps, and so on.
LEMMA StepOfSteps ==
  ASSUME NEW a \in Int, NEW s \in Int, NEW start \in Int, NEW step \in Int, NEW k \in Int
  PROVE  (start + a * step) + k * (s * step) = start + (a + k * s) * step
OBVIOUS

\* BagzReader::Slice takes evenly spaced indices of a view, and the slice has
\* their records: no sum or product wraps that matters.
LEMMA SliceFacts ==
  ASSUME NEW N \in Nat, N < SizeModulus \div 2, NEW view, InBag(view, N),
         NEW first, NEW step, NEW n, Spaced(first, step, n, view.length), step # 0
  PROVE  LET slice == SliceOf(view, Size(first), step, n)
         IN  /\ SliceFits(view, Size(first), step, n)
             /\ InBag(slice, N) /\ slice.length = n
             /\ \A k \in 0..n-1 : Place(slice, k) = Place(view, first + k * step)
<1> DEFINE slice == SliceOf(view, Size(first), step, n)
<1>1. /\ first \in Int /\ step \in Int /\ n \in 0..view.length /\ n \in 0..N
      /\ view.length \in 0..N /\ view.start \in Nat /\ view.step \in Int
      /\ SizeModulus \in Nat \ {0}
  BY Exact DEF Spaced, InBag
<1>2. slice.length = n /\ slice.step = Int64(step * view.step)
      /\ slice.start = IF n = 0 THEN 0 ELSE Size(view.start + Size(first) * view.step)
  BY DEF SliceOf
<1>3. CASE n = 0
  <2>1. SliceFits(view, Size(first), step, n)
    BY <1>3 DEF SliceFits
  <2>2. slice.start = 0 /\ slice.length = 0 /\ slice.step \in Int
    <3>1. Int64(step * view.step) \in Int
      <4> DEFINE x == step * view.step + (SizeModulus \div 2)
      <4>1. x \in Int /\ SizeModulus \div 2 \in Int
        BY <1>1
      <4> HIDE DEF x
      <4>2. x % SizeModulus \in Int
        BY <1>1, <4>1
      <4>3. QED
        BY <4>1, <4>2 DEF Int64, x
    <3>2. QED
      BY <1>2, <1>3, <3>1
  <2> HIDE DEF slice
  <2>3. InBag(slice, N)
    BY <2>2 DEF InBag
  <2>4. 0..n-1 = {}
    BY <1>3
  <2>5. QED
    BY <1>2, <1>3, <2>1, <2>3, <2>4 DEF slice
<1>4. CASE n # 0
  <2> DEFINE last == first + (n - 1) * step
             L == view.length
  <2>1. first \in 0..L-1 /\ last \in 0..L-1 /\ L \in 0..N
    BY <1>1, <1>4 DEF Spaced
  <2> HIDE DEF last
  <2>2. Size(first) = first /\ Size(last + 1) = last + 1 /\ first - last <= N
    <3>1. first \in 0..2*N /\ last + 1 \in 0..2*N
      BY <2>1
    <3>2. QED
      BY <2>1, <3>1, Exact
  <2>3. SliceFits(view, Size(first), step, n)
    <3>1. first + step * (n - 1) = last
      BY <1>1, <2>1 DEF last
    <3>2. CASE step > 0
      <4>1. Size(first + step * (n - 1) + 1) <= view.length
        BY <2>1, <2>2, <3>1
      <4>2. QED
        BY <2>1, <2>2, <3>2, <4>1 DEF SliceFits
    <3>3. CASE step < 0
      <4> DEFINE back == -step * (n - 1)
      <4>1. back = first - last
        <5> DEFINE p == step * (n - 1)
        <5>1. p \in Int /\ back = -p /\ first + p = last
          BY <1>1, <3>1
        <5> HIDE DEF p
        <5>2. QED
          BY <1>1, <2>1, <5>1
      <4>2. back >= 0
        <5> DEFINE m == n - 1
        <5>1. m \in Nat
          BY <1>1, <1>4
        <5> HIDE DEF m
        <5>2. step * m <= 0 /\ step * m \in Int
          BY <1>1, <3>3, <5>1
        <5>3. back = -(step * m)
          BY DEF m
        <5> HIDE DEF back
        <5>4. QED
          BY <5>2, <5>3
      <4> HIDE DEF back
      <4>3. back \in 0..2*N /\ first >= back
        BY <2>1, <2>2, <4>1, <4>2
      <4>4. Size(back) = back
        BY <4>3, Exact
      <4>5. first >= Size(-step * (n - 1))
        BY <4>3, <4>4 DEF back
      <4>6. ~(step > 0)
        BY <1>1, <3>3
      <4>7. QED
        BY <2>1, <2>2, <4>5, <4>6 DEF SliceFits
    <3>4. QED
      BY <1>1, <3>2, <3>3
  <2>4. \A k \in 0..n-1 : first + k * step \in 0..L-1
    <3>1. L \in Nat
      BY <2>1
    <3>2. QED
      BY <3>1, SpacedFacts
  <2>5. \A i \in 0..L-1 : Place(view, i) \in 0..N-1 /\ GlobalIndex(view, i) = Place(view, i)
    BY PlaceFacts
  <2>6. slice.start = Place(view, first) /\ slice.start \in 0..N-1
    <3>1. slice.start = GlobalIndex(view, first)
      BY <1>2, <1>4, <2>2 DEF GlobalIndex
    <3>2. QED
      BY <2>1, <2>5, <3>1
  <2>7. slice.step \in Int /\ (n >= 2 => slice.step = step * view.step)
    <3>1. step * view.step \in Int
      BY <1>1
    <3>2. CASE n >= 2
      <4> DEFINE second == first + 1 * step
                 p == step * view.step
      <4>1. second \in 0..L-1
        <5>1. 1 \in 0..n-1
          BY <1>1, <3>2
        <5>2. QED
          BY <2>4, <5>1
      <4>2. Place(view, second) = Place(view, first) + p
        <5>1. second = first + step
          BY <1>1
        <5> HIDE DEF second
        <5>2. view.start + (first + step) * view.step = (view.start + first * view.step) + step * view.step
          BY <1>1
        <5>3. QED
          BY <5>1, <5>2 DEF Place
      <4> HIDE DEF second, p
      <4>3. Place(view, second) \in 0..N-1 /\ Place(view, first) \in 0..N-1
        BY <2>1, <2>5, <4>1
      <4>4. p \in -N..N
        BY <3>1, <4>2, <4>3 DEF p
      <4>5. Int64(p) = p
        BY <4>4, Exact
      <4>6. QED
        BY <1>2, <3>1, <4>5 DEF p
    <3>3. Int64(step * view.step) \in Int
      <4> DEFINE x == step * view.step + (SizeModulus \div 2)
      <4>1. x \in Int /\ SizeModulus \div 2 \in Int
        BY <1>1
      <4> HIDE DEF x
      <4>2. x % SizeModulus \in Int
        BY <1>1, <4>1
      <4>3. QED
        BY <4>1, <4>2 DEF Int64, x
    <3>4. QED
      BY <1>2, <3>2, <3>3
  <2>8. ASSUME NEW k \in 0..n-1
        PROVE  Place(slice, k) = Place(view, first + k * step)
    <3>1. CASE n >= 2
      <4>1. slice.start = view.start + first * view.step
        BY <2>6 DEF Place
      <4>2. slice.step = step * view.step
        BY <2>7, <3>1
      <4> HIDE DEF slice
      <4>3. (view.start + first * view.step) + k * (step * view.step)
              = view.start + (first + k * step) * view.step
        BY <1>1, StepOfSteps
      <4>4. QED
        BY <4>1, <4>2, <4>3 DEF Place
    <3>2. CASE n = 1
      <4>1. k = 0
        BY <3>2
      <4> HIDE DEF slice
      <4>2. k * step = 0 /\ first + 0 = first /\ k * slice.step = 0
        BY <1>1, <2>7, <4>1
      <4>3. slice.start + 0 = slice.start
        BY <2>6
      <4>4. QED
        BY <2>6, <4>2, <4>3 DEF Place
    <3>3. QED
      BY <1>1, <1>4, <3>1, <3>2
  <2>9. InBag(slice, N)
    <3>1. 0 \in 0..n-1 /\ n-1 \in 0..n-1
      BY <1>1, <1>4
    <3> HIDE DEF slice
    <3>2. \A k \in 0..n-1 : Place(slice, k) \in 0..N-1
      BY <2>4, <2>5, <2>8
    <3>3. slice.length = n /\ slice.length \in 0..N /\ slice.length # 0
      BY <1>1, <1>2, <1>4 DEF slice
    <3>4. slice.start \in Nat /\ slice.step \in Int
      BY <2>6, <2>7
    <3>5. slice.step = 0 => slice.length \in {0, 1}
      <4>1. CASE n >= 2
        <5>1. view.length \notin {0, 1}
          BY <1>1, <4>1
        <5>2. view.step # 0
          BY <5>1 DEF InBag
        <5>3. step * view.step # 0
          BY <1>1, <5>2
        <5>4. QED
          BY <2>7, <4>1, <5>3
      <4>2. CASE n < 2
        BY <1>1, <3>3, <4>2
      <4>3. QED
        BY <1>1, <4>1, <4>2
    <3>6. QED
      BY <3>1, <3>2, <3>3, <3>4, <3>5 DEF InBag
  <2>10. QED
    BY <1>2, <2>3, <2>8, <2>9
<1>5. QED
  BY <1>3, <1>4

-----------------------------------------------------------------------------
(* slice.compute *)

\* How many steps fit.
LEMMA StepsThatFit ==
  ASSUME NEW room \in Nat, NEW step \in Nat \ {0}
  PROVE  /\ room \div step \in 0..room
         /\ (room \div step) * step \in 0..room
<1> DEFINE q == room \div step
           r == room % step
<1>1. q \in Int /\ r \in 0..step-1 /\ room = q * step + r
  OBVIOUS
<1> HIDE DEF q, r
<1>2. q >= 0
  <2>1. SUFFICES ASSUME q <= -1
                 PROVE  FALSE
    BY <1>1
  <2>2. q * step <= -step
    BY <1>1, <2>1
  <2> DEFINE p == q * step
  <2>3. p \in Int
    BY <1>1
  <2> HIDE DEF p
  <2>4. p <= -step /\ room = p + r
    BY <1>1, <2>2 DEF p
  <2>5. QED
    BY <1>1, <2>3, <2>4
<1>3. q <= q * step
  BY <1>1, <1>2
<1> DEFINE p == q * step
<1>4. p \in Int /\ q <= p /\ room = p + r
  BY <1>1, <1>3
<1> HIDE DEF p
<1>5. p \in 0..room /\ q \in 0..room
  BY <1>1, <1>2, <1>4
<1>6. QED
  BY <1>5 DEF p, q

\* A bound of a slice, clamped for a step of either sign.
LEMMA BoundFacts ==
  ASSUME NEW N \in Nat, NEW written \in Slices, NEW step \in Int, NEW omitted \in -1..N,
         step > 0 => omitted \in 0..N, ~(step > 0) => omitted \in -1..N-1
  PROVE  /\ step > 0 => Bound(written, omitted, N, step) \in 0..N
         /\ ~(step > 0) => Bound(written, omitted, N, step) \in -1..N-1
<1> DEFINE x == CHOOSE b \in written : TRUE
           y == IF x < 0 THEN x + N ELSE x
<1>1. CASE written = Omitted
  BY <1>1 DEF Bound
<1>2. CASE written # Omitted
  <2>1. written \subseteq Int /\ written # {}
    BY <1>2, SliceBoundsAssumption DEF Slices, Omitted
  <2>2. x \in Int
    BY <2>1
  <2>3. Bound(written, omitted, N, step)
          = Clamp(y, IF step > 0 THEN 0 ELSE -1, IF step > 0 THEN N ELSE N - 1)
    BY <1>2 DEF Bound
  <2> HIDE DEF x
  <2>4. y \in Int
    BY <2>2
  <2> HIDE DEF y
  <2>5. QED
    BY <2>3, <2>4 DEF Clamp
<1>3. QED
  BY <1>1, <1>2

\* The slice that is computed takes evenly spaced indices of the sequence.
LEMMA ComputedSliceFacts ==
  ASSUME NEW N \in Nat, NEW start \in Slices, NEW stop \in Slices, NEW step \in SliceSteps
  PROVE  LET slice == ComputedSlice(N, start, stop, step)
         IN  /\ step \in Int /\ step # 0 /\ slice.step = step
             /\ Spaced(slice.start, step, slice.length, N)
             /\ step = 1 => slice.start \in 0..N
<1> DEFINE slice == ComputedSlice(N, start, stop, step)
           first == Bound(start, IF step > 0 THEN 0 ELSE N - 1, N, step)
           end == Bound(stop, IF step > 0 THEN N ELSE -1, N, step)
<1>1. step \in Int /\ step # 0
  BY SliceStepsAssumption
<1>2. /\ step > 0 => first \in 0..N /\ end \in 0..N
      /\ ~(step > 0) => first \in -1..N-1 /\ end \in -1..N-1
  <2>1. CASE step > 0
    BY <1>1, <2>1, BoundFacts
  <2>2. CASE ~(step > 0)
    BY <1>1, <2>2, BoundFacts
  <2>3. QED
    BY <2>1, <2>2
<1>3. /\ slice.start = first /\ slice.step = step
      /\ slice.length = IF step > 0
                          THEN IF first < end THEN (end - first - 1) \div step + 1 ELSE 0
                          ELSE IF end < first THEN (first - end - 1) \div (-step) + 1
                                              ELSE 0
  BY DEF ComputedSlice
<1> HIDE DEF slice, first, end
<1>4. Spaced(first, step, slice.length, N)
  <2>1. CASE slice.length = 0
    BY <1>1, <1>2, <2>1 DEF Spaced
  <2>2. CASE step > 0 /\ first < end
    <3> DEFINE room == end - first - 1
               q == room \div step
    <3>1. room \in Nat /\ step \in Nat \ {0}
      BY <1>1, <1>2, <2>2
    <3> HIDE DEF room
    <3>2. q \in 0..room /\ q * step \in 0..room
      BY <3>1, StepsThatFit
    <3>3. slice.length = q + 1
      BY <1>3, <2>2 DEF room
    <3> HIDE DEF q
    <3>4. slice.length - 1 = q
      BY <3>1, <3>2, <3>3
    <3>5. QED
      BY <1>1, <1>2, <2>2, <3>2, <3>3, <3>4 DEF Spaced, room
  <2>3. CASE ~(step > 0) /\ end < first
    <3> DEFINE room == first - end - 1
               down == -step
               q == room \div down
    <3>1. room \in Nat /\ down \in Nat \ {0}
      BY <1>1, <1>2, <2>3
    <3>2. q = room \div (-step) /\ step = -down
      BY <1>1
    <3> HIDE DEF room, down
    <3>3. q \in 0..room /\ q * down \in 0..room
      BY <3>1, StepsThatFit
    <3>4. slice.length = q + 1
      BY <1>3, <2>3, <3>2 DEF room
    <3> HIDE DEF q
    <3>5. slice.length - 1 = q /\ q * step = -(q * down)
      BY <3>1, <3>2, <3>3, <3>4
    <3> DEFINE p == q * down
    <3>6. p \in 0..room /\ q * step = -p
      BY <3>3, <3>5
    <3> HIDE DEF p
    <3>7. QED
      BY <1>1, <1>2, <2>3, <3>3, <3>4, <3>5, <3>6 DEF Spaced, room
  <2>4. QED
    BY <1>3, <2>1, <2>2, <2>3
<1>5. QED
  BY <1>1, <1>2, <1>3, <1>4 DEF slice

-----------------------------------------------------------------------------
(* The invariant *)

\* A view and a list show the same records of a bag.
ShowsList(records, view, listed) ==
  /\ InBag(view, Len(records))
  /\ listed = [k \in 1..view.length |-> records[Place(view, k - 1) + 1]]

ViewInv == ShowsList(bag, reader, list)

\* The step of a reader that has records is one that an int64_t can hold.
StepInv == reader.length # 0 => Int64(reader.step) = reader.step

\* Only a reader whose step is 0 can not be restored.
RaisedInv == raised => Unreadable

\* The inductive invariant.
IInv == TypeOK /\ ViewInv /\ StepInv /\ RaisedInv

\* A bag is no longer than a Py_ssize_t can count.
LEMMA BagFacts ==
  ASSUME NEW records \in Bags
  PROVE  /\ Len(records) \in Nat /\ Len(records) < SizeModulus \div 2
         /\ SizeModulus \in Nat /\ Len(records) < SizeModulus
         /\ \A i \in 0..Len(records)-1 : records[i + 1] \in Values
<1> DEFINE N == Len(records)
<1>1. records \in Seq(Values)
  BY BagsAssumption
<1>2. N \in Nat
  BY <1>1
<1>3. N < SizeModulus \div 2
  BY BagsFitAssumption
<1>4. \A i \in 0..N-1 : records[i + 1] \in Values
  BY <1>1
<1> HIDE DEF N
<1>5. 2 * N < SizeModulus /\ SizeModulus \in Nat
  BY <1>2, <1>3, Exact
<1>6. N < SizeModulus
  BY <1>2, <1>5
<1>7. QED
  BY <1>2, <1>3, <1>4, <1>5, <1>6 DEF N

\* What a view and a list that show the same have in common.
LEMMA ListFacts ==
  ASSUME NEW records \in Bags, NEW view, NEW shown, ShowsList(records, view, shown)
  PROVE  /\ view.length \in 0..Len(records) /\ Len(shown) = view.length
         /\ DOMAIN shown = 1..view.length
         /\ shown \in Seq(Values)
         /\ view.start \in 0..SizeModulus-1 /\ view.step \in Int
         /\ \A i \in 0..view.length-1 :
              /\ Place(view, i) \in 0..Len(records)-1
              /\ GlobalIndex(view, i) = Place(view, i)
              /\ shown[i + 1] = records[Place(view, i) + 1]
<1> DEFINE N == Len(records)
           L == view.length
           at(i) == records[Place(view, i) + 1]
<1>1. N \in Nat /\ N < SizeModulus \div 2 /\ N < SizeModulus /\ SizeModulus \in Nat
      /\ \A i \in 0..N-1 : records[i + 1] \in Values
  BY BagFacts
<1>2. InBag(view, N) /\ shown = [k \in 1..L |-> at(k - 1)]
  BY DEF ShowsList
<1> HIDE DEF N
<1>3. \A i \in 0..L-1 : Place(view, i) \in 0..N-1 /\ GlobalIndex(view, i) = Place(view, i)
  BY <1>1, <1>2, PlaceFacts
<1>4. L \in 0..N /\ L \in Nat /\ view.step \in Int
  BY <1>1, <1>2 DEF InBag
<1>5. view.start \in 0..SizeModulus-1
  <2>1. CASE L = 0
    BY <1>1, <1>2, <2>1 DEF InBag
  <2>2. CASE L # 0
    <3>1. GlobalIndex(view, 0) \in 0..N-1 /\ 0 * view.step = 0 /\ view.start \in Nat
          /\ Place(view, 0) \in 0..N-1
      BY <1>2, <1>3, <1>4, <2>2 DEF InBag
    <3>2. view.start = Place(view, 0)
      BY <3>1 DEF Place
    <3>3. QED
      BY <1>1, <3>1, <3>2
  <2>3. QED
    BY <2>1, <2>2
<1>6. \A i \in 0..L-1 : at(i) \in Values
  BY <1>1, <1>3
<1> HIDE DEF at
<1>7. \A i \in 0..L-1 : shown[i + 1] = at(i)
  BY <1>2, <1>4
<1>8. shown \in Seq(Values) /\ Len(shown) = L
  <2>1. \A k \in 1..L : at(k - 1) \in Values
    BY <1>4, <1>6
  <2>2. QED
    BY <1>2, <1>4, <2>1
<1>9. QED
  BY <1>2, <1>3, <1>4, <1>5, <1>7, <1>8 DEF N, at

\* A slice of the view shows what evenly spaced indices of the list show.
LEMMA SliceStep ==
  ASSUME NEW records \in Bags, NEW view, NEW shown, ShowsList(records, view, shown),
         NEW first, NEW step, NEW n, Spaced(first, step, n, view.length), step # 0,
         NEW slice, slice = SliceOf(view, Size(first), step, n),
         NEW listed, listed = [k \in 1..n |-> shown[first + (k - 1) * step + 1]]
  PROVE  ShowsList(records, slice, listed)
<1> DEFINE N == Len(records)
           L == view.length
<1>1. N \in Nat /\ N < SizeModulus \div 2
  BY BagFacts
<1>2. InBag(view, N)
  BY DEF ShowsList
<1>3. L \in Nat /\ \A i \in 0..L-1 : shown[i + 1] = records[Place(view, i) + 1]
  BY <1>1, ListFacts
<1>4. /\ InBag(slice, N) /\ slice.length = n
      /\ \A k \in 0..n-1 : Place(slice, k) = Place(view, first + k * step)
  BY <1>1, <1>2, SliceFacts
<1>5. n \in Nat
  BY <1>3 DEF Spaced
<1>6. ASSUME NEW k \in 1..n
      PROVE  shown[first + (k - 1) * step + 1] = records[Place(slice, k - 1) + 1]
  <2> DEFINE j == k - 1
             i == first + j * step
  <2>1. j \in 0..n-1
    BY <1>5
  <2> HIDE DEF j
  <2>2. i \in 0..L-1
    BY <1>3, <2>1, SpacedFacts
  <2>3. Place(slice, j) = Place(view, i)
    BY <1>4, <2>1
  <2> HIDE DEF i
  <2>4. shown[i + 1] = records[Place(view, i) + 1]
    BY <1>3, <2>2
  <2>5. shown[i + 1] = records[Place(slice, j) + 1]
    BY <2>3, <2>4
  <2>6. QED
    BY <2>5 DEF i, j
<1>7. listed = [k \in 1..n |-> records[Place(slice, k - 1) + 1]]
  BY <1>6
<1>8. QED
  BY <1>4, <1>7 DEF ShowsList

\* What the next steps lead to.
LEMMA InvAfter ==
  ASSUME TypeOK, bag' = bag, ops' \in 0..MaxOps, raised' \in BOOLEAN,
         ViewInv', StepInv', RaisedInv'
  PROVE  IInv'
<1>1. bag' \in Bags
  BY DEF TypeOK
<1>2. /\ reader'.length \in 0..Len(bag') /\ list' \in Seq(Values)
      /\ reader'.start \in 0..SizeModulus-1 /\ reader'.step \in Int
      /\ reader'.length = 0 => reader'.start = 0
  BY <1>1, ListFacts DEF ViewInv, ShowsList, InBag
<1>3. QED
  BY <1>1, <1>2 DEF IInv, TypeOK

\* What has been cut to an int64_t is not cut again.
LEMMA CutTwice ==
  ASSUME NEW x \in Int
  PROVE  Int64(Int64(x)) = Int64(x)
<1> DEFINE h == SizeModulus \div 2
           y == (x + h) % SizeModulus
<1>1. SizeModulus \in Nat \ {0} /\ h \in Int
  BY SizeModulusAssumption
<1>2. \A z \in Int : Int64(z) = ((z + h) % SizeModulus) - h
  BY DEF Int64
<1> HIDE DEF h
<1>3. y \in 0..SizeModulus-1 /\ Int64(x) = y - h
  BY <1>1, <1>2
<1> HIDE DEF y
<1>4. y - h \in Int /\ (y - h) + h = y
  BY <1>1, <1>3
<1>5. y % SizeModulus = y
  BY <1>1, <1>3, ModSmall
<1>6. QED
  BY <1>2, <1>3, <1>4, <1>5

\* So is the step of any slice.
LEMMA SliceKeepsStep ==
  ASSUME StepInv, NEW view, view.step \in Int, NEW start, NEW step \in Int, NEW n,
         SliceOrRaise(view, start, step, n)
  PROVE  StepInv'
<1>1. CASE reader' = SliceOf(view, Size(start), step, n)
  <2> DEFINE x == step * view.step
  <2>1. x \in Int
    OBVIOUS
  <2>2. reader'.step = Int64(x)
    BY <1>1 DEF SliceOf
  <2> HIDE DEF x
  <2>3. Int64(reader'.step) = reader'.step
    BY <2>1, <2>2, CutTwice
  <2>4. QED
    BY <2>3 DEF StepInv
<1>2. CASE UNCHANGED reader
  BY <1>2 DEF StepInv
<1>3. QED
  BY <1>1, <1>2 DEF SliceOrRaise

\* Each way to make a reader keeps a step that fits.
LEMMA StepKept ==
  ASSUME TypeOK, StepInv, GetSlice \/ Reversed \/ Pickle
  PROVE  StepInv'
<1>1. reader.step \in Int
  BY DEF TypeOK
<1>2. CASE GetSlice
  <2>1. PICK start \in Slices, stop \in Slices, step \in SliceSteps :
          LET slice == ComputedSlice(reader.length, start, stop, step)
          IN  SliceOrRaise(reader, slice.start, slice.step, slice.length)
    BY <1>2 DEF GetSlice
  <2> DEFINE slice == ComputedSlice(reader.length, start, stop, step)
  <2>2. slice.step = step /\ step \in Int
    BY SliceStepsAssumption DEF ComputedSlice
  <2>3. SliceOrRaise(reader, slice.start, step, slice.length)
    BY <2>1, <2>2
  <2> HIDE DEF slice
  <2>4. QED
    BY <1>1, <2>2, <2>3, SliceKeepsStep
<1>3. CASE Reversed
  <2>1. CASE UNCHANGED reader
    BY <2>1 DEF StepInv
  <2>2. CASE SliceOrRaise(reader, reader.length - 1, -1, reader.length)
    BY <1>1, <2>2, SliceKeepsStep
  <2>3. QED
    BY <1>3, <2>1, <2>2 DEF Reversed
<1>4. CASE Pickle
  <2> DEFINE full == FullView(Len(bag))
  <2>1. CASE UNCHANGED reader
    BY <2>1 DEF StepInv
  <2>2. CASE SliceOrRaise(full, reader.start, reader.step, reader.length)
    <3>1. full.step \in Int
      BY DEF FullView
    <3> HIDE DEF full
    <3>2. QED
      BY <1>1, <2>2, <3>1, SliceKeepsStep
  <2>3. QED
    BY <1>4, <2>1, <2>2 DEF Pickle, Restored
<1>5. QED
  BY <1>2, <1>3, <1>4

\* The reader of the whole bag shows the whole bag.
LEMMA InitInv == Init => IInv
<1> SUFFICES ASSUME Init
             PROVE  IInv
  OBVIOUS
<1> DEFINE N == Len(bag)
<1>1. bag \in Bags /\ bag \in Seq(Values) /\ N \in Nat /\ N < SizeModulus
      /\ SizeModulus \in Nat /\ N = Len(bag)
  BY BagFacts, BagsAssumption DEF Init
<1> HIDE DEF N
<1>2. reader.start = 0 /\ reader.step = 1 /\ reader.length = N
  BY <1>1 DEF Init, FullView
<1>3. \A i \in Int : Place(reader, i) = i
  BY <1>2 DEF Place
<1>4. InBag(reader, N)
  <2>1. N # 0 => Place(reader, 0) \in 0..N-1 /\ Place(reader, N - 1) \in 0..N-1
    BY <1>1, <1>3
  <2>2. QED
    BY <1>1, <1>2, <2>1 DEF InBag
<1>5. list = [k \in 1..N |-> bag[Place(reader, k - 1) + 1]]
  <2>1. list = bag /\ bag = [k \in 1..N |-> bag[k]]
    BY <1>1 DEF Init
  <2>2. \A k \in 1..N : Place(reader, k - 1) + 1 = k
    BY <1>1, <1>3
  <2>3. QED
    BY <2>1, <2>2
<1>6. ViewInv
  BY <1>1, <1>2, <1>4, <1>5 DEF ViewInv, ShowsList
<1>7. TypeOK
  <2>1. list \in Seq(Values) /\ ops \in 0..MaxOps /\ raised \in BOOLEAN
    <3>1. list = bag /\ ops = 0 /\ raised = FALSE
      BY DEF Init
    <3>2. list \in Seq(Values)
      BY <1>1, <3>1
    <3>3. ops \in 0..MaxOps
      BY <3>1, MaxOpsAssumption
    <3>4. QED
      BY <3>1, <3>2, <3>3
  <2>2. /\ reader.start \in 0..SizeModulus-1 /\ reader.step \in Int
        /\ reader.length \in 0..Len(bag) /\ reader.length = 0 => reader.start = 0
    BY <1>1, <1>2
  <2>3. QED
    BY <1>1, <2>1, <2>2 DEF TypeOK
<1>8. StepInv
  <2>1. N # 0 => Int64(1) = 1
    <3>1. N < SizeModulus \div 2
      BY <1>1, BagFacts
    <3>2. N # 0 => 1 \in -N..N
      BY <1>1
    <3>3. QED
      BY <1>1, <3>1, <3>2, Exact
  <2>2. QED
    BY <1>2, <2>1 DEF StepInv
<1>9. RaisedInv
  BY DEF Init, RaisedInv
<1>10. QED
  BY <1>6, <1>7, <1>8, <1>9 DEF IInv

\* __getitem__ with a slice.
LEMMA GetSliceStep ==
  ASSUME TypeOK, ViewInv, GetSlice
  PROVE  ViewInv' /\ UNCHANGED <<bag, raised>>
<1> DEFINE L == reader.length
<1>1. bag \in Bags /\ Len(bag) \in Nat /\ Len(bag) < SizeModulus \div 2
      /\ L \in Nat /\ Len(list) = L /\ ShowsList(bag, reader, list)
  <2>1. bag \in Bags
    BY DEF TypeOK
  <2>2. Len(bag) \in Nat /\ Len(bag) < SizeModulus \div 2
    BY <2>1, BagFacts
  <2>3. L \in 0..Len(bag) /\ Len(list) = L
    BY <2>1, ListFacts DEF ViewInv
  <2>4. QED
    BY <2>1, <2>2, <2>3 DEF ViewInv
<1>2. PICK start \in Slices, stop \in Slices, step \in SliceSteps :
        LET slice == ComputedSlice(L, start, stop, step)
            listed == ComputedSlice(Len(list), start, stop, step)
        IN  /\ SliceOrRaise(reader, slice.start, slice.step, slice.length)
            /\ list' = [k \in 1..listed.length |->
                          list[listed.start + (k - 1) * listed.step + 1]]
  BY DEF GetSlice
<1> DEFINE slice == ComputedSlice(L, start, stop, step)
           first == slice.start
           n == slice.length
<1>3. /\ SliceOrRaise(reader, first, step, n)
      /\ list' = [k \in 1..n |-> list[first + (k - 1) * step + 1]]
      /\ Spaced(first, step, n, L) /\ step # 0
  <2>1. slice.step = step /\ Spaced(first, step, n, L) /\ step # 0
    BY <1>1, ComputedSliceFacts
  <2>2. /\ SliceOrRaise(reader, first, slice.step, n)
        /\ list' = [k \in 1..n |-> list[first + (k - 1) * slice.step + 1]]
    BY <1>1, <1>2
  <2>3. QED
    BY <2>1, <2>2
<1> HIDE DEF first, n
<1>4. SliceFits(reader, Size(first), step, n)
  BY <1>1, <1>3, SliceFacts DEF ShowsList
<1>5. reader' = SliceOf(reader, Size(first), step, n) /\ UNCHANGED <<bag, raised>>
  BY <1>3, <1>4 DEF SliceOrRaise, GetSlice
<1>6. ShowsList(bag, reader', list')
  BY <1>1, <1>3, <1>5, SliceStep
<1>7. QED
  BY <1>5, <1>6 DEF ViewInv

\* __reversed__ takes the indices from the last to the first.
LEMMA ReversedStep ==
  ASSUME TypeOK, ViewInv, Reversed
  PROVE  ViewInv' /\ UNCHANGED <<bag, raised>>
<1> DEFINE L == reader.length
<1>1. bag \in Bags /\ Len(bag) \in Nat /\ Len(bag) < SizeModulus \div 2
      /\ L \in Nat /\ Len(list) = L /\ DOMAIN list = 1..L /\ ShowsList(bag, reader, list)
  <2>1. bag \in Bags
    BY DEF TypeOK
  <2>2. Len(bag) \in Nat /\ Len(bag) < SizeModulus \div 2
    BY <2>1, BagFacts
  <2>3. L \in 0..Len(bag) /\ Len(list) = L /\ DOMAIN list = 1..L
    BY <2>1, ListFacts DEF ViewInv
  <2>4. QED
    BY <2>1, <2>2, <2>3 DEF ViewInv
<1>2. list' = [i \in 1..L |-> list[(L - i) + 1]] /\ UNCHANGED bag
  BY <1>1 DEF Reversed, Reverse
<1>3. CASE L = 0
  <2>1. UNCHANGED <<reader, raised>>
    BY <1>3 DEF Reversed
  <2>2. list' = list
    <3>1. list = [k \in 1..L |-> bag[Place(reader, k - 1) + 1]]
      BY <1>1 DEF ShowsList
    <3>2. 1..L = {}
      BY <1>3
    <3>3. QED
      BY <1>2, <3>1, <3>2
  <2>3. QED
    BY <1>1, <1>2, <2>1, <2>2 DEF ViewInv, ShowsList
<1>4. CASE L # 0
  <2> DEFINE first == L - 1
  <2>1. Spaced(first, -1, L, L) /\ -1 # 0
    BY <1>1, <1>4 DEF Spaced
  <2>2. SliceOrRaise(reader, first, -1, L)
    BY <1>4 DEF Reversed
  <2>3. list' = [k \in 1..L |-> list[first + (k - 1) * (-1) + 1]]
    <3>1. \A k \in 1..L : (L - k) + 1 = first + (k - 1) * (-1) + 1
      BY <1>1
    <3> HIDE DEF first
    <3>2. QED
      BY <1>2, <3>1
  <2> HIDE DEF first
  <2>4. SliceFits(reader, Size(first), -1, L)
    BY <1>1, <2>1, SliceFacts DEF ShowsList
  <2>5. reader' = SliceOf(reader, Size(first), -1, L) /\ UNCHANGED raised
    BY <2>2, <2>4 DEF SliceOrRaise
  <2>6. ShowsList(bag, reader', list')
    BY <1>1, <2>1, <2>3, <2>5, SliceStep
  <2>7. QED
    BY <1>2, <2>5, <2>6 DEF ViewInv
<1>5. QED
  BY <1>3, <1>4

\* Pickling and restoring: the whole bag is opened and the same slice taken.
LEMMA PickleStep ==
  ASSUME TypeOK, ViewInv, Pickle
  PROVE  /\ ViewInv' /\ UNCHANGED bag
         /\ \/ UNCHANGED raised
            \/ reader.step = 0 /\ raised' = TRUE /\ UNCHANGED reader
<1> DEFINE N == Len(bag)
           L == reader.length
           full == FullView(N)
<1>1. bag \in Bags /\ N \in Nat /\ N < SizeModulus \div 2
      /\ L \in 0..N /\ ShowsList(bag, reader, list)
  <2>1. bag \in Bags
    BY DEF TypeOK
  <2>2. QED
    BY <2>1, BagFacts, ListFacts DEF ViewInv
<1>2. UNCHANGED <<bag, list>> /\ Restored(reader)
  BY DEF Pickle
<1>3. CASE reader = full
  <2>1. reader' = reader /\ UNCHANGED raised
    BY <1>2, <1>3 DEF Restored
  <2>2. QED
    BY <1>1, <1>2, <2>1 DEF ViewInv
<1>4. CASE reader # full /\ reader.step = 0
  <2>1. raised' = TRUE /\ UNCHANGED reader
    BY <1>2, <1>4 DEF Restored
  <2>2. QED
    BY <1>1, <1>2, <1>4, <2>1 DEF ViewInv
<1>5. CASE reader # full /\ reader.step # 0
  <2>1. SliceOrRaise(full, reader.start, reader.step, L)
    BY <1>2, <1>5 DEF Restored
  <2>2. InBag(reader, N) /\ list = [k \in 1..L |-> bag[Place(reader, k - 1) + 1]]
    BY <1>1 DEF ShowsList
  <2>3. full.start = 0 /\ full.step = 1 /\ full.length = N
    BY DEF FullView
  <2> DEFINE first == reader.start
             step == reader.step
  <2>4. first \in Nat /\ step \in Int
    BY <2>2 DEF InBag
  <2>5. Spaced(first, step, L, N)
    <3>1. 0 * step = 0 /\ first + 0 = first
      BY <2>4
    <3>2. L # 0 => first \in 0..N-1 /\ first + (L - 1) * step \in 0..N-1
      BY <2>2, <3>1 DEF InBag, Place
    <3>3. QED
      BY <1>1, <2>4, <3>2 DEF Spaced
  <2> HIDE DEF full
  <2>6. \A i \in Int : Place(full, i) = i
    BY <2>3 DEF Place
  <2>7. InBag(full, N)
    <3>1. N # 0 => Place(full, 0) \in 0..N-1 /\ Place(full, N - 1) \in 0..N-1
      BY <1>1, <2>6
    <3>2. QED
      BY <1>1, <2>3, <3>1 DEF InBag
  <2> DEFINE slice == SliceOf(full, Size(first), step, L)
  <2>8. /\ SliceFits(full, Size(first), step, L)
        /\ InBag(slice, N) /\ slice.length = L
        /\ \A k \in 0..L-1 : Place(slice, k) = Place(full, first + k * step)
    BY <1>1, <1>5, <2>3, <2>5, <2>7, SliceFacts
  <2>9. reader' = slice /\ UNCHANGED raised
    BY <2>1, <2>8 DEF SliceOrRaise
  <2> HIDE DEF slice
  <2>10. \A k \in 1..L : Place(slice, k - 1) = Place(reader, k - 1)
    <3> SUFFICES ASSUME NEW k \in 1..L
                 PROVE  Place(slice, k - 1) = Place(reader, k - 1)
      OBVIOUS
    <3> DEFINE j == k - 1
    <3>1. j \in 0..L-1 /\ j \in Int
      BY <1>1
    <3> HIDE DEF j
    <3>2. first + j * step \in Int
      BY <2>4, <3>1
    <3>3. Place(slice, j) = first + j * step
      BY <2>6, <2>8, <3>1, <3>2
    <3>4. QED
      BY <3>3 DEF j, Place
  <2>11. list = [k \in 1..L |-> bag[Place(slice, k - 1) + 1]]
    BY <2>2, <2>10
  <2>12. ShowsList(bag, slice, list)
    BY <2>8, <2>11 DEF ShowsList
  <2>13. QED
    BY <1>2, <2>9, <2>12 DEF ViewInv
<1>6. QED
  BY <1>3, <1>4, <1>5

\* Each step keeps the invariant.
LEMMA NextInv == IInv /\ [Next]_vars => IInv'
<1> SUFFICES ASSUME IInv, [Next]_vars
             PROVE  IInv'
  OBVIOUS
<1>1. TypeOK /\ ViewInv /\ StepInv /\ RaisedInv /\ raised \in BOOLEAN
  BY DEF IInv, TypeOK
<1>2. CASE UNCHANGED vars
  BY <1>1, <1>2 DEF IInv, TypeOK, ViewInv, StepInv, RaisedInv, Unreadable, vars
<1>3. CASE Next
  <2>1. ops' \in 0..MaxOps
    <3>1. ops \in 0..MaxOps /\ MaxOps \in Nat
      BY <1>1, MaxOpsAssumption DEF TypeOK
    <3>2. QED
      BY <1>3, <3>1 DEF Next
  <2>2. StepInv'
    BY <1>1, <1>3, StepKept DEF Next
  <2>3. ASSUME UNCHANGED raised
        PROVE  RaisedInv'
    BY <1>3, <2>3 DEF Next, RaisedInv
  <2>4. CASE GetSlice
    BY <1>1, <2>1, <2>2, <2>3, <2>4, GetSliceStep, InvAfter
  <2>5. CASE Reversed
    BY <1>1, <2>1, <2>2, <2>3, <2>5, ReversedStep, InvAfter
  <2>6. CASE Pickle
    <3>1. /\ ViewInv' /\ UNCHANGED bag
          /\ \/ UNCHANGED raised
             \/ reader.step = 0 /\ raised' = TRUE /\ UNCHANGED reader
      BY <1>1, <2>6, PickleStep
    <3>2. RaisedInv'
      BY <2>3, <3>1 DEF RaisedInv, Unreadable
    <3>3. raised' \in BOOLEAN
      BY <1>1, <3>1
    <3>4. QED
      BY <1>1, <2>1, <2>2, <3>1, <3>2, <3>3, InvAfter
  <2>7. QED
    BY <1>3, <2>4, <2>5, <2>6 DEF Next
<1>4. QED
  BY <1>2, <1>3

\* The invariant holds always.
LEMMA SpecInv == Spec => []IInv
BY InitInv, NextInv, PTL DEF Spec

-----------------------------------------------------------------------------
(* Reading *)

\* Records at positions of the bag can be read.
LEMMA RecordsAtFacts ==
  ASSUME NEW positions,
         \A k \in DOMAIN positions : positions[k] \in 0..Len(bag)-1, Len(bag) \in Nat
  PROVE  RecordsAt(positions) = Ok([k \in DOMAIN positions |-> bag[positions[k] + 1]])
<1>1. ~\E k \in DOMAIN positions : positions[k] >= Len(bag)
  OBVIOUS
<1>2. QED
  BY <1>1 DEF RecordsAt

\* What the bag, the reader and the list are.
LEMMA ReaderFacts ==
  ASSUME IInv
  PROVE  /\ Len(bag) \in Nat /\ Len(bag) < SizeModulus \div 2
         /\ reader.length \in 0..Len(bag) /\ Len(list) = reader.length
         /\ DOMAIN list = 1..reader.length /\ list \in Seq(Values)
         /\ \A i \in 0..reader.length-1 :
              /\ GlobalIndex(reader, i) \in 0..Len(bag)-1
              /\ list[i + 1] = bag[GlobalIndex(reader, i) + 1]
<1>1. bag \in Bags /\ ShowsList(bag, reader, list)
  BY DEF IInv, TypeOK, ViewInv
<1>2. QED
  BY <1>1, BagFacts, ListFacts

\* The n records behind the first ones.
Stretch(records, start, n) == [k \in 1..n |-> records[start + k]]

\* What is read of a range of a view is what is shown there, for any step.
LEMMA RangeOfView ==
  ASSUME bag \in Bags, NEW view, NEW shown, ShowsList(bag, view, shown),
         NEW start \in Nat, NEW n \in Nat, start + n <= view.length
  PROVE  /\ Size(start + n) = start + n
         /\ ReadRange(view, start, n) = Ok(Stretch(shown, start, n))
<1> DEFINE N == Len(bag)
           L == view.length
           at == [k \in 1..n |-> GlobalIndex(view, start + k - 1)]
<1>1. /\ N \in Nat /\ N < SizeModulus \div 2 /\ L \in 0..N
      /\ \A i \in 0..L-1 : /\ GlobalIndex(view, i) \in 0..N-1
                           /\ shown[i + 1] = bag[GlobalIndex(view, i) + 1]
  BY BagFacts, ListFacts
<1>2. Size(start + n) = start + n /\ ~(Size(start + n) > L)
  <2> DEFINE m == start + n
  <2>1. m \in 0..2*N /\ m <= L
    BY <1>1
  <2> HIDE DEF m
  <2>2. Size(m) = m
    BY <1>1, <2>1, Exact
  <2>3. QED
    BY <1>1, <2>1, <2>2 DEF m
<1>3. ReadRange(view, start, n) = RecordsAt(at)
  BY <1>2 DEF ReadRange
<1>4. ASSUME NEW k \in 1..n
      PROVE  at[k] \in 0..N-1 /\ shown[start + k] = bag[at[k] + 1]
  <2> DEFINE i == start + k - 1
  <2>1. i \in 0..L-1 /\ i + 1 = start + k /\ at[k] = GlobalIndex(view, i)
    BY <1>1
  <2> HIDE DEF i, at
  <2>2. QED
    BY <1>1, <2>1
<1>5. DOMAIN at = 1..n
  OBVIOUS
<1> HIDE DEF at
<1>6. RecordsAt(at) = Ok([k \in DOMAIN at |-> bag[at[k] + 1]])
  BY <1>1, <1>4, <1>5, RecordsAtFacts
<1>7. [k \in DOMAIN at |-> bag[at[k] + 1]] = Stretch(shown, start, n)
  BY <1>4, <1>5 DEF Stretch
<1>8. QED
  BY <1>2, <1>3, <1>6, <1>7

\* The whole of a view is read as one range, and shows its list.
LEMMA WholeRange ==
  ASSUME bag \in Bags, NEW view, NEW shown, ShowsList(bag, view, shown)
  PROVE  /\ Size(0 + view.length) = view.length
         /\ ReadRange(view, 0, view.length) = Ok(shown)
<1> DEFINE L == view.length
<1>1. L \in Nat /\ DOMAIN shown = 1..L /\ shown \in Seq(Values)
  BY BagFacts, ListFacts
<1>2. /\ Size(0 + L) = 0 + L
      /\ ReadRange(view, 0, L) = Ok(Stretch(shown, 0, L))
  BY <1>1, RangeOfView
<1>3. shown = [k \in 1..L |-> shown[k]]
  BY <1>1
<1>4. (\A k \in 1..L : 0 + k = k) /\ 0 + L = L
  BY <1>1
<1>5. Stretch(shown, 0, L) = shown
  BY <1>3, <1>4 DEF Stretch
<1>6. QED
  BY <1>2, <1>4, <1>5

\* read and the iterators show the list, but refuse a step of 0; of an empty view
\* the iterators read nothing.
LEMMA WholeRead ==
  ASSUME bag \in Bags, NEW view, NEW shown, ShowsList(bag, view, shown)
  PROVE  /\ Read(view) = IF view.step = 0 THEN ValueError ELSE Ok(shown)
         /\ Iterated(view) = IF view.length = 0 \/ view.step # 0 THEN Ok(shown)
                             ELSE ValueError
<1> DEFINE L == view.length
<1>1. L \in Nat /\ Len(shown) = L /\ shown \in Seq(Values)
  BY BagFacts, ListFacts
<1>2. ~(Size(0 + L) > L) /\ ReadRange(view, 0, L) = Ok(shown)
  BY <1>1, WholeRange
<1>3. Read(view) = IF view.step = 0 THEN ValueError ELSE Ok(shown)
  BY <1>2 DEF Read, ReadRangeWithAllocator
<1>4. L = 0 => shown = <<>>
  BY <1>1
<1>5. QED
  BY <1>3, <1>4 DEF Iterated

\* read_range shows what lies there in the list, or says what is wrong.
LEMMA RangeShown ==
  ASSUME IInv, NEW start \in 0..reader.length, NEW n \in 0..reader.length
  PROVE  ReadRangeWithAllocator(reader, start, n) =
           IF start + n > reader.length THEN IndexError
           ELSE IF Unreadable THEN ValueError
           ELSE Ok(Stretch(list, start, n))
<1> DEFINE N == Len(bag)
           L == reader.length
<1>1. /\ bag \in Bags /\ ShowsList(bag, reader, list)
      /\ N \in Nat /\ N < SizeModulus \div 2 /\ L \in 0..N
  BY ReaderFacts DEF IInv, TypeOK, ViewInv
<1>2. CASE start + n <= L
  <2>1. start \in Nat /\ n \in Nat /\ ~(start + n > L)
    BY <1>1, <1>2
  <2>2. /\ Size(start + n) = start + n
        /\ ReadRange(reader, start, n) = Ok(Stretch(list, start, n))
    BY <1>1, <1>2, <2>1, RangeOfView
  <2> DEFINE m == start + n
  <2>3. ~(m > L) /\ Size(m) = m
    BY <2>1, <2>2
  <2> HIDE DEF m
  <2>4. ReadRangeWithAllocator(reader, start, n) =
          IF Unreadable THEN ValueError ELSE ReadRange(reader, start, n)
    BY <2>3 DEF m, ReadRangeWithAllocator, Unreadable
  <2>5. QED
    BY <2>1, <2>2, <2>4
<1>3. CASE start + n > L
  <2> DEFINE m == start + n
  <2>1. m \in 0..2*N /\ m > L
    BY <1>1, <1>3
  <2> HIDE DEF m
  <2>2. Size(m) = m
    BY <1>1, <2>1, Exact
  <2>3. QED
    BY <2>1, <2>2 DEF m, ReadRangeWithAllocator
<1>4. QED
  <2>1. start + n <= L \/ start + n > L
    BY <1>1
  <2>2. QED
    BY <1>2, <1>3, <2>1

\* read_indices shows the records at the positions in the list.
LEMMA IndicesShown ==
  ASSUME IInv, NEW n \in Nat, NEW positions, DOMAIN positions = 1..n,
         \A k \in 1..n : positions[k] \in 0..reader.length-1
  PROVE  ReadIndices(reader, positions) = Ok([k \in 1..n |-> list[positions[k] + 1]])
<1> DEFINE N == Len(bag)
           L == reader.length
           at == [k \in 1..n |-> GlobalIndex(reader, positions[k])]
<1>1. /\ N \in Nat /\ N < SizeModulus \div 2 /\ L \in 0..N
      /\ \A i \in 0..L-1 : /\ GlobalIndex(reader, i) \in 0..N-1
                           /\ list[i + 1] = bag[GlobalIndex(reader, i) + 1]
  BY ReaderFacts
<1>2. \A k \in 1..n : /\ at[k] = GlobalIndex(reader, positions[k])
                      /\ at[k] \in 0..N-1 /\ list[positions[k] + 1] = bag[at[k] + 1]
  BY <1>1
<1>3. DOMAIN at = 1..n
  OBVIOUS
<1>4. ReadIndices(reader, positions) = RecordsAt(at)
  <2>1. CASE reader.start = 0 /\ reader.step = 1
    <3>1. \A k \in 1..n : at[k] = positions[k]
      <4> SUFFICES ASSUME NEW k \in 1..n
                   PROVE  at[k] = positions[k]
        OBVIOUS
      <4> DEFINE p == positions[k]
      <4>1. p \in 0..L-1 /\ p \in 0..2*N
        BY <1>1
      <4> HIDE DEF p
      <4>2. reader.start + p * reader.step = p
        BY <2>1, <4>1
      <4>3. GlobalIndex(reader, p) = p
        BY <1>1, <4>1, <4>2, Exact DEF GlobalIndex
      <4>4. QED
        BY <1>2, <4>3 DEF p
    <3> HIDE DEF at
    <3>2. \A k \in 1..n : positions[k] \in 0..N-1 /\ bag[at[k] + 1] = bag[positions[k] + 1]
      <4> SUFFICES ASSUME NEW k \in 1..n
                   PROVE  positions[k] \in 0..N-1 /\ bag[at[k] + 1] = bag[positions[k] + 1]
        OBVIOUS
      <4> DEFINE p == positions[k]
      <4>1. p \in 0..L-1 /\ at[k] = p
        BY <3>1
      <4> HIDE DEF p
      <4>2. p \in 0..N-1
        <5>1. N \in Nat /\ L \in 0..N
          BY <1>1
        <5> HIDE DEF N, L
        <5>2. QED
          BY <4>1, <5>1
      <4>3. QED
        BY <4>1, <4>2 DEF p
    <3>3. RecordsAt(positions) = Ok([k \in 1..n |-> bag[positions[k] + 1]])
      BY <1>1, <3>2, RecordsAtFacts
    <3>4. RecordsAt(at) = Ok([k \in 1..n |-> bag[at[k] + 1]])
      BY <1>1, <1>2, <1>3, RecordsAtFacts
    <3>5. [k \in 1..n |-> bag[positions[k] + 1]] = [k \in 1..n |-> bag[at[k] + 1]]
      BY <3>2
    <3>6. QED
      BY <2>1, <3>3, <3>4, <3>5 DEF ReadIndices
  <2>2. CASE ~(reader.start = 0 /\ reader.step = 1)
    <3>1. ~\E k \in DOMAIN positions : positions[k] >= L
      BY <1>1
    <3>2. QED
      BY <2>2, <3>1 DEF ReadIndices
  <2>3. QED
    BY <2>1, <2>2
<1> HIDE DEF at
<1>5. RecordsAt(at) = Ok([k \in DOMAIN at |-> bag[at[k] + 1]])
  BY <1>1, <1>2, <1>3, RecordsAtFacts
<1>6. [k \in DOMAIN at |-> bag[at[k] + 1]] = [k \in 1..n |-> list[positions[k] + 1]]
  BY <1>2, <1>3
<1>7. QED
  BY <1>4, <1>5, <1>6

\* read_indices of a slice, by range or by indices.
LEMMA SliceShown ==
  ASSUME IInv,
         NEW start \in Slices, NEW stop \in Slices, NEW step \in SliceSteps
  PROVE  LET listed == ComputedSlice(Len(list), start, stop, step)
         IN  ReadIndicesFromSlice(reader, start, stop, step) =
               IF Unreadable /\ step = 1 THEN ValueError
               ELSE Ok([k \in 1..listed.length |->
                          list[listed.start + (k - 1) * listed.step + 1]])
<1> DEFINE L == reader.length
           slice == ComputedSlice(L, start, stop, step)
           first == slice.start
           n == slice.length
           wanted == [k \in 1..n |-> list[first + (k - 1) * step + 1]]
<1>1. Len(bag) \in Nat /\ Len(bag) < SizeModulus \div 2 /\ L \in 0..Len(bag)
      /\ Len(list) = L /\ L \in Nat
  BY ReaderFacts
<1>2. /\ step \in Int /\ step # 0 /\ slice.step = step
      /\ Spaced(first, step, n, L) /\ (step = 1 => first \in 0..L)
  BY <1>1, ComputedSliceFacts
<1>3. n \in Nat /\ first \in Int
  BY <1>1, <1>2 DEF Spaced
<1>4. ReadIndicesFromSlice(reader, start, stop, step)
        = IF step = 1 THEN ReadRangeWithAllocator(reader, Size(first), n)
          ELSE ReadIndices(reader, [k \in 1..n |-> Size(first + (k - 1) * step)])
  BY <1>2 DEF ReadIndicesFromSlice
<1> HIDE DEF slice, first, n
<1>5. ASSUME step = 1
      PROVE  ReadIndicesFromSlice(reader, start, stop, step) =
               IF Unreadable THEN ValueError ELSE Ok(wanted)
  <2>1. first + n <= L /\ first \in 0..L /\ n \in 0..L /\ ~(first + n > L)
    <3>1. n # 0 => first + (n - 1) * 1 \in 0..L-1
      BY <1>2, <1>5 DEF Spaced
    <3>2. QED
      BY <1>1, <1>2, <1>3, <1>5, <3>1
  <2>2. Size(first) = first
    <3>1. first \in 0..2*Len(bag)
      BY <1>1, <2>1
    <3>2. QED
      BY <1>1, <3>1, Exact
  <2>3. ReadRangeWithAllocator(reader, first, n) =
          IF Unreadable THEN ValueError ELSE Ok(Stretch(list, first, n))
    BY <2>1, RangeShown
  <2>4. \A k \in 1..n : first + (k - 1) * step + 1 = first + k
    BY <1>3, <1>5
  <2>5. wanted = Stretch(list, first, n)
    BY <2>4 DEF Stretch
  <2>6. QED
    BY <1>4, <1>5, <2>2, <2>3, <2>5
<1>6. ASSUME step # 1
      PROVE  ReadIndicesFromSlice(reader, start, stop, step) = Ok(wanted)
  <2> DEFINE positions == [k \in 1..n |-> Size(first + (k - 1) * step)]
  <2>1. ASSUME NEW k \in 1..n
        PROVE  positions[k] = first + (k - 1) * step /\ positions[k] \in 0..L-1
    <3> DEFINE j == k - 1
               p == first + j * step
    <3>1. j \in 0..n-1
      BY <1>3
    <3> HIDE DEF j
    <3>2. p \in 0..L-1
      BY <1>1, <1>2, <3>1, SpacedFacts
    <3> HIDE DEF p
    <3>3. p \in 0..2*Len(bag)
      BY <1>1, <3>2
    <3>4. Size(p) = p
      BY <1>1, <3>3, Exact
    <3>5. positions[k] = Size(p)
      BY DEF p, j
    <3> HIDE DEF positions
    <3>6. positions[k] = p /\ positions[k] \in 0..L-1
      BY <3>2, <3>4, <3>5
    <3>7. QED
      BY <3>6 DEF p, j
  <2>2. DOMAIN positions = 1..n
    OBVIOUS
  <2>3. ReadIndicesFromSlice(reader, start, stop, step) = ReadIndices(reader, positions)
    BY <1>4, <1>6
  <2> HIDE DEF positions
  <2>4. ReadIndices(reader, positions) = Ok([k \in 1..n |-> list[positions[k] + 1]])
    BY <1>3, <2>1, <2>2, IndicesShown
  <2>5. [k \in 1..n |-> list[positions[k] + 1]] = wanted
    BY <2>1
  <2>6. QED
    BY <2>3, <2>4, <2>5
<1>7. ReadIndicesFromSlice(reader, start, stop, step) =
        IF Unreadable /\ step = 1 THEN ValueError ELSE Ok(wanted)
  BY <1>5, <1>6
<1>8. wanted = [k \in 1..slice.length |->
                  list[slice.start + (k - 1) * slice.step + 1]]
  BY <1>2 DEF first, n
<1>9. ComputedSlice(Len(list), start, stop, step) = slice
  BY <1>1 DEF slice
<1> HIDE DEF wanted
<1>10. QED
  BY <1>7, <1>8, <1>9

-----------------------------------------------------------------------------
(* Searching *)

\* Every non-empty set of naturals has a least element.
LEMMA LeastNatural ==
  ASSUME NEW T \in SUBSET Nat, T # {}
  PROVE  \E n \in T : \A m \in T : n <= m
<1> DEFINE R == StrictSubsetOrdering(Nat)
           X == {0..n : n \in T}
<1>1. X \subseteq FiniteSubsetsOf(Nat)
  <2>1. \A n \in T : IsFiniteSet(0..n)
    BY FS_Interval
  <2> QED BY <2>1 DEF FiniteSubsetsOf
<1>2. X # {}
  OBVIOUS
<1>3. IsWellFoundedOn(R, FiniteSubsetsOf(Nat))
  BY FS_StrictSubsetOrderingWellFounded
<1> HIDE DEF R
<1>4. PICK x \in X : \A y \in X : ~ (<<y, x>> \in R)
  <2> HIDE DEF X
  <2> QED BY <1>1, <1>2, <1>3, WFMin
<1>5. PICK n \in T : x = 0..n
  BY <1>4
<1>6. ASSUME NEW m \in T, m < n
      PROVE  FALSE
  <2>1. 0..m \in X /\ 0..m \subseteq Nat /\ 0..n \subseteq Nat
    OBVIOUS
  <2>2. 0..m \subseteq 0..n
    BY <1>6
  <2>3. n \in 0..n /\ n \notin 0..m
    BY <1>6
  <2>4. <<0..m, 0..n>> \in R
    BY <2>1, <2>2, <2>3 DEF R, StrictSubsetOrdering
  <2> QED BY <2>1, <2>4, <1>4, <1>5
<1> QED BY <1>6

\* A set of naturals, if it has an element, has a least one, which is its Min.
LEMMA MinFacts ==
  ASSUME NEW T \in SUBSET Nat, T # {}
  PROVE  Min(T) \in T /\ \A m \in T : Min(T) <= m
<1>1. PICK n \in T : \A m \in T : n <= m
  BY LeastNatural
<1>2. QED
  BY <1>1 DEF Min

\* The Min of a set all of whose elements are moved moves with them.
LEMMA MinMoves ==
  ASSUME NEW S \in SUBSET Nat, NEW T \in SUBSET Nat, NEW d \in Int,
         \A k \in S : k + d \in T, \A i \in T : i - d \in S
  PROVE  /\ S = {} <=> T = {}
         /\ T # {} => Min(T) = Min(S) + d
<1>1. S = {} <=> T = {}
  OBVIOUS
<1>2. ASSUME T # {}
      PROVE  Min(T) = Min(S) + d
  <2> DEFINE s == Min(S)
             t == Min(T)
  <2>1. s \in S /\ (\A m \in S : s <= m) /\ t \in T /\ (\A m \in T : t <= m)
    BY <1>1, <1>2, MinFacts
  <2> HIDE DEF s, t
  <2>2. s + d \in T /\ t - d \in S
    BY <2>1
  <2>3. s \in Int /\ t \in Int /\ t <= s + d /\ s <= t - d
    BY <2>1, <2>2
  <2>4. t = s + d
    BY <2>3
  <2>5. QED
    BY <2>4 DEF s, t
<1>3. QED
  BY <1>1, <1>2

\* The slice that index searches is the part of the list.
LEMMA SearchedPart ==
  ASSUME IInv, NEW start \in Nat, NEW n \in Nat, start + n <= reader.length
  PROVE  LET slice == SliceOf(reader, start, 1, n)
         IN  /\ SliceFits(reader, start, 1, n)
             /\ slice.length = n /\ (n # 0 => slice.step = reader.step)
             /\ ShowsList(bag, slice, Stretch(list, start, n))
<1> DEFINE N == Len(bag)
           L == reader.length
           one == 1
           sized == SliceOf(reader, Size(start), one, n)
           listed == [k \in 1..n |-> list[start + (k - 1) * one + 1]]
<1>1. /\ N \in Nat /\ N < SizeModulus \div 2 /\ L \in 0..N /\ InBag(reader, N)
      /\ bag \in Bags /\ ShowsList(bag, reader, list) /\ reader.step \in Int
  BY ReaderFacts DEF IInv, TypeOK, ViewInv, ShowsList
<1>2. Size(start) = start
  <2>1. start \in 0..2*N
    BY <1>1
  <2>2. QED
    BY <1>1, <2>1, Exact
<1>3. one # 0 /\ Spaced(start, one, n, L)
  <2>1. n \in 0..L /\ (n # 0 => start \in 0..L-1 /\ start + (n - 1) * 1 \in 0..L-1)
    BY <1>1
  <2>2. QED
    BY <2>1 DEF Spaced
<1>4. \A k \in 1..n : start + (k - 1) * one + 1 = start + k
  OBVIOUS
<1>5. listed = Stretch(list, start, n)
  BY <1>4 DEF Stretch
<1>6. n # 0 => Int64(1 * reader.step) = reader.step
  <2>1. 1 * reader.step = reader.step /\ (n # 0 => L # 0)
    BY <1>1
  <2>2. QED
    BY <2>1 DEF IInv, StepInv
<1>7. sized.length = n /\ (n # 0 => sized.step = reader.step)
  BY <1>6 DEF SliceOf
<1> HIDE DEF one, sized, listed
<1>8. SliceFits(reader, Size(start), one, n)
  BY <1>1, <1>3, SliceFacts
<1>9. ShowsList(bag, sized, listed)
  BY <1>1, <1>3, SliceStep DEF sized, listed
<1>10. sized = SliceOf(reader, start, 1, n)
  BY <1>2 DEF sized, one
<1>11. QED
  BY <1>2, <1>5, <1>7, <1>8, <1>9, <1>10 DEF one

\* index finds the first place in the part that it searches.
LEMMA IndexOfFinds ==
  ASSUME IInv, ~Unreadable \/ reader.length = 0, NEW value,
         NEW start \in Nat, NEW n \in Nat, start + n <= reader.length
  PROVE  IndexOf(reader, value, start, n) = FirstIn(value, start, start + n)
<1> DEFINE part == Stretch(list, start, n)
           S == {k \in 1..n : part[k] = value}
           T == {i \in start..(start + n)-1 : list[i + 1] = value}
           d == start - 1
<1>1. IndexOf(reader, value, start, n)
        = IF S = {} THEN ValueError ELSE Ok(start + Min(S) - 1)
  <2> DEFINE slice == SliceOf(reader, start, 1, n)
  <2>1. PositionsOf(value, part) = S
    BY DEF PositionsOf, Stretch
  <2>2. /\ SliceFits(reader, start, 1, n) /\ ShowsList(bag, slice, part)
        /\ slice.length = n /\ (n # 0 => slice.step = reader.step)
    BY SearchedPart
  <2> HIDE DEF part, S, slice
  <2>3. Iterated(slice) = Ok(part)
    <3>1. bag \in Bags /\ reader.length \in Nat
      BY ReaderFacts DEF IInv, TypeOK
    <3>2. n = 0 \/ slice.step # 0
      BY <2>2, <3>1 DEF Unreadable
    <3>3. QED
      BY <2>2, <3>1, <3>2, WholeRead
  <2>4. Ok(part)[1] = "ok" /\ Ok(part)[2] = part
    BY DEF Ok
  <2>5. QED
    BY <2>1, <2>2, <2>3, <2>4 DEF IndexOf, slice
<1>2. FirstIn(value, start, start + n) = IF T = {} THEN ValueError ELSE Ok(Min(T))
  BY DEF FirstIn
<1>3. \A k \in S : k + d \in T
  <2> SUFFICES ASSUME NEW k \in S
               PROVE  k + d \in T
    OBVIOUS
  <2>1. k \in 1..n /\ list[start + k] = value
    BY DEF Stretch
  <2>2. k + d \in start..(start + n)-1 /\ (k + d) + 1 = start + k
    BY <2>1
  <2>3. QED
    BY <2>1, <2>2
<1>4. \A i \in T : i - d \in S
  <2> SUFFICES ASSUME NEW i \in T
               PROVE  i - d \in S
    OBVIOUS
  <2>1. i \in start..(start + n)-1 /\ list[i + 1] = value
    OBVIOUS
  <2>2. i - d \in 1..n /\ start + (i - d) = i + 1
    BY <2>1
  <2>3. QED
    BY <2>1, <2>2 DEF Stretch
<1>5. S \in SUBSET Nat /\ T \in SUBSET Nat /\ d \in Int
  OBVIOUS
<1> HIDE DEF S, T
<1>6. (S = {} <=> T = {}) /\ (T # {} => Min(T) = Min(S) + d)
  BY <1>3, <1>4, <1>5, MinMoves
<1>7. CASE T = {}
  BY <1>1, <1>2, <1>6, <1>7
<1>8. CASE T # {}
  <2>1. Min(S) \in Nat
    BY <1>5, <1>6, <1>8, MinFacts
  <2>2. start + Min(S) - 1 = Min(S) + d
    BY <2>1
  <2>3. QED
    BY <1>1, <1>2, <1>6, <1>8, <2>2
<1>9. QED
  BY <1>7, <1>8

\* Searching no records finds none, wherever they would start.
LEMMA NothingSearched ==
  ASSUME NEW value, NEW start \in Nat
  PROVE  /\ IndexOf(reader, value, start, 0) = ValueError
         /\ FirstIn(value, start, start + 0) = ValueError
<1> DEFINE slice == SliceOf(reader, start, 1, 0)
<1>1. SliceFits(reader, start, 1, 0) /\ slice.length = 0
  BY DEF SliceFits, SliceOf
<1> HIDE DEF slice
<1>2. Iterated(slice) = Ok(<<>>)
  BY <1>1 DEF Iterated
<1>3. Ok(<<>>)[1] = "ok" /\ Ok(<<>>)[2] = <<>> /\ PositionsOf(value, <<>>) = {}
  BY DEF Ok, PositionsOf
<1>4. IndexOf(reader, value, start, 0) = ValueError
  BY <1>1, <1>2, <1>3 DEF IndexOf, slice
<1>5. start..(start + 0)-1 = {}
  OBVIOUS
<1>6. FirstIn(value, start, start + 0) = ValueError
  BY <1>5 DEF FirstIn
<1>7. QED
  BY <1>4, <1>6

\* A part that the reader does not have is refused.
LEMMA NoSuchPart ==
  ASSUME IInv, NEW value, NEW start \in Nat, NEW n \in Nat \ {0},
         \/ start >= reader.length
         \/ start + n \in (reader.length + 1)..(2 * reader.length)
  PROVE  IndexOf(reader, value, start, n) = IndexError
<1> DEFINE N == Len(bag)
           L == reader.length
<1>1. N \in Nat /\ N < SizeModulus \div 2 /\ L \in 0..N
  BY ReaderFacts
<1>2. CASE start >= L
  <2>1. ~SliceFits(reader, start, 1, n)
    BY <1>1, <1>2 DEF SliceFits
  <2>2. QED
    BY <2>1 DEF IndexOf
<1>3. CASE start + n \in (L + 1)..(2 * L)
  <2> DEFINE m == start + 1 * (n - 1) + 1
  <2>1. m \in 0..2*N /\ m > L
    BY <1>1, <1>3
  <2>2. SliceFits(reader, start, 1, n) => Size(m) <= L
    BY DEF SliceFits
  <2> HIDE DEF m
  <2>3. Size(m) = m
    BY <1>1, <2>1, Exact
  <2>4. ~SliceFits(reader, start, 1, n)
    BY <1>1, <2>1, <2>2, <2>3
  <2>5. QED
    BY <2>4 DEF IndexOf
<1>4. QED
  BY <1>2, <1>3

-----------------------------------------------------------------------------
(* Index and MultiIndex *)

\* The values among the first n records, and where one of them stands.
Seen(records, n) == {records[k] : k \in 1..n}

PlacesOf(value, records, n) == {i \in 0..n-1 : records[i + 1] = value}

\* Index maps each value to its first place.
IsIndex(index, records, n) ==
  /\ DOMAIN index = Seen(records, n)
  /\ \A v \in Seen(records, n) :
       /\ index[v] \in PlacesOf(v, records, n)
       /\ \A i \in PlacesOf(v, records, n) : index[v] <= i

\* MultiIndex maps each value to its places, in order.
Lists(positions, places) ==
  /\ positions \in Seq(places)
  /\ \A i \in places : \E k \in 1..Len(positions) : positions[k] = i
  /\ \A j, k \in 1..Len(positions) : j < k => positions[j] < positions[k]

IsMultiIndex(index, records, n) ==
  /\ DOMAIN index = Seen(records, n)
  /\ \A v \in Seen(records, n) : Lists(index[v], PlacesOf(v, records, n))

\* What the n-th record adds to what has been seen, and where.
LEMMA SeenMore ==
  ASSUME NEW records, NEW n \in Nat \ {0}
  PROVE  /\ Seen(records, n) = Seen(records, n - 1) \cup {records[n]}
         /\ \A v : PlacesOf(v, records, n) =
                    IF v = records[n] THEN PlacesOf(v, records, n - 1) \cup {n - 1}
                                      ELSE PlacesOf(v, records, n - 1)
         /\ \A v : PlacesOf(v, records, n - 1) \in SUBSET (0..n-2)
         /\ \A v : v \notin Seen(records, n - 1) => PlacesOf(v, records, n - 1) = {}
<1>1. Seen(records, n) = Seen(records, n - 1) \cup {records[n]}
  <2>1. 1..n = (1..(n - 1)) \cup {n}
    OBVIOUS
  <2>2. QED
    BY <2>1 DEF Seen
<1>2. 0..n-1 = (0..(n - 1)-1) \cup {n - 1} /\ (n - 1) + 1 = n
  OBVIOUS
<1>3. ASSUME NEW v
      PROVE  PlacesOf(v, records, n) =
               IF v = records[n] THEN PlacesOf(v, records, n - 1) \cup {n - 1}
                                 ELSE PlacesOf(v, records, n - 1)
  BY <1>2 DEF PlacesOf
<1>4. ASSUME NEW v
      PROVE  PlacesOf(v, records, n - 1) \in SUBSET (0..n-2)
  BY DEF PlacesOf
<1>5. ASSUME NEW v, v \notin Seen(records, n - 1)
      PROVE  PlacesOf(v, records, n - 1) = {}
  <2> SUFFICES ASSUME NEW i \in PlacesOf(v, records, n - 1)
               PROVE  FALSE
    OBVIOUS
  <2>1. i + 1 \in 1..(n - 1) /\ records[i + 1] = v
    BY DEF PlacesOf
  <2>2. QED
    BY <1>5, <2>1 DEF Seen
<1>6. QED
  BY <1>1, <1>3, <1>4, <1>5

\* emplace keeps the first place of a value that has one.
LEMMA EmplaceStep ==
  ASSUME NEW records, NEW n \in Nat \ {0}, NEW index, IsIndex(index, records, n - 1)
  PROVE  IsIndex(Emplace(index, records[n], n - 1), records, n)
<1> DEFINE r == records[n]
           next == Emplace(index, r, n - 1)
           S == Seen(records, n - 1)
<1>1. /\ Seen(records, n) = S \cup {r} /\ DOMAIN index = S
      /\ DOMAIN next = S \cup {r}
      /\ \A v \in S \cup {r} : next[v] = IF v \in S THEN index[v] ELSE n - 1
  BY SeenMore DEF IsIndex, Emplace
<1> HIDE DEF next
<1>2. ASSUME NEW v \in S \cup {r}
      PROVE  /\ next[v] \in PlacesOf(v, records, n)
             /\ \A i \in PlacesOf(v, records, n) : next[v] <= i
  <2> DEFINE P == PlacesOf(v, records, n - 1)
             Q == PlacesOf(v, records, n)
  <2>1. /\ Q = (IF v = r THEN P \cup {n - 1} ELSE P) /\ P \in SUBSET (0..n-2)
        /\ v \notin S => P = {}
    BY SeenMore
  <2>2. v \in S => index[v] \in P /\ \A i \in P : index[v] <= i
    BY DEF IsIndex
  <2> HIDE DEF P, Q, S
  <2>3. CASE v \in S
    <3>1. next[v] = index[v] /\ index[v] \in P /\ \A i \in P : index[v] <= i
      BY <1>1, <2>2, <2>3
    <3>2. index[v] \in 0..n-2
      BY <2>1, <3>1
    <3>3. index[v] <= n - 1
      BY <3>2
    <3>4. index[v] \in Q /\ \A i \in Q : index[v] <= i
      BY <2>1, <3>1, <3>3
    <3>5. QED
      BY <3>1, <3>4 DEF Q
  <2>4. CASE v \notin S
    <3>1. next[v] = n - 1 /\ Q = {n - 1}
      BY <1>1, <2>1, <2>4
    <3>2. QED
      BY <3>1 DEF Q
  <2>5. QED
    BY <2>3, <2>4
<1>3. QED
  BY <1>1, <1>2 DEF IsIndex, next

\* A list of places is in order, so that one behind all of them goes to its end.
LEMMA ListsMore ==
  ASSUME NEW n \in Nat \ {0}, NEW places \in SUBSET (0..n-2), NEW positions,
         Lists(positions, places)
  PROVE  Lists(Append(positions, n - 1), places \cup {n - 1})
<1> DEFINE more == Append(positions, n - 1)
           m == Len(positions)
<1>1. positions \in Seq(places) /\ m \in Nat
  BY DEF Lists
<1>2. /\ more \in Seq(places \cup {n - 1}) /\ Len(more) = m + 1
      /\ \A k \in 1..m : more[k] = positions[k] /\ positions[k] \in places
      /\ more[m + 1] = n - 1
  <2>1. positions \in Seq(places \cup {n - 1})
    BY <1>1
  <2>2. QED
    BY <1>1, <2>1
<1> HIDE DEF more, m
<1>3. \A i \in places \cup {n - 1} : \E k \in 1..Len(more) : more[k] = i
  <2>1. \A i \in places : \E k \in 1..m : positions[k] = i
    BY DEF Lists, m
  <2>2. m + 1 \in 1..m + 1 /\ \A k \in 1..m : k \in 1..m + 1
    BY <1>1
  <2>3. QED
    BY <1>2, <2>1, <2>2
<1>4. ASSUME NEW j \in 1..Len(more), NEW k \in 1..Len(more), j < k
      PROVE  more[j] < more[k]
  <2>1. j \in 1..m /\ more[j] = positions[j] /\ positions[j] \in 0..n-2
    <3>1. Len(more) = m + 1
      BY <1>2
    <3>2. j \in 1..m
      BY <1>1, <1>4, <3>1
    <3>3. more[j] = positions[j] /\ positions[j] \in places
      BY <1>2, <3>2
    <3>4. QED
      BY <3>2, <3>3
  <2>2. CASE k = m + 1
    <3>1. more[k] = n - 1
      BY <1>2, <2>2
    <3>2. QED
      BY <2>1, <3>1
  <2>3. CASE k # m + 1
    <3>1. k \in 1..m /\ more[k] = positions[k]
      BY <1>1, <1>2, <2>3
    <3>2. positions[j] < positions[k]
      BY <1>4, <2>1, <3>1 DEF Lists, m
    <3>3. QED
      BY <2>1, <3>1, <3>2
  <2>4. QED
    BY <2>2, <2>3
<1>5. QED
  BY <1>2, <1>3, <1>4 DEF Lists, more

\* push_back adds the place to those of its value only.
LEMMA PushBackStep ==
  ASSUME NEW records, NEW n \in Nat \ {0}, NEW index, IsMultiIndex(index, records, n - 1)
  PROVE  IsMultiIndex(PushBack(index, records[n], n - 1), records, n)
<1> DEFINE r == records[n]
           next == PushBack(index, r, n - 1)
           S == Seen(records, n - 1)
<1>1. /\ Seen(records, n) = S \cup {r} /\ DOMAIN index = S
      /\ DOMAIN next = S \cup {r}
      /\ \A v \in S \cup {r} : next[v] = IF v \notin S THEN <<n - 1>>
                                         ELSE IF v = r THEN Append(index[v], n - 1)
                                         ELSE index[v]
  BY SeenMore DEF IsMultiIndex, PushBack
<1> HIDE DEF next
<1>2. ASSUME NEW v \in S \cup {r}
      PROVE  Lists(next[v], PlacesOf(v, records, n))
  <2> DEFINE P == PlacesOf(v, records, n - 1)
             Q == PlacesOf(v, records, n)
  <2>1. /\ Q = (IF v = r THEN P \cup {n - 1} ELSE P) /\ P \in SUBSET (0..n-2)
        /\ v \notin S => P = {}
    BY SeenMore
  <2>2. v \in S => Lists(index[v], P)
    BY DEF IsMultiIndex
  <2> HIDE DEF P, Q, S
  <2>3. CASE v \in S /\ v = r
    <3>1. Lists(Append(index[v], n - 1), P \cup {n - 1})
      BY <2>1, <2>2, <2>3, ListsMore
    <3>2. QED
      BY <1>1, <2>1, <2>3, <3>1 DEF Q
  <2>4. CASE v \in S /\ v # r
    BY <1>1, <2>1, <2>2, <2>4 DEF Q
  <2>5. CASE v \notin S
    <3>1. next[v] = <<n - 1>> /\ Q = {n - 1}
      BY <1>1, <2>1, <2>5
    <3>2. Lists(<<n - 1>>, {n - 1})
      BY DEF Lists
    <3>3. QED
      BY <3>1, <3>2 DEF Q
  <2>6. QED
    BY <2>3, <2>4, <2>5
<1>3. QED
  BY <1>1, <1>2 DEF IsMultiIndex, next

\* The recursion of IndexOfRecords has a solution; otherwise there were a first
\* number of records without one.
LEMMA IndexExists ==
  ASSUME NEW records, Len(records) \in Nat
  PROVE  \E f : f = [n \in 0..Len(records) |->
                      IF n = 0 THEN EmptyMap ELSE Emplace(f[n - 1], records[n], n - 1)]
<1> DEFINE L == Len(records)
           Built(f, m) == f = [n \in 0..m |-> IF n = 0 THEN EmptyMap
                                              ELSE Emplace(f[n - 1], records[n], n - 1)]
           T == {m \in 0..L : ~\E f : Built(f, m)}
<1>1. SUFFICES ASSUME T # {}
               PROVE  FALSE
  <2>1. L \in 0..L
    OBVIOUS
  <2>2. QED
    BY <2>1
<1>2. PICK m \in T : \A k \in T : m <= k
  <2>1. T \in SUBSET Nat
    OBVIOUS
  <2> HIDE DEF T
  <2>2. QED
    BY <1>1, <2>1, LeastNatural
<1>3. m \in 0..L /\ ~\E f : Built(f, m)
  OBVIOUS
<1>4. m # 0
  <2>1. Built([n \in 0..0 |-> EmptyMap], 0)
    OBVIOUS
  <2> HIDE DEF Built
  <2>2. QED
    BY <1>3, <2>1
<1>5. m - 1 \in 0..L /\ m \in Nat /\ m - 1 \in Nat
  BY <1>3, <1>4
<1>6. PICK f : Built(f, m - 1)
  <2>1. m - 1 \notin T
    <3> HIDE DEF T
    <3>1. QED
      BY <1>2, <1>5
  <2> HIDE DEF Built
  <2>2. QED
    BY <1>5, <2>1
<1> DEFINE g == [n \in 0..m |-> IF n = m THEN Emplace(f[m - 1], records[m], m - 1) ELSE f[n]]
<1>7. ASSUME NEW n \in 0..m
      PROVE  g[n] = IF n = 0 THEN EmptyMap ELSE Emplace(g[n - 1], records[n], n - 1)
  <2>1. CASE n = m
    <3>1. m - 1 \in 0..m /\ m - 1 # m
      BY <1>5
    <3>2. g[m - 1] = f[m - 1]
      BY <3>1
    <3>3. g[n] = Emplace(f[m - 1], records[m], m - 1)
      BY <2>1
    <3> HIDE DEF g
    <3>4. QED
      BY <1>4, <2>1, <3>2, <3>3
  <2>2. CASE n # m
    <3>1. n \in 0..(m - 1) /\ g[n] = f[n]
      BY <1>5, <2>2
    <3>2. f[n] = IF n = 0 THEN EmptyMap ELSE Emplace(f[n - 1], records[n], n - 1)
      BY <1>6, <3>1
    <3>3. n # 0 => n - 1 \in 0..m /\ n - 1 # m
      BY <1>5, <3>1
    <3>4. n # 0 => g[n - 1] = f[n - 1]
      BY <3>3
    <3> HIDE DEF g
    <3>5. QED
      BY <3>1, <3>2, <3>4
  <2>3. QED
    BY <2>1, <2>2
<1>8. Built(g, m)
  BY <1>7
<1> HIDE DEF Built
<1>9. QED
  BY <1>3, <1>8

\* The recursion of MultiIndexOfRecords has a solution; otherwise there were a first
\* number of records without one.
LEMMA MultiIndexExists ==
  ASSUME NEW records, Len(records) \in Nat
  PROVE  \E f : f = [n \in 0..Len(records) |->
                      IF n = 0 THEN EmptyMap ELSE PushBack(f[n - 1], records[n], n - 1)]
<1> DEFINE L == Len(records)
           Built(f, m) == f = [n \in 0..m |-> IF n = 0 THEN EmptyMap
                                              ELSE PushBack(f[n - 1], records[n], n - 1)]
           T == {m \in 0..L : ~\E f : Built(f, m)}
<1>1. SUFFICES ASSUME T # {}
               PROVE  FALSE
  <2>1. L \in 0..L
    OBVIOUS
  <2>2. QED
    BY <2>1
<1>2. PICK m \in T : \A k \in T : m <= k
  <2>1. T \in SUBSET Nat
    OBVIOUS
  <2> HIDE DEF T
  <2>2. QED
    BY <1>1, <2>1, LeastNatural
<1>3. m \in 0..L /\ ~\E f : Built(f, m)
  OBVIOUS
<1>4. m # 0
  <2>1. Built([n \in 0..0 |-> EmptyMap], 0)
    OBVIOUS
  <2> HIDE DEF Built
  <2>2. QED
    BY <1>3, <2>1
<1>5. m - 1 \in 0..L /\ m \in Nat /\ m - 1 \in Nat
  BY <1>3, <1>4
<1>6. PICK f : Built(f, m - 1)
  <2>1. m - 1 \notin T
    <3> HIDE DEF T
    <3>1. QED
      BY <1>2, <1>5
  <2> HIDE DEF Built
  <2>2. QED
    BY <1>5, <2>1
<1> DEFINE g == [n \in 0..m |-> IF n = m THEN PushBack(f[m - 1], records[m], m - 1) ELSE f[n]]
<1>7. ASSUME NEW n \in 0..m
      PROVE  g[n] = IF n = 0 THEN EmptyMap ELSE PushBack(g[n - 1], records[n], n - 1)
  <2>1. CASE n = m
    <3>1. m - 1 \in 0..m /\ m - 1 # m
      BY <1>5
    <3>2. g[m - 1] = f[m - 1]
      BY <3>1
    <3>3. g[n] = PushBack(f[m - 1], records[m], m - 1)
      BY <2>1
    <3> HIDE DEF g
    <3>4. QED
      BY <1>4, <2>1, <3>2, <3>3
  <2>2. CASE n # m
    <3>1. n \in 0..(m - 1) /\ g[n] = f[n]
      BY <1>5, <2>2
    <3>2. f[n] = IF n = 0 THEN EmptyMap ELSE PushBack(f[n - 1], records[n], n - 1)
      BY <1>6, <3>1
    <3>3. n # 0 => n - 1 \in 0..m /\ n - 1 # m
      BY <1>5, <3>1
    <3>4. n # 0 => g[n - 1] = f[n - 1]
      BY <3>3
    <3> HIDE DEF g
    <3>5. QED
      BY <3>1, <3>2, <3>4
  <2>3. QED
    BY <2>1, <2>2
<1>8. Built(g, m)
  BY <1>7
<1> HIDE DEF Built
<1>9. QED
  BY <1>3, <1>8

\* Index maps each value to its first place, however many records there are.
LEMMA IndexOfRecordsFacts ==
  ASSUME NEW records, Len(records) \in Nat
  PROVE  IsIndex(IndexOfRecords(records), records, Len(records))
<1> DEFINE L == Len(records)
           Built(f) == f = [n \in 0..L |-> IF n = 0 THEN EmptyMap
                                           ELSE Emplace(f[n - 1], records[n], n - 1)]
           c == CHOOSE f : Built(f)
           T == {n \in 0..L : ~IsIndex(c[n], records, n)}
<1>1. Built(c)
  <2>1. \E f : Built(f)
    BY IndexExists
  <2> HIDE DEF Built
  <2>2. QED
    BY <2>1
<1>2. IndexOfRecords(records) = c[L]
  BY DEF IndexOfRecords
<1> HIDE DEF c
<1>3. \A n \in 0..L : c[n] = IF n = 0 THEN EmptyMap ELSE Emplace(c[n - 1], records[n], n - 1)
  BY <1>1
<1>4. T = {}
  <2>1. SUFFICES ASSUME T # {}
                 PROVE  FALSE
    OBVIOUS
  <2>2. PICK n \in T : \A k \in T : n <= k
    <3>1. T \in SUBSET Nat
      OBVIOUS
    <3> HIDE DEF T
    <3>2. QED
      BY <2>1, <3>1, LeastNatural
  <2>3. n \in 0..L /\ ~IsIndex(c[n], records, n)
    OBVIOUS
  <2>4. n # 0
    <3>1. IsIndex(EmptyMap, records, 0)
      BY DEF IsIndex, EmptyMap, Seen
    <3>2. c[0] = EmptyMap
      BY <1>3
    <3>3. QED
      BY <2>3, <3>1, <3>2
  <2>5. n \in Nat \ {0} /\ n - 1 \in 0..L
    BY <2>3, <2>4
  <2>6. IsIndex(c[n - 1], records, n - 1)
    <3>1. n - 1 \notin T
      <4> HIDE DEF T
      <4>1. QED
        BY <2>2, <2>5
    <3>2. QED
      BY <2>5, <3>1
  <2>7. c[n] = Emplace(c[n - 1], records[n], n - 1)
    BY <1>3, <2>3, <2>4
  <2>8. QED
    BY <2>3, <2>5, <2>6, <2>7, EmplaceStep
<1>5. QED
  BY <1>2, <1>4

\* MultiIndex maps each value to its places.
LEMMA MultiIndexOfRecordsFacts ==
  ASSUME NEW records, Len(records) \in Nat
  PROVE  IsMultiIndex(MultiIndexOfRecords(records), records, Len(records))
<1> DEFINE L == Len(records)
           Built(f) == f = [n \in 0..L |-> IF n = 0 THEN EmptyMap
                                           ELSE PushBack(f[n - 1], records[n], n - 1)]
           c == CHOOSE f : Built(f)
           T == {n \in 0..L : ~IsMultiIndex(c[n], records, n)}
<1>1. Built(c)
  <2>1. \E f : Built(f)
    BY MultiIndexExists
  <2> HIDE DEF Built
  <2>2. QED
    BY <2>1
<1>2. MultiIndexOfRecords(records) = c[L]
  BY DEF MultiIndexOfRecords
<1> HIDE DEF c
<1>3. \A n \in 0..L : c[n] = IF n = 0 THEN EmptyMap ELSE PushBack(c[n - 1], records[n], n - 1)
  BY <1>1
<1>4. T = {}
  <2>1. SUFFICES ASSUME T # {}
                 PROVE  FALSE
    OBVIOUS
  <2>2. PICK n \in T : \A k \in T : n <= k
    <3>1. T \in SUBSET Nat
      OBVIOUS
    <3> HIDE DEF T
    <3>2. QED
      BY <2>1, <3>1, LeastNatural
  <2>3. n \in 0..L /\ ~IsMultiIndex(c[n], records, n)
    OBVIOUS
  <2>4. n # 0
    <3>1. IsMultiIndex(EmptyMap, records, 0)
      BY DEF IsMultiIndex, EmptyMap, Seen
    <3>2. c[0] = EmptyMap
      BY <1>3
    <3>3. QED
      BY <2>3, <3>1, <3>2
  <2>5. n \in Nat \ {0} /\ n - 1 \in 0..L
    BY <2>3, <2>4
  <2>6. IsMultiIndex(c[n - 1], records, n - 1)
    <3>1. n - 1 \notin T
      <4> HIDE DEF T
      <4>1. QED
        BY <2>2, <2>5
    <3>2. QED
      BY <2>5, <3>1
  <2>7. c[n] = PushBack(c[n - 1], records[n], n - 1)
    BY <1>3, <2>3, <2>4
  <2>8. QED
    BY <2>3, <2>5, <2>6, <2>7, PushBackStep
<1>5. QED
  BY <1>2, <1>4

\* What is said of a value that stands in the list: its first place in Index, all
\* of its places in MultiIndex.
LEMMA PlacesAgree ==
  ASSUME NEW records, Len(records) \in Nat, NEW v \in Seen(records, Len(records))
  PROVE  LET index == IndexOfRecords(records)
             positions == MultiIndexOfRecords(records)[v]
             places == PlacesOf(v, records, Len(records))
         IN  /\ places \in SUBSET Nat /\ places # {} /\ index[v] = Min(places)
             /\ positions \in Seq(places) /\ Len(positions) \in Nat
             /\ Len(positions) # 0 /\ Head(positions) = Min(places)
             /\ \A j, k \in 1..Len(positions) : j < k => positions[j] < positions[k]
             /\ Cardinality(places) = Len(positions)
<1> DEFINE index == IndexOfRecords(records)
           positions == MultiIndexOfRecords(records)[v]
           L == Len(records)
           places == PlacesOf(v, records, L)
           m == Len(positions)
           first == Min(places)
<1>1. /\ index[v] \in places /\ \A i \in places : index[v] <= i
      /\ Lists(positions, places)
  BY IndexOfRecordsFacts, MultiIndexOfRecordsFacts DEF IsIndex, IsMultiIndex
<1>2. places \in SUBSET Nat
  BY DEF PlacesOf
<1> HIDE DEF index, positions, places
<1>3. first \in places /\ \A i \in places : first <= i
  BY <1>1, <1>2, MinFacts
<1> HIDE DEF first
<1>4. index[v] = first
  <2>1. index[v] \in Nat /\ first \in Nat /\ index[v] <= first /\ first <= index[v]
    BY <1>1, <1>2, <1>3
  <2>2. QED
    BY <2>1
<1>5. /\ positions \in Seq(places) /\ m \in Nat
      /\ \A i \in places : \E k \in 1..m : positions[k] = i
      /\ \A j, k \in 1..m : j < k => positions[j] < positions[k]
  BY <1>1 DEF Lists
<1>6. \A k \in 1..m : positions[k] \in places /\ positions[k] \in Nat
  <2>1. \A k \in 1..m : positions[k] \in places
    BY <1>5
  <2> HIDE DEF m
  <2>2. QED
    BY <1>2, <2>1
<1>7. PICK k \in 1..m : positions[k] = first
  BY <1>3, <1>5
<1>8. m # 0 /\ Head(positions) = positions[1] /\ 1 \in 1..m
  BY <1>5, <1>7
<1>9. positions[1] = first
  <2>1. CASE k = 1
    BY <1>7, <2>1
  <2>2. CASE k # 1
    <3>1. 1 < k
      BY <1>5, <1>7, <2>2
    <3>2. positions[1] < positions[k]
      BY <1>5, <1>7, <1>8, <3>1
    <3>3. first <= positions[1] /\ first \in Nat /\ positions[1] \in Nat
      BY <1>2, <1>3, <1>6, <1>8
    <3>4. QED
      BY <1>7, <3>2, <3>3
  <2>3. QED
    BY <2>1, <2>2
<1>10. Cardinality(places) = m
  <2> DEFINE f == [j \in 1..m |-> positions[j]]
  <2>1. f \in [1..m -> places]
    BY <1>6
  <2>2. \A j, l \in 1..m : j # l => f[j] # f[l]
    <3> SUFFICES ASSUME NEW j \in 1..m, NEW l \in 1..m, j # l
                 PROVE  positions[j] # positions[l]
      OBVIOUS
    <3> HIDE DEF m
    <3>1. positions[j] \in Nat /\ positions[l] \in Nat /\ j \in Nat /\ l \in Nat
      BY <1>5, <1>6
    <3>2. CASE j < l
      BY <1>5, <3>1, <3>2
    <3>3. CASE l < j
      BY <1>5, <3>1, <3>3
    <3>4. QED
      BY <3>1, <3>2, <3>3
  <2>3. \A i \in places : \E j \in 1..m : f[j] = i
    BY <1>5
  <2> HIDE DEF f, m
  <2>4. f \in Bijection(1..m, places)
    BY <2>1, <2>2, <2>3 DEF Bijection, Injection, Surjection, IsInjective
  <2>5. ExistsBijection(1..m, places)
    BY <2>4 DEF ExistsBijection
  <2>6. m \in Nat
    BY <1>5
  <2>7. IsFiniteSet(1..m) /\ Cardinality(1..m) = m
    <3>1. 1 \in Int /\ m \in Int /\ (IF 1 > m THEN 0 ELSE m - 1 + 1) = m
      BY <2>6
    <3>2. QED
      BY <3>1, FS_Interval
  <2>8. QED
    BY <2>5, <2>7, FS_Bijection
<1>11. QED
  BY <1>2, <1>3, <1>4, <1>5, <1>8, <1>9, <1>10 DEF index, positions, places, first

\* There are as many different values as records just if no two are equal.
LEMMA UniqueRecords ==
  ASSUME NEW records \in Seq(Values)
  PROVE  Cardinality(Seen(records, Len(records))) = Len(records) <=> IsInjective(records)
<1> DEFINE L == Len(records)
           S == Seen(records, L)
<1>1. L \in Nat /\ DOMAIN records = 1..L
  OBVIOUS
<1>2. records \in [1..L -> S] /\ \A v \in S : \E k \in 1..L : records[k] = v
  BY DEF Seen
<1> HIDE DEF S
<1>3. records \in Surjection(1..L, S)
  BY <1>2 DEF Surjection
<1>4. IsFiniteSet(1..L) /\ Cardinality(1..L) = L
  BY <1>1, FS_Interval
<1>5. Cardinality(S) = L <=> records \in Injection(1..L, S)
  BY <1>3, <1>4, FS_Surjection
<1>6. records \in Injection(1..L, S) <=> IsInjective(records)
  BY <1>1, <1>2 DEF Injection
<1>7. QED
  BY <1>5, <1>6 DEF S

\* Positions counted from 1 are as many as places counted from 0.
LEMMA SameCount ==
  ASSUME NEW records, NEW L \in Nat, NEW value
  PROVE  Cardinality({k \in 1..L : records[k] = value}) =
           Cardinality(PlacesOf(value, records, L))
<1> DEFINE K == {k \in 1..L : records[k] = value}
           places == PlacesOf(value, records, L)
           f == [k \in K |-> k - 1]
<1>1. f \in [K -> places]
  <2>1. \A k \in K : k - 1 \in 0..L-1 /\ (k - 1) + 1 = k
    OBVIOUS
  <2>2. QED
    BY <2>1 DEF PlacesOf
<1>2. \A j, k \in K : f[j] = f[k] => j = k
  OBVIOUS
<1>3. ASSUME NEW i \in places
      PROVE  \E k \in K : f[k] = i
  <2>1. i \in 0..L-1 /\ records[i + 1] = value
    BY DEF PlacesOf
  <2>2. i + 1 \in K /\ (i + 1) - 1 = i
    BY <2>1
  <2>3. f[i + 1] = i
    BY <2>2
  <2>4. QED
    BY <2>2, <2>3
<1>4. IsFiniteSet(K)
  <2>1. K \in SUBSET Nat /\ \A k \in K : k <= L
    OBVIOUS
  <2> HIDE DEF K
  <2>2. QED
    BY <2>1, FS_BoundedSetOfNaturals
<1> HIDE DEF f, K, places
<1>5. f \in Bijection(K, places)
  BY <1>1, <1>2, <1>3 DEF Bijection, Injection, Surjection, IsInjective
<1>6. ExistsBijection(K, places)
  BY <1>5 DEF ExistsBijection
<1>7. QED
  BY <1>4, <1>6, FS_Bijection DEF K, places

\* Index and MultiIndex hold the places of the list, for any step of the reader.
LEMMA IndexesFound ==
  ASSUME IInv
  PROVE  IndexesHoldList
<1> DEFINE L == reader.length
           index == IndexOfRecords(list)
           multi == MultiIndexOfRecords(list)
           S == Seen(list, L)
<1>1. /\ Len(list) = L /\ L \in Nat /\ DOMAIN list = 1..L /\ list \in Seq(Values)
      /\ \A i \in 0..L-1 : list[i + 1] = bag[GlobalIndex(reader, i) + 1]
  BY ReaderFacts
<1>2. CreateIndex(reader) = Ok(index) /\ CreateMultiIndex(reader) = Ok(multi)
  <2>1. ReadRange(reader, 0, L) = Ok(list)
    BY WholeRange DEF IInv, TypeOK, ViewInv
  <2> HIDE DEF index, multi
  <2>2. QED
    BY <2>1 DEF CreateIndex, CreateMultiIndex, Ok, index, multi
<1>3. DOMAIN index = S /\ DOMAIN multi = S
  BY <1>1, IndexOfRecordsFacts, MultiIndexOfRecordsFacts DEF IsIndex, IsMultiIndex
<1>4. NumUnique(index) = NumUniqueOfMulti(multi)
      /\ (NumUnique(index) = L <=> IsInjective(list))
  BY <1>1, <1>3, UniqueRecords DEF NumUnique, NumUniqueOfMulti
<1>5. ToSet(list) = S
  BY <1>1 DEF ToSet, Seen
<1> DEFINE AgreeOn(value) ==
      /\ Has(index, value) = (value \in ToSet(list))
      /\ MultiHas(multi, value) = (value \in ToSet(list))
      /\ IF value \in ToSet(list)
           THEN /\ Lookup(index, value) = FirstIn(value, 0, Len(list))
                /\ GetOrNone(index, value) = Lookup(index, value)
                /\ MultiLookup(multi, value) = GetOrDefault(multi, value, NullOpt)
                /\ LET positions == MultiLookup(multi, value)[2]
                   IN  /\ Len(positions) =
                            Cardinality({i \in DOMAIN list : list[i] = value})
                       /\ Ok(Head(positions)) = Lookup(index, value)
                       /\ IsSorted(positions, <)
                       /\ \A k \in DOMAIN positions :
                            GetItem(reader, positions[k]) = Ok(value)
           ELSE /\ Lookup(index, value) = KeyError
                /\ MultiLookup(multi, value) = KeyError
                /\ GetOrNone(index, value) = NullOpt
                /\ GetOrDefault(multi, value, <<"default">>) = <<"default">>
<1>6. ASSUME NEW value
      PROVE  AgreeOn(value)
  <2>1. /\ Has(index, value) = (value \in ToSet(list))
        /\ MultiHas(multi, value) = (value \in ToSet(list))
    BY <1>3, <1>5 DEF Has, MultiHas
  <2>2. CASE value \in S
    <3> DEFINE places == PlacesOf(value, list, L)
               positions == multi[value]
    <3>1. /\ places \in SUBSET Nat /\ places # {} /\ index[value] = Min(places)
          /\ positions \in Seq(places) /\ Len(positions) \in Nat
          /\ Len(positions) # 0 /\ Head(positions) = Min(places)
          /\ \A j, k \in 1..Len(positions) : j < k => positions[j] < positions[k]
          /\ Cardinality(places) = Len(positions)
      BY <1>1, <2>2, PlacesAgree
    <3>2. \A x : Ok(x) # NullOpt /\ Ok(x)[2] = x
      BY DEF Ok, NullOpt
    <3>3. /\ Lookup(index, value) = Ok(index[value])
          /\ GetOrNone(index, value) = Ok(index[value])
          /\ MultiLookup(multi, value) = Ok(positions)
          /\ GetOrDefault(multi, value, NullOpt) = Ok(positions)
      <4>1. Find(index, value) = Ok(index[value]) /\ MultiFind(multi, value) = Ok(positions)
        BY <1>3, <2>2 DEF Find, MultiFind
      <4> HIDE DEF index, multi, positions
      <4>2. QED
        BY <3>2, <4>1 DEF Lookup, GetOrNone, MultiLookup, GetOrDefault
    <3>4. FirstIn(value, 0, Len(list)) = Ok(Min(places))
      BY <1>1, <3>1 DEF FirstIn, PlacesOf
    <3>5. Len(positions) = Cardinality({i \in DOMAIN list : list[i] = value})
      <4> DEFINE indices == {k \in 1..L : list[k] = value}
      <4>1. Cardinality(indices) = Cardinality(places)
        BY <1>1, SameCount
      <4>2. indices = {i \in DOMAIN list : list[i] = value}
        BY <1>1
      <4> HIDE DEF indices, places, positions
      <4>3. QED
        BY <3>1, <4>1, <4>2
    <3>6. ASSUME NEW k \in DOMAIN positions
          PROVE  GetItem(reader, positions[k]) = Ok(value)
      <4> DEFINE i == positions[k]
      <4>1. i \in places
        BY <3>1
      <4>2. i \in 0..L-1 /\ list[i + 1] = value
        BY <4>1 DEF PlacesOf
      <4> HIDE DEF i
      <4>3. ~(i >= L)
        BY <1>1, <4>2
      <4>4. GetItem(reader, i) = Ok(value)
        BY <1>1, <4>2, <4>3 DEF GetItem
      <4>5. QED
        BY <4>4 DEF i
    <3>7. IsSorted(positions, <)
      BY <3>1 DEF IsSorted
    <3> HIDE DEF index, multi, places, positions
    <3>8. value \in ToSet(list)
      BY <1>5, <2>2
    <3>9. MultiLookup(multi, value)[2] = positions
      BY <3>2, <3>3
    <3>10. QED
      BY <2>1, <3>1, <3>3, <3>4, <3>5, <3>6, <3>7, <3>8, <3>9
  <2>3. CASE value \notin S
    <3>1. Find(index, value) = NullOpt /\ MultiFind(multi, value) = NullOpt
      BY <1>3, <2>3 DEF Find, MultiFind
    <3>2. value \notin ToSet(list)
      BY <1>5, <2>3
    <3> HIDE DEF index, multi
    <3>3. QED
      BY <2>1, <3>1, <3>2 DEF Lookup, MultiLookup, GetOrNone, GetOrDefault
  <2>4. QED
    BY <2>2, <2>3
<1>7. CreateIndex(reader)[1] = "ok" /\ CreateMultiIndex(reader)[1] = "ok"
      /\ CreateIndex(reader)[2] = index /\ CreateMultiIndex(reader)[2] = multi
  BY <1>2 DEF Ok
<1> HIDE DEF index, multi
<1>8. QED
  BY <1>1, <1>4, <1>6, <1>7 DEF IndexesHoldList

-----------------------------------------------------------------------------
(* The theorems *)

\* PythonReader's type invariant; a reader is never longer than its bag, and
\* an empty one starts at 0.
THEOREM TypeCorrect == Spec => []TypeOK
<1>1. IInv => TypeOK
  BY DEF IInv
<1>2. QED
  BY <1>1, SpecInv, PTL

\* The step of a reader that shows two records or more is never 0, whatever the
\* product of the steps that it was made with is in 64 bits.
THEOREM ZeroStepShowsOne == Spec => [](reader.step = 0 => reader.length \in {0, 1})
<1>1. IInv => (reader.step = 0 => reader.length \in {0, 1})
  BY DEF IInv, ViewInv, ShowsList, InBag
<1>2. QED
  BY <1>1, SpecInv, PTL

\* A reader made of readers by __getitem__, __reversed__ and __setstate__, in any
\* order, shows what the list does, record by record and read as a whole.  Only if
\* its step has become 0 in 64 bits, and it has at most one record, reading it as a
\* whole raises ValueError, and restoring it may raise.
THEOREM ReadersAreLists == Spec => []ReaderIsList
<1>1. ASSUME IInv
      PROVE  ReaderIsList
  <2> DEFINE L == reader.length
  <2>1. Len(bag) \in Nat /\ L \in 0..Len(bag) /\ Len(list) = L /\ DOMAIN list = 1..L
        /\ L \in Nat
        /\ \A i \in 0..L-1 : list[i + 1] = bag[GlobalIndex(reader, i) + 1]
    BY <1>1, ReaderFacts
  <2>2. Read(reader) = IF Unreadable THEN ValueError ELSE Ok(list)
    BY <1>1, WholeRead DEF IInv, TypeOK, ViewInv, Unreadable
  <2>3. (raised => Unreadable) /\ (Unreadable => Len(list) \in {0, 1})
    BY <1>1, <2>1 DEF IInv, RaisedInv, ViewInv, ShowsList, InBag, Unreadable
  <2>4. ASSUME NEW i \in 0..L
        PROVE  GetItem(reader, i) = IF i < L THEN Ok(list[i + 1]) ELSE IndexError
    <3>1. i >= L <=> ~(i < L)
      BY <2>1
    <3>2. i < L => i \in 0..L-1
      BY <2>1
    <3>3. QED
      BY <2>1, <3>1, <3>2 DEF GetItem
  <2>5. QED
    BY <2>1, <2>2, <2>3, <2>4 DEF ReaderIsList
<1>2. QED
  BY <1>1, SpecInv, PTL

\* read_indices of a slice and read_range of such a reader show what slicing the
\* list would, for any bounds and steps of either sign; with a step of 0 those that
\* read a range raise ValueError.
THEOREM ReadsAreOfTheList == Spec => []ReadsLikeList
<1>1. ASSUME IInv
      PROVE  ReadsLikeList
  <2> DEFINE L == reader.length
  <2>1. Len(list) = L /\ L \in Nat /\ list \in Seq(Values)
    BY <1>1, ReaderFacts
  <2>2. ASSUME NEW start \in 0..L, NEW n \in 0..L
        PROVE  ReadRangeWithAllocator(reader, start, n) =
                 IF start + n > L THEN IndexError
                 ELSE IF Unreadable THEN ValueError
                 ELSE Ok(SubSeq(list, start + 1, start + n))
    <3>1. start + n <= L => SubSeq(list, start + 1, start + n) = Stretch(list, start, n)
      BY <2>1 DEF Stretch
    <3>2. start + n > L \/ start + n <= L
      BY <2>1
    <3>3. QED
      BY <1>1, <3>1, <3>2, RangeShown
  <2>3. QED
    BY <1>1, <2>1, <2>2, SliceShown DEF ReadsLikeList
<1>2. QED
  BY <1>1, SpecInv, PTL

\* index, in and count of a reader whose step is not 0 find in the list what they
\* say that they search, and Index and MultiIndex, for any step, hold where the
\* values are in the list.  Searching a record with a step of 0 raises ValueError.
THEOREM SearchesAreOfTheList == Spec => []SearchesLikeList
<1>1. ASSUME IInv
      PROVE  SearchesLikeList
  <2> DEFINE N == Len(bag)
             L == reader.length
  <2>1. N \in Nat /\ N < SizeModulus \div 2 /\ L \in 0..N
        /\ Len(list) = L /\ L \in Nat /\ list \in Seq(Values) /\ DOMAIN list = 1..L
    BY <1>1, ReaderFacts
  <2>2. Iterated(reader) = IF L = 0 \/ ~Unreadable THEN Ok(list) ELSE ValueError
    BY <1>1, WholeRead DEF IInv, TypeOK, ViewInv, Unreadable
  <2>3. \A n \in 0..L : Size(n) = n
    <3>1. \A n \in 0..L : n \in 0..2*N
      BY <2>1
    <3>2. QED
      BY <2>1, <3>1, Exact
  <2>4. CASE Unreadable /\ L > 0
    <3>1. ASSUME NEW value
          PROVE  IndexOfToEnd(reader, value, 0) = ValueError
      <4> DEFINE slice == SliceOf(reader, 0, 1, L)
                 part == Stretch(list, 0, L)
      <4>1. SliceFits(reader, 0, 1, L) /\ slice.length = L /\ slice.step = 0
            /\ ShowsList(bag, slice, part)
        <5>1. 0 + L <= L /\ L # 0
          BY <2>1, <2>4
        <5>2. QED
          BY <1>1, <2>1, <2>4, <5>1, SearchedPart DEF Unreadable
      <4> HIDE DEF slice, part
      <4>2. bag \in Bags /\ L # 0
        BY <1>1, <2>1, <2>4 DEF IInv, TypeOK
      <4>3. Iterated(slice) = ValueError
        BY <4>1, <4>2, WholeRead
      <4>4. ValueError[1] # "ok"
        BY DEF ValueError
      <4>5. IndexOf(reader, value, 0, L) = ValueError
        BY <4>1, <4>3, <4>4 DEF IndexOf, slice
      <4>6. Size(L - 0) = L
        <5>1. L - 0 = L /\ L \in 0..L
          BY <2>1
        <5>2. QED
          BY <2>3, <5>1
      <4>7. QED
        BY <4>5, <4>6 DEF IndexOfToEnd
    <3>2. Iterated(reader) = ValueError /\ ValueError[1] # "ok"
      BY <2>1, <2>2, <2>4 DEF ValueError
    <3>3. NothingIsFound
      BY <3>1, <3>2 DEF NothingIsFound, IsIn, Count
    <3>4. QED
      BY <1>1, <2>1, <2>4, <3>3, IndexesFound DEF SearchesLikeList
  <2>5. CASE ~(Unreadable /\ L > 0)
    <3>1. ~Unreadable \/ L = 0
      BY <2>1, <2>5
    <3>2. ASSUME NEW value \in Values, NEW start \in 0..L+1
          PROVE  IndexOfToEnd(reader, value, start) =
                   IF start > L THEN IndexError ELSE FirstIn(value, start, L)
      <4>1. CASE start <= L
        <5> DEFINE n == L - start
        <5>1. n \in 0..L /\ n \in Nat /\ start + n = L /\ start \in Nat /\ L <= L
          BY <2>1, <4>1
        <5>2. IndexOfToEnd(reader, value, start) = IndexOf(reader, value, start, Size(n))
          BY DEF IndexOfToEnd
        <5> HIDE DEF n
        <5>3. IndexOf(reader, value, start, n) = FirstIn(value, start, start + n)
          BY <1>1, <3>1, <5>1, IndexOfFinds
        <5>4. ~(start > L)
          BY <2>1, <4>1
        <5>5. QED
          BY <2>3, <5>1, <5>2, <5>3, <5>4
      <4>2. CASE start > L
        <5> DEFINE n == Size(L - start)
        <5>1. start = L + 1 /\ start \in Nat /\ start >= L
          BY <2>1, <4>2
        <5>2. n \in Nat \ {0}
          <6>1. L - start = -1
            BY <2>1, <5>1
          <6>2. SizeModulus \in Nat \ {0} /\ SizeModulus # 1
            BY <2>1, SizeModulusAssumption
          <6>3. (-1) % SizeModulus \in Nat \ {0}
            BY <6>2, MinusOne
          <6>4. QED
            BY <6>1, <6>3 DEF Size
        <5>3. IndexOfToEnd(reader, value, start) = IndexOf(reader, value, start, n)
          BY DEF IndexOfToEnd
        <5> HIDE DEF n
        <5>4. IndexOf(reader, value, start, n) = IndexError
          BY <1>1, <5>1, <5>2, NoSuchPart
        <5>5. QED
          BY <4>2, <5>3, <5>4
      <4>3. QED
        BY <2>1, <4>1, <4>2
    <3>3. ASSUME NEW value \in Values, NEW start \in 0..L+1, NEW stop \in 0..L+1
          PROVE  IndexOf(reader, value, start, stop) =
                   IF stop > 0 /\ start + stop > L THEN IndexError
                   ELSE FirstIn(value, start, start + stop)
      <4>1. start \in Nat /\ stop \in Nat
        BY <2>1
      <4>2. CASE stop = 0
        BY <4>1, <4>2, NothingSearched
      <4>3. CASE stop # 0 /\ start + stop <= L
        <5>1. IndexOf(reader, value, start, stop) = FirstIn(value, start, start + stop)
          BY <1>1, <3>1, <4>1, <4>3, IndexOfFinds
        <5>2. ~(start + stop > L)
          BY <2>1, <4>1, <4>3
        <5>3. QED
          BY <5>1, <5>2
      <4>4. CASE stop # 0 /\ start + stop > L
        <5>1. stop \in Nat \ {0} /\ stop > 0
          BY <4>1, <4>4
        <5>2. start >= L \/ start + stop \in (L + 1)..(2 * L)
          BY <2>1, <4>1, <4>4
        <5>3. IndexOf(reader, value, start, stop) = IndexError
          BY <1>1, <4>1, <5>1, <5>2, NoSuchPart
        <5>4. QED
          BY <4>4, <5>1, <5>3
      <4>5. QED
        BY <2>1, <4>1, <4>2, <4>3, <4>4
    <3>4. IndexFindsFirst
      BY <2>1, <3>2, <3>3 DEF IndexFindsFirst
    <3>5. Iterated(reader) = Ok(list) /\ Ok(list)[1] = "ok" /\ Ok(list)[2] = list
      BY <2>2, <3>1 DEF Ok
    <3>6. ASSUME NEW value \in Values
          PROVE  /\ IsIn(reader, value) = Ok(value \in ToSet(list))
                 /\ Count(reader, value) =
                      Ok(Cardinality({i \in DOMAIN list : list[i] = value}))
      <4>1. PositionsOf(value, list) = {i \in DOMAIN list : list[i] = value}
        BY DEF PositionsOf
      <4>2. (PositionsOf(value, list) # {}) = (value \in ToSet(list))
        BY <4>1 DEF ToSet
      <4>3. IsIn(reader, value) = Ok(value \in ToSet(list))
        BY <3>5, <4>2 DEF IsIn
      <4>4. QED
        BY <3>5, <4>1, <4>3 DEF Count
    <3>7. FindsLikeList
      BY <3>6 DEF FindsLikeList
    <3>8. QED
      BY <1>1, <2>1, <2>5, <3>4, <3>7, IndexesFound DEF SearchesLikeList
  <2>6. QED
    BY <2>4, <2>5
<1>2. QED
  BY <1>1, SpecInv, PTL

-----------------------------------------------------------------------------
(* Opening a bag: what is open so far *)

\* What lies in either file system.
Stored == stored["posix"] \cup stored["gcs"]

\* What names are made of, those of "@*" included.
Names == [dir: BOOLEAN, limits: BOOLEAN, name: STRING, at: Seq(Int)]

\* A part, and a part that has been resolved.
SpecPart == [prefix: STRING \cup {"limits."}, dir: BOOLEAN, limits: BOOLEAN,
             name: STRING, shards: Nat \cup {None, Star}]
ResolvedPart == [file_system: FileSystems, part: SpecPart]

\* The part with the number of shards that POSIX finds for "@*".
Canonical(r) ==
  IF r.file_system = "posix" /\ r.part.shards = Star
    THEN [r.part EXCEPT !.shards = NumberOf(r)] ELSE r.part

\* All of them in an order that the code accepts.
IsListingOf(listing, S) == listing \in SetToSeqs(S) /\ IsListed(listing)

\* What opening a name in a file system gives when it succeeds.
IsFound(fs, name, found) ==
  IF fs = "posix" THEN name \in stored["posix"] /\ found = <<name>>
                  ELSE IsListingOf(found, Matches(name, stored["gcs"]))

\* On POSIX all files of the part are there.
AllThere(r) ==
  r.file_system = "posix" =>
    /\ \A i \in DOMAIN ExpandAtSpec(Canonical(r)) :
         ExpandAtSpec(Canonical(r))[i] \in stored["posix"]
    /\ r.part.shards = Star => NumberOf(r) \in 1..MaxShards

\* No part behind "@*" is opened together with it.
IsAlone(k) ==
  /\ resolved[k].file_system = "posix" /\ resolved[k].part.shards = Star
  /\ k + 1 \in DOMAIN resolved
  => resolved[k + 1].file_system # "posix"

WellOpened(k) ==
  /\ AllThere(resolved[k]) /\ IsAlone(k)
  /\ IsListingOf(Listing(InStore(resolved[k])), InStore(resolved[k]))

\* The parts up to the n-th have been opened.
OpenedUpTo(n) ==
  /\ \A k \in 1..n : WellOpened(k)
  /\ result = FlattenSeq([k \in 1..n |-> Listing(InStore(resolved[k]))])

\* The group that is being opened, as its file system sees it.
GroupParts(first) ==
  IF resolved[first].file_system = "posix"
    THEN CanonicaliseShardSpec(PartsOf(first, opened_parts), stored["posix"])
    ELSE PartsOf(first, opened_parts)

\* The group that is being opened begins with the given part.
Opening(first) ==
  /\ resolved[first].file_system = pc
  /\ opened_parts = EndOfGroup(first)
  /\ OpenedUpTo(first - 1)
  /\ filenames = ExpandShardSpec(GroupParts(first))
  /\ \A k \in opened : IsFound(pc, filenames[k], files[k])

\* What the variables hold while the call runs.
OpenTypes ==
  /\ resolved \in Seq(ResolvedPart) /\ Len(resolved) <= Len(Parts)
  /\ \A k \in DOMAIN resolved : resolved[k].part.prefix \in KnownPrefixes
  /\ filenames \in Seq(Names) /\ files \in [1..Len(filenames) -> Seq(Stored)]
  /\ result \in Seq(Stored)

\* All parts are resolved before one is opened; only a call that has returned
\* has a status.
OpenControl ==
  /\ pc \in FileSystems \/ opened_parts > 0 \/ status = "ok" =>
       Len(resolved) = Len(Parts)
  /\ pc # "returned" => status = "none"

\* Between two groups, in a group, and behind the last one.
OpenProgress ==
  /\ pc = "resolve" => OpenedUpTo(opened_parts)
  /\ pc \in FileSystems => \E first \in 1..opened_parts : Opening(first)

OpenSucceeded ==
  status = "ok" =>
    /\ opened_parts = Len(resolved) /\ OpenedUpTo(opened_parts)
    /\ placement = "separate" => 2 * NumFiles = Len(result) /\ shards = PairUp

OpenInv == OpenTypeOK /\ OpenTypes /\ OpenControl /\ OpenProgress /\ OpenSucceeded

-----------------------------------------------------------------------------
(* Sequences of sequences *)

\* What holds of 0, and of each number up to a bound if it holds of the number
\* before, holds of all numbers up to the bound.
LEMMA Upward ==
  ASSUME NEW N \in Nat, NEW T, 0 \in T,
         \A n \in 0..N-1 : n \in T => n + 1 \in T
  PROVE  \A n \in 0..N : n \in T
<1> DEFINE U == {n \in 0..N : n \notin T}
<1>1. SUFFICES ASSUME U # {} PROVE FALSE
  OBVIOUS
<1>2. PICK n \in U : \A m \in U : n <= m
  <2>1. U \in SUBSET Nat
    OBVIOUS
  <2> HIDE DEF U
  <2> QED BY <2>1, <1>1, LeastNatural
<1>3. n - 1 \in 0..N-1 /\ n - 1 \notin U
  BY <1>2
<1> QED BY <1>2, <1>3

\* The first elements of a sequence.
UpTo(s, n) == [k \in 1..n |-> s[k]]

\* They are a sequence, the whole one at the end.
LEMMA UpToFacts ==
  ASSUME NEW X, NEW s \in Seq(X), NEW n \in 0..Len(s)
  PROVE  /\ UpTo(s, n) \in Seq(X) /\ Len(UpTo(s, n)) = n
         /\ \A k \in 1..n : UpTo(s, n)[k] = s[k]
         /\ n = 0 => UpTo(s, n) = <<>>
         /\ n = Len(s) => UpTo(s, n) = s
<1>1. s \in [1..Len(s) -> X] /\ Len(s) \in Nat
  BY LenProperties
<1>2. n \in Nat /\ 1..n \subseteq 1..Len(s)
  BY <1>1
<1>3. UpTo(s, n) \in [1..n -> X]
  BY <1>1, <1>2 DEF UpTo
<1>4. UpTo(s, n) \in Seq(X) /\ Len(UpTo(s, n)) = n
  BY <1>2, <1>3
<1>5. \A k \in 1..n : UpTo(s, n)[k] = s[k]
  BY DEF UpTo
<1>6. ASSUME n = 0 PROVE UpTo(s, n) = <<>>
  <2>1. Len(UpTo(s, n)) = 0
    BY <1>4, <1>6
  <2> QED BY <2>1, <1>4, EmptySeq
<1>7. ASSUME n = Len(s) PROVE UpTo(s, n) = s
  BY <1>1, <1>7 DEF UpTo
<1> QED BY <1>4, <1>5, <1>6, <1>7

\* One more element.
LEMMA UpToStep ==
  ASSUME NEW X, NEW s \in Seq(X), NEW n \in 1..Len(s)
  PROVE  UpTo(s, n) = Append(UpTo(s, n - 1), s[n])
<1> DEFINE t == UpTo(s, n - 1)
<1>1. n - 1 \in 0..Len(s) /\ n \in 0..Len(s) /\ n \in Nat /\ s[n] \in X
  BY LenProperties, ElementOfSeq
<1>2. /\ t \in Seq(X) /\ Len(t) = n - 1
      /\ \A k \in 1..n-1 : t[k] = s[k]
  BY <1>1, UpToFacts
<1>3. /\ UpTo(s, n) \in Seq(X) /\ Len(UpTo(s, n)) = n
      /\ \A k \in 1..n : UpTo(s, n)[k] = s[k]
  BY <1>1, UpToFacts
<1> HIDE DEF t
<1>4. /\ Append(t, s[n]) \in Seq(X) /\ Len(Append(t, s[n])) = n
      /\ \A k \in 1..n-1 : Append(t, s[n])[k] = t[k]
      /\ Append(t, s[n])[n] = s[n]
  BY <1>1, <1>2, AppendProperties
<1>5. \A k \in 1..n : UpTo(s, n)[k] = Append(t, s[n])[k]
  BY <1>1, <1>2, <1>3, <1>4
<1>6. UpTo(s, n) = Append(t, s[n])
  BY <1>3, <1>4, <1>5, SeqEqual
<1> QED BY <1>6 DEF t

\* What is the concatenation of the first sequences, for each number of them.
IsFlattening(f, s) ==
  f = [i \in 1..Len(s) |-> IF i = 1 THEN s[i] ELSE f[i - 1] \o s[i]]

\* FlattenSeq(s) is the last of the sequences that add up one after the other.
LEMMA FlatteningFacts ==
  ASSUME NEW A, NEW s \in Seq(Seq(A)), NEW f, IsFlattening(f, s)
  PROVE  /\ f \in [1..Len(s) -> Seq(A)]
         /\ \A i \in 1..Len(s) : f[i] = IF i = 1 THEN s[i] ELSE f[i - 1] \o s[i]
<1>1. /\ DOMAIN f = 1..Len(s) /\ f = [i \in 1..Len(s) |-> f[i]]
      /\ \A i \in 1..Len(s) : f[i] = IF i = 1 THEN s[i] ELSE f[i - 1] \o s[i]
  BY DEF IsFlattening
<1>2. Len(s) \in Nat /\ \A i \in 1..Len(s) : s[i] \in Seq(A)
  BY LenProperties, ElementOfSeq
<1> DEFINE T == {n \in 0..Len(s) : \A i \in 1..n : f[i] \in Seq(A)}
<1>3. 0 \in T
  BY <1>2
<1>4. ASSUME NEW n \in 0..Len(s)-1, n \in T
      PROVE  n + 1 \in T
  <2>1. n + 1 \in 1..Len(s) /\ n + 1 \in 0..Len(s)
    BY <1>2
  <2>2. CASE n = 0
    <3>1. 1 \in 1..Len(s) /\ n + 1 = 1
      BY <2>1, <2>2
    <3>2. f[1] = s[1] /\ s[1] \in Seq(A)
      BY <3>1, <1>1, <1>2
    <3>3. \A i \in 1..1 : i = 1
      OBVIOUS
    <3> QED BY <3>1, <3>2, <3>3, <2>1
  <2>3. CASE n # 0
    <3>1. n \in 1..n /\ n + 1 # 1 /\ (n + 1) - 1 = n
      BY <2>3, <1>2
    <3>2. f[n] \in Seq(A) /\ s[n + 1] \in Seq(A)
      BY <3>1, <2>1, <1>2, <1>4
    <3>3. f[n + 1] = f[n] \o s[n + 1]
      BY <3>1, <2>1, <1>1
    <3>4. f[n + 1] \in Seq(A)
      BY <3>2, <3>3, ConcatProperties
    <3>5. \A i \in 1..n : f[i] \in Seq(A)
      BY <1>4
    <3>6. \A i \in 1..n+1 : i \in 1..n \/ i = n + 1
      BY <1>2
    <3> QED BY <2>1, <3>4, <3>5, <3>6
  <2> QED BY <2>2, <2>3
<1> HIDE DEF T
<1>5. \A n \in 0..Len(s) : n \in T
  BY <1>2, <1>3, <1>4, Upward
<1>6. Len(s) \in T
  BY <1>2, <1>5
<1>7. \A i \in 1..Len(s) : f[i] \in Seq(A)
  BY <1>6 DEF T
<1> QED BY <1>1, <1>7

\* There are such sums, by recursion on the length.
LEMMA FlatteningExists ==
  ASSUME NEW A, NEW s \in Seq(Seq(A))
  PROVE  \E f : IsFlattening(f, s)
<1>1. Len(s) \in Nat /\ \A i \in 1..Len(s) : s[i] \in Seq(A)
  BY LenProperties, ElementOfSeq
<1> DEFINE Upto(f, n) ==
             f = [i \in 1..n |-> IF i = 1 THEN s[i] ELSE f[i - 1] \o s[i]]
           T == {n \in 0..Len(s) : \E f : Upto(f, n)}
<1>2. 0 \in T
  <2> DEFINE e == [i \in 1..0 |-> <<>>]
  <2>1. e = [i \in 1..0 |-> IF i = 1 THEN s[i] ELSE e[i - 1] \o s[i]]
    <3>1. \A i \in 1..0 : FALSE
      OBVIOUS
    <3> HIDE DEF e
    <3>2. \A h : [i \in 1..0 |-> <<>>] = [i \in 1..0 |-> IF i = 1 THEN s[i] ELSE h[i - 1] \o s[i]]
      BY <3>1
    <3> QED BY <3>2 DEF e
  <2>2. \E f : Upto(f, 0)
    BY <2>1
  <2>3. 0 \in 0..Len(s)
    BY <1>1
  <2> HIDE DEF Upto
  <2> QED BY <2>2, <2>3
<1>3. ASSUME NEW n \in 0..Len(s)-1, n \in T
      PROVE  n + 1 \in T
  <2>1. PICK f : Upto(f, n)
    BY <1>3
  <2> DEFINE last == IF n = 0 THEN s[1] ELSE f[n] \o s[n + 1]
             g == [i \in 1..n+1 |-> IF i = n + 1 THEN last ELSE f[i]]
  <2>2. n \in Nat /\ n + 1 \in 0..Len(s) /\ n + 1 \in 1..n+1 /\ (n + 1) - 1 = n
    BY <1>1
  <2>3. ASSUME NEW i \in 1..n+1
        PROVE  g[i] = IF i = 1 THEN s[i] ELSE g[i - 1] \o s[i]
    <3>1. CASE i = n + 1
      <4>1. g[i] = last
        BY <3>1
      <4>2. CASE n = 0
        BY <4>1, <4>2, <3>1
      <4>3. CASE n # 0
        <5>1. i # 1 /\ i - 1 = n /\ n \in 1..n+1 /\ n # n + 1
          BY <4>3, <3>1, <2>2
        <5>2. g[n] = f[n]
          BY <5>1
        <5>3. last = f[n] \o s[n + 1]
          BY <4>3
        <5> HIDE DEF g, last
        <5> QED BY <4>1, <5>1, <5>2, <5>3, <3>1
      <4> QED BY <4>2, <4>3
    <3>2. CASE i # n + 1
      <4>1. i \in 1..n
        BY <3>2, <2>2
      <4>2. g[i] = f[i]
        BY <3>2
      <4>3. f[i] = IF i = 1 THEN s[i] ELSE f[i - 1] \o s[i]
        BY <4>1, <2>1
      <4>4. CASE i = 1
        BY <4>2, <4>3, <4>4
      <4>5. CASE i # 1
        <5>1. i - 1 \in 1..n+1 /\ i - 1 # n + 1
          BY <4>1, <4>5, <2>2
        <5>2. g[i - 1] = f[i - 1]
          BY <5>1
        <5> HIDE DEF g
        <5> QED BY <4>2, <4>3, <4>5, <5>2
      <4> QED BY <4>4, <4>5
    <3> QED BY <3>1, <3>2
  <2>4. Upto(g, n + 1)
    <3>1. g = [i \in 1..n+1 |-> g[i]]
      OBVIOUS
    <3> HIDE DEF g
    <3> QED BY <2>3, <3>1
  <2> HIDE DEF Upto
  <2>5. \E h : Upto(h, n + 1)
    BY <2>4
  <2> QED BY <2>2, <2>5
<1>4. Len(s) \in T
  <2> HIDE DEF T
  <2>1. \A n \in 0..Len(s) : n \in T
    BY <1>1, <1>2, <1>3, Upward
  <2> QED BY <1>1, <2>1
<1> QED BY <1>4 DEF IsFlattening

BeginsLike(t, s) == Len(s) <= Len(t) /\ \A i \in 1..Len(s) : s[i] = t[i]

\* Two sequences that begin alike have concatenations that do.
LEMMA FlatteningsAgree ==
  ASSUME NEW A, NEW s \in Seq(Seq(A)), NEW t \in Seq(Seq(A)), NEW f, NEW g,
         IsFlattening(f, s), IsFlattening(g, t), BeginsLike(t, s)
  PROVE  \A i \in 1..Len(s) : f[i] = g[i]
<1>1. Len(s) <= Len(t) /\ \A i \in 1..Len(s) : s[i] = t[i]
  BY DEF BeginsLike
<1>2. /\ Len(s) \in Nat /\ Len(t) \in Nat
      /\ \A i \in 1..Len(s) : f[i] = IF i = 1 THEN s[i] ELSE f[i - 1] \o s[i]
      /\ \A i \in 1..Len(t) : g[i] = IF i = 1 THEN t[i] ELSE g[i - 1] \o t[i]
  BY LenProperties, FlatteningFacts
<1> DEFINE T == {n \in 0..Len(s) : \A i \in 1..n : f[i] = g[i]}
<1>3. 0 \in T
  BY <1>2
<1>4. ASSUME NEW n \in 0..Len(s)-1, n \in T
      PROVE  n + 1 \in T
  <2>1. n + 1 \in 1..Len(s) /\ n + 1 \in 0..Len(s) /\ n + 1 \in 1..Len(t)
    BY <1>1, <1>2
  <2>2. s[n + 1] = t[n + 1]
    BY <2>1, <1>1
  <2>3. f[n + 1] = g[n + 1]
    <3>1. CASE n = 0
      BY <3>1, <2>1, <2>2, <1>2
    <3>2. CASE n # 0
      <4>1. n + 1 # 1 /\ (n + 1) - 1 = n /\ n \in 1..n
        BY <3>2, <1>2
      <4>2. f[n] = g[n]
        BY <4>1, <1>4
      <4>3. f[n + 1] = f[n] \o s[n + 1] /\ g[n + 1] = g[n] \o t[n + 1]
        BY <4>1, <2>1, <1>2
      <4> QED BY <4>2, <4>3, <2>2
    <3> QED BY <3>1, <3>2
  <2>4. \A i \in 1..n : f[i] = g[i]
    BY <1>4
  <2>5. \A i \in 1..n+1 : i \in 1..n \/ i = n + 1
    BY <1>2
  <2> QED BY <2>1, <2>3, <2>4, <2>5
<1> HIDE DEF T
<1>5. \A n \in 0..Len(s) : n \in T
  BY <1>2, <1>3, <1>4, Upward
<1>6. Len(s) \in T
  BY <1>2, <1>5
<1> QED BY <1>6 DEF T

\* FlattenSeq chooses such sums.
LEMMA FlattenedFacts ==
  ASSUME NEW A, NEW s \in Seq(Seq(A)), Len(s) # 0
  PROVE  \E f : IsFlattening(f, s) /\ FlattenSeq(s) = f[Len(s)]
<1> DEFINE f == CHOOSE h : h = [i \in 1..Len(s) |->
                              IF i = 1 THEN s[i] ELSE h[i - 1] \o s[i]]
<1>1. FlattenSeq(s) = f[Len(s)]
  BY DEF FlattenSeq
<1>2. \E h : h = [i \in 1..Len(s) |-> IF i = 1 THEN s[i] ELSE h[i - 1] \o s[i]]
  BY FlatteningExists DEF IsFlattening
<1>3. IsFlattening(f, s)
  BY <1>2 DEF IsFlattening
<1> HIDE DEF f
<1> QED BY <1>1, <1>3

\* Nothing put together is nothing.
LEMMA FlattenEmpty == FlattenSeq(<<>>) = <<>>
BY DEF FlattenSeq

\* Sequences put together are a sequence of their elements.
LEMMA FlattenType ==
  ASSUME NEW A, NEW s \in Seq(Seq(A))
  PROVE  FlattenSeq(s) \in Seq(A)
<1>1. CASE Len(s) = 0
  <2>1. s = <<>>
    BY <1>1, EmptySeq
  <2> QED BY <2>1, FlattenEmpty, EmptySeq
<1>2. CASE Len(s) # 0
  <2>1. PICK f : IsFlattening(f, s) /\ FlattenSeq(s) = f[Len(s)]
    BY <1>2, FlattenedFacts
  <2>2. f \in [1..Len(s) -> Seq(A)]
    BY <2>1, FlatteningFacts
  <2>3. Len(s) \in 1..Len(s)
    BY <1>2, LenProperties
  <2> QED BY <2>1, <2>2, <2>3
<1> QED BY <1>1, <1>2

\* A last sequence is appended.
LEMMA FlattenOneMore ==
  ASSUME NEW A, NEW s \in Seq(Seq(A)), NEW t \in Seq(Seq(A)),
         Len(t) = Len(s) + 1, \A i \in 1..Len(s) : s[i] = t[i]
  PROVE  FlattenSeq(t) = FlattenSeq(s) \o t[Len(t)]
<1>1. Len(s) \in Nat /\ Len(t) \in Nat
  BY LenProperties
<1>2. Len(t) # 0 /\ Len(s) <= Len(t) /\ Len(t) \in 1..Len(t)
  BY <1>1
<1>3. PICK f : IsFlattening(f, t) /\ FlattenSeq(t) = f[Len(t)]
  BY <1>2, FlattenedFacts
<1>4. \A i \in 1..Len(t) : f[i] = IF i = 1 THEN t[i] ELSE f[i - 1] \o t[i]
  BY <1>3, FlatteningFacts
<1>5. CASE Len(s) = 0
  <2>1. s = <<>>
    BY <1>5, EmptySeq
  <2>2. FlattenSeq(t) = t[Len(t)]
    BY <1>2, <1>3, <1>4, <1>5
  <2>3. t[Len(t)] \in Seq(A)
    BY <1>2, ElementOfSeq
  <2>4. <<>> \o t[Len(t)] = t[Len(t)]
    BY <2>3, ConcatEmptySeq
  <2> QED BY <2>1, <2>2, <2>4, FlattenEmpty
<1>6. CASE Len(s) # 0
  <2>1. PICK g : IsFlattening(g, s) /\ FlattenSeq(s) = g[Len(s)]
    BY <1>6, FlattenedFacts
  <2>2. BeginsLike(t, s)
    BY <1>2 DEF BeginsLike
  <2>3. \A i \in 1..Len(s) : g[i] = f[i]
    BY <1>3, <2>1, <2>2, FlatteningsAgree
  <2>4. Len(t) # 1 /\ Len(t) - 1 = Len(s) /\ Len(s) \in 1..Len(s)
    BY <1>1, <1>6
  <2>5. f[Len(t)] = f[Len(s)] \o t[Len(t)]
    BY <2>4, <1>2, <1>4
  <2>6. g[Len(s)] = f[Len(s)]
    BY <2>3, <2>4
  <2> QED BY <1>3, <2>1, <2>5, <2>6
<1> QED BY <1>5, <1>6

\* The same, of Append.
LEMMA FlattenAppend ==
  ASSUME NEW A, NEW s \in Seq(Seq(A)), NEW x \in Seq(A)
  PROVE  FlattenSeq(Append(s, x)) = FlattenSeq(s) \o x
<1> DEFINE t == Append(s, x)
<1>1. /\ t \in Seq(Seq(A)) /\ Len(t) = Len(s) + 1
      /\ \A i \in 1..Len(s) : s[i] = t[i]
      /\ t[Len(s) + 1] = x
  BY AppendProperties
<1> HIDE DEF t
<1>2. FlattenSeq(t) = FlattenSeq(s) \o t[Len(t)]
  BY <1>1, FlattenOneMore
<1> QED BY <1>1, <1>2 DEF t

\* One more of the first sequences.
LEMMA FlattenStep ==
  ASSUME NEW A, NEW s \in Seq(Seq(A)), NEW n \in 1..Len(s)
  PROVE  /\ FlattenSeq(UpTo(s, n)) = FlattenSeq(UpTo(s, n - 1)) \o s[n]
         /\ FlattenSeq(UpTo(s, n - 1)) \in Seq(A)
         /\ FlattenSeq(UpTo(s, n)) \in Seq(A)
<1>1. n - 1 \in 0..Len(s) /\ n \in 0..Len(s) /\ s[n] \in Seq(A)
  BY LenProperties, ElementOfSeq
<1>2. UpTo(s, n - 1) \in Seq(Seq(A)) /\ UpTo(s, n) \in Seq(Seq(A))
  BY <1>1, UpToFacts
<1>3. UpTo(s, n) = Append(UpTo(s, n - 1), s[n])
  BY UpToStep
<1> QED BY <1>1, <1>2, <1>3, FlattenAppend, FlattenType

\* One sequence alone is itself.
LEMMA FlattenOne ==
  ASSUME NEW A, NEW x \in Seq(A)
  PROVE  FlattenSeq(<<x>>) = x
<1>1. <<x>> = Append(<<>>, x)
  OBVIOUS
<1>2. <<>> \in Seq(Seq(A))
  BY EmptySeq
<1>3. FlattenSeq(<<x>>) = <<>> \o x
  BY <1>1, <1>2, FlattenEmpty, FlattenAppend
<1> QED BY <1>3, ConcatEmptySeq

\* Concatenation is associative.
Associates(A) == \A a, b, c \in Seq(A) : (a \o b) \o c = a \o (b \o c)

LEMMA ConcatThree ==
  ASSUME NEW A
  PROVE  Associates(A)
<1> SUFFICES ASSUME NEW a \in Seq(A), NEW b \in Seq(A), NEW c \in Seq(A)
             PROVE  (a \o b) \o c = a \o (b \o c)
  BY Zenon DEF Associates
<1>1. /\ a \o b \in Seq(A) /\ Len(a \o b) = Len(a) + Len(b)
      /\ b \o c \in Seq(A) /\ Len(b \o c) = Len(b) + Len(c)
  OBVIOUS
<1>2. /\ (a \o b) \o c \in Seq(A) /\ Len((a \o b) \o c) = Len(a) + Len(b) + Len(c)
      /\ a \o (b \o c) \in Seq(A) /\ Len(a \o (b \o c)) = Len(a) + Len(b) + Len(c)
  BY <1>1
<1>3. \A i \in 1..Len(a) + Len(b) + Len(c) : ((a \o b) \o c)[i] = (a \o (b \o c))[i]
  BY <1>1, <1>2
<1> QED BY <1>2, <1>3, SeqEqual

\* Putting together distributes over concatenation.
LEMMA FlattenConcat ==
  ASSUME NEW A, NEW s \in Seq(Seq(A)), NEW t \in Seq(Seq(A))
  PROVE  FlattenSeq(s \o t) = FlattenSeq(s) \o FlattenSeq(t)
<1>1. /\ Len(t) \in Nat /\ FlattenSeq(s) \in Seq(A)
      /\ \A n \in 1..Len(t) : t[n] \in Seq(A)
  BY LenProperties, ElementOfSeq, FlattenType
<1>2. Associates(A)
  BY ConcatThree
<1>3. Associates(Seq(A))
  BY ConcatThree
<1> DEFINE T == {n \in 0..Len(t) :
                   FlattenSeq(s \o UpTo(t, n)) = FlattenSeq(s) \o FlattenSeq(UpTo(t, n))}
<1>4. 0 \in T
  <2>1. UpTo(t, 0) = <<>> /\ 0 \in 0..Len(t)
    BY <1>1, UpToFacts
  <2>2. s \o <<>> = s /\ FlattenSeq(s) \o <<>> = FlattenSeq(s)
    BY <1>1, ConcatEmptySeq
  <2> QED BY <2>1, <2>2, FlattenEmpty
<1>5. ASSUME NEW n \in 0..Len(t)-1, n \in T
      PROVE  n + 1 \in T
  <2> DEFINE u == UpTo(t, n)
             x == t[n + 1]
  <2>1. n + 1 \in 1..Len(t) /\ n + 1 \in 0..Len(t) /\ (n + 1) - 1 = n /\ n \in 0..Len(t)
    BY <1>1
  <2>2. x \in Seq(A) /\ u \in Seq(Seq(A)) /\ UpTo(t, n + 1) = Append(u, x)
    BY <1>1, <2>1, UpToFacts, UpToStep
  <2>3. FlattenSeq(s \o u) = FlattenSeq(s) \o FlattenSeq(u)
    BY <1>5
  <2> HIDE DEF u, x
  <2>4. s \o Append(u, x) = Append(s \o u, x)
    <3>1. <<x>> \in Seq(Seq(A)) /\ s \o u \in Seq(Seq(A))
      BY <2>2, ConcatProperties
    <3>2. Append(u, x) = u \o <<x>> /\ Append(s \o u, x) = (s \o u) \o <<x>>
      BY <2>2, <3>1, AppendIsConcat
    <3>3. (s \o u) \o <<x>> = s \o (u \o <<x>>)
      <4>1. u \in Seq(Seq(A)) /\ <<x>> \in Seq(Seq(A))
        BY <2>2, <3>1
      <4> QED BY <4>1, <1>3, Zenon DEF Associates
    <3> QED BY <3>2, <3>3, Zenon
  <2>5. s \o u \in Seq(Seq(A)) /\ FlattenSeq(u) \in Seq(A)
    BY <2>2, ConcatProperties, FlattenType
  <2>6. FlattenSeq(Append(s \o u, x)) = FlattenSeq(s \o u) \o x
    BY <2>2, <2>5, FlattenAppend
  <2>7. FlattenSeq(Append(u, x)) = FlattenSeq(u) \o x
    BY <2>2, FlattenAppend
  <2>8. (FlattenSeq(s) \o FlattenSeq(u)) \o x = FlattenSeq(s) \o (FlattenSeq(u) \o x)
    <3> DEFINE a == FlattenSeq(s)
               b == FlattenSeq(u)
    <3>1. a \in Seq(A) /\ b \in Seq(A)
      BY <1>1, <2>5
    <3> HIDE DEF a, b
    <3>2. x \in Seq(A)
      BY <2>2
    <3>3. (a \o b) \o x = a \o (b \o x)
      BY <3>1, <3>2, <1>2, Zenon DEF Associates
    <3> QED BY <3>3 DEF a, b
  <2>9. FlattenSeq(s \o Append(u, x)) = FlattenSeq(s) \o FlattenSeq(Append(u, x))
    BY <2>3, <2>4, <2>6, <2>7, <2>8
  <2> QED BY <2>1, <2>2, <2>9
<1> HIDE DEF T
<1>6. \A n \in 0..Len(t) : n \in T
  BY <1>1, <1>4, <1>5, Upward
<1>7. Len(t) \in T /\ UpTo(t, Len(t)) = t
  BY <1>1, <1>6, UpToFacts
<1> QED BY <1>7 DEF T

\* Nothing is lost and nothing comes from elsewhere.
LEMMA FlattenRange ==
  ASSUME NEW A, NEW s \in Seq(Seq(A))
  PROVE  \A k \in 1..Len(s) : \A j \in 1..Len(s[k]) :
           \E i \in 1..Len(FlattenSeq(s)) : FlattenSeq(s)[i] = s[k][j]
<1>1. /\ Len(s) \in Nat
      /\ \A n \in 1..Len(s) : s[n] \in Seq(A) /\ Len(s[n]) \in Nat
  BY LenProperties, ElementOfSeq
<1> DEFINE Holds(f, x) == \E i \in 1..Len(f) : f[i] = x
           T == {n \in 0..Len(s) : \A k \in 1..n : \A j \in 1..Len(s[k]) :
                   Holds(FlattenSeq(UpTo(s, n)), s[k][j])}
<1>2. 0 \in T
  BY <1>1
<1>3. ASSUME NEW n \in 0..Len(s)-1, n \in T
      PROVE  n + 1 \in T
  <2> DEFINE u == FlattenSeq(UpTo(s, n))
             x == s[n + 1]
  <2>1. n + 1 \in 1..Len(s) /\ n + 1 \in 0..Len(s) /\ (n + 1) - 1 = n
    BY <1>1
  <2>2. x \in Seq(A) /\ u \in Seq(A) /\ FlattenSeq(UpTo(s, n + 1)) = u \o x
    BY <1>1, <2>1, FlattenStep
  <2> HIDE DEF u, x
  <2>3. /\ Len(u) \in Nat /\ Len(x) \in Nat /\ Len(u \o x) = Len(u) + Len(x)
        /\ \A i \in 1..Len(u)+Len(x) :
             (u \o x)[i] = IF i <= Len(u) THEN u[i] ELSE x[i - Len(u)]
    BY <2>2, ConcatProperties, LenProperties
  <2>4. ASSUME NEW k \in 1..n, NEW j \in 1..Len(s[k])
        PROVE  Holds(u \o x, s[k][j])
    <3>1. PICK i \in 1..Len(u) : u[i] = s[k][j]
      BY <1>3 DEF u
    <3>2. i \in 1..Len(u)+Len(x) /\ i <= Len(u)
      BY <2>3
    <3> QED BY <3>1, <3>2, <2>3
  <2>5. ASSUME NEW j \in 1..Len(x)
        PROVE  Holds(u \o x, x[j])
    <3>1. Len(u) + j \in 1..Len(u)+Len(x) /\ ~ (Len(u) + j <= Len(u)) /\ (Len(u) + j) - Len(u) = j
      BY <2>3
    <3>2. (u \o x)[Len(u) + j] = x[j]
      BY <3>1, <2>3
    <3> QED BY <3>1, <3>2, <2>3
  <2>6. \A k \in 1..n+1 : k \in 1..n \/ k = n + 1
    BY <1>1
  <2> HIDE DEF Holds
  <2>7. \A k \in 1..n+1 : \A j \in 1..Len(s[k]) : Holds(u \o x, s[k][j])
    BY <2>4, <2>5, <2>6 DEF x
  <2> QED BY <2>1, <2>2, <2>7
<1> HIDE DEF T, Holds
<1>4. \A n \in 0..Len(s) : n \in T
  BY <1>1, <1>2, <1>3, Upward
<1>5. Len(s) \in T /\ UpTo(s, Len(s)) = s
  BY <1>1, <1>4, UpToFacts
<1> QED BY <1>5 DEF T, Holds

\* A function of the first numbers is a sequence.
LEMMA FunctionIsSeq ==
  ASSUME NEW X, NEW n \in Nat, NEW f \in [1..n -> X]
  PROVE  f \in Seq(X) /\ Len(f) = n
OBVIOUS

\* A function that gives what lies in a set; what it gives for each element.
Maps(g, A, B) == \A x \in A : g[x] \in B
Mapped(g, s) == [i \in 1..Len(s) |-> g[s[i]]]

\* The pieces of a sequence are a sequence of as many pieces.
LEMMA MappedType ==
  ASSUME NEW A, NEW B, NEW g, Maps(g, A, B), NEW s \in Seq(A)
  PROVE  /\ Mapped(g, s) \in Seq(B) /\ Len(Mapped(g, s)) = Len(s)
         /\ \A i \in 1..Len(s) : Mapped(g, s)[i] = g[s[i]]
<1>1. Len(s) \in Nat /\ \A i \in 1..Len(s) : s[i] \in A
  BY LenProperties, ElementOfSeq
<1>2. Mapped(g, s) \in [1..Len(s) -> B]
  BY <1>1 DEF Mapped, Maps
<1>3. \A i \in 1..Len(s) : Mapped(g, s)[i] = g[s[i]]
  BY DEF Mapped
<1> QED BY <1>1, <1>2, <1>3

\* The pieces of a concatenation are those of its halves.
LEMMA MappedConcat ==
  ASSUME NEW A, NEW B, NEW g, Maps(g, A, B), NEW s \in Seq(A), NEW t \in Seq(A)
  PROVE  Mapped(g, s \o t) = Mapped(g, s) \o Mapped(g, t)
<1> DEFINE u == s \o t
           m == Mapped(g, s)
           n == Mapped(g, t)
<1>1. /\ u \in Seq(A) /\ Len(u) = Len(s) + Len(t)
      /\ \A i \in 1..Len(s)+Len(t) : u[i] = IF i <= Len(s) THEN s[i] ELSE t[i - Len(s)]
      /\ Len(s) \in Nat /\ Len(t) \in Nat
  BY ConcatProperties, LenProperties
<1>2. /\ m \in Seq(B) /\ Len(m) = Len(s) /\ \A i \in 1..Len(s) : m[i] = g[s[i]]
      /\ n \in Seq(B) /\ Len(n) = Len(t) /\ \A i \in 1..Len(t) : n[i] = g[t[i]]
  BY MappedType
<1> HIDE DEF u, m, n
<1>3. /\ Mapped(g, u) \in Seq(B) /\ Len(Mapped(g, u)) = Len(u)
      /\ \A i \in 1..Len(u) : Mapped(g, u)[i] = g[u[i]]
  BY <1>1, MappedType
<1>4. Len(m \o n) = Len(m) + Len(n) /\ m \o n \in Seq(B)
  BY <1>2, ConcatProperties
<1>5. \A i \in 1..Len(m)+Len(n) : (m \o n)[i] = IF i <= Len(m) THEN m[i] ELSE n[i - Len(m)]
  BY <1>2, ConcatProperties
<1>6. /\ m \o n \in Seq(B) /\ Len(m \o n) = Len(s) + Len(t)
      /\ \A i \in 1..Len(s)+Len(t) :
           (m \o n)[i] = IF i <= Len(s) THEN m[i] ELSE n[i - Len(s)]
  BY <1>2, <1>4, <1>5
<1>7. ASSUME NEW i \in 1..Len(u)
      PROVE  Mapped(g, u)[i] = (m \o n)[i]
  <2>1. Mapped(g, u)[i] = g[u[i]] /\ i \in 1..Len(s)+Len(t)
    BY <1>1, <1>3
  <2>2. CASE i <= Len(s)
    <3>1. i \in 1..Len(s)
      BY <1>1, <2>1, <2>2
    <3>2. u[i] = s[i] /\ (m \o n)[i] = m[i] /\ m[i] = g[s[i]]
      BY <1>1, <1>2, <1>6, <2>1, <2>2, <3>1
    <3> QED BY <2>1, <3>2
  <2>3. CASE ~ (i <= Len(s))
    <3>1. i - Len(s) \in 1..Len(t)
      BY <1>1, <2>1, <2>3
    <3>2. /\ u[i] = t[i - Len(s)] /\ (m \o n)[i] = n[i - Len(s)]
          /\ n[i - Len(s)] = g[t[i - Len(s)]]
      BY <1>1, <1>2, <1>6, <2>1, <2>3, <3>1
    <3> QED BY <2>1, <3>2
  <2> QED BY <2>2, <2>3
<1>8. Len(Mapped(g, u)) = Len(m \o n)
  BY <1>1, <1>3, <1>6
<1>9. Mapped(g, u) = m \o n
  BY <1>3, <1>6, <1>7, <1>8, SeqEqual
<1> QED BY <1>9 DEF u, m, n

\* The pieces of each sequence put together.
Pieces(g, E) == [k \in 1..Len(E) |-> FlattenSeq(Mapped(g, E[k]))]

\* Pieces that are found for the elements of sequences, put together, are the
\* pieces of each sequence put together.
LEMMA FlattenMapped ==
  ASSUME NEW A, NEW B, NEW E \in Seq(Seq(A)), NEW g, Maps(g, A, Seq(B))
  PROVE  FlattenSeq(Mapped(g, FlattenSeq(E))) = FlattenSeq(Pieces(g, E))
<1>1. /\ Len(E) \in Nat
      /\ \A n \in 1..Len(E) : E[n] \in Seq(A)
  BY LenProperties, ElementOfSeq
<1>2. ASSUME NEW n \in 1..Len(E)
      PROVE  FlattenSeq(Mapped(g, E[n])) \in Seq(B)
  BY <1>1, MappedType, FlattenType
<1>3. /\ Pieces(g, E) \in [1..Len(E) -> Seq(B)]
      /\ \A n \in 1..Len(E) : Pieces(g, E)[n] = FlattenSeq(Mapped(g, E[n]))
  BY <1>2 DEF Pieces
<1>4. Pieces(g, E) \in Seq(Seq(B)) /\ Len(Pieces(g, E)) = Len(E)
  BY <1>1, <1>3, FunctionIsSeq, Zenon
<1>5. \A a, b \in Seq(A) : Mapped(g, a \o b) = Mapped(g, a) \o Mapped(g, b)
  <2> DEFINE C == Seq(B)
  <2>1. Maps(g, A, C)
    OBVIOUS
  <2> HIDE DEF C
  <2> TAKE a, b \in Seq(A)
  <2> QED BY <2>1, MappedConcat
<1> DEFINE P == Pieces(g, E)
           T == {n \in 0..Len(E) : FlattenSeq(Mapped(g, FlattenSeq(UpTo(E, n))))
                                     = FlattenSeq(UpTo(P, n))}
<1> HIDE DEF P
<1>6. 0 \in T
  <2>1. UpTo(E, 0) = <<>> /\ UpTo(P, 0) = <<>> /\ 0 \in 0..Len(E)
    BY <1>1, <1>4, UpToFacts DEF P
  <2>2. Mapped(g, <<>>) = <<>>
    <3>1. Len(<<>>) = 0
      BY EmptySeq
    <3>2. Mapped(g, <<>>) \in [1..0 -> A]
      <4>1. \A i \in 1..0 : FALSE
        OBVIOUS
      <4> QED BY <3>1, <4>1 DEF Mapped
    <3>3. Mapped(g, <<>>) \in Seq(A) /\ Len(Mapped(g, <<>>)) = 0
      BY <3>2, FunctionIsSeq
    <3> QED BY <3>3, EmptySeq
  <2> QED BY <2>1, <2>2, FlattenEmpty
<1>7. ASSUME NEW n \in 0..Len(E)-1, n \in T
      PROVE  n + 1 \in T
  <2> DEFINE u == FlattenSeq(UpTo(E, n))
             x == E[n + 1]
             p == P[n + 1]
             v == FlattenSeq(UpTo(P, n))
  <2>1. n + 1 \in 1..Len(E) /\ n + 1 \in 0..Len(E) /\ (n + 1) - 1 = n /\ n + 1 \in 1..Len(P)
    BY <1>1, <1>4 DEF P
  <2>2. x \in Seq(A) /\ u \in Seq(A) /\ FlattenSeq(UpTo(E, n + 1)) = u \o x
    BY <1>1, <2>1, FlattenStep
  <2>3. FlattenSeq(UpTo(P, n + 1)) = v \o p
    BY <1>4, <2>1, FlattenStep DEF P
  <2>4. p = FlattenSeq(Mapped(g, x)) /\ v = FlattenSeq(Mapped(g, u))
    BY <1>3, <1>7, <2>1 DEF P
  <2> HIDE DEF u, x, p, v
  <2>5. Mapped(g, u \o x) = Mapped(g, u) \o Mapped(g, x)
    BY <2>2, <1>5, Zenon
  <2>6. Mapped(g, u) \in Seq(Seq(B)) /\ Mapped(g, x) \in Seq(Seq(B))
    BY <2>2, MappedType
  <2>7. FlattenSeq(Mapped(g, u) \o Mapped(g, x)) = v \o p
    BY <2>4, <2>6, FlattenConcat
  <2> QED BY <2>1, <2>2, <2>3, <2>5, <2>7
<1> HIDE DEF T
<1>8. \A n \in 0..Len(E) : n \in T
  BY <1>1, <1>6, <1>7, Upward
<1>9. Len(E) \in T /\ UpTo(E, Len(E)) = E /\ UpTo(P, Len(E)) = P
  BY <1>1, <1>4, <1>8, UpToFacts DEF P
<1> QED BY <1>9 DEF T, P

-----------------------------------------------------------------------------
(* Listings *)

\* Files whose names have two numbers behind the '@'.
Numbered(S) == \A f \in S : f.at[1] \in Nat /\ f.at[2] \in Nat

\* An order of a set has each of its elements once.
LEMMA SetToSeqsFacts ==
  ASSUME NEW S, IsFiniteSet(S), NEW s \in SetToSeqs(S)
  PROVE  /\ s \in Seq(S) /\ Len(s) = Cardinality(S) /\ Len(s) \in Nat
         /\ \A i, j \in 1..Len(s) : s[i] = s[j] => i = j
         /\ \A f \in S : \E i \in 1..Len(s) : s[i] = f
<1>1. Cardinality(S) \in Nat
  BY FS_CardinalityType
<1>2. /\ s \in [1..Cardinality(S) -> S]
      /\ \A i, j \in 1..Cardinality(S) : i # j => s[i] # s[j]
  BY DEF SetToSeqs
<1>3. s \in Seq(S) /\ Len(s) = Cardinality(S)
  BY <1>1, <1>2
<1>4. s \in Injection(1..Cardinality(S), S)
  BY <1>2 DEF Injection, IsInjective
<1>5. /\ IsFiniteSet(1..Cardinality(S))
      /\ Cardinality(1..Cardinality(S)) = Cardinality(S)
  BY <1>1, FS_Interval
<1>6. s \in Surjection(1..Cardinality(S), S)
  BY <1>4, <1>5, FS_Injection
<1>7. \A f \in S : \E i \in 1..Cardinality(S) : s[i] = f
  BY <1>6 DEF Surjection
<1> QED BY <1>1, <1>2, <1>3, <1>7

\* The order is that of the numbers.
LEMMA ListedInOrder ==
  ASSUME NEW S, Numbered(S), NEW s \in Seq(S), IsListed(s)
  PROVE  \A i, j \in 1..Len(s) : i < j => NameOrder(s[i], s[j])
<1>1. Len(s) \in Nat /\ \A i \in 1..Len(s) : s[i] \in S
  BY LenProperties, ElementOfSeq
<1> SUFFICES ASSUME NEW i \in 1..Len(s)
             PROVE  \A j \in 1..Len(s) : i < j => NameOrder(s[i], s[j])
  OBVIOUS
<1> DEFINE T == {n \in 0..Len(s)-i : n = 0 \/ NameOrder(s[i], s[i + n])}
<1>2. 0 \in T
  BY <1>1
<1>3. ASSUME NEW n \in 0..(Len(s)-i)-1, n \in T
      PROVE  n + 1 \in T
  <2> DEFINE f == s[i]
             g == s[i + n]
             h == s[i + (n + 1)]
  <2>1. /\ n + 1 \in 0..Len(s)-i /\ i + n \in 1..Len(s) /\ i + (n + 1) \in 2..Len(s)
        /\ i + (n + 1) \in 1..Len(s) /\ (i + (n + 1)) - 1 = i + n
    BY <1>1
  <2>2. NameOrder(g, h)
    BY <2>1 DEF IsListed
  <2>3. f \in S /\ g \in S /\ h \in S
    BY <1>1, <2>1
  <2>4. n = 0 => f = g
    BY <1>1
  <2>5. n = 0 \/ NameOrder(f, g)
    BY <1>3
  <2> HIDE DEF f, g, h
  <2>6. NameOrder(f, h)
    BY <2>2, <2>3, <2>4, <2>5 DEF NameOrder, Numbered
  <2> QED BY <2>1, <2>6 DEF f, h
<1> HIDE DEF T
<1>4. Len(s) - i \in Nat
  BY <1>1
<1>5. \A n \in 0..Len(s)-i : n \in T
  BY <1>2, <1>3, <1>4, Upward
<1>6. ASSUME NEW j \in 1..Len(s), i < j
      PROVE  NameOrder(s[i], s[j])
  <2>1. j - i \in 0..Len(s)-i /\ j - i # 0 /\ i + (j - i) = j
    BY <1>1, <1>6
  <2>2. j - i \in T
    BY <2>1, <1>5
  <2> QED BY <2>1, <2>2 DEF T
<1> QED BY <1>6

\* There is one such order.
LEMMA ListingUnique ==
  ASSUME NEW S, IsFiniteSet(S), Numbered(S) \/ Cardinality(S) <= 1,
         NEW s, NEW t, IsListingOf(s, S), IsListingOf(t, S)
  PROVE  s = t
<1>1. s \in SetToSeqs(S) /\ t \in SetToSeqs(S) /\ IsListed(s) /\ IsListed(t)
  BY DEF IsListingOf
<1>2. /\ s \in Seq(S) /\ Len(s) = Cardinality(S) /\ Len(s) \in Nat
      /\ \A i, j \in 1..Len(s) : s[i] = s[j] => i = j
      /\ \A f \in S : \E i \in 1..Len(s) : s[i] = f
  BY <1>1, SetToSeqsFacts
<1>3. /\ t \in Seq(S) /\ Len(t) = Cardinality(S) /\ Len(t) \in Nat
      /\ \A i, j \in 1..Len(t) : t[i] = t[j] => i = j
      /\ \A f \in S : \E i \in 1..Len(t) : t[i] = f
  BY <1>1, SetToSeqsFacts
<1>4. \A i \in 1..Len(s) : s[i] \in S /\ t[i] \in S
  BY <1>2, <1>3, ElementOfSeq
<1>5. SUFFICES ASSUME NEW k \in 1..Len(s), s[k] # t[k] PROVE FALSE
  BY <1>2, <1>3, SeqEqual
<1> DEFINE D == {i \in 1..Len(s) : s[i] # t[i]}
<1>6. PICK i \in D : \A m \in D : i <= m
  <2>1. D \in SUBSET Nat /\ D # {}
    BY <1>5
  <2> HIDE DEF D
  <2> QED BY <2>1, LeastNatural
<1>7. i \in 1..Len(s) /\ s[i] # t[i] /\ \A m \in 1..Len(s) : m < i => s[m] = t[m]
  BY <1>6
<1> HIDE DEF D
<1>8. PICK j \in 1..Len(s) : s[j] = t[i]
  BY <1>2, <1>4, <1>7
<1>9. PICK k2 \in 1..Len(s) : t[k2] = s[i]
  BY <1>2, <1>3, <1>4, <1>7
<1>10. i < j /\ i < k2
  <2>1. j # i /\ k2 # i
    BY <1>7, <1>8, <1>9
  <2>2. ~ (j < i)
    <3> SUFFICES ASSUME j < i PROVE FALSE
      OBVIOUS
    <3>1. t[j] = t[i]
      BY <1>7, <1>8
    <3> QED BY <3>1, <2>1, <1>2, <1>3, <1>7
  <2>3. ~ (k2 < i)
    <3> SUFFICES ASSUME k2 < i PROVE FALSE
      OBVIOUS
    <3>1. s[k2] = s[i]
      BY <1>7, <1>9
    <3> QED BY <3>1, <2>1, <1>2, <1>7
  <2>4. i \in Nat /\ j \in Nat /\ k2 \in Nat
    BY <1>2, <1>7
  <2> QED BY <2>1, <2>2, <2>3, <2>4
<1>11. Numbered(S)
  BY <1>2, <1>7, <1>8, <1>10
<1>12. NameOrder(s[i], s[j]) /\ NameOrder(t[i], t[k2])
  <2>1. NameOrder(s[i], s[j])
    BY <1>1, <1>2, <1>7, <1>10, <1>11, ListedInOrder
  <2>2. Len(t) = Len(s)
    BY <1>2, <1>3
  <2>3. NameOrder(t[i], t[k2])
    BY <1>1, <1>3, <2>2, <1>7, <1>10, <1>11, ListedInOrder
  <2> QED BY <2>1, <2>3
<1> DEFINE f == s[i]
           g == t[i]
<1>13. NameOrder(f, g) /\ NameOrder(g, f) /\ f \in S /\ g \in S
  BY <1>4, <1>7, <1>8, <1>9, <1>12
<1> HIDE DEF f, g
<1> QED BY <1>11, <1>13 DEF NameOrder, Numbered

\* What is ordered as the code asks is the listing.
LEMMA ListingIs ==
  ASSUME NEW S, IsFiniteSet(S), Numbered(S) \/ Cardinality(S) <= 1,
         NEW s, IsListingOf(s, S)
  PROVE  Listing(S) = s
<1>1. IsListingOf(Listing(S), S)
  BY DEF Listing, IsListingOf
<1> QED BY <1>1, ListingUnique

\* The listings of no file and of one file.
LEMMA ListingEmpty == Listing({}) = <<>>
<1>1. IsFiniteSet({}) /\ Cardinality({}) = 0
  BY FS_EmptySet
<1>2. <<>> \in [1..0 -> {}]
  <2>1. <<>> \in Seq({}) /\ Len(<<>>) = 0
    BY EmptySeq
  <2> QED BY <2>1, LenProperties
<1>3. <<>> \in SetToSeqs({})
  BY <1>1, <1>2 DEF SetToSeqs
<1>4. IsListed(<<>>)
  BY EmptySeq DEF IsListed
<1> QED BY <1>1, <1>3, <1>4, ListingIs DEF IsListingOf

LEMMA ListingOne ==
  ASSUME NEW f
  PROVE  Listing({f}) = <<f>> /\ IsListingOf(<<f>>, {f})
<1>1. IsFiniteSet({f}) /\ Cardinality({f}) = 1
  BY FS_Singleton
<1>2. <<f>> \in [1..1 -> {f}]
  OBVIOUS
<1>3. <<f>> \in SetToSeqs({f})
  BY <1>1, <1>2 DEF SetToSeqs
<1>4. IsListed(<<f>>)
  BY DEF IsListed
<1>5. IsListingOf(<<f>>, {f})
  BY <1>3, <1>4 DEF IsListingOf
<1> QED BY <1>1, <1>5, ListingIs

\* One more file behind all others.
LEMMA ListingMore ==
  ASSUME NEW S, IsFiniteSet(S), NEW s, IsListingOf(s, S), NEW f, f \notin S,
         \A x \in S : NameOrder(x, f)
  PROVE  IsListingOf(s \o <<f>>, S \cup {f})
<1>1. s \in SetToSeqs(S) /\ IsListed(s)
  BY DEF IsListingOf
<1>2. /\ s \in Seq(S) /\ Len(s) = Cardinality(S) /\ Len(s) \in Nat
      /\ \A i, j \in 1..Len(s) : s[i] = s[j] => i = j
  BY <1>1, SetToSeqsFacts
<1> DEFINE t == s \o <<f>>
           n == Len(s)
<1>3. /\ t \in Seq(S \cup {f}) /\ Len(t) = n + 1
      /\ \A i \in 1..n : t[i] = s[i] /\ s[i] \in S
      /\ t[n + 1] = f
  <2>1. s \in Seq(S \cup {f}) /\ <<f>> \in Seq(S \cup {f}) /\ Len(<<f>>) = 1 /\ <<f>>[1] = f
    BY <1>2, SeqMonotonic
  <2>2. \A i \in 1..n : s[i] \in S
    BY <1>2, ElementOfSeq
  <2> QED BY <1>2, <2>1, <2>2, ConcatProperties
<1>4. /\ IsFiniteSet(S \cup {f}) /\ Cardinality(S \cup {f}) = n + 1
  BY <1>2, FS_AddElement
<1>5. n \in Nat
  BY <1>2
<1>6. \A i, j \in 1..n : s[i] = s[j] => i = j
  BY <1>2
<1>7. \A j \in 2..n : NameOrder(s[j - 1], s[j])
  BY <1>1 DEF IsListed
<1> HIDE DEF t, n
<1>8. \A i, j \in 1..n+1 : i # j => t[i] # t[j]
  BY <1>3, <1>5, <1>6
<1>9. t \in SetToSeqs(S \cup {f})
  <2>1. t \in [1..n+1 -> S \cup {f}]
    BY <1>3, LenProperties
  <2> QED BY <2>1, <1>4, <1>8 DEF SetToSeqs
<1>10. ASSUME NEW j \in 2..n+1
       PROVE  NameOrder(t[j - 1], t[j])
  <2>1. CASE j \in 2..n
    <3>1. j - 1 \in 1..n /\ j \in 1..n
      BY <2>1, <1>5
    <3>2. t[j - 1] = s[j - 1] /\ t[j] = s[j]
      BY <3>1, <1>3
    <3> QED BY <2>1, <3>2, <1>7
  <2>2. CASE j = n + 1
    <3>1. j - 1 \in 1..n /\ t[j] = f
      BY <2>2, <1>3, <1>5
    <3>2. t[j - 1] \in S
      BY <3>1, <1>3
    <3> QED BY <3>1, <3>2
  <2> QED BY <2>1, <2>2, <1>5
<1>11. IsListed(t)
  BY <1>3, <1>10 DEF IsListed
<1>12. IsListingOf(t, S \cup {f})
  BY <1>9, <1>11 DEF IsListingOf
<1> QED BY <1>12 DEF t

\* Pieces of one element each.
LEMMA FlattenSingles ==
  ASSUME NEW A, NEW s \in Seq(A), NEW m \in Seq(Seq(A)), Len(m) = Len(s),
         \A i \in 1..Len(s) : m[i] = <<s[i]>>
  PROVE  FlattenSeq(m) = s
<1>1. Len(s) \in Nat /\ \A i \in 1..Len(s) : s[i] \in A
  BY LenProperties, ElementOfSeq
<1> DEFINE T == {n \in 0..Len(s) : FlattenSeq(UpTo(m, n)) = UpTo(s, n)}
<1>2. 0 \in T
  <2>1. UpTo(m, 0) = <<>> /\ UpTo(s, 0) = <<>> /\ 0 \in 0..Len(s)
    BY <1>1, UpToFacts
  <2> QED BY <2>1, FlattenEmpty
<1>3. ASSUME NEW n \in 0..Len(s)-1, n \in T
      PROVE  n + 1 \in T
  <2> DEFINE u == UpTo(s, n)
             x == s[n + 1]
  <2>1. n + 1 \in 1..Len(s) /\ n + 1 \in 0..Len(s) /\ (n + 1) - 1 = n /\ n + 1 \in 1..Len(m)
        /\ n \in 0..Len(s)
    BY <1>1
  <2>2. FlattenSeq(UpTo(m, n + 1)) = u \o m[n + 1]
    BY <1>3, <2>1, FlattenStep
  <2>3. m[n + 1] = <<x>>
    BY <2>1
  <2>4. u \in Seq(A) /\ x \in A /\ UpTo(s, n + 1) = Append(u, x)
    BY <1>1, <2>1, UpToFacts, UpToStep
  <2> HIDE DEF u, x
  <2>5. Append(u, x) = u \o <<x>>
    BY <2>4, AppendIsConcat
  <2> QED BY <2>1, <2>2, <2>3, <2>4, <2>5
<1> HIDE DEF T
<1>4. \A n \in 0..Len(s) : n \in T
  BY <1>1, <1>2, <1>3, Upward
<1>5. Len(s) \in T /\ UpTo(s, Len(s)) = s /\ UpTo(m, Len(s)) = m
  BY <1>1, <1>4, UpToFacts
<1> QED BY <1>5 DEF T

-----------------------------------------------------------------------------
(* The files of a part *)

\* The files of the first m of n shards that are there.
ShardsIn(store, part, n, m) ==
  {f \in store : /\ f.dir = part.dir /\ f.limits = part.limits /\ f.name = part.name
                 /\ Len(f.at) = 2 /\ f.at[2] = n /\ f.at[1] < m}

\* A shard's name is that of one file.
LEMMA ShardFile ==
  ASSUME NEW store \in SUBSET Files, NEW part \in SpecPart, NEW n \in Nat,
         NEW m \in Nat
  PROVE  ShardsIn(store, part, n, m + 1)
           = ShardsIn(store, part, n, m) \cup ({FileOf(part, <<m, n>>)} \cap store)
<1> DEFINE F == FileOf(part, <<m, n>>)
<1>1. F = [dir |-> part.dir, limits |-> part.limits, name |-> part.name, at |-> <<m, n>>]
  BY DEF FileOf
<1>2. ASSUME NEW f \in store, f \in ShardsIn(store, part, n, m + 1),
             f \notin ShardsIn(store, part, n, m)
      PROVE  f = F
  <2>1. /\ f \in Files /\ f.dir = part.dir /\ f.limits = part.limits
        /\ f.name = part.name /\ Len(f.at) = 2 /\ f.at[2] = n
        /\ f.at[1] < m + 1 /\ ~ (f.at[1] < m)
    BY <1>2 DEF ShardsIn
  <2>2. f.at \in Seq(Nat) /\ f.at[1] \in Nat
    BY <2>1 DEF Files
  <2>3. f.at[1] = m
    BY <2>1, <2>2
  <2>4. f.at = <<m, n>>
    BY <2>1, <2>2, <2>3
  <2> QED BY <1>1, <2>1, <2>4 DEF Files
<1>3. ASSUME F \in store
      PROVE  F \in ShardsIn(store, part, n, m + 1)
  BY <1>1, <1>3 DEF ShardsIn
<1>4. ShardsIn(store, part, n, m) \subseteq ShardsIn(store, part, n, m + 1)
  <2> SUFFICES ASSUME NEW f \in ShardsIn(store, part, n, m)
               PROVE  f \in ShardsIn(store, part, n, m + 1)
    OBVIOUS
  <2>1. f \in Files /\ Len(f.at) = 2 /\ f.at[1] < m
    BY DEF ShardsIn
  <2>2. f.at[1] \in Nat
    BY <2>1 DEF Files
  <2> QED BY <2>1, <2>2 DEF ShardsIn
<1>5. ShardsIn(store, part, n, m + 1) \subseteq store
  BY DEF ShardsIn
<1> QED BY <1>2, <1>3, <1>4, <1>5

\* The files that are found for the names of all shards are listed in order.
LEMMA ShardsFound ==
  ASSUME NEW store \in SUBSET Files, IsFiniteSet(store), NEW part \in SpecPart,
         NEW n \in Nat, NEW names, names = [i \in 1..n |-> FileOf(part, <<i - 1, n>>)],
         NEW g, \A i \in 1..n : g[names[i]] = IF names[i] \in store THEN <<names[i]>> ELSE <<>>
  PROVE  IsListingOf(FlattenSeq(Mapped(g, names)), ShardsIn(store, part, n, n))
<1> DEFINE Name(i) == FileOf(part, <<i - 1, n>>)
           A == {Name(i) : i \in 1..n}
           P == Mapped(g, names)
           S(m) == ShardsIn(store, part, n, m)
<1>1. names \in [1..n -> A] /\ \A i \in 1..n : names[i] = Name(i)
  OBVIOUS
<1> HIDE DEF A
<1>2. names \in Seq(A) /\ Len(names) = n
  BY <1>1, FunctionIsSeq
<1>3. ASSUME NEW i \in 1..n
      PROVE  g[names[i]] \in Seq(A)
  <2>1. names[i] \in A
    BY <1>1
  <2>2. <<names[i]>> \in Seq(A) /\ <<>> \in Seq(A)
    BY <2>1
  <2> QED BY <2>2
<1>4. P \in [1..n -> Seq(A)]
  BY <1>2, <1>3 DEF Mapped
<1>5. \A i \in 1..n : P[i] = g[names[i]]
  BY <1>2 DEF Mapped
<1>6. P \in Seq(Seq(A)) /\ Len(P) = n
  BY <1>4, FunctionIsSeq
<1> HIDE DEF P, Name, S
<1> DEFINE T == {m \in 0..n : IsListingOf(FlattenSeq(UpTo(P, m)), S(m))}
<1>7. \A m \in Nat : IsFiniteSet(S(m)) /\ Numbered(S(m))
  <2> TAKE m \in Nat
  <2>1. S(m) \in SUBSET store
    BY DEF S, ShardsIn
  <2>2. \A f \in S(m) : f \in Files /\ Len(f.at) = 2
    BY DEF S, ShardsIn
  <2>3. \A f \in S(m) : f.at[1] \in Nat /\ f.at[2] \in Nat
    BY <2>2 DEF Files
  <2> QED BY <2>1, <2>3, FS_Subset DEF Numbered
<1>8. 0 \in T
  <2>1. UpTo(P, 0) = <<>>
    BY <1>6, UpToFacts
  <2>2. S(0) = {}
    <3>1. ASSUME NEW f \in S(0) PROVE FALSE
      <4>1. f \in Files /\ Len(f.at) = 2 /\ f.at[1] < 0
        BY <3>1 DEF S, ShardsIn
      <4> QED BY <4>1 DEF Files
    <3> QED BY <3>1
  <2>3. IsListingOf(<<>>, {})
    <3>1. <<>> \in [1..0 -> {}] /\ Cardinality({}) = 0
      BY EmptySeq, FS_EmptySet, LenProperties
    <3> QED BY <3>1 DEF IsListingOf, SetToSeqs, IsListed
  <2>4. IsListingOf(FlattenSeq(UpTo(P, 0)), S(0))
    BY <2>1, <2>2, <2>3, FlattenEmpty
  <2> QED BY <2>4
<1>9. ASSUME NEW m \in 0..n-1, m \in T
      PROVE  m + 1 \in T
  <2> DEFINE u == FlattenSeq(UpTo(P, m))
             f == names[m + 1]
  <2>1. m + 1 \in 1..n /\ m + 1 \in 0..n /\ (m + 1) - 1 = m /\ m \in Nat
    OBVIOUS
  <2>2. FlattenSeq(UpTo(P, m + 1)) = u \o P[m + 1] /\ u \in Seq(A)
    BY <1>6, <2>1, FlattenStep
  <2>3. IsListingOf(u, S(m))
    BY <1>9
  <2>4. f = FileOf(part, <<m, n>>)
    BY <1>1, <2>1 DEF Name
  <2>5. S(m + 1) = S(m) \cup ({f} \cap store)
    BY <2>1, <2>4, ShardFile DEF S
  <2>6. P[m + 1] = IF f \in store THEN <<f>> ELSE <<>>
    BY <1>5, <2>1
  <2> HIDE DEF u, f
  <2>7. IsListingOf(u \o P[m + 1], S(m + 1))
    <3>1. CASE f \in store
      <4>1. \A x \in S(m) : NameOrder(x, f) /\ x # f
        <5> TAKE x \in S(m)
        <5>1. x \in Files /\ x.at[1] < m /\ Len(x.at) = 2
          BY DEF S, ShardsIn
        <5>2. x.at[1] \in Nat
          BY <5>1 DEF Files
        <5>3. f.at[1] = m
          BY <2>4 DEF FileOf
        <5> QED BY <5>1, <5>2, <5>3, <2>1 DEF NameOrder
      <4>2. IsListingOf(u \o <<f>>, S(m) \cup {f})
        BY <4>1, <2>1, <2>3, <1>7, ListingMore
      <4>3. S(m + 1) = S(m) \cup {f}
        BY <2>5, <3>1
      <4> QED BY <4>2, <4>3, <2>6, <3>1
    <3>2. CASE f \notin store
      <4>1. S(m + 1) = S(m)
        BY <2>5, <3>2
      <4>2. u \o <<>> = u
        BY <2>2, ConcatEmptySeq
      <4> QED BY <4>1, <4>2, <2>3, <2>6, <3>2
    <3> QED BY <3>1, <3>2
  <2> QED BY <2>1, <2>2, <2>7
<1> HIDE DEF T
<1>10. \A m \in 0..n : m \in T
  BY <1>8, <1>9, Upward
<1>11. n \in T /\ UpTo(P, n) = P
  BY <1>6, <1>10, UpToFacts
<1>12. IsListingOf(FlattenSeq(P), S(n))
  BY <1>11 DEF T
<1> QED BY <1>12 DEF P, S

\* A bounded set of numbers has a maximum.
LEMMA MaxFacts ==
  ASSUME NEW lo \in Int, NEW hi \in Int, NEW S \in SUBSET (lo..hi), S # {}
  PROVE  Max(S) \in S /\ \A x \in S : x <= Max(S)
<1> DEFINE D == {hi - x : x \in S}
<1>1. D \in SUBSET Nat /\ D # {}
  <2>1. \A x \in S : x \in Int /\ hi - x \in Nat
    OBVIOUS
  <2> QED BY <2>1
<1>2. PICK d \in D : \A m \in D : d <= m
  <2> HIDE DEF D
  <2> QED BY <1>1, LeastNatural
<1>3. PICK x \in S : d = hi - x
  BY <1>2
<1>4. ASSUME NEW y \in S
      PROVE  x >= y
  <2>1. hi - y \in D
    OBVIOUS
  <2> HIDE DEF D
  <2>2. d <= hi - y
    BY <1>2, <2>1
  <2>3. x \in Int /\ y \in Int
    OBVIOUS
  <2> QED BY <1>3, <2>2, <2>3
<1> HIDE DEF D
<1>5. x \in S /\ \A y \in S : x >= y
  BY <1>3, <1>4
<1>6. Max(S) \in S /\ \A y \in S : Max(S) >= y
  <2> DEFINE G == {m \in S : \A y \in S : m >= y}
  <2>1. Max(S) = CHOOSE m \in S : m \in G
    BY DEF Max
  <2>2. \E m \in S : m \in G
    BY <1>5
  <2> HIDE DEF G
  <2>3. (CHOOSE m \in S : m \in G) \in G
    BY <2>2
  <2>4. Max(S) \in G
    BY <2>1, <2>3
  <2> QED BY <2>4 DEF G
<1> DEFINE m == Max(S)
<1>7. m \in S /\ \A y \in S : m >= y
  BY <1>6
<1> HIDE DEF m
<1>8. \A y \in S : y \in Int
  OBVIOUS
<1>9. \A y \in S : y <= m
  BY <1>7, <1>8
<1> QED BY <1>7, <1>9 DEF m

\* The stores that are assumed.
LEMMA StoredFacts ==
  ASSUME stored \in Stores
  PROVE  \A fs \in FileSystems : stored[fs] \in SUBSET Files /\ IsFiniteSet(stored[fs])
BY StoresAssumption

\* A spec has at least one part, one of limits included.
LEMMA PartsFacts ==
  ASSUME spec \in Specs, placement \in {"tail", "separate"}
  PROVE  Parts \in Seq(SpecPart) /\ Len(Parts) \in Nat \ {0}
<1>1. /\ Specs \subseteq Seq([prefix: STRING, dir: BOOLEAN, limits: {FALSE}, name: STRING,
                              shards: Nat \cup {None, Star}])
      /\ spec # <<>>
  BY SpecsAssumption
<1>2. spec \in Seq(SpecPart) /\ Len(spec) \in Nat \ {0}
  <2> DEFINE R == [prefix: STRING, dir: BOOLEAN, limits: {FALSE}, name: STRING,
                   shards: Nat \cup {None, Star}]
  <2>1. R \subseteq SpecPart
    BY DEF SpecPart
  <2>2. spec \in Seq(R)
    BY <1>1
  <2> HIDE DEF R
  <2>3. spec \in Seq(SpecPart)
    BY <2>1, <2>2, SeqMonotonic
  <2> QED BY <1>1, <2>3, EmptySeq
<1>3. LimitsName(spec) \in Seq(SpecPart)
  <2>1. ASSUME NEW p \in SpecPart
        PROVE  /\ [p EXCEPT !.limits = TRUE] \in SpecPart
               /\ [p EXCEPT !.prefix = "limits."] \in SpecPart
    <3>1. [p EXCEPT !.limits = TRUE] \in SpecPart
      BY DEF SpecPart
    <3>2. [p EXCEPT !.prefix = "limits."] \in SpecPart
      BY DEF SpecPart
    <3> QED BY <3>1, <3>2
  <2>2. spec \in [1..Len(spec) -> SpecPart] /\ DOMAIN spec = 1..Len(spec) /\ Len(spec) \in Nat
    BY <1>2, LenProperties
  <2> DEFINE Changed(M) == [spec EXCEPT ![M].limits = TRUE]
             first == [spec EXCEPT ![1].prefix = "limits."]
  <2>3. \A M : Changed(M) \in [1..Len(spec) -> SpecPart]
    BY <2>1, <2>2
  <2>4. first \in [1..Len(spec) -> SpecPart]
    BY <2>1, <2>2
  <2>5. first \in Seq(SpecPart) /\ \A M : Changed(M) \in Seq(SpecPart)
    <3> HIDE DEF Changed, first
    <3> QED BY <2>2, <2>3, <2>4, FunctionIsSeq
  <2>6. LimitsName(spec) = first \/ \E M : LimitsName(spec) = Changed(M)
    BY DEF LimitsName
  <2> HIDE DEF Changed, first
  <2> QED BY <2>5, <2>6
<1>4. CASE placement = "separate"
  <2>1. Parts = spec \o LimitsName(spec)
    BY <1>4 DEF Parts
  <2> QED BY <1>2, <1>3, <2>1, ConcatProperties, LenProperties
<1>5. CASE placement = "tail"
  BY <1>2, <1>5 DEF Parts
<1> QED BY <1>4, <1>5

\* The names of a part are those of its shards, or one name.
LEMMA ExpandFacts ==
  ASSUME NEW part \in SpecPart
  PROVE  /\ ExpandAtSpec(part) \in Seq(Names)
         /\ IsSharded(part) => /\ part.shards \in Nat
                               /\ ExpandAtSpec(part) = [i \in 1..part.shards |->
                                    FileOf(part, <<i - 1, part.shards>>)]
         /\ ~ IsSharded(part) =>
              ExpandAtSpec(part) = <<FileOf(part, Literally(part))>>
<1>1. \A at \in Seq(Int) : FileOf(part, at) \in Names
  BY DEF FileOf, Names, SpecPart
<1>2. CASE IsSharded(part)
  <2> DEFINE n == part.shards
             e == ExpandAtSpec(part)
  <2>1. n \in Nat
    BY <1>2, MaxShardsAssumption DEF IsSharded
  <2>2. e = [i \in 1..n |-> FileOf(part, <<i - 1, n>>)]
    BY <1>2 DEF ExpandAtSpec
  <2>3. \A i \in 1..n : <<i - 1, n>> \in Seq(Int)
    BY <2>1
  <2> HIDE DEF n, e
  <2>4. e \in [1..n -> Names]
    BY <1>1, <2>2, <2>3
  <2>5. e \in Seq(Names)
    BY <2>1, <2>4, FunctionIsSeq
  <2> QED BY <1>2, <2>1, <2>2, <2>5 DEF n, e
<1>3. CASE ~ IsSharded(part)
  <2>1. Literally(part) \in Seq(Int)
    BY DEF Literally, SpecPart, None, Star
  <2>2. FileOf(part, Literally(part)) \in Names
    BY <1>1, <2>1
  <2> HIDE DEF Names
  <2> QED BY <1>3, <2>2 DEF ExpandAtSpec
<1> QED BY <1>2, <1>3

\* The record of a file, but for what follows its '@'.
LEMMA SameName ==
  ASSUME NEW f \in Files, NEW part \in SpecPart, NEW at
  PROVE  /\ [f EXCEPT !.at = at] = FileOf(part, at)
              <=> f.dir = part.dir /\ f.limits = part.limits /\ f.name = part.name
         /\ f = FileOf(part, at)
              <=> /\ f.dir = part.dir /\ f.limits = part.limits /\ f.name = part.name
                  /\ f.at = at
BY DEF Files, FileOf

\* A part all of whose shards have one number.
IsNumbered(r) == IsSharded(r.part) \/ (r.part.shards = Star /\ r.file_system = "posix")

\* What a part stands for: shards of one number, one file if it is there, or
\* with "@*" on GCS all that match.
LEMMA InStoreShards ==
  ASSUME stored \in Stores, NEW r \in ResolvedPart, IsNumbered(r)
  PROVE  InStore(r) = ShardsIn(stored[r.file_system], r.part, NumberOf(r), NumberOf(r))
<1>1. stored[r.file_system] \in SUBSET Files /\ r.part \in SpecPart
  BY StoredFacts DEF ResolvedPart
<1>2. \A f \in Files : [f EXCEPT !.at = <<>>] = FileOf(r.part, <<>>)
        <=> f.dir = r.part.dir /\ f.limits = r.part.limits /\ f.name = r.part.name
  BY <1>1, SameName
<1>3. ~ (r.part.shards = Star /\ r.file_system = "gcs")
  BY MaxShardsAssumption DEF IsNumbered, IsSharded, Star
<1>4. IsSharded(r.part) \/ r.part.shards = Star
  BY DEF IsNumbered
<1> QED BY <1>1, <1>2, <1>3, <1>4 DEF InStore, ShardsIn

LEMMA InStoreOne ==
  ASSUME stored \in Stores, NEW r \in ResolvedPart,
         ~ IsSharded(r.part), r.part.shards # Star
  PROVE  InStore(r) = {FileOf(r.part, Literally(r.part))} \cap stored[r.file_system]
<1>1. stored[r.file_system] \in SUBSET Files /\ r.part \in SpecPart
  BY StoredFacts DEF ResolvedPart
<1>2. \A f \in Files :
        /\ [f EXCEPT !.at = <<>>] = FileOf(r.part, <<>>)
             <=> f.dir = r.part.dir /\ f.limits = r.part.limits /\ f.name = r.part.name
        /\ f = FileOf(r.part, Literally(r.part))
             <=> /\ f.dir = r.part.dir /\ f.limits = r.part.limits /\ f.name = r.part.name
                 /\ f.at = Literally(r.part)
  BY <1>1, SameName
<1>3. \A f \in stored[r.file_system] :
        f \in InStore(r) <=> f = FileOf(r.part, Literally(r.part))
  BY <1>1, <1>2 DEF InStore
<1>4. InStore(r) \subseteq stored[r.file_system]
  BY DEF InStore
<1> QED BY <1>3, <1>4

LEMMA InStoreAny ==
  ASSUME stored \in Stores, NEW r \in ResolvedPart,
         r.part.shards = Star, r.file_system = "gcs"
  PROVE  /\ InStore(r) = Matches(FileOf(r.part, Literally(r.part)), stored["gcs"])
         /\ Numbered(InStore(r))
<1> DEFINE F == FileOf(r.part, Literally(r.part))
<1>1. stored["gcs"] \in SUBSET Files /\ r.part \in SpecPart
  BY StoredFacts DEF ResolvedPart, FileSystems
<1>2. Literally(r.part) = <<Star>> /\ F.at = <<Star>> /\ F = FileOf(r.part, <<Star>>)
  BY DEF Literally, Star, None, FileOf
<1>3. \A f \in Files : [f EXCEPT !.at = <<>>] = FileOf(r.part, <<>>)
                         <=> [f EXCEPT !.at = <<Star>>] = FileOf(r.part, <<Star>>)
  BY <1>1, SameName
<1> HIDE DEF F
<1>4. ASSUME NEW f \in stored["gcs"]
      PROVE  f \in InStore(r) <=> f \in Matches(F, stored["gcs"])
  <2>1. f \in InStore(r) <=> [f EXCEPT !.at = <<>>] = FileOf(r.part, <<>>) /\ Len(f.at) = 2
    BY DEF InStore
  <2>2. f \in Matches(F, stored["gcs"]) <=> Len(f.at) = 2 /\ [f EXCEPT !.at = <<Star>>] = F
    BY <1>2 DEF Matches
  <2> QED BY <1>1, <1>2, <1>3, <2>1, <2>2
<1>5. InStore(r) \subseteq stored["gcs"] /\ Matches(F, stored["gcs"]) \subseteq stored["gcs"]
  BY <1>2 DEF InStore, Matches
<1>6. Numbered(InStore(r))
  <2>1. \A f \in InStore(r) : f \in Files /\ Len(f.at) = 2
    BY <1>1 DEF InStore
  <2> QED BY <2>1 DEF Numbered, Files
<1> QED BY <1>4, <1>5, <1>6 DEF F

\* A part has few files, or files of which each has its numbers.
LEMMA InStoreFacts ==
  ASSUME stored \in Stores, NEW r \in ResolvedPart
  PROVE  /\ InStore(r) \subseteq stored[r.file_system]
         /\ IsFiniteSet(InStore(r))
         /\ Numbered(InStore(r)) \/ Cardinality(InStore(r)) <= 1
<1>1. /\ stored[r.file_system] \in SUBSET Files /\ IsFiniteSet(stored[r.file_system])
      /\ r.file_system \in FileSystems
  BY StoredFacts DEF ResolvedPart
<1>2. InStore(r) \in SUBSET stored[r.file_system]
  BY DEF InStore
<1>3. IsFiniteSet(InStore(r))
  BY <1>1, <1>2, FS_Subset
<1>4. CASE IsNumbered(r)
  <2>1. \A f \in InStore(r) : f \in Files /\ Len(f.at) = 2
    BY <1>1, <1>4, InStoreShards DEF ShardsIn
  <2>2. Numbered(InStore(r))
    BY <2>1 DEF Numbered, Files
  <2> QED BY <1>2, <1>3, <2>2
<1>5. CASE r.part.shards = Star /\ r.file_system = "gcs"
  BY <1>2, <1>3, <1>5, InStoreAny
<1>6. CASE ~ IsSharded(r.part) /\ r.part.shards # Star
  <2> DEFINE F == FileOf(r.part, Literally(r.part))
  <2>1. InStore(r) \in SUBSET {F}
    BY <1>6, InStoreOne
  <2> HIDE DEF F
  <2>2. IsFiniteSet({F}) /\ Cardinality({F}) = 1
    BY FS_Singleton
  <2>3. Cardinality(InStore(r)) <= Cardinality({F})
    BY <2>1, <2>2, FS_Subset
  <2>4. Cardinality(InStore(r)) <= 1
    BY <2>2, <2>3
  <2> QED BY <1>2, <1>3, <2>4
<1>7. IsNumbered(r) \/ (r.part.shards = Star /\ r.file_system = "gcs")
        \/ (~ IsSharded(r.part) /\ r.part.shards # Star)
  BY <1>1 DEF IsNumbered, FileSystems
<1> QED BY <1>4, <1>5, <1>6, <1>7

\* A name other than that of "@*" is that of one file.
LEMMA ListingOfOne ==
  ASSUME NEW S, NEW f, NEW found, IsListingOf(found, {f} \cap S)
  PROVE  found = IF f \in S THEN <<f>> ELSE <<>>
<1>1. CASE f \in S
  <2>1. {f} \cap S = {f}
    BY <1>1
  <2>2. IsFiniteSet({f}) /\ Cardinality({f}) = 1
    BY FS_Singleton
  <2>3. Listing({f}) = found
    BY <2>1, <2>2, ListingIs
  <2> QED BY <1>1, <2>3, ListingOne
<1>2. CASE f \notin S
  <2>1. {f} \cap S = {}
    BY <1>2
  <2>2. IsFiniteSet({}) /\ Cardinality({}) = 0
    BY FS_EmptySet
  <2>3. Listing({}) = found
    BY <2>1, <2>2, ListingIs
  <2> QED BY <1>2, <2>3, ListingEmpty
<1> QED BY <1>1, <1>2

\* Counting the shards leaves the name alone and gives the part its number.
LEMMA CanonicalFacts ==
  ASSUME NEW r \in ResolvedPart,
         r.file_system = "posix" /\ r.part.shards = Star => NumberOf(r) \in 1..MaxShards
  PROVE  /\ Canonical(r) \in SpecPart
         /\ Canonical(r).dir = r.part.dir /\ Canonical(r).limits = r.part.limits
         /\ Canonical(r).name = r.part.name
         /\ IsNumbered(r) => /\ IsSharded(Canonical(r)) /\ NumberOf(r) \in Nat
                             /\ Canonical(r).shards = NumberOf(r)
         /\ ~ IsNumbered(r) => Canonical(r) = r.part /\ ~ IsSharded(Canonical(r))
<1>1. r.part \in SpecPart
  BY DEF ResolvedPart
<1>2. CASE r.file_system = "posix" /\ r.part.shards = Star
  <2> DEFINE n == NumberOf(r)
             c == [r.part EXCEPT !.shards = n]
  <2>1. n \in 1..MaxShards /\ n \in Nat \cup {None, Star}
    BY <1>2, MaxShardsAssumption
  <2>2. Canonical(r) = c
    BY <1>2 DEF Canonical
  <2> HIDE DEF n
  <2>3. c \in SpecPart
    BY <1>1, <2>1 DEF SpecPart
  <2>4. /\ c.dir = r.part.dir /\ c.limits = r.part.limits /\ c.name = r.part.name
        /\ c.shards = n
    BY <1>1 DEF SpecPart
  <2> HIDE DEF c
  <2>5. IsSharded(c) /\ IsNumbered(r)
    BY <1>2, <2>1, <2>4 DEF IsSharded, IsNumbered
  <2> QED BY <2>1, <2>2, <2>3, <2>4, <2>5, MaxShardsAssumption DEF n
<1>3. CASE ~ (r.file_system = "posix" /\ r.part.shards = Star)
  <2>1. Canonical(r) = r.part
    BY <1>3 DEF Canonical
  <2>2. IsNumbered(r) <=> IsSharded(r.part)
    BY <1>3 DEF IsNumbered
  <2>3. IsSharded(r.part) => NumberOf(r) = r.part.shards /\ NumberOf(r) \in Nat
    BY MaxShardsAssumption DEF NumberOf, IsSharded
  <2> QED BY <1>1, <2>1, <2>2, <2>3
<1> QED BY <1>2, <1>3

\* What is found for the names of a part is the listing of its files.
LEMMA PartFound ==
  ASSUME stored \in Stores, NEW r \in ResolvedPart,
         r.file_system = "posix" /\ r.part.shards = Star => NumberOf(r) \in 1..MaxShards,
         NEW names, names = ExpandAtSpec(Canonical(r)),
         NEW g, \A i \in 1..Len(names) : /\ g[names[i]] \in Seq(Stored)
                                         /\ IsFound(r.file_system, names[i], g[names[i]])
  PROVE  /\ IsListingOf(FlattenSeq(Mapped(g, names)), InStore(r))
         /\ FlattenSeq(Mapped(g, names)) = Listing(InStore(r))
         /\ AllThere(r)
<1> DEFINE fs == r.file_system
           p == Canonical(r)
           n == NumberOf(r)
<1>1. /\ stored[fs] \in SUBSET Files /\ IsFiniteSet(stored[fs]) /\ fs \in FileSystems
  BY StoredFacts DEF ResolvedPart
<1>2. /\ p \in SpecPart
      /\ p.dir = r.part.dir /\ p.limits = r.part.limits /\ p.name = r.part.name
      /\ IsNumbered(r) => IsSharded(p) /\ n \in Nat /\ p.shards = n
      /\ ~ IsNumbered(r) => p = r.part /\ ~ IsSharded(p)
  BY CanonicalFacts
<1>3. names \in Seq(Names) /\ Len(names) \in Nat
  BY <1>2, ExpandFacts, LenProperties
<1>4. fs = "posix" \/ fs = "gcs"
  BY <1>1 DEF FileSystems
<1> HIDE DEF fs, p, n
<1>5. ASSUME IsNumbered(r)
      PROVE  IsListingOf(FlattenSeq(Mapped(g, names)), InStore(r))
  <2>1. p \in SpecPart /\ IsSharded(p) /\ n \in Nat /\ p.shards = n
    BY <1>2, <1>5
  <2>2. names = [i \in 1..n |-> FileOf(p, <<i - 1, n>>)]
    BY <2>1, ExpandFacts DEF p
  <2>3. Len(names) = n
    BY <2>1, <2>2
  <2>4. ASSUME NEW i \in 1..n
        PROVE  g[names[i]] = IF names[i] \in stored[fs] THEN <<names[i]>> ELSE <<>>
    <3>1. IsFound(fs, names[i], g[names[i]])
      BY <2>3 DEF fs
    <3>2. CASE fs = "posix"
      BY <3>1, <3>2 DEF IsFound
    <3>3. CASE fs = "gcs"
      <4>1. names[i].at = <<i - 1, n>>
        BY <2>2 DEF FileOf
      <4>2. names[i].at # <<Star>>
        BY <4>1
      <4>3. Matches(names[i], stored["gcs"]) = {names[i]} \cap stored["gcs"]
        BY <4>2 DEF Matches
      <4>4. IsListingOf(g[names[i]], {names[i]} \cap stored["gcs"])
        BY <3>1, <3>3, <4>3 DEF IsFound
      <4> QED BY <3>3, <4>4, ListingOfOne
    <3> QED BY <1>4, <3>2, <3>3
  <2>5. IsListingOf(FlattenSeq(Mapped(g, names)), ShardsIn(stored[fs], p, n, n))
    BY <1>1, <2>1, <2>2, <2>4, ShardsFound
  <2>6. ShardsIn(stored[fs], p, n, n) = ShardsIn(stored[fs], r.part, n, n)
    BY <1>2 DEF ShardsIn
  <2>7. InStore(r) = ShardsIn(stored[fs], r.part, n, n)
    BY <1>5, InStoreShards DEF fs, n
  <2> QED BY <2>5, <2>6, <2>7
<1>6. ASSUME ~ IsNumbered(r)
      PROVE  IsListingOf(FlattenSeq(Mapped(g, names)), InStore(r))
  <2> DEFINE f == FileOf(r.part, Literally(r.part))
  <2>1. names = <<f>>
    BY <1>2, <1>6, ExpandFacts DEF p
  <2>2. g[f] \in Seq(Stored) /\ IsFound(fs, f, g[f])
    BY <2>1 DEF fs
  <2>3. FlattenSeq(Mapped(g, names)) = g[f]
    <3>1. Mapped(g, names) = <<g[f]>>
      <4> HIDE DEF f
      <4> QED BY <2>1 DEF Mapped
    <3> QED BY <2>2, <3>1, FlattenOne
  <2>4. IsListingOf(g[f], InStore(r))
    <3>1. CASE r.part.shards = Star
      <4>1. fs = "gcs"
        BY <1>4, <1>6, <3>1 DEF IsNumbered, fs
      <4>2. InStore(r) = Matches(f, stored["gcs"])
        BY <3>1, <4>1, InStoreAny DEF fs
      <4> QED BY <2>2, <4>1, <4>2 DEF IsFound
    <3>2. CASE r.part.shards # Star
      <4>1. InStore(r) = {f} \cap stored[fs]
        BY <3>2, <1>6, InStoreOne DEF IsNumbered, fs
      <4>2. CASE fs = "gcs"
        <5>1. f.at = Literally(r.part) /\ Literally(r.part) # <<Star>>
          BY <3>2 DEF Literally, FileOf, ResolvedPart, SpecPart
        <5>2. Matches(f, stored["gcs"]) = {f} \cap stored["gcs"]
          BY <5>1 DEF Matches
        <5> QED BY <2>2, <4>1, <4>2, <5>2 DEF IsFound
      <4>3. CASE fs = "posix"
        <5>1. g[f] = <<f>> /\ f \in stored["posix"]
          BY <2>2, <4>3 DEF IsFound
        <5>2. InStore(r) = {f}
          BY <4>1, <4>3, <5>1
        <5>3. IsListingOf(<<f>>, {f})
          BY ListingOne
        <5> QED BY <5>1, <5>2, <5>3
      <4> QED BY <1>4, <4>2, <4>3
    <3> QED BY <3>1, <3>2
  <2> QED BY <2>3, <2>4
<1>7. IsListingOf(FlattenSeq(Mapped(g, names)), InStore(r))
  BY <1>5, <1>6
<1>8. Listing(InStore(r)) = FlattenSeq(Mapped(g, names))
  BY <1>7, InStoreFacts, ListingIs
<1>9. AllThere(r)
  <2>1. DOMAIN names = 1..Len(names)
    BY <1>3, LenProperties
  <2> QED BY <2>1 DEF AllThere, IsFound
<1> QED BY <1>7, <1>8, <1>9

-----------------------------------------------------------------------------
(* Groups *)

\* A group ends before the first part of another file system.
LEMMA GroupEnd ==
  ASSUME resolved \in Seq(ResolvedPart), NEW first \in 1..Len(resolved)
  PROVE  /\ EndOfGroup(first) \in first..Len(resolved)
         /\ \A j \in first..EndOfGroup(first) :
              resolved[j].file_system = resolved[first].file_system
         /\ EndOfGroup(first) + 1 \in DOMAIN resolved =>
              resolved[EndOfGroup(first) + 1].file_system # resolved[first].file_system
<1> DEFINE S == {k \in first..Len(resolved) : \A j \in first..k :
                   resolved[j].file_system = resolved[first].file_system}
           last == Max(S)
<1>1. Len(resolved) \in Nat /\ DOMAIN resolved = 1..Len(resolved)
  BY LenProperties
<1>2. first \in S
  BY <1>1
<1>3. S \in SUBSET (first..Len(resolved)) /\ first \in Int /\ Len(resolved) \in Int
  BY <1>1
<1>4. EndOfGroup(first) = last
  BY DEF EndOfGroup
<1>5. last \in S /\ \A x \in S : x <= last
  <2> HIDE DEF S
  <2> QED BY <1>2, <1>3, MaxFacts
<1>6. last + 1 \notin S
  <2> HIDE DEF S, last
  <2>1. last \in Int
    BY <1>3, <1>5
  <2> QED BY <1>5, <2>1
<1> HIDE DEF last
<1>7. /\ last \in first..Len(resolved)
      /\ \A j \in first..last : resolved[j].file_system = resolved[first].file_system
  BY <1>5
<1>8. ASSUME last + 1 \in DOMAIN resolved,
             resolved[last + 1].file_system = resolved[first].file_system
      PROVE  FALSE
  <2>1. last + 1 \in first..Len(resolved)
    BY <1>1, <1>7, <1>8
  <2>2. \A j \in first..last+1 : j \in first..last \/ j = last + 1
    BY <1>7
  <2>3. last + 1 \in S
    BY <1>7, <1>8, <2>1, <2>2
  <2> QED BY <1>6, <2>3
<1> QED BY <1>4, <1>7, <1>8

\* The parts of a group are the resolved ones from its first on.
LEMMA GroupPartsFacts ==
  ASSUME resolved \in Seq(ResolvedPart), NEW first \in 1..Len(resolved),
         NEW last \in first..Len(resolved)
  PROVE  /\ PartsOf(first, last) \in Seq(SpecPart)
         /\ Len(PartsOf(first, last)) = last - first + 1
         /\ \A k \in 1..last-first+1 :
              /\ first + k - 1 \in 1..Len(resolved)
              /\ PartsOf(first, last)[k] = resolved[first + k - 1].part
<1> DEFINE n == last - first + 1
<1>1. Len(resolved) \in Nat /\ n \in Nat
  BY LenProperties
<1>2. \A k \in 1..n : first + k - 1 \in 1..Len(resolved)
  BY <1>1
<1>3. \A k \in 1..Len(resolved) : resolved[k].part \in SpecPart
  <2>1. \A k \in 1..Len(resolved) : resolved[k] \in ResolvedPart
    BY ElementOfSeq
  <2> QED BY <2>1 DEF ResolvedPart
<1>4. PartsOf(first, last) = [k \in 1..n |-> resolved[first + k - 1].part]
  BY DEF PartsOf
<1> HIDE DEF n
<1>5. PartsOf(first, last) \in [1..n -> SpecPart]
  BY <1>2, <1>3, <1>4
<1>6. PartsOf(first, last) \in Seq(SpecPart) /\ Len(PartsOf(first, last)) = n
  BY <1>1, <1>5, FunctionIsSeq
<1> QED BY <1>2, <1>4, <1>6 DEF n

\* The names of a sequence of parts.
LEMMA NamesFacts ==
  ASSUME NEW parts \in Seq(SpecPart)
  PROVE  /\ [k \in DOMAIN parts |-> ExpandAtSpec(parts[k])] \in Seq(Seq(Names))
         /\ Len([k \in DOMAIN parts |-> ExpandAtSpec(parts[k])]) = Len(parts)
         /\ ExpandShardSpec(parts) \in Seq(Names)
<1> DEFINE E == [k \in DOMAIN parts |-> ExpandAtSpec(parts[k])]
<1>1. DOMAIN parts = 1..Len(parts) /\ Len(parts) \in Nat
  BY LenProperties
<1>2. \A k \in 1..Len(parts) : ExpandAtSpec(parts[k]) \in Seq(Names)
  BY ElementOfSeq, ExpandFacts
<1>3. E \in [1..Len(parts) -> Seq(Names)]
  BY <1>1, <1>2
<1>4. ExpandShardSpec(parts) = FlattenSeq(E)
  BY DEF ExpandShardSpec
<1> HIDE DEF E
<1>5. E \in Seq(Seq(Names)) /\ Len(E) = Len(parts)
  BY <1>1, <1>3, FunctionIsSeq
<1> QED BY <1>4, <1>5, FlattenType DEF E

\* The names of a part, as POSIX opens them.
NamesOf(first, n) == [k \in 1..n |-> ExpandAtSpec(Canonical(resolved[first + k - 1]))]

\* Whether a part with "@*" on POSIX stands for some number of shards.
IsCounted(r) ==
  r.file_system = "posix" /\ r.part.shards = Star => NumberOf(r) \in 1..MaxShards

\* When POSIX finds all names, they are those of the parts, and a part with
\* "@*" stands alone in its group and has been counted.
LEMMA GroupNames ==
  ASSUME stored \in Stores, resolved \in Seq(ResolvedPart), NEW first \in 1..Len(resolved),
         opened_parts = EndOfGroup(first), NEW names,
         names = ExpandShardSpec(GroupParts(first)),
         resolved[first].file_system = "posix" =>
           \A i \in 1..Len(names) : names[i] \in stored["posix"]
  PROVE  /\ names = FlattenSeq(NamesOf(first, opened_parts - first + 1))
         /\ \A k \in first..opened_parts : IsAlone(k) /\ IsCounted(resolved[k])
<1> DEFINE n == opened_parts - first + 1
           parts == PartsOf(first, opened_parts)
<1>1. /\ opened_parts \in first..Len(resolved) /\ Len(resolved) \in Nat /\ n \in Nat \ {0}
      /\ \A j \in first..opened_parts :
           resolved[j].file_system = resolved[first].file_system
      /\ opened_parts + 1 \in DOMAIN resolved =>
           resolved[opened_parts + 1].file_system # resolved[first].file_system
  BY GroupEnd, LenProperties
<1>2. /\ parts \in Seq(SpecPart) /\ Len(parts) = n
      /\ \A k \in 1..n : /\ first + k - 1 \in 1..Len(resolved)
                         /\ parts[k] = resolved[first + k - 1].part
  BY <1>1, GroupPartsFacts
<1>3. \A k \in 1..n : first + k - 1 \in first..opened_parts
  BY <1>1
<1>4. \A k \in 1..Len(resolved) : resolved[k] \in ResolvedPart
  BY ElementOfSeq
<1>5. DOMAIN parts = 1..n
  BY <1>2, LenProperties
<1> HIDE DEF parts
<1>6. ASSUME GroupParts(first) = parts,
             \A k \in first..opened_parts :
               ~ (resolved[k].file_system = "posix" /\ resolved[k].part.shards = Star)
      PROVE  /\ names = FlattenSeq(NamesOf(first, n))
             /\ \A k \in first..opened_parts : IsAlone(k) /\ IsCounted(resolved[k])
  <2>1. \A k \in 1..n : Canonical(resolved[first + k - 1]) = parts[k]
    BY <1>2, <1>3, <1>6 DEF Canonical
  <2>2. [k \in DOMAIN parts |-> ExpandAtSpec(parts[k])] = NamesOf(first, n)
    BY <1>5, <2>1 DEF NamesOf
  <2>3. names = FlattenSeq(NamesOf(first, n))
    BY <1>6, <2>2 DEF ExpandShardSpec
  <2> QED BY <1>6, <2>3 DEF IsAlone, IsCounted
<1>7. CASE resolved[first].file_system # "posix"
  <2>1. GroupParts(first) = parts
    BY <1>7 DEF GroupParts, parts
  <2>2. \A k \in first..opened_parts : resolved[k].file_system # "posix"
    BY <1>1, <1>7
  <2> QED BY <1>6, <2>1, <2>2 DEF n
<1>8. CASE resolved[first].file_system = "posix"
  <2>1. GroupParts(first) = CanonicaliseShardSpec(parts, stored["posix"])
    BY <1>8 DEF GroupParts, parts
  <2> DEFINE counts == ShardCounts(parts[1], stored["posix"])
  <2>2. CASE n = 1 /\ parts[1].shards = Star /\ counts \ {0} # {}
    <3> DEFINE r == resolved[first]
    <3>1. opened_parts = first /\ parts[1] = r.part /\ r \in ResolvedPart
      <4> HIDE DEF counts
      <4>1. n = 1 /\ opened_parts \in Int /\ first \in Int
        <5>1. n = 1
          BY <2>2
        <5> QED BY <1>1, <5>1
      <4>2. opened_parts = first /\ 1 \in 1..n /\ first + 1 - 1 = first
        BY <4>1
      <4>3. parts[1] = resolved[first + 1 - 1].part
        BY <1>2, <4>2
      <4> QED BY <1>4, <4>2, <4>3
    <3>2. counts \in SUBSET (0..MaxShards) /\ counts # {} /\ 0 \in Int /\ MaxShards \in Int
      BY <2>2, MaxShardsAssumption DEF ShardCounts
    <3>3. Max(counts) \in counts /\ \A x \in counts : x <= Max(counts)
      <4> HIDE DEF counts
      <4> QED BY <3>2, MaxFacts
    <3>4. Max(counts) \in 1..MaxShards
      <4>1. \E x \in counts : x # 0
        BY <2>2
      <4> HIDE DEF counts
      <4>2. PICK x \in counts : x # 0
        BY <4>1
      <4>3. Max(counts) \in 0..MaxShards /\ x \in 0..MaxShards /\ x <= Max(counts)
        BY <3>2, <3>3
      <4> QED BY <4>2, <4>3
    <3>5. NumberOf(r) = Max(counts)
      <4>1. ~ IsSharded(r.part)
        BY <2>2, <3>1, MaxShardsAssumption DEF IsSharded, Star
      <4> QED BY <2>2, <3>1, <4>1 DEF NumberOf
    <3>6. Canonical(r) = [parts[1] EXCEPT !.shards = Max(counts)]
      BY <1>8, <2>2, <3>1, <3>5 DEF Canonical
    <3>7. GroupParts(first) = <<Canonical(r)>>
      BY <1>2, <2>1, <2>2, <3>6 DEF CanonicaliseShardSpec
    <3> HIDE DEF counts
    <3>8. \A k \in 1..1 : first + k - 1 = first
      BY <1>1
    <3>9. NamesOf(first, 1) = <<ExpandAtSpec(Canonical(r))>>
      BY <3>8 DEF NamesOf
    <3>10. [k \in DOMAIN <<Canonical(r)>> |-> ExpandAtSpec(<<Canonical(r)>>[k])]
             = <<ExpandAtSpec(Canonical(r))>>
      OBVIOUS
    <3>11. names = FlattenSeq(NamesOf(first, 1))
      BY <3>7, <3>9, <3>10 DEF ExpandShardSpec
    <3>12. IsCounted(r)
      BY <3>4, <3>5 DEF IsCounted
    <3>13. IsAlone(first)
      BY <1>1, <1>8, <3>1 DEF IsAlone
    <3>14. \A k \in first..opened_parts : k = first
      BY <3>1
    <3> QED BY <2>2, <3>11, <3>12, <3>13, <3>14
  <2>3. CASE ~ (n = 1 /\ parts[1].shards = Star /\ counts \ {0} # {})
    <3>1. GroupParts(first) = parts
      BY <1>2, <2>1, <2>3 DEF CanonicaliseShardSpec
    <3> HIDE DEF counts
    <3> DEFINE E == [k \in DOMAIN parts |-> ExpandAtSpec(parts[k])]
    <3>2. E \in Seq(Seq(Names)) /\ Len(E) = n /\ names = FlattenSeq(E)
      BY <1>2, <3>1, NamesFacts DEF ExpandShardSpec
    <3>3. \A k \in 1..n : E[k] = ExpandAtSpec(parts[k])
      BY <1>5
    <3> HIDE DEF E
    <3>4. ASSUME NEW k \in 1..n, parts[k].shards = Star
          PROVE  FALSE
      <4> DEFINE p == parts[k]
                 f == FileOf(p, Literally(p))
      <4>1. p \in SpecPart /\ ~ IsSharded(p)
        BY <1>2, <3>4, ElementOfSeq, MaxShardsAssumption DEF IsSharded, Star
      <4>2. E[k] = <<f>>
        BY <3>3, <4>1, ExpandFacts
      <4>3. f.at = <<Star>>
        BY <3>4 DEF FileOf, Literally, None, Star
      <4> HIDE DEF f
      <4>4. 1 \in 1..Len(E[k]) /\ E[k][1] = f
        BY <4>2
      <4>5. PICK i \in 1..Len(names) : names[i] = f
        <5>1. \A m \in 1..n : \A j \in 1..Len(E[m]) :
                \E i \in 1..Len(names) : names[i] = E[m][j]
          <6>1. \A m \in 1..Len(E) : \A j \in 1..Len(E[m]) :
                  \E i \in 1..Len(FlattenSeq(E)) : FlattenSeq(E)[i] = E[m][j]
            <7>1. E \in Seq(Seq(Names))
              BY <3>2
            <7> QED BY <7>1, FlattenRange
          <6>2. Len(E) = n /\ FlattenSeq(E) = names
            BY <3>2
          <6> HIDE DEF n, p
          <6>3. \A m \in 1..n : \A j \in 1..Len(E[m]) :
                  \E i \in 1..Len(FlattenSeq(E)) : FlattenSeq(E)[i] = E[m][j]
            BY <6>1, <6>2
          <6> QED BY <6>2, <6>3
        <5>2. \E i \in 1..Len(names) : names[i] = E[k][1]
          BY <4>4, <5>1
        <5> QED BY <4>4, <5>2
      <4>6. f \in Files
        BY <1>8, <4>5, StoredFacts DEF FileSystems
      <4>7. f.at \in Seq(Nat) /\ f.at[1] = Star /\ Len(f.at) = 1
        <5>1. f.at \in Seq(Nat)
          BY <4>6 DEF Files
        <5> QED BY <4>3, <5>1
      <4>8. Star \in Nat
        BY <4>7, ElementOfSeq
      <4> QED BY <4>8 DEF Star
    <3>5. ASSUME NEW k \in first..opened_parts
          PROVE  resolved[k].part.shards # Star
      <4>1. k - first + 1 \in 1..n /\ first + (k - first + 1) - 1 = k
        BY <1>1
      <4>2. parts[k - first + 1] = resolved[k].part
        BY <1>2, <4>1
      <4> QED BY <3>4, <4>1, <4>2
    <3> QED BY <1>6, <3>1, <3>5
  <2> QED BY <2>2, <2>3
<1> QED BY <1>7, <1>8 DEF n

\* What is found for a name is decided by the files that are there.
LEMMA FoundUnique ==
  ASSUME stored \in Stores, NEW fs, NEW name, NEW a, NEW b,
         IsFound(fs, name, a), IsFound(fs, name, b)
  PROVE  a = b
<1>1. CASE fs = "posix"
  BY <1>1 DEF IsFound
<1>2. CASE fs # "posix" /\ name.at # <<Star>>
  <2>1. Matches(name, stored["gcs"]) = {name} \cap stored["gcs"]
    BY <1>2 DEF Matches
  <2>2. /\ IsListingOf(a, {name} \cap stored["gcs"])
        /\ IsListingOf(b, {name} \cap stored["gcs"])
    BY <1>2, <2>1 DEF IsFound
  <2>3. /\ a = IF name \in stored["gcs"] THEN <<name>> ELSE <<>>
        /\ b = IF name \in stored["gcs"] THEN <<name>> ELSE <<>>
    BY <2>2, ListingOfOne
  <2> QED BY <2>3
<1>3. CASE fs # "posix" /\ name.at = <<Star>>
  <2> DEFINE S == Matches(name, stored["gcs"])
  <2>1. stored["gcs"] \in SUBSET Files /\ IsFiniteSet(stored["gcs"])
    BY StoredFacts DEF FileSystems
  <2>2. S \in SUBSET stored["gcs"] /\ \A f \in S : Len(f.at) = 2
    BY <1>3 DEF Matches
  <2>3. IsListingOf(a, S) /\ IsListingOf(b, S)
    BY <1>3 DEF IsFound
  <2> HIDE DEF S
  <2>4. \A f \in S : f.at \in Seq(Nat) /\ Len(f.at) = 2
    BY <2>1, <2>2 DEF Files
  <2>5. IsFiniteSet(S) /\ Numbered(S)
    BY <2>1, <2>2, <2>4, FS_Subset DEF Numbered
  <2> QED BY <2>3, <2>5, ListingUnique
<1> QED BY <1>1, <1>2, <1>3

\* What a part stands for is a sequence of stored files.
LEMMA ListingType ==
  ASSUME stored \in Stores, NEW r \in ResolvedPart, NEW s, IsListingOf(s, InStore(r))
  PROVE  /\ s \in Seq(Stored) /\ s = Listing(InStore(r))
         /\ s \in Seq(stored[r.file_system])
<1>1. /\ InStore(r) \subseteq stored[r.file_system] /\ IsFiniteSet(InStore(r))
      /\ s = Listing(InStore(r))
  BY InStoreFacts, ListingIs
<1>2. r.file_system \in FileSystems
  BY DEF ResolvedPart
<1>3. stored[r.file_system] \subseteq Stored
  BY <1>2 DEF Stored, FileSystems
<1>4. s \in Seq(InStore(r))
  BY <1>1, SetToSeqsFacts DEF IsListingOf
<1>5. s \in Seq(stored[r.file_system])
  BY <1>1, <1>4, SeqMonotonic
<1> QED BY <1>1, <1>3, <1>5, SeqMonotonic

\* When all names of a group have been opened, what has been found are the
\* files of its parts, one after the other.
LEMMA GroupFound ==
  ASSUME stored \in Stores, resolved \in Seq(ResolvedPart), NEW first \in 1..Len(resolved),
         opened_parts = EndOfGroup(first), NEW fs, fs = resolved[first].file_system,
         NEW names, names = ExpandShardSpec(GroupParts(first)), names \in Seq(Names),
         NEW found \in [1..Len(names) -> Seq(Stored)],
         \A i \in 1..Len(names) : IsFound(fs, names[i], found[i])
  PROVE  /\ \A k \in first..opened_parts : WellOpened(k)
         /\ FlattenSeq(found) = FlattenSeq([k \in 1..opened_parts-first+1 |->
                                  Listing(InStore(resolved[first + k - 1]))])
<1> DEFINE n == opened_parts - first + 1
           E == NamesOf(first, n)
           A == {names[i] : i \in 1..Len(names)}
           g == [f \in A |-> found[CHOOSE i \in 1..Len(names) : names[i] = f]]
<1>1. /\ opened_parts \in first..Len(resolved) /\ Len(resolved) \in Nat /\ n \in Nat
      /\ first \in Nat
      /\ \A j \in first..opened_parts : resolved[j].file_system = fs
  BY GroupEnd, LenProperties
<1>2. names = FlattenSeq(E) /\ \A k \in first..opened_parts :
        IsAlone(k) /\ IsCounted(resolved[k])
  <2>1. fs = "posix" => \A i \in 1..Len(names) : names[i] \in stored["posix"]
    BY DEF IsFound
  <2> QED BY <2>1, GroupNames
<1>3. \A i \in 1..Len(names) : g[names[i]] = found[i]
  <2> TAKE i \in 1..Len(names)
  <2> DEFINE j == CHOOSE j \in 1..Len(names) : names[j] = names[i]
  <2>1. j \in 1..Len(names) /\ names[j] = names[i]
    OBVIOUS
  <2>2. g[names[i]] = found[j]
    OBVIOUS
  <2> HIDE DEF j, g
  <2>3. IsFound(fs, names[i], found[j]) /\ IsFound(fs, names[i], found[i])
    BY <2>1
  <2> QED BY <2>2, <2>3, FoundUnique
<1>4. Maps(g, A, Seq(Stored))
  <2> HIDE DEF g
  <2> QED BY <1>3 DEF Maps
<1>5. found = Mapped(g, names)
  <2> HIDE DEF g
  <2> QED BY <1>3 DEF Mapped
<1>6. \A k \in 1..n : /\ first + k - 1 \in first..opened_parts
                      /\ first + k - 1 \in 1..Len(resolved)
                      /\ resolved[first + k - 1] \in ResolvedPart
                      /\ resolved[first + k - 1].file_system = fs
                      /\ IsCounted(resolved[first + k - 1])
  <2>1. \A k \in 1..Len(resolved) : resolved[k] \in ResolvedPart
    BY ElementOfSeq
  <2>2. \A k \in 1..n : first + k - 1 \in first..opened_parts /\ first + k - 1 \in 1..Len(resolved)
    BY <1>1
  <2> HIDE DEF n
  <2> QED BY <1>1, <1>2, <2>1, <2>2
<1> HIDE DEF n
<1>7. \A k \in 1..n : E[k] = ExpandAtSpec(Canonical(resolved[first + k - 1]))
  BY DEF NamesOf
<1>8. E \in Seq(Seq(Names)) /\ Len(E) = n
  <2>1. ASSUME NEW k \in 1..n
        PROVE  ExpandAtSpec(Canonical(resolved[first + k - 1])) \in Seq(Names)
    <3> DEFINE r == resolved[first + k - 1]
    <3>1. r \in ResolvedPart /\ IsCounted(r)
      BY <1>6
    <3> HIDE DEF r
    <3>2. Canonical(r) \in SpecPart
      BY <3>1, CanonicalFacts DEF IsCounted
    <3> QED BY <3>2, ExpandFacts DEF r
  <2>2. E \in [1..n -> Seq(Names)]
    BY <2>1 DEF NamesOf
  <2> QED BY <1>1, <2>2, FunctionIsSeq
<1> HIDE DEF E
<1>9. \A k \in 1..n : \A j \in 1..Len(E[k]) : E[k][j] \in A
  <2>1. \A m \in 1..Len(E) : \A j \in 1..Len(E[m]) :
          \E i \in 1..Len(FlattenSeq(E)) : FlattenSeq(E)[i] = E[m][j]
    <3>1. E \in Seq(Seq(Names))
      BY <1>8
    <3> QED BY <3>1, FlattenRange
  <2>2. \A m \in 1..n : \A j \in 1..Len(E[m]) :
          \E i \in 1..Len(names) : names[i] = E[m][j]
    BY <1>2, <1>8, <2>1
  <2> QED BY <2>2
<1>10. E \in Seq(Seq(A))
  <2> HIDE DEF A
  <2>1. ASSUME NEW k \in 1..n
        PROVE  E[k] \in Seq(A)
    <3>1. E[k] \in Seq(Names)
      BY <1>8, ElementOfSeq
    <3>2. E[k] \in [1..Len(E[k]) -> A] /\ Len(E[k]) \in Nat
      BY <1>9, <3>1, LenProperties
    <3> QED BY <3>2, FunctionIsSeq
  <2>2. E \in [1..n -> Seq(A)]
    BY <1>8, <2>1, LenProperties
  <2> QED BY <1>1, <2>2, FunctionIsSeq
<1> HIDE DEF g
<1>11. ASSUME NEW k \in 1..n
       PROVE  LET r == resolved[first + k - 1]
              IN  /\ FlattenSeq(Mapped(g, E[k])) = Listing(InStore(r))
                  /\ IsListingOf(Listing(InStore(r)), InStore(r)) /\ AllThere(r)
  <2> DEFINE r == resolved[first + k - 1]
  <2>1. r \in ResolvedPart /\ r.file_system = fs /\ IsCounted(r)
    BY <1>6
  <2>2. E[k] = ExpandAtSpec(Canonical(r))
    BY <1>7
  <2> HIDE DEF r
  <2>3. \A i \in 1..Len(E[k]) : /\ g[E[k][i]] \in Seq(Stored)
                                /\ IsFound(r.file_system, E[k][i], g[E[k][i]])
    <3> TAKE i \in 1..Len(E[k])
    <3>1. PICK j \in 1..Len(names) : E[k][i] = names[j]
      BY <1>9
    <3>2. IsFound(fs, names[j], found[j]) /\ found[j] \in Seq(Stored)
      OBVIOUS
    <3> QED BY <1>3, <2>1, <3>1, <3>2
  <2> HIDE DEF A
  <2>4. /\ IsListingOf(FlattenSeq(Mapped(g, E[k])), InStore(r))
        /\ FlattenSeq(Mapped(g, E[k])) = Listing(InStore(r)) /\ AllThere(r)
    BY <2>1, <2>2, <2>3, PartFound DEF IsCounted
  <2>5. IsListingOf(Listing(InStore(r)), InStore(r))
    BY <2>4
  <2> QED BY <2>4, <2>5 DEF r
<1> HIDE DEF A
<1>12. Pieces(g, E) = [k \in 1..n |-> Listing(InStore(resolved[first + k - 1]))]
  BY <1>8, <1>11 DEF Pieces
<1>13. FlattenSeq(found) = FlattenSeq([k \in 1..n |-> Listing(InStore(resolved[first + k - 1]))])
  <2>1. FlattenSeq(Mapped(g, FlattenSeq(E))) = FlattenSeq(Pieces(g, E))
    BY <1>4, <1>10, FlattenMapped
  <2> QED BY <1>2, <1>5, <1>12, <2>1
<1>14. \A k \in first..opened_parts : WellOpened(k)
  <2> TAKE k \in first..opened_parts
  <2>1. k - first + 1 \in 1..n /\ first + (k - first + 1) - 1 = k
    BY <1>1 DEF n
  <2>2. IsListingOf(Listing(InStore(resolved[k])), InStore(resolved[k])) /\ AllThere(resolved[k])
    BY <1>11, <2>1
  <2> QED BY <1>2, <2>2 DEF WellOpened
<1> QED BY <1>13, <1>14 DEF n

\* The files of the group continue the result.
LEMMA ResultGrows ==
  ASSUME stored \in Stores, resolved \in Seq(ResolvedPart), NEW first \in 1..Len(resolved),
         opened_parts \in first..Len(resolved), OpenedUpTo(first - 1), NEW found,
         \A k \in first..opened_parts : WellOpened(k),
         FlattenSeq(found) = FlattenSeq([k \in 1..opened_parts-first+1 |->
                               Listing(InStore(resolved[first + k - 1]))])
  PROVE  /\ \A k \in 1..opened_parts : WellOpened(k)
         /\ result \o FlattenSeq(found)
              = FlattenSeq([k \in 1..opened_parts |-> Listing(InStore(resolved[k]))])
         /\ result \o FlattenSeq(found) \in Seq(Stored)
<1> DEFINE n == opened_parts - first + 1
           L(k) == Listing(InStore(resolved[k]))
           s == [k \in 1..first-1 |-> L(k)]
           t == [k \in 1..n |-> L(first + k - 1)]
           u == [k \in 1..opened_parts |-> L(k)]
<1>1. /\ Len(resolved) \in Nat /\ first \in Nat /\ first - 1 \in Nat /\ n \in Nat
      /\ opened_parts \in Nat /\ opened_parts = (first - 1) + n
  BY LenProperties
<1>2. ASSUME NEW k \in 1..opened_parts
      PROVE  WellOpened(k)
  <2>1. k \in 1..first-1 \/ k \in first..opened_parts
    BY <1>1
  <2> QED BY <2>1 DEF OpenedUpTo
<1>3. ASSUME NEW k \in 1..opened_parts
      PROVE  L(k) \in Seq(Stored)
  <2>1. k \in 1..Len(resolved)
    BY <1>1
  <2>2. resolved[k] \in ResolvedPart
    BY <2>1, ElementOfSeq
  <2>3. IsListingOf(L(k), InStore(resolved[k]))
    BY <1>2 DEF WellOpened
  <2> QED BY <2>2, <2>3, ListingType
<1> HIDE DEF L
<1>4. /\ \A k \in 1..first-1 : k \in 1..opened_parts
      /\ \A k \in 1..n : first + k - 1 \in 1..opened_parts
  BY <1>1
<1>5. /\ s \in [1..first-1 -> Seq(Stored)] /\ t \in [1..n -> Seq(Stored)]
      /\ u \in [1..opened_parts -> Seq(Stored)]
  BY <1>3, <1>4
<1>6. /\ \A k \in 1..first-1 : s[k] = L(k)
      /\ \A k \in 1..n : t[k] = L(first + k - 1)
      /\ \A k \in 1..opened_parts : u[k] = L(k)
  OBVIOUS
<1>7. result = FlattenSeq(s) /\ FlattenSeq(found) = FlattenSeq(t)
  BY DEF OpenedUpTo, L
<1> HIDE DEF s, t, u, n
<1>8. /\ s \in Seq(Seq(Stored)) /\ Len(s) = first - 1
      /\ t \in Seq(Seq(Stored)) /\ Len(t) = n
      /\ u \in Seq(Seq(Stored)) /\ Len(u) = opened_parts
  <2> DEFINE X == Seq(Stored)
             m == first - 1
  <2>1. /\ s \in [1..m -> X] /\ t \in [1..n -> X] /\ u \in [1..opened_parts -> X]
        /\ m \in Nat /\ opened_parts \in Nat
    BY <1>1, <1>5
  <2> HIDE DEF X, m
  <2>2. s \in Seq(X) /\ Len(s) = m
    BY <2>1, FunctionIsSeq
  <2>3. t \in Seq(X) /\ Len(t) = n
    BY <1>1, <2>1, FunctionIsSeq
  <2>4. u \in Seq(X) /\ Len(u) = opened_parts
    <3> DEFINE k == opened_parts
    <3>1. k \in Nat /\ u \in [1..k -> X]
      BY <2>1
    <3> HIDE DEF k
    <3>2. u \in Seq(X) /\ Len(u) = k
      BY <3>1, FunctionIsSeq
    <3> QED BY <3>2 DEF k
  <2> QED BY <2>2, <2>3, <2>4 DEF X, m
<1>9. /\ s \o t \in Seq(Seq(Stored)) /\ Len(s \o t) = Len(u)
      /\ \A k \in 1..Len(s \o t) : (s \o t)[k] = IF k <= first - 1 THEN s[k]
                                                 ELSE t[k - (first - 1)]
  <2>1. /\ s \o t \in Seq(Seq(Stored)) /\ Len(s \o t) = Len(s) + Len(t)
        /\ \A k \in 1..Len(s) + Len(t) : (s \o t)[k] = IF k <= Len(s) THEN s[k]
                                                     ELSE t[k - Len(s)]
    BY <1>8, ConcatProperties
  <2>2. Len(s) + Len(t) = Len(u) /\ Len(s) = first - 1
    BY <1>1, <1>8
  <2> QED BY <2>1, <2>2
<1>10. \A k \in 1..Len(u) : (s \o t)[k] = u[k]
  <2> TAKE k \in 1..Len(u)
  <2>1. k \in 1..opened_parts /\ k \in 1..Len(s \o t)
    BY <1>8, <1>9
  <2>2. CASE k <= first - 1
    <3>1. k \in 1..first-1
      BY <1>1, <2>1, <2>2
    <3>2. s[k] = L(k) /\ u[k] = L(k)
      BY <1>6, <2>1, <3>1
    <3>3. (s \o t)[k] = s[k]
      BY <1>9, <2>1, <2>2
    <3> QED BY <3>2, <3>3
  <2>3. CASE ~ (k <= first - 1)
    <3>1. k - (first - 1) \in 1..n /\ first + (k - (first - 1)) - 1 = k
      BY <1>1, <2>1, <2>3
    <3>2. t[k - (first - 1)] = L(k)
      BY <1>6, <3>1
    <3> QED BY <1>6, <1>9, <2>1, <2>3, <3>2
  <2> QED BY <2>2, <2>3
<1>11. s \o t = u
  BY <1>8, <1>9, <1>10, SeqEqual
<1>12. FlattenSeq(u) = FlattenSeq(s) \o FlattenSeq(t) /\ FlattenSeq(u) \in Seq(Stored)
  BY <1>8, <1>11, FlattenConcat, FlattenType
<1> QED BY <1>2, <1>7, <1>12 DEF u, L

\* POSIX has all files of a part, so their listing is that of its names.
LEMMA AllListed ==
  ASSUME stored \in Stores, NEW r \in ResolvedPart, r.file_system = "posix", AllThere(r)
  PROVE  /\ Listing(InStore(r)) = ExpandAtSpec(Canonical(r))
         /\ Cardinality(InStore(r)) = NumberOf(r)
<1> DEFINE names == ExpandAtSpec(Canonical(r))
           g == [f \in Stored |-> <<f>>]
<1>1. /\ r.part.shards = Star => NumberOf(r) \in 1..MaxShards
      /\ \A i \in DOMAIN names : names[i] \in stored["posix"]
  BY DEF AllThere
<1>2. /\ Canonical(r) \in SpecPart
      /\ IsNumbered(r) => /\ IsSharded(Canonical(r)) /\ NumberOf(r) \in Nat
                          /\ Canonical(r).shards = NumberOf(r)
      /\ ~ IsNumbered(r) => ~ IsSharded(Canonical(r))
  BY <1>1, CanonicalFacts
<1>3. names \in Seq(Names) /\ Len(names) \in Nat /\ DOMAIN names = 1..Len(names)
  BY <1>2, ExpandFacts, LenProperties
<1>4. Len(names) = NumberOf(r)
  <2>1. CASE IsNumbered(r)
    BY <1>2, <2>1, ExpandFacts
  <2>2. CASE ~ IsNumbered(r)
    <3>1. names = <<FileOf(Canonical(r), Literally(Canonical(r)))>>
      BY <1>2, <2>2, ExpandFacts
    <3>2. NumberOf(r) = 1
      BY <2>2 DEF IsNumbered, NumberOf
    <3> QED BY <3>1, <3>2
  <2> QED BY <2>1, <2>2
<1> HIDE DEF names
<1>5. \A i \in 1..Len(names) : names[i] \in Stored /\ names[i] \in stored["posix"]
  BY <1>1, <1>3 DEF Stored
<1>6. names \in Seq(Stored)
  <2>1. names \in [1..Len(names) -> Stored]
    BY <1>3, <1>5
  <2> QED BY <1>3, <2>1, FunctionIsSeq
<1>7. \A f \in Stored : g[f] = <<f>> /\ g[f] \in Seq(Stored)
  OBVIOUS
<1> HIDE DEF g
<1>8. \A i \in 1..Len(names) : /\ g[names[i]] \in Seq(Stored)
                               /\ IsFound(r.file_system, names[i], g[names[i]])
  BY <1>5, <1>7 DEF IsFound
<1>9. /\ IsListingOf(FlattenSeq(Mapped(g, names)), InStore(r))
      /\ FlattenSeq(Mapped(g, names)) = Listing(InStore(r))
  <2>1. names = ExpandAtSpec(Canonical(r))
    BY DEF names
  <2> QED BY <1>1, <1>8, <2>1, PartFound
<1>10. FlattenSeq(Mapped(g, names)) = names
  <2>1. Maps(g, Stored, Seq(Stored))
    BY <1>7 DEF Maps
  <2>2. /\ Mapped(g, names) \in Seq(Seq(Stored)) /\ Len(Mapped(g, names)) = Len(names)
        /\ \A i \in 1..Len(names) : Mapped(g, names)[i] = g[names[i]]
    BY <1>6, <2>1, MappedType
  <2>3. \A i \in 1..Len(names) : Mapped(g, names)[i] = <<names[i]>>
    BY <1>5, <1>7, <2>2
  <2> QED BY <1>6, <2>2, <2>3, FlattenSingles
<1>11. names \in SetToSeqs(InStore(r))
  BY <1>9, <1>10 DEF IsListingOf
<1>12. Len(names) = Cardinality(InStore(r))
  BY <1>11, InStoreFacts, SetToSeqsFacts
<1> QED BY <1>4, <1>9, <1>10, <1>12 DEF names

\* What a file's numbers have to be for it to belong to a part.
AtFits(r, at) ==
  IF IsSharded(r.part) \/ r.part.shards = Star
    THEN /\ Len(at) = 2
         /\ \/ r.part.shards = Star /\ r.file_system = "gcs"
            \/ at[2] = NumberOf(r) /\ at[1] < at[2]
    ELSE at = Literally(r.part)

\* A file belongs to a part by its name and by what stands behind the '@'.
LEMMA InStoreFits ==
  ASSUME stored \in Stores, NEW r \in ResolvedPart
  PROVE  \A f : f \in InStore(r) <=>
           /\ f \in stored[r.file_system] /\ f.dir = r.part.dir /\ f.name = r.part.name
           /\ f.limits = r.part.limits /\ AtFits(r, f.at)
<1> TAKE f
<1>1. stored[r.file_system] \in SUBSET Files /\ r.part \in SpecPart
  BY StoredFacts DEF ResolvedPart
<1>2. ASSUME f \in stored[r.file_system]
      PROVE  [f EXCEPT !.at = <<>>] = FileOf(r.part, <<>>)
               <=> f.dir = r.part.dir /\ f.limits = r.part.limits /\ f.name = r.part.name
  <2>1. f \in Files
    BY <1>1, <1>2
  <2> QED BY <1>1, <2>1, SameName
<1>3. f \in InStore(r) <=> /\ f \in stored[r.file_system]
                           /\ [f EXCEPT !.at = <<>>] = FileOf(r.part, <<>>)
                           /\ AtFits(r, f.at)
  BY DEF InStore, AtFits
<1> QED BY <1>2, <1>3

\* The file of limits that has a file's name.
OfLimits(f) == [f EXCEPT !.limits = TRUE]

\* A listing of files of records is one of the files of limits.
LEMMA LimitsListed ==
  ASSUME NEW S \in SUBSET Files, NEW T, IsFiniteSet(S),
         \A f \in S : ~ f.limits /\ OfLimits(f) \in T,
         \A h \in T : \E f \in S : h = OfLimits(f),
         NEW s, IsListingOf(s, S), NEW t, t = [i \in 1..Len(s) |-> OfLimits(s[i])]
  PROVE  IsListingOf(t, T) /\ IsFiniteSet(T)
<1>1. /\ s \in Seq(S) /\ Len(s) = Cardinality(S) /\ Len(s) \in Nat
      /\ \A i, j \in 1..Len(s) : s[i] = s[j] => i = j
      /\ \A f \in S : \E i \in 1..Len(s) : s[i] = f
      /\ \A i \in 1..Len(s) : s[i] \in S
  <2>1. s \in SetToSeqs(S)
    BY DEF IsListingOf
  <2>2. /\ s \in Seq(S) /\ Len(s) = Cardinality(S) /\ Len(s) \in Nat
        /\ \A i, j \in 1..Len(s) : s[i] = s[j] => i = j
        /\ \A f \in S : \E i \in 1..Len(s) : s[i] = f
    <3> HIDE DEF OfLimits
    <3> QED BY <2>1, SetToSeqsFacts
  <2>3. \A i \in 1..Len(s) : s[i] \in S
    BY <2>2, ElementOfSeq
  <2> QED BY <2>2, <2>3
<1>2. \A f, h \in S : OfLimits(f) = OfLimits(h) => f = h
  <2> TAKE f, h \in S
  <2> HAVE OfLimits(f) = OfLimits(h)
  <2>1. f \in Files /\ h \in Files /\ f.limits = FALSE /\ h.limits = FALSE
    BY DEF Files
  <2>2. /\ OfLimits(f).dir = f.dir /\ OfLimits(h).dir = h.dir
        /\ OfLimits(f).name = f.name /\ OfLimits(h).name = h.name
        /\ OfLimits(f).at = f.at /\ OfLimits(h).at = h.at
    BY <2>1 DEF OfLimits, Files
  <2> QED BY <2>1, <2>2 DEF Files
<1>3. \A f \in S : OfLimits(f).at = f.at
  BY DEF OfLimits, Files
<1> HIDE DEF OfLimits
<1>4. t \in [1..Len(s) -> T] /\ \A i \in 1..Len(s) : t[i] = OfLimits(s[i])
  BY <1>1
<1>5. \A i, j \in 1..Len(s) : t[i] = t[j] => i = j
  BY <1>1, <1>2, <1>4
<1>6. \A h \in T : \E i \in 1..Len(s) : t[i] = h
  BY <1>1, <1>4
<1>7. IsFiniteSet(T) /\ Cardinality(T) = Len(s)
  <2>1. t \in Bijection(1..Len(s), T)
    <3> DEFINE D == 1..Len(s)
    <3>1. /\ t \in [D -> T] /\ \A i, j \in D : t[i] = t[j] => i = j
          /\ \A h \in T : \E i \in D : t[i] = h
      BY <1>4, <1>5, <1>6
    <3> HIDE DEF D
    <3>2. t \in Surjection(D, T)
      BY <3>1 DEF Surjection
    <3>3. DOMAIN t = D
      BY <3>1
    <3>4. t \in Injection(D, T)
      BY <3>1, <3>3, Zenon DEF Injection, IsInjective
    <3> QED BY <3>2, <3>4 DEF Bijection, D
  <2>2. ExistsBijection(1..Len(s), T)
    BY <2>1 DEF ExistsBijection
  <2>3. IsFiniteSet(1..Len(s)) /\ Cardinality(1..Len(s)) = Len(s)
    <3>1. 1 \in Int /\ Len(s) \in Int
      BY <1>1
    <3> QED BY <1>1, <3>1, FS_Interval
  <2> QED BY <2>2, <2>3, FS_Bijection
<1>8. t \in SetToSeqs(T)
  BY <1>4, <1>5, <1>7 DEF SetToSeqs
<1>9. IsListed(t)
  <2>1. Len(t) = Len(s)
    <3>1. t \in Seq(T) /\ Len(t) = Len(s)
      BY <1>1, <1>4, FunctionIsSeq
    <3> QED BY <3>1
  <2>2. ASSUME NEW j \in 2..Len(s)
        PROVE  NameOrder(t[j - 1], t[j])
    <3>1. j \in 1..Len(s) /\ j - 1 \in 1..Len(s)
      BY <1>1
    <3>2. NameOrder(s[j - 1], s[j])
      BY DEF IsListingOf, IsListed
    <3>3. t[j].at = s[j].at /\ t[j - 1].at = s[j - 1].at
      BY <1>1, <1>3, <1>4, <3>1
    <3> QED BY <3>2, <3>3 DEF NameOrder
  <2> QED BY <2>1, <2>2 DEF IsListed
<1> QED BY <1>7, <1>8, <1>9 DEF IsListingOf

\* A pair as a concatenation.
LEMMA PairOf ==
  ASSUME NEW a, NEW b
  PROVE  /\ Len(<<a>> \o <<b>>) = 2
         /\ (<<a>> \o <<b>>)[1] = a /\ (<<a>> \o <<b>>)[2] = b
         /\ <<a, b>> = <<a>> \o <<b>>
<1>1. /\ Len(<<a>> \o <<b>>) = 2
      /\ (<<a>> \o <<b>>)[1] = a /\ (<<a>> \o <<b>>)[2] = b
  OBVIOUS
<1>2. <<a, b>> = <<a>> \o <<b>>
  <2> DEFINE A == {a, b}
             s == <<a, b>>
             t == <<a>> \o <<b>>
  <2>1. <<a>> \in Seq(A) /\ <<b>> \in Seq(A) /\ s \in Seq(A)
    OBVIOUS
  <2>2. Len(s) = 2 /\ s[1] = a /\ s[2] = b
    OBVIOUS
  <2>3. t \in Seq(A)
    <3> HIDE DEF A
    <3> QED BY <2>1, ConcatProperties
  <2>4. \A i \in 1..2 : i = 1 \/ i = 2
    OBVIOUS
  <2>5. Len(t) = 2 /\ t[1] = a /\ t[2] = b
    BY <1>1
  <2> HIDE DEF s, t, A
  <2>6. \A i \in 1..Len(s) : s[i] = t[i]
    BY <2>2, <2>4, <2>5
  <2>7. s = t
    BY <2>1, <2>2, <2>3, <2>5, <2>6, SeqEqual
  <2> QED BY <2>7 DEF s, t
<1> QED BY <1>1, <1>2

\* The halves of a sequence that is made of two of one length.
LEMMA HalvesOf ==
  ASSUME NEW A, NEW s \in Seq(A), NEW t \in Seq(A), Len(t) = Len(s)
  PROVE  /\ Len(s) \in Nat /\ Len(s \o t) = Len(s) + Len(s)
         /\ \A i \in 1..Len(s)+Len(s) : (s \o t)[i] = IF i <= Len(s) THEN s[i]
                                                      ELSE t[i - Len(s)]
BY ConcatProperties, LenProperties

\* Separate limits of a bag of one part: the part and the same one of limits,
\* or one with a prefix that nobody registers.
LEMMA TwoParts ==
  ASSUME spec \in Specs, placement = "separate", Len(spec) = 1
  PROVE  /\ Len(Parts) = 2 /\ Parts[1] \in SpecPart /\ ~ Parts[1].limits
         /\ \/ Parts[2] = [Parts[1] EXCEPT !.limits = TRUE]
            \/ Parts[2].prefix = "limits."
<1> DEFINE p == spec[1]
           R == [prefix: STRING, dir: BOOLEAN, limits: {FALSE}, name: STRING,
                 shards: Nat \cup {None, Star}]
<1>1. spec \in Seq(R)
  BY SpecsAssumption
<1>2. p \in R
  <2> HIDE DEF R
  <2>1. 1 \in 1..Len(spec)
    OBVIOUS
  <2> QED BY <1>1, <2>1, ElementOfSeq
<1>3. spec = <<p>>
  <2> HIDE DEF R
  <2>1. spec \in [1..1 -> R]
    BY <1>1, LenProperties
  <2> QED BY <2>1
<1>4. p \in SpecPart /\ p.limits = FALSE
  BY <1>2 DEF SpecPart
<1>5. DOMAIN spec = 1..1 /\ spec[1] = p
  BY <1>3
<1>6. LimitsName(spec) = <<[p EXCEPT !.limits = TRUE]>>
        \/ LimitsName(spec) = <<[p EXCEPT !.prefix = "limits."]>>
  <2> DEFINE slashes == {k \in DOMAIN spec : spec[k].dir}
  <2>1. slashes # {} => Max(slashes) = 1
    <3>1. slashes # {} => slashes \in SUBSET (1..1) /\ 1 \in Int
      BY <1>5
    <3> HIDE DEF slashes
    <3>2. slashes # {} => Max(slashes) \in slashes
      BY <3>1, MaxFacts
    <3> QED BY <3>1, <3>2
  <2>2. \/ LimitsName(spec) = [spec EXCEPT ![1].limits = TRUE]
        \/ LimitsName(spec) = [spec EXCEPT ![1].prefix = "limits."]
    BY <2>1 DEF LimitsName
  <2>3. /\ [<<p>> EXCEPT ![1].limits = TRUE] = <<[p EXCEPT !.limits = TRUE]>>
        /\ [<<p>> EXCEPT ![1].prefix = "limits."] = <<[p EXCEPT !.prefix = "limits."]>>
    <3> HIDE DEF p
    <3>1. [<<p>> EXCEPT ![1].limits = TRUE] = <<[p EXCEPT !.limits = TRUE]>>
      <4> DEFINE q == [p EXCEPT !.limits = TRUE]
      <4>1. [<<p>> EXCEPT ![1].limits = TRUE] = [<<p>> EXCEPT ![1] = q]
        OBVIOUS
      <4> HIDE DEF q
      <4>2. [<<p>> EXCEPT ![1] = q] = <<q>>
        OBVIOUS
      <4> QED BY <4>1, <4>2 DEF q
    <3>2. [<<p>> EXCEPT ![1].prefix = "limits."] = <<[p EXCEPT !.prefix = "limits."]>>
      OBVIOUS
    <3> QED BY <3>1, <3>2
  <2> QED BY <1>3, <2>2, <2>3
<1>7. PICK q : /\ LimitsName(spec) = <<q>>
               /\ q = [p EXCEPT !.limits = TRUE] \/ q.prefix = "limits."
  <2>1. [p EXCEPT !.prefix = "limits."].prefix = "limits."
    BY <1>4 DEF SpecPart
  <2> QED BY <1>6, <2>1
<1>8. Len(Parts) = 2 /\ Parts[1] = p /\ Parts[2] = q
  <2>1. Parts = <<p>> \o <<q>>
    BY <1>3, <1>7 DEF Parts
  <2> HIDE DEF p
  <2> QED BY <2>1, PairOf
<1> HIDE DEF p
<1> QED BY <1>4, <1>7, <1>8

\* What the parts of records and of limits stand for, when both are found in
\* one file system and, if that is GCS, none of either is missing.
LEMMA LimitsFollow ==
  ASSUME stored \in Stores, NEW r \in ResolvedPart, NEW l \in ResolvedPart,
         ~ r.part.limits, l.part = [r.part EXCEPT !.limits = TRUE],
         r.file_system = l.file_system,
         NEW s, s = Listing(InStore(r)), IsListingOf(s, InStore(r)),
         NEW t, t = Listing(InStore(l)), IsListingOf(t, InStore(l)),
         AllThere(r), AllThere(l),
         r.file_system = "posix" => r.part.shards # Star,
         r.file_system = "gcs" => NoOrphans("gcs")
  PROVE  /\ Len(s) \in Nat /\ Len(t) = Len(s)
         /\ \A i \in 1..Len(s) : t[i] = OfLimits(s[i])
<1>1. r.part \in SpecPart /\ l.part \in SpecPart /\ r.file_system \in FileSystems
  BY DEF ResolvedPart
<1>2. /\ l.part.dir = r.part.dir /\ l.part.name = r.part.name
      /\ l.part.shards = r.part.shards /\ l.part.limits = TRUE /\ r.part.limits = FALSE
  BY <1>1 DEF SpecPart
<1>3. Len(s) \in Nat
  BY InStoreFacts, SetToSeqsFacts DEF IsListingOf
<1>4. CASE r.file_system = "posix"
  <2>1. s = ExpandAtSpec(Canonical(r)) /\ t = ExpandAtSpec(Canonical(l))
    BY <1>4, AllListed
  <2>2. s = ExpandAtSpec(r.part) /\ t = ExpandAtSpec(l.part)
    BY <1>2, <1>4, <2>1 DEF Canonical
  <2>3. \A at : OfLimits(FileOf(r.part, at)) = FileOf(l.part, at)
    <3> TAKE at
    <3> DEFINE f == FileOf(r.part, at)
               h == FileOf(l.part, at)
    <3>1. /\ DOMAIN f = {"dir", "limits", "name", "at"}
          /\ DOMAIN h = {"dir", "limits", "name", "at"}
          /\ h.limits = TRUE /\ h.dir = f.dir /\ h.name = f.name /\ h.at = f.at
      BY <1>2 DEF FileOf
    <3>2. h = [x \in {"dir", "limits", "name", "at"} |-> h[x]]
      BY DEF FileOf
    <3>3. f = [x \in {"dir", "limits", "name", "at"} |-> f[x]]
      BY DEF FileOf
    <3> HIDE DEF f, h
    <3>4. \A x \in {"dir", "limits", "name", "at"} :
            (IF x = "limits" THEN TRUE ELSE f[x]) = h[x]
      BY <3>1
    <3>5. OfLimits(f) = [x \in {"dir", "limits", "name", "at"} |->
                          IF x = "limits" THEN TRUE ELSE f[x]]
      BY <3>1 DEF OfLimits
    <3>6. OfLimits(f) = h
      BY <3>2, <3>4, <3>5
    <3> QED BY <3>6 DEF f, h
  <2>4. CASE IsSharded(r.part)
    <3> DEFINE n == r.part.shards
    <3>1. IsSharded(l.part) /\ n \in Nat /\ l.part.shards = n
      BY <1>1, <1>2, <2>4, ExpandFacts DEF IsSharded
    <3>2. /\ s = [i \in 1..n |-> FileOf(r.part, <<i - 1, n>>)]
          /\ t = [i \in 1..n |-> FileOf(l.part, <<i - 1, n>>)]
      BY <1>1, <1>2, <2>2, <2>4, <3>1, ExpandFacts
    <3> HIDE DEF n
    <3>3. Len(s) = n /\ Len(t) = n
      BY <3>1, <3>2
    <3>4. \A i \in 1..n : t[i] = OfLimits(s[i])
      <4> TAKE i \in 1..n
      <4>1. /\ s[i] = FileOf(r.part, <<i - 1, n>>)
            /\ t[i] = FileOf(l.part, <<i - 1, n>>)
        BY <3>2
      <4>2. OfLimits(FileOf(r.part, <<i - 1, n>>)) = FileOf(l.part, <<i - 1, n>>)
        BY <2>3
      <4> QED BY <4>1, <4>2
    <3> QED BY <1>3, <3>3, <3>4
  <2>5. CASE ~ IsSharded(r.part)
    <3>1. ~ IsSharded(l.part) /\ Literally(l.part) = Literally(r.part)
      BY <1>2, <2>5 DEF IsSharded, Literally
    <3> DEFINE f == FileOf(r.part, Literally(r.part))
               h == FileOf(l.part, Literally(r.part))
    <3>2. s = <<f>> /\ t = <<h>>
      BY <1>1, <2>2, <2>5, <3>1, ExpandFacts
    <3>3. h = OfLimits(f)
      BY <2>3
    <3> HIDE DEF f, h
    <3> QED BY <3>2, <3>3
  <2> QED BY <2>4, <2>5
<1>5. CASE r.file_system = "gcs"
  <2> DEFINE S == InStore(r)
             T == InStore(l)
             u == [i \in 1..Len(s) |-> OfLimits(s[i])]
  <2>1. stored["gcs"] \in SUBSET Files
    BY StoredFacts DEF FileSystems
  <2>2. S \in SUBSET Files /\ IsFiniteSet(S)
    BY <1>5, <2>1, InStoreFacts
  <2>3. \A at : AtFits(r, at) <=> AtFits(l, at)
    <3>1. /\ IsSharded(r.part) <=> IsSharded(l.part)
          /\ Literally(r.part) = Literally(l.part)
      BY <1>2 DEF IsSharded, Literally
    <3>2. IsSharded(r.part) \/ r.part.shards # Star => NumberOf(r) = NumberOf(l)
      BY <1>2, <3>1 DEF NumberOf
    <3> QED BY <1>2, <1>5, <3>1, <3>2 DEF AtFits
  <2>4. /\ \A f : f \in S <=> /\ f \in stored["gcs"] /\ f.dir = r.part.dir
                              /\ f.name = r.part.name /\ f.limits = r.part.limits
                              /\ AtFits(r, f.at)
        /\ \A f : f \in T <=> /\ f \in stored["gcs"] /\ f.dir = l.part.dir
                              /\ f.name = l.part.name /\ f.limits = l.part.limits
                              /\ AtFits(l, f.at)
    BY <1>5, InStoreFits
  <2> HIDE DEF S, T
  <2>5. \A f \in stored["gcs"] : [f EXCEPT !.limits = ~@] \in stored["gcs"]
    BY <1>5 DEF NoOrphans
  <2>6. ASSUME NEW f \in S
        PROVE  ~ f.limits /\ OfLimits(f) \in T
    <3>1. f \in Files /\ f \in stored["gcs"] /\ f.limits = FALSE
      BY <1>2, <2>2, <2>4
    <3>2. OfLimits(f) = [f EXCEPT !.limits = ~@]
      BY <3>1 DEF OfLimits
    <3>3. /\ OfLimits(f).dir = f.dir /\ OfLimits(f).name = f.name
          /\ OfLimits(f).limits = TRUE /\ OfLimits(f).at = f.at
      BY <3>1 DEF OfLimits, Files
    <3>4. OfLimits(f) \in stored["gcs"]
      BY <2>5, <3>1, <3>2
    <3>5. f.dir = l.part.dir /\ f.name = l.part.name /\ AtFits(l, f.at)
      BY <1>2, <2>3, <2>4
    <3> DEFINE h == OfLimits(f)
    <3>6. /\ h \in stored["gcs"] /\ h.dir = l.part.dir /\ h.name = l.part.name
          /\ h.limits = l.part.limits /\ AtFits(l, h.at)
      BY <1>2, <3>3, <3>4, <3>5
    <3> HIDE DEF h
    <3>7. h \in T
      BY <2>4, <3>6
    <3> QED BY <3>1, <3>7 DEF h
  <2>7. ASSUME NEW h \in T
        PROVE  \E f \in S : h = OfLimits(f)
    <3> DEFINE f == [h EXCEPT !.limits = ~@]
    <3>1. h \in Files /\ h \in stored["gcs"] /\ h.limits = TRUE
      BY <1>2, <2>1, <2>4
    <3>2. f \in stored["gcs"]
      BY <2>5, <3>1
    <3>3. f.dir = h.dir /\ f.name = h.name /\ f.limits = FALSE /\ f.at = h.at
      BY <3>1 DEF Files
    <3>4. h = OfLimits(f)
      <4>1. h \in [{"dir", "limits", "name", "at"} -> BOOLEAN \cup STRING \cup Seq(Nat)]
        BY <3>1 DEF Files
      <4>2. OfLimits(f) = [[h EXCEPT !.limits = FALSE] EXCEPT !.limits = TRUE]
        BY <3>1 DEF OfLimits
      <4>3. [[h EXCEPT !.limits = FALSE] EXCEPT !.limits = TRUE] = [h EXCEPT !.limits = TRUE]
        BY <4>1
      <4>4. [h EXCEPT !.limits = TRUE] = h
        BY <3>1, <4>1
      <4> QED BY <4>2, <4>3, <4>4
    <3> HIDE DEF f
    <3>5. h.dir = l.part.dir /\ h.name = l.part.name /\ AtFits(l, h.at)
      BY <2>4
    <3>6. /\ f.dir = r.part.dir /\ f.name = r.part.name
          /\ f.limits = r.part.limits /\ AtFits(r, f.at)
      BY <1>2, <2>3, <3>3, <3>5
    <3>7. f \in S
      BY <2>4, <3>2, <3>6
    <3> QED BY <3>4, <3>7
  <2>8. IsListingOf(s, S) /\ IsListingOf(t, T)
    BY DEF S, T
  <2> HIDE DEF u
  <2>9. IsListingOf(u, T)
    <3>1. u = [i \in 1..Len(s) |-> OfLimits(s[i])]
      BY DEF u
    <3>2. \A f \in S : ~ f.limits /\ OfLimits(f) \in T
      BY <2>6
    <3>3. \A h \in T : \E f \in S : h = OfLimits(f)
      BY <2>7
    <3> HIDE DEF OfLimits
    <3> QED BY <2>2, <2>8, <3>1, <3>2, <3>3, LimitsListed
  <2>10. u = t
    <3>1. IsFiniteSet(T) /\ (Numbered(T) \/ Cardinality(T) <= 1)
      BY InStoreFacts DEF T
    <3> QED BY <2>8, <2>9, <3>1, ListingUnique
  <2>11. Len(u) = Len(s) /\ \A i \in 1..Len(s) : u[i] = OfLimits(s[i])
    <3> DEFINE X == {OfLimits(s[i]) : i \in 1..Len(s)}
    <3>1. u \in [1..Len(s) -> X] /\ \A i \in 1..Len(s) : u[i] = OfLimits(s[i])
      BY DEF u
    <3> HIDE DEF X
    <3>2. u \in Seq(X) /\ Len(u) = Len(s)
      BY <1>3, <3>1, FunctionIsSeq
    <3> QED BY <3>1, <3>2
  <2> QED BY <1>3, <2>10, <2>11
<1> QED BY <1>1, <1>4, <1>5 DEF FileSystems

\* Half of the result are the limits of the other half.
LEMMA HalvesFit ==
  ASSUME NEW s \in Seq(Stored), NEW t \in Seq(Stored), Len(t) = Len(s),
         \A i \in 1..Len(s) : t[i] = OfLimits(s[i]),
         result = s \o t, 2 * NumFiles = Len(result), shards = PairUp
  PROVE  LimitsAreOwn
<1>1. /\ Len(s) \in Nat /\ Len(result) = Len(s) + Len(s)
      /\ \A i \in 1..Len(s)+Len(s) : result[i] = IF i <= Len(s) THEN s[i]
                                                 ELSE t[i - Len(s)]
  <2>1. s \in Seq(Stored) /\ t \in Seq(Stored) /\ Len(t) = Len(s)
    OBVIOUS
  <2>2. /\ Len(s) \in Nat /\ Len(s \o t) = Len(s) + Len(s)
        /\ \A i \in 1..Len(s)+Len(s) : (s \o t)[i] = IF i <= Len(s) THEN s[i]
                                                     ELSE t[i - Len(s)]
    BY <2>1, HalvesOf
  <2> QED BY <2>2
<1>2. NumFiles = Len(s)
  BY <1>1 DEF NumFiles
<1>3. shards = [i \in 1..Len(s) |-> [records |-> result[i],
                                     limits |-> result[Len(s) + i]]]
  BY <1>2 DEF PairUp
<1>4. ASSUME NEW i \in 1..Len(s)
      PROVE  result[i] = s[i] /\ result[Len(s) + i] = OfLimits(s[i])
  <2>1. /\ i \in 1..Len(s)+Len(s) /\ i <= Len(s) /\ Len(s) + i \in 1..Len(s)+Len(s)
        /\ ~ (Len(s) + i <= Len(s)) /\ (Len(s) + i) - Len(s) = i
    BY <1>1
  <2> QED BY <1>1, <2>1
<1>5. DOMAIN shards = 1..Len(s)
  BY <1>3
<1>6. ASSUME NEW i \in DOMAIN shards
      PROVE  shards[i].limits = [shards[i].records EXCEPT !.limits = TRUE]
  <2>1. shards[i].limits = OfLimits(s[i]) /\ shards[i].records = s[i]
    BY <1>3, <1>4, <1>5
  <2> QED BY <2>1 DEF OfLimits
<1> QED BY <1>6 DEF LimitsAreOwn

-----------------------------------------------------------------------------
(* What a step leaves alone *)

\* The files do not change, so that parts keep standing for what they do.
LEMMA SameFiles ==
  ASSUME stored' = stored
  PROVE  \A r : InStore(r)' = InStore(r) /\ (AllThere(r)' <=> AllThere(r))
<1>1. \A r : NumberOf(r)' = NumberOf(r)
  BY DEF NumberOf
<1>2. \A r : Canonical(r)' = Canonical(r)
  BY <1>1 DEF Canonical
<1>3. \A r : InStore(r)' = InStore(r)
  BY <1>1 DEF InStore
<1>4. \A r : AllThere(r)' <=> AllThere(r)
  BY <1>1, <1>2 DEF AllThere
<1> QED BY <1>3, <1>4

LEMMA SameOpened ==
  ASSUME stored' = stored, resolved' = resolved
  PROVE  /\ \A k : WellOpened(k)' <=> WellOpened(k)
         /\ result' = result => \A n : OpenedUpTo(n)' <=> OpenedUpTo(n)
         /\ \A first : EndOfGroup(first)' = EndOfGroup(first)
         /\ opened_parts' = opened_parts =>
              \A first : GroupParts(first)' = GroupParts(first)
<1>1. \A k : IsAlone(k)' <=> IsAlone(k)
  BY DEF IsAlone
<1>2. \A k : InStore(resolved[k])' = InStore(resolved[k])
  BY SameFiles
<1>3. \A k : AllThere(resolved[k])' <=> AllThere(resolved[k])
  BY SameFiles
<1>4. \A k : WellOpened(k)' <=> WellOpened(k)
  BY <1>1, <1>2, <1>3 DEF WellOpened
<1>5. result' = result => \A n : OpenedUpTo(n)' <=> OpenedUpTo(n)
  BY <1>2, <1>4 DEF OpenedUpTo
<1>6. \A first : EndOfGroup(first)' = EndOfGroup(first)
  BY DEF EndOfGroup
<1>7. opened_parts' = opened_parts =>
        \A first : GroupParts(first)' = GroupParts(first)
  BY DEF GroupParts, PartsOf
<1> QED BY <1>4, <1>5, <1>6, <1>7

LEMMA SameParts ==
  ASSUME UNCHANGED input
  PROVE  Parts' = Parts
BY DEF input, Parts

LEMMA SameFound ==
  ASSUME stored' = stored
  PROVE  /\ \A fs, name, found : IsFound(fs, name, found)' <=> IsFound(fs, name, found)
         /\ Stored' = Stored
BY DEF IsFound, Stored

\* What is found for a name is a sequence of stored files.
LEMMA FoundType ==
  ASSUME stored \in Stores, NEW fs, NEW name, NEW found, IsFound(fs, name, found)
  PROVE  found \in Seq(Stored)
<1>1. CASE fs = "posix"
  <2>1. name \in Stored /\ found = <<name>>
    BY <1>1 DEF IsFound, Stored
  <2> QED BY <2>1
<1>2. CASE fs # "posix"
  <2> DEFINE S == Matches(name, stored["gcs"])
  <2>1. S \in SUBSET stored["gcs"]
    BY DEF Matches
  <2>2. IsListingOf(found, S)
    BY <1>2 DEF IsFound
  <2> HIDE DEF S
  <2>3. IsFiniteSet(S)
    BY <2>1, StoredFacts, FS_Subset DEF FileSystems
  <2>4. found \in Seq(S)
    BY <2>2, <2>3, SetToSeqsFacts DEF IsListingOf
  <2>5. S \subseteq Stored
    BY <2>1 DEF Stored
  <2> QED BY <2>4, <2>5, SeqMonotonic
<1> QED BY <1>1, <1>2

\* CanonicaliseShardSpec gives parts for parts.
LEMMA CanonicaliseType ==
  ASSUME NEW parts \in Seq(SpecPart), NEW store
  PROVE  CanonicaliseShardSpec(parts, store) \in Seq(SpecPart)
<1> DEFINE counts == ShardCounts(parts[1], store)
           p == [parts[1] EXCEPT !.shards = Max(counts)]
<1>1. CASE Len(parts) = 1 /\ parts[1].shards = Star /\ counts \ {0} # {}
  <2>1. counts \in SUBSET (0..MaxShards)
    BY DEF ShardCounts
  <2>2. Max(counts) \in Nat
    <3> HIDE DEF counts
    <3>1. counts # {} /\ 0 \in Int /\ MaxShards \in Int
      BY <1>1, MaxShardsAssumption
    <3>2. Max(counts) \in counts
      BY <2>1, <3>1, MaxFacts
    <3>3. Max(counts) \in 0..MaxShards
      BY <2>1, <3>2
    <3> QED BY <3>3
  <2>3. parts[1] \in SpecPart
    <3>1. 1 \in 1..Len(parts)
      BY <1>1
    <3> QED BY <3>1, ElementOfSeq
  <2>4. p \in SpecPart
    <3> HIDE DEF counts
    <3> QED BY <2>2, <2>3 DEF SpecPart
  <2>5. CanonicaliseShardSpec(parts, store) = <<p>>
    BY <1>1 DEF CanonicaliseShardSpec
  <2> HIDE DEF p
  <2> QED BY <2>4, <2>5
<1>2. CASE ~ (Len(parts) = 1 /\ parts[1].shards = Star /\ counts \ {0} # {})
  BY <1>2 DEF CanonicaliseShardSpec
<1> QED BY <1>1, <1>2

-----------------------------------------------------------------------------
(* The invariant *)

\* Nothing has been resolved or opened at first.
LEMMA OpenStarts ==
  ASSUME OpenInit
  PROVE  OpenInv
<1>1. /\ stored \in Stores /\ spec \in Specs /\ placement \in {"tail", "separate"}
      /\ pc = "resolve" /\ resolved = <<>> /\ opened_parts = 0 /\ filenames = <<>>
      /\ files = <<>> /\ opened = {} /\ failed = FALSE /\ result = <<>>
      /\ status = "none" /\ broke = FALSE /\ changes = 0
  BY DEF OpenInit
<1>2. file_systems_ \in [KnownPrefixes -> FileSystems \cup {NoFileSystem}]
  BY DEF OpenInit, FileSystems, NoFileSystem
<1>3. Len(<<>>) = 0 /\ DOMAIN <<>> = {} /\ \A A : <<>> \in Seq(A)
  BY EmptySeq
<1>4. OpenTypeOK
  <2>1. /\ DOMAIN resolved = {} /\ DOMAIN result = {} /\ DOMAIN filenames = {}
        /\ DOMAIN files = {} /\ opened_parts \in 0..Len(resolved)
    BY <1>1, <1>3
  <2>2. changes \in 0..MaxChanges
    BY <1>1, MaxChangesAssumption
  <2>3. pc \in FileSystems \cup {"resolve", "returned"}
    BY <1>1
  <2> QED BY <1>1, <1>2, <2>1, <2>2, <2>3 DEF OpenTypeOK
<1>5. OpenTypes
  <2>1. Len(Parts) \in Nat
    BY <1>1, PartsFacts
  <2>2. files \in [1..Len(filenames) -> Seq(Stored)]
    <3>1. files \in Seq(Seq(Stored)) /\ Len(files) = Len(filenames)
      BY <1>1, <1>3
    <3> QED BY <3>1, LenProperties
  <2> QED BY <1>1, <1>3, <2>1, <2>2 DEF OpenTypes
<1>6. OpenControl
  BY <1>1 DEF OpenControl, FileSystems
<1>7. OpenedUpTo(0)
  <2> DEFINE s == [k \in 1..0 |-> Listing(InStore(resolved[k]))]
  <2>1. s \in [1..0 -> Seq(Stored)]
    OBVIOUS
  <2> HIDE DEF s
  <2>2. s \in Seq(Seq(Stored)) /\ Len(s) = 0
    BY <2>1, FunctionIsSeq
  <2>3. s = <<>>
    BY <2>2, EmptySeq
  <2> QED BY <1>1, <2>3, FlattenEmpty DEF OpenedUpTo, s
<1> QED BY <1>1, <1>4, <1>5, <1>6, <1>7
       DEF OpenInv, OpenProgress, OpenSucceeded, FileSystems

\* Steps of other threads, tasks that fail, and a call that has returned.
LEMMA QuietStep ==
  ASSUME OpenInv, UNCHANGED <<input, pc, resolved, opened_parts, filenames, files,
                              opened, result, shards, status>>,
         file_systems_' \in [KnownPrefixes -> FileSystems \cup {NoFileSystem}],
         changes' \in 0..MaxChanges, failed' \in BOOLEAN, broke' \in BOOLEAN
  PROVE  OpenInv'
<1>1. /\ stored' = stored /\ spec' = spec /\ placement' = placement /\ Parts' = Parts
      /\ Stored' = Stored
  BY SameParts, SameFound DEF input
<1>2. OpenTypeOK'
  BY <1>1 DEF OpenInv, OpenTypeOK
<1>3. OpenTypes' /\ OpenControl'
  BY <1>1 DEF OpenInv, OpenTypes, OpenControl
<1>4. /\ \A n : OpenedUpTo(n)' <=> OpenedUpTo(n)
      /\ \A first : GroupParts(first)' = GroupParts(first)
      /\ \A first : EndOfGroup(first)' = EndOfGroup(first)
  BY <1>1, SameOpened
<1>5. \A first : Opening(first)' <=> Opening(first)
  <2> TAKE first
  <2>1. \A k : IsFound(pc, filenames[k], files[k])' <=> IsFound(pc, filenames[k], files[k])
    BY <1>1, SameFound
  <2> QED BY <1>1, <1>4, <2>1 DEF Opening
<1>6. OpenProgress'
  BY <1>4, <1>5 DEF OpenInv, OpenProgress
<1>7. OpenSucceeded'
  BY <1>1, <1>4 DEF OpenInv, OpenSucceeded, NumFiles, PairUp
<1> QED BY <1>2, <1>3, <1>6, <1>7 DEF OpenInv

\* What other threads register is no part of what has been resolved.
LEMMA RegistrySteps ==
  ASSUME OpenInv, OtherThread
  PROVE  OpenInv'
<1>1. PICK prefix \in KnownPrefixes :
        Unregister(prefix) \/ \E fs \in FileSystems : Register(prefix, fs)
  BY DEF OtherThread
<1>2. /\ file_systems_ \in [KnownPrefixes -> FileSystems \cup {NoFileSystem}]
      /\ changes \in 0..MaxChanges /\ failed \in BOOLEAN /\ broke \in BOOLEAN
  BY DEF OpenInv, OpenTypeOK
<1>3. \E fs \in FileSystems \cup {NoFileSystem} :
        file_systems_' = [file_systems_ EXCEPT ![prefix] = fs]
  BY <1>1 DEF Register, Unregister
<1>4. file_systems_' \in [KnownPrefixes -> FileSystems \cup {NoFileSystem}]
  BY <1>2, <1>3
<1>5. changes' \in 0..MaxChanges
  <2>1. changes < MaxChanges /\ changes' = changes + 1
    BY <1>1 DEF Register, Unregister
  <2> QED BY <1>2, <2>1, MaxChangesAssumption
<1>6. /\ UNCHANGED <<input, pc, resolved, opened_parts, filenames, files, opened, result,
                     shards, status>>
      /\ failed' = failed /\ broke' = broke
  BY <1>1 DEF Register, Unregister, group
<1> QED BY <1>2, <1>4, <1>5, <1>6, QuietStep

\* Resolve adds the next part, or the call returns with nothing open.
LEMMA ResolveStep ==
  ASSUME OpenInv, Resolve
  PROVE  OpenInv'
<1> DEFINE n == Len(resolved)
           part == Parts[n + 1]
           r == [file_system |-> file_systems_[part.prefix], part |-> part]
<1>1. /\ pc = "resolve" /\ n < Len(Parts)
      /\ UNCHANGED <<file_systems_, changes, stored, spec, placement, opened_parts,
                     filenames, files, opened, failed, result, shards, broke>>
  BY DEF Resolve, registry, input, group
<1>2. Parts' = Parts /\ Stored' = Stored
  BY <1>1, SameParts, SameFound DEF input
<1>3. /\ Parts \in Seq(SpecPart) /\ Len(Parts) \in Nat /\ n \in Nat
      /\ resolved \in Seq(ResolvedPart) /\ DOMAIN resolved = 1..n
      /\ stored \in Stores
  BY PartsFacts, LenProperties DEF OpenInv, OpenTypeOK, OpenTypes
<1>4. status = "none" /\ opened_parts = 0
  <2>1. status = "none" /\ ~ (opened_parts > 0)
    BY <1>1, <1>3 DEF OpenInv, OpenControl
  <2> QED BY <1>3, <2>1 DEF OpenInv, OpenTypeOK
<1>5. result = FlattenSeq(<<>>)
  <2> DEFINE s == [k \in 1..0 |-> Listing(InStore(resolved[k]))]
  <2>1. result = FlattenSeq(s)
    BY <1>1, <1>4 DEF OpenInv, OpenProgress, OpenedUpTo
  <2>2. s \in [1..0 -> Seq(Stored)]
    OBVIOUS
  <2> HIDE DEF s
  <2>3. s \in Seq(Seq(Stored)) /\ Len(s) = 0
    BY <2>2, FunctionIsSeq
  <2> QED BY <2>1, <2>3, EmptySeq
<1>6. OpenedUpTo(0)'
  <2> DEFINE s == [k \in 1..0 |-> Listing(InStore(resolved[k]))']
  <2>1. s \in [1..0 -> Seq(Stored)]
    OBVIOUS
  <2>2. s = <<>>
    <3> HIDE DEF s
    <3>1. s \in Seq(Seq(Stored)) /\ Len(s) = 0
      BY <2>1, FunctionIsSeq
    <3> QED BY <3>1, EmptySeq
  <2>3. result' = FlattenSeq(s)
    BY <1>1, <1>5, <2>2
  <2> QED BY <2>3 DEF OpenedUpTo
<1>7. CASE IsRegistered(part.prefix)
  <2>1. resolved' = Append(resolved, r) /\ pc' = pc /\ status' = status
    BY <1>7 DEF Resolve
  <2>2. part \in SpecPart
    <3>1. n + 1 \in 1..Len(Parts)
      BY <1>1, <1>3
    <3> QED BY <1>3, <3>1, ElementOfSeq
  <2>3. part.prefix \in KnownPrefixes /\ file_systems_[part.prefix] \in FileSystems
    BY <1>7 DEF IsRegistered, OpenInv, OpenTypeOK
  <2>4. r \in ResolvedPart
    BY <2>2, <2>3 DEF ResolvedPart
  <2>5. r.part = part /\ r.file_system \in FileSystems
    BY <2>3
  <2> HIDE DEF r, part
  <2>6. /\ resolved' \in Seq(ResolvedPart) /\ Len(resolved') = n + 1
        /\ \A k \in 1..n : resolved'[k] = resolved[k]
        /\ resolved'[n + 1] = r
    BY <1>3, <2>1, <2>4, AppendProperties
  <2>7. DOMAIN resolved' = 1..n+1
    BY <2>6, LenProperties
  <2>8. ASSUME NEW k \in DOMAIN resolved'
        PROVE  /\ resolved'[k].file_system \in FileSystems
               /\ resolved'[k].part = Parts[k]
               /\ resolved'[k].part.prefix \in KnownPrefixes
    <3>1. CASE k = n + 1
      BY <2>3, <2>5, <2>6, <3>1 DEF part
    <3>2. CASE k # n + 1
      <4>1. k \in 1..n /\ resolved'[k] = resolved[k]
        BY <1>3, <2>6, <2>7, <3>2
      <4> QED BY <1>3, <4>1 DEF OpenInv, OpenTypeOK, OpenTypes
    <3> QED BY <3>1, <3>2
  <2>9. OpenTypeOK'
    <3>1. opened_parts' \in 0..Len(resolved')
      BY <1>1, <1>3, <1>4, <2>6
    <3> QED BY <1>1, <1>2, <2>1, <2>8, <3>1 DEF OpenInv, OpenTypeOK
  <2>10. OpenTypes'
    <3>1. Len(resolved') <= Len(Parts)
      BY <1>1, <1>3, <2>6
    <3> QED BY <1>1, <1>2, <2>6, <2>8, <3>1 DEF OpenInv, OpenTypes
  <2>11. OpenControl'
    <3>1. pc' \notin FileSystems /\ opened_parts' = 0 /\ status' = "none"
      BY <1>1, <1>4, <2>1 DEF FileSystems
    <3> QED BY <3>1 DEF OpenControl
  <2>12. OpenProgress' /\ OpenSucceeded'
    BY <1>1, <1>4, <1>6, <2>1 DEF OpenProgress, OpenSucceeded, FileSystems
  <2> QED BY <2>9, <2>10, <2>11, <2>12 DEF OpenInv
<1>8. CASE ~ IsRegistered(part.prefix)
  <2>1. resolved' = resolved /\ pc' = "returned" /\ status' = "not found"
    BY <1>8 DEF Resolve, Return
  <2>2. OpenTypeOK'
    BY <1>1, <1>2, <2>1 DEF OpenInv, OpenTypeOK
  <2>3. OpenTypes'
    BY <1>1, <1>2, <2>1 DEF OpenInv, OpenTypes
  <2>4. pc' = "returned" /\ pc' \notin FileSystems /\ status' # "ok"
        /\ ~ (opened_parts' > 0)
    <3>1. pc' \notin FileSystems /\ status' # "ok"
      BY <2>1 DEF FileSystems
    <3>2. ~ (opened_parts' > 0)
      BY <1>1, <1>4
    <3> QED BY <2>1, <3>1, <3>2
  <2>5. OpenControl'
    BY <2>4 DEF OpenControl
  <2>6. OpenProgress' /\ OpenSucceeded'
    BY <2>4 DEF OpenProgress, OpenSucceeded
  <2> QED BY <2>2, <2>3, <2>5, <2>6 DEF OpenInv
<1> QED BY <1>7, <1>8

\* OpenGroup expands the names of the next group and has opened none of them.
LEMMA OpenGroupStep ==
  ASSUME OpenInv, OpenGroup
  PROVE  OpenInv'
<1>1. opened_parts \in Nat /\ Len(resolved) \in Nat
  <2>1. Len(resolved) \in Nat
    BY LenProperties DEF OpenInv, OpenTypes
  <2>2. opened_parts \in 0..Len(resolved)
    BY DEF OpenInv, OpenTypeOK
  <2> QED BY <2>1, <2>2
<1>2. PICK first \in Nat : first = opened_parts + 1
  BY <1>1
<1> DEFINE last == EndOfGroup(first)
           fs == resolved[first].file_system
           parts == PartsOf(first, last)
           canonical == IF fs = "posix" THEN CanonicaliseShardSpec(parts, stored["posix"])
                        ELSE parts
<1>3. /\ pc = "resolve" /\ Len(resolved) = Len(Parts) /\ opened_parts < Len(resolved)
      /\ filenames' = ExpandShardSpec(canonical)
      /\ files' = [k \in DOMAIN filenames' |-> <<>>]
      /\ opened_parts' = last /\ opened' = {} /\ failed' = FALSE /\ pc' = fs
      /\ UNCHANGED <<file_systems_, changes, stored, spec, placement, resolved, result,
                     shards, status, broke>>
  BY <1>2 DEF OpenGroup, registry, input
<1>4. Parts' = Parts /\ Stored' = Stored
  BY <1>3, SameParts, SameFound DEF input
<1>5. /\ resolved \in Seq(ResolvedPart) /\ stored \in Stores /\ status = "none"
      /\ opened_parts \in Nat /\ Len(resolved) \in Nat /\ OpenedUpTo(opened_parts)
  BY <1>3, LenProperties DEF OpenInv, OpenTypeOK, OpenTypes, OpenControl, OpenProgress
<1>6. first \in 1..Len(resolved)
  BY <1>3, <1>2, <1>5
<1>7. /\ last \in first..Len(resolved) /\ last \in Nat /\ last > 0 /\ first \in 1..last
      /\ fs \in FileSystems
  <2>1. last \in first..Len(resolved)
    BY <1>5, <1>6, GroupEnd
  <2>2. resolved[first] \in ResolvedPart
    BY <1>5, <1>6, ElementOfSeq
  <2> QED BY <1>5, <1>6, <2>1, <2>2 DEF ResolvedPart
<1>8. canonical \in Seq(SpecPart)
  BY <1>5, <1>6, <1>7, GroupPartsFacts, CanonicaliseType
<1>9. filenames' \in Seq(Names)
  BY <1>3, <1>8, NamesFacts
<1>10. /\ files' \in [1..Len(filenames') -> Seq(Stored)]
      /\ DOMAIN files' = DOMAIN filenames'
  <2>1. DOMAIN filenames' = 1..Len(filenames')
    BY <1>9, LenProperties
  <2>2. <<>> \in Seq(Stored)
    OBVIOUS
  <2> QED BY <1>3, <2>1, <2>2
<1>11. OpenTypeOK'
  <2>1. opened_parts' \in 0..Len(resolved')
    BY <1>3, <1>5, <1>7
  <2>2. opened' \subseteq DOMAIN filenames' /\ failed' \in BOOLEAN
    BY <1>3
  <2>3. pc' \in FileSystems
    BY <1>3, <1>7
  <2> HIDE DEF fs, last
  <2> QED BY <1>3, <1>4, <1>10, <2>1, <2>2, <2>3 DEF OpenInv, OpenTypeOK
<1>12. OpenTypes'
  BY <1>3, <1>4, <1>9, <1>10 DEF OpenInv, OpenTypes
<1>13. OpenControl' /\ OpenSucceeded'
  BY <1>3, <1>4, <1>5 DEF OpenControl, OpenSucceeded
<1>14. Opening(first)'
  <2>1. EndOfGroup(first)' = last /\ (\A n : OpenedUpTo(n)' <=> OpenedUpTo(n))
    BY <1>3, SameOpened
  <2>2. GroupParts(first)' = canonical
    BY <1>3 DEF GroupParts, PartsOf
  <2>3. first - 1 = opened_parts
    BY <1>5, <1>2
  <2>4. OpenedUpTo(first - 1)'
    BY <1>5, <2>1, <2>3
  <2> HIDE DEF last, fs, canonical
  <2>5. resolved'[first].file_system = pc'
    BY <1>3 DEF fs
  <2> QED BY <1>3, <2>1, <2>2, <2>4, <2>5 DEF Opening
<1>15. OpenProgress'
  <2>1. pc' \in FileSystems /\ pc' # "resolve"
    BY <1>3, <1>7 DEF FileSystems
  <2>2. first \in 1..opened_parts'
    BY <1>3, <1>7
  <2> QED BY <1>14, <2>1, <2>2 DEF OpenProgress
<1> QED BY <1>11, <1>12, <1>13, <1>15 DEF OpenInv

\* A task has found what there is for its name.
LEMMA TaskSucceeds ==
  ASSUME OpenInv, pc \in FileSystems, NEW k \in DOMAIN filenames, NEW found,
         IsFound(pc, filenames[k], found), Opened(k, found),
         UNCHANGED <<registry, input, pc, resolved, opened_parts, filenames, result,
                     shards, status>>
  PROVE  OpenInv'
<1>1. /\ UNCHANGED <<file_systems_, changes, stored, spec, placement, pc, resolved,
                     opened_parts, filenames, failed, result, shards, status, broke>>
      /\ files' = [files EXCEPT ![k] = found] /\ opened' = opened \cup {k}
  BY DEF registry, input, Opened
<1>2. Parts' = Parts /\ Stored' = Stored
  BY <1>1, SameParts, SameFound DEF input
<1>3. /\ stored \in Stores /\ filenames \in Seq(Names) /\ opened \subseteq DOMAIN filenames
      /\ files \in [1..Len(filenames) -> Seq(Stored)]
  BY DEF OpenInv, OpenTypeOK, OpenTypes
<1>4. DOMAIN filenames = 1..Len(filenames)
  BY <1>3, LenProperties
<1>5. found \in Seq(Stored)
  BY <1>3, FoundType
<1>6. /\ files' \in [1..Len(filenames) -> Seq(Stored)] /\ files'[k] = found
      /\ \A j \in DOMAIN filenames : j # k => files'[j] = files[j]
  BY <1>1, <1>3, <1>4, <1>5
<1>7. OpenTypeOK'
  <2>1. DOMAIN files' = DOMAIN filenames'
    BY <1>1, <1>4, <1>6
  <2>2. opened' \subseteq DOMAIN filenames'
    BY <1>1, <1>3
  <2> QED BY <1>1, <1>2, <2>1, <2>2 DEF OpenInv, OpenTypeOK
<1>8. OpenTypes'
  BY <1>1, <1>2, <1>6 DEF OpenInv, OpenTypes
<1>9. OpenControl'
  BY <1>1, <1>2 DEF OpenInv, OpenControl
<1>10. /\ \A n : OpenedUpTo(n)' <=> OpenedUpTo(n)
       /\ \A first : GroupParts(first)' = GroupParts(first)
       /\ \A first : EndOfGroup(first)' = EndOfGroup(first)
  BY <1>1, SameOpened
<1>11. ASSUME NEW first, Opening(first)
       PROVE  Opening(first)'
  <2>1. \A j \in opened' : IsFound(pc, filenames[j], files[j])'
    <3> TAKE j \in opened'
    <3>1. IsFound(pc, filenames[j], files'[j])
      <4>1. CASE j = k
        BY <1>6, <4>1
      <4>2. CASE j # k
        BY <1>1, <1>3, <1>6, <1>11, <4>2 DEF Opening
      <4> QED BY <4>1, <4>2
    <3> QED BY <1>1, <3>1, SameFound
  <2> QED BY <1>1, <1>10, <1>11, <2>1 DEF Opening
<1>12. OpenProgress'
  <2>1. pc' \in FileSystems /\ pc' # "resolve"
    BY <1>1 DEF FileSystems
  <2>2. PICK first \in 1..opened_parts : Opening(first)
    BY DEF OpenInv, OpenProgress
  <2>3. Opening(first)' /\ first \in 1..opened_parts'
    BY <1>1, <1>11, <2>2
  <2> QED BY <2>1, <2>3 DEF OpenProgress
<1>13. OpenSucceeded'
  <2>1. status' # "ok"
    BY <1>1 DEF OpenInv, OpenControl, FileSystems
  <2> QED BY <2>1 DEF OpenSucceeded
<1> QED BY <1>7, <1>8, <1>9, <1>12, <1>13 DEF OpenInv

\* A task that fails leaves what the others have opened.
LEMMA TaskFailsStep ==
  ASSUME OpenInv, NEW was_there \in BOOLEAN, TaskFails(was_there),
         UNCHANGED <<registry, input, pc, resolved, opened_parts, filenames, result,
                     shards, status>>
  PROVE  OpenInv'
<1>1. /\ UNCHANGED <<file_systems_, changes, input, pc, resolved, opened_parts, filenames,
                     files, opened, result, shards, status>>
      /\ failed' = TRUE /\ broke' = (broke \/ was_there)
  BY DEF registry, TaskFails
<1>2. /\ file_systems_ \in [KnownPrefixes -> FileSystems \cup {NoFileSystem}]
      /\ changes \in 0..MaxChanges /\ broke \in BOOLEAN
  BY DEF OpenInv, OpenTypeOK
<1>3. failed' \in BOOLEAN /\ broke' \in BOOLEAN
  BY <1>1, <1>2
<1> QED BY <1>1, <1>2, <1>3, QuietStep

\* The tasks of ParallelDo, in whatever order they finish.
LEMMA TaskStep ==
  ASSUME OpenInv, NEW k \in DOMAIN filenames,
         OpenPRead(k) \/ ListObjects(k) \/ OpenFails(k)
  PROVE  OpenInv'
<1>1. CASE OpenPRead(k)
  <2>1. CASE filenames[k] \in stored["posix"]
    <3>1. pc \in FileSystems /\ IsFound(pc, filenames[k], <<filenames[k]>>)
      BY <1>1, <2>1 DEF OpenPRead, FileSystems, IsFound
    <3>2. /\ Opened(k, <<filenames[k]>>)
          /\ UNCHANGED <<registry, input, pc, resolved, opened_parts, filenames, result,
                         shards, status>>
      BY <1>1, <2>1 DEF OpenPRead
    <3> QED BY <3>1, <3>2, TaskSucceeds
  <2>2. CASE filenames[k] \notin stored["posix"]
    BY <1>1, <2>2, TaskFailsStep DEF OpenPRead
  <2> QED BY <2>1, <2>2
<1>2. CASE ListObjects(k)
  <2>1. /\ pc = "gcs"
        /\ UNCHANGED <<registry, input, pc, resolved, opened_parts, filenames, result,
                       shards, status>>
    BY <1>2 DEF ListObjects
  <2>2. PICK listing \in SetToSeqs(Matches(filenames[k], stored["gcs"])) :
          IF IsListed(listing) THEN Opened(k, listing) ELSE TaskFails(TRUE)
    BY <1>2 DEF ListObjects
  <2>3. CASE IsListed(listing)
    <3>1. pc \in FileSystems /\ IsFound(pc, filenames[k], listing)
      BY <2>1, <2>2, <2>3 DEF FileSystems, IsFound, IsListingOf
    <3> QED BY <2>1, <2>2, <2>3, <3>1, TaskSucceeds
  <2>4. CASE ~ IsListed(listing)
    BY <2>1, <2>2, <2>4, TaskFailsStep
  <2> QED BY <2>3, <2>4
<1>3. CASE OpenFails(k)
  BY <1>3, TaskFailsStep DEF OpenFails
<1> QED BY <1>1, <1>2, <1>3

\* GroupOpened adds the files of the group to those of the groups before it.
LEMMA GroupOpenedStep ==
  ASSUME OpenInv, GroupOpened
  PROVE  OpenInv'
<1>1. /\ pc \in FileSystems /\ opened = DOMAIN filenames
      /\ result' = result \o FlattenSeq(files) /\ pc' = "resolve"
      /\ UNCHANGED <<file_systems_, changes, stored, spec, placement, resolved,
                     opened_parts, filenames, files, opened, failed, shards, status, broke>>
  BY DEF GroupOpened, registry, input, group
<1>2. Parts' = Parts /\ Stored' = Stored
  BY <1>1, SameParts, SameFound DEF input
<1>3. PICK first \in 1..opened_parts : Opening(first)
  BY <1>1 DEF OpenInv, OpenProgress
<1>4. /\ stored \in Stores /\ resolved \in Seq(ResolvedPart) /\ filenames \in Seq(Names)
      /\ files \in [1..Len(filenames) -> Seq(Stored)] /\ opened_parts \in 0..Len(resolved)
      /\ status = "none" /\ Len(resolved) = Len(Parts) /\ Len(resolved) \in Nat
  <2>1. pc # "returned"
    BY <1>1 DEF FileSystems
  <2> QED BY <1>1, <2>1, LenProperties
          DEF OpenInv, OpenTypeOK, OpenTypes, OpenControl
<1>5. /\ first \in 1..Len(resolved) /\ opened_parts \in first..Len(resolved)
      /\ DOMAIN filenames = 1..Len(filenames)
  BY <1>3, <1>4, LenProperties
<1>6. /\ opened_parts = EndOfGroup(first) /\ pc = resolved[first].file_system
      /\ filenames = ExpandShardSpec(GroupParts(first)) /\ OpenedUpTo(first - 1)
      /\ \A i \in 1..Len(filenames) : IsFound(pc, filenames[i], files[i])
  BY <1>1, <1>3, <1>5 DEF Opening
<1>7. /\ \A k \in first..opened_parts : WellOpened(k)
      /\ FlattenSeq(files) = FlattenSeq([k \in 1..opened_parts-first+1 |->
                               Listing(InStore(resolved[first + k - 1]))])
  BY <1>4, <1>5, <1>6, GroupFound
<1>8. /\ \A k \in 1..opened_parts : WellOpened(k)
      /\ result' = FlattenSeq([k \in 1..opened_parts |-> Listing(InStore(resolved[k]))])
      /\ result' \in Seq(Stored)
  BY <1>1, <1>4, <1>5, <1>6, <1>7, ResultGrows
<1>9. OpenTypes'
  BY <1>1, <1>2, <1>8 DEF OpenInv, OpenTypes
<1>10. OpenTypeOK'
  <2>1. \A i \in DOMAIN result' : \E fs \in FileSystems : result'[i] \in stored'[fs]
    <3> TAKE i \in DOMAIN result'
    <3>1. result'[i] \in Stored
      BY <1>8, LenProperties, ElementOfSeq
    <3> QED BY <1>1, <3>1 DEF Stored, FileSystems
  <2> QED BY <1>1, <1>2, <2>1 DEF OpenInv, OpenTypeOK
<1>11. OpenControl'
  BY <1>1, <1>2, <1>4 DEF OpenControl
<1>12. OpenProgress'
  <2>1. \A k : WellOpened(k)' <=> WellOpened(k)
    BY <1>1, SameOpened
  <2>2. \A k : InStore(resolved[k])' = InStore(resolved[k])
    BY <1>1, SameFiles
  <2>3. OpenedUpTo(opened_parts)'
    BY <1>1, <1>8, <2>1, <2>2 DEF OpenedUpTo
  <2> QED BY <1>1, <2>3 DEF OpenProgress, FileSystems
<1>13. OpenSucceeded'
  BY <1>1, <1>4 DEF OpenSucceeded
<1> QED BY <1>9, <1>10, <1>11, <1>12, <1>13 DEF OpenInv

\* A call that fails returns no files.
LEMMA GroupFailsStep ==
  ASSUME OpenInv, GroupFails
  PROVE  OpenInv'
<1>1. /\ pc \in FileSystems /\ pc' = "returned" /\ status' = "error"
      /\ UNCHANGED <<file_systems_, changes, stored, spec, placement, resolved,
                     opened_parts, filenames, files, opened, failed, result, shards, broke>>
  BY DEF GroupFails, Return, registry, input, group
<1>2. Parts' = Parts /\ Stored' = Stored
  BY <1>1, SameParts, SameFound DEF input
<1>3. OpenTypeOK'
  BY <1>1, <1>2 DEF OpenInv, OpenTypeOK
<1>4. OpenTypes'
  BY <1>1, <1>2 DEF OpenInv, OpenTypes
<1>5. OpenControl' /\ OpenProgress' /\ OpenSucceeded'
  BY <1>1, <1>2 DEF OpenInv, OpenControl, OpenProgress, OpenSucceeded, FileSystems
<1> QED BY <1>3, <1>4, <1>5 DEF OpenInv

\* All groups have been opened, and the call returns.
LEMMA ReturnStep ==
  ASSUME OpenInv, AllOpened, pc' = "returned",
         UNCHANGED <<registry, input, resolved, opened_parts, group, result>>,
         status' \in {"ok", "error", "invalid"}, broke' \in BOOLEAN,
         status' = "ok" /\ placement = "separate" =>
           2 * NumFiles = Len(result) /\ shards' = PairUp
  PROVE  OpenInv'
<1>1. /\ pc = "resolve" /\ Len(resolved) = Len(Parts) /\ opened_parts = Len(resolved)
      /\ UNCHANGED <<file_systems_, changes, stored, spec, placement, resolved,
                     opened_parts, filenames, files, opened, failed, result>>
  BY DEF AllOpened, registry, input, group
<1>2. Parts' = Parts /\ Stored' = Stored
  BY <1>1, SameParts, SameFound DEF input
<1>3. OpenTypeOK'
  <2>1. /\ status' \in {"none", "ok", "not found", "error", "invalid"}
        /\ pc' \in FileSystems \cup {"resolve", "returned"} /\ broke' \in BOOLEAN
    OBVIOUS
  <2> QED BY <1>1, <1>2, <2>1 DEF OpenInv, OpenTypeOK
<1>4. OpenTypes'
  BY <1>1, <1>2 DEF OpenInv, OpenTypes
<1>5. OpenControl' /\ OpenProgress'
  BY <1>1, <1>2 DEF OpenControl, OpenProgress, FileSystems
<1>6. OpenedUpTo(opened_parts)'
  <2>1. OpenedUpTo(opened_parts)
    BY <1>1 DEF OpenInv, OpenProgress
  <2>2. \A n : OpenedUpTo(n)' <=> OpenedUpTo(n)
    BY <1>1, SameOpened
  <2> QED BY <1>1, <2>1, <2>2
<1>7. NumFiles' = NumFiles /\ PairUp' = PairUp
  BY <1>1 DEF NumFiles, PairUp
<1>8. OpenSucceeded'
  BY <1>1, <1>6, <1>7 DEF OpenSucceeded
<1> QED BY <1>3, <1>4, <1>5, <1>8 DEF OpenInv

\* Every step keeps the invariant.
LEMMA OpenPreserved ==
  ASSUME OpenInv, [OpenNext]_openVars
  PROVE  OpenInv'
<1>1. CASE OtherThread
  BY <1>1, RegistrySteps
<1>2. CASE Resolve
  BY <1>2, ResolveStep
<1>3. CASE OpenGroup
  BY <1>3, OpenGroupStep
<1>4. ASSUME NEW k \in DOMAIN filenames, OpenPRead(k) \/ ListObjects(k) \/ OpenFails(k)
      PROVE  OpenInv'
  BY <1>4, TaskStep
<1>5. CASE GroupOpened
  BY <1>5, GroupOpenedStep
<1>6. CASE GroupFails
  BY <1>6, GroupFailsStep
<1>7. CASE OpenWithTails
  <2>1. /\ AllOpened /\ placement = "tail" /\ pc' = "returned" /\ status' = "ok"
        /\ UNCHANGED <<registry, input, resolved, opened_parts, group, result>>
        /\ broke' = broke
    BY <1>7 DEF OpenWithTails, Return
  <2>2. broke' \in BOOLEAN
    BY <2>1 DEF OpenInv, OpenTypeOK
  <2> QED BY <2>1, <2>2, ReturnStep
<1>8. CASE SplitFails
  <2>1. /\ AllOpened /\ pc' = "returned" /\ status' = "error" /\ broke' = TRUE
        /\ UNCHANGED <<registry, input, resolved, opened_parts, group, result>>
    BY <1>8 DEF SplitFails, Return
  <2> QED BY <2>1, ReturnStep
<1>9. CASE OpenWithLimits
  <2>1. /\ AllOpened /\ placement = "separate" /\ broke' = broke
        /\ UNCHANGED <<registry, input, resolved, opened_parts, group, result>>
    BY <1>9 DEF OpenWithLimits
  <2>2. broke' \in BOOLEAN
    BY <2>1 DEF OpenInv, OpenTypeOK
  <2>3. CASE 2 * NumFiles = Len(result)
    <3>1. shards' = PairUp /\ pc' = "returned" /\ status' = "ok"
      BY <1>9, <2>3 DEF OpenWithLimits, Return
    <3> QED BY <2>1, <2>2, <2>3, <3>1, ReturnStep
  <2>4. CASE ~ (2 * NumFiles = Len(result))
    <3>1. pc' = "returned" /\ status' = "invalid"
      BY <1>9, <2>4 DEF OpenWithLimits, Return
    <3> QED BY <2>1, <2>2, <3>1, ReturnStep
  <2> QED BY <2>3, <2>4
<1>10. CASE UNCHANGED openVars
  <2>1. /\ UNCHANGED <<input, pc, resolved, opened_parts, filenames, files, opened, result,
                       shards, status>>
        /\ UNCHANGED <<file_systems_, changes, failed, broke>>
    BY <1>10 DEF openVars, registry, group
  <2>2. /\ file_systems_' \in [KnownPrefixes -> FileSystems \cup {NoFileSystem}]
        /\ changes' \in 0..MaxChanges /\ failed' \in BOOLEAN /\ broke' \in BOOLEAN
    BY <2>1 DEF OpenInv, OpenTypeOK
  <2> QED BY <2>1, <2>2, QuietStep
<1> QED BY <1>1, <1>2, <1>3, <1>4, <1>5, <1>6, <1>7, <1>8, <1>9, <1>10
        DEF OpenNext, Returned

\* BulkOpenPRead, at each moment of the call: the parts before the group that is
\* being opened have all their files in the result in order, and in the group
\* each task that has finished has found what there is for its name.
THEOREM OpenInvariant == OpenSpec => []OpenInv
<1>1. OpenInit => OpenInv
  BY OpenStarts
<1>2. OpenInv /\ [OpenNext]_openVars => OpenInv'
  BY OpenPreserved
<1> QED BY <1>1, <1>2, PTL DEF OpenSpec

\* FileSystemRegistry::Resolve and BulkOpenPRead: whatever is unregistered, the
\* parts are resolved in their order, each to a file system that exists, and each
\* file of the result is stored in one of them.
THEOREM OpenTypeCorrect == OpenSpec => []OpenTypeOK
<1>1. OpenInv => OpenTypeOK
  BY DEF OpenInv
<1> QED BY <1>1, OpenInvariant, PTL

\* A task that has failed, and the call that it makes fail, have a cause.
CauseInv ==
  /\ failed /\ pc \in FileSystems => broke \/ PosixLacksFile
  /\ status = "error" => broke \/ PosixLacksFile

\* The last part of the group that is being opened is in its file system.
LEMMA GroupIsOf ==
  ASSUME OpenInv, pc \in FileSystems
  PROVE  resolved[opened_parts].file_system = pc
<1>1. PICK first \in 1..opened_parts : Opening(first)
  BY DEF OpenInv, OpenProgress
<1>2. /\ opened_parts \in 0..Len(resolved) /\ Len(resolved) \in Nat
      /\ resolved[first].file_system = pc /\ opened_parts = EndOfGroup(first)
  BY <1>1, LenProperties DEF Opening, OpenInv, OpenTypeOK, OpenTypes
<1>3. first \in 1..Len(resolved)
  BY <1>2
<1>4. /\ EndOfGroup(first) \in first..Len(resolved)
      /\ \A j \in first..EndOfGroup(first) :
           resolved[j].file_system = resolved[first].file_system
  <2>1. resolved \in Seq(ResolvedPart)
    BY DEF OpenInv, OpenTypes
  <2> QED BY <1>3, <2>1, GroupEnd
<1>5. opened_parts \in first..opened_parts
  BY <1>2, <1>3, <1>4
<1> QED BY <1>2, <1>4, <1>5

\* Only tasks of POSIX that find no file fail without a failure.
LEMMA CausePreserved ==
  ASSUME OpenInv, CauseInv, [OpenNext]_openVars
  PROVE  CauseInv'
<1>1. pc # "returned" => status = "none"
  BY DEF OpenInv, OpenControl
<1>2. CASE OtherThread
  BY <1>2 DEF OtherThread, Register, Unregister, input, group, CauseInv, PosixLacksFile
<1>3. CASE Resolve
  BY <1>1, <1>3 DEF Resolve, Return, CauseInv, FileSystems
<1>4. CASE OpenGroup
  <2>1. pc = "resolve" /\ failed' = FALSE /\ UNCHANGED status
    BY <1>4 DEF OpenGroup
  <2>2. status' # "error"
    BY <1>1, <2>1
  <2> QED BY <2>1, <2>2 DEF CauseInv
<1>5. ASSUME NEW k \in DOMAIN filenames, OpenPRead(k) \/ ListObjects(k) \/ OpenFails(k)
      PROVE  CauseInv'
  <2>1. /\ pc \in FileSystems
        /\ UNCHANGED <<stored, pc, resolved, opened_parts, filenames, status>>
    BY <1>5 DEF OpenPRead, ListObjects, OpenFails, input, FileSystems
  <2>2. status' = "none"
    BY <1>1, <2>1 DEF FileSystems
  <2>3. CASE failed' = failed /\ broke' = broke
    BY <2>1, <2>2, <2>3 DEF CauseInv, PosixLacksFile
  <2>4. CASE broke' = TRUE
    BY <2>2, <2>4 DEF CauseInv
  <2>5. CASE pc = "posix" /\ filenames[k] \notin stored["posix"]
    <3>1. resolved[opened_parts].file_system = "posix"
      BY <2>1, <2>5, GroupIsOf
    <3>2. PosixLacksFile'
      BY <2>1, <2>5, <3>1 DEF PosixLacksFile
    <3> QED BY <2>2, <3>2 DEF CauseInv
  <2> QED
    BY <1>5, <2>3, <2>4, <2>5
    DEF OpenPRead, ListObjects, OpenFails, Opened, TaskFails
<1>6. CASE GroupOpened
  BY <1>1, <1>6 DEF GroupOpened, CauseInv, FileSystems
<1>7. CASE GroupFails
  BY <1>7 DEF GroupFails, Return, input, group, CauseInv, PosixLacksFile, FileSystems
<1>8. CASE OpenWithTails \/ OpenWithLimits
  BY <1>1, <1>8 DEF OpenWithTails, OpenWithLimits, Return, CauseInv, FileSystems
<1>9. CASE SplitFails
  BY <1>9 DEF SplitFails, Return, CauseInv
<1>10. CASE UNCHANGED openVars
  BY <1>10 DEF openVars, input, group, CauseInv, PosixLacksFile
<1> QED BY <1>2, <1>3, <1>4, <1>5, <1>6, <1>7, <1>8, <1>9, <1>10
        DEF OpenNext, Returned

\* What has succeeded has opened the parts up to the last, and what has failed has
\* a cause.
LEMMA InvInOrder ==
  ASSUME OpenInv, CauseInv
  PROVE  OkInOrder
<1> SUFFICES ASSUME status = "ok"
             PROVE  /\ result = FlattenSeq([k \in DOMAIN resolved |->
                                  Listing(InStore(resolved[k]))])
                    /\ \A k \in DOMAIN resolved : resolved[k].file_system = "posix" =>
                         Cardinality(InStore(resolved[k])) = NumberOf(resolved[k])
  BY DEF OkInOrder, CauseInv
<1>1. /\ resolved \in Seq(ResolvedPart) /\ stored \in Stores
      /\ opened_parts = Len(resolved) /\ OpenedUpTo(opened_parts)
  BY DEF OpenInv, OpenTypeOK, OpenTypes, OpenSucceeded
<1>2. DOMAIN resolved = 1..opened_parts
  BY <1>1, LenProperties
<1>3. result = FlattenSeq([k \in DOMAIN resolved |-> Listing(InStore(resolved[k]))])
  BY <1>1, <1>2 DEF OpenedUpTo
<1>4. ASSUME NEW k \in DOMAIN resolved, resolved[k].file_system = "posix"
      PROVE  Cardinality(InStore(resolved[k])) = NumberOf(resolved[k])
  <2>1. resolved[k] \in ResolvedPart
    BY <1>1, <1>2, ElementOfSeq
  <2>2. AllThere(resolved[k])
    BY <1>1, <1>2 DEF OpenedUpTo, WellOpened
  <2> QED BY <1>1, <1>4, <2>1, <2>2, AllListed
<1> QED BY <1>3, <1>4

\* A call of BulkOpenPRead that succeeds returns the files of its parts in the
\* order of the parts and of the shards' numbers, on POSIX all of them and on GCS
\* those that exist: whatever the specs, the files, the order in which tasks
\* finish, and what is registered and unregistered meanwhile.  That an object is
\* missing is never a cause of an error.
THEOREM OpensInOrder == OpenSpec => []OkInOrder
<1>1. OpenInit => CauseInv
  BY DEF OpenInit, CauseInv
<1>2. OpenInv /\ CauseInv /\ [OpenNext]_openVars => CauseInv'
  BY CausePreserved
<1>3. OpenInv /\ CauseInv => OkInOrder
  BY InvInOrder
<1> QED BY <1>1, <1>2, <1>3, OpenInvariant, PTL DEF OpenSpec

\* A bag of one part has two parts of files, of records and of limits.
LEMMA InvOwnLimits ==
  ASSUME OpenInv
  PROVE  OwnLimits
<1> SUFFICES ASSUME status = "ok", placement = "separate", Len(spec) = 1,
                    \A k \in DOMAIN resolved :
                      /\ resolved[k].file_system = resolved[1].file_system
                      /\ resolved[k].file_system = "gcs" => NoOrphans("gcs")
             PROVE  LimitsAreOwn
  BY DEF OwnLimits
<1>1. /\ resolved \in Seq(ResolvedPart) /\ stored \in Stores /\ spec \in Specs
      /\ opened_parts = Len(resolved) /\ OpenedUpTo(opened_parts)
      /\ Len(resolved) = Len(Parts)
      /\ 2 * NumFiles = Len(result) /\ shards = PairUp
      /\ \A k \in DOMAIN resolved : /\ resolved[k].part = Parts[k]
                                    /\ resolved[k].part.prefix \in KnownPrefixes
  BY DEF OpenInv, OpenTypeOK, OpenTypes, OpenControl, OpenSucceeded
<1>2. /\ Len(Parts) = 2 /\ Parts[1] \in SpecPart /\ ~ Parts[1].limits
      /\ \/ Parts[2] = [Parts[1] EXCEPT !.limits = TRUE]
         \/ Parts[2].prefix = "limits."
  BY <1>1, TwoParts
<1>3. Len(resolved) = 2 /\ opened_parts = 2 /\ DOMAIN resolved = 1..2
  BY <1>1, <1>2, LenProperties
<1> DEFINE r == resolved[1]
           l == resolved[2]
           s == Listing(InStore(r))
           t == Listing(InStore(l))
<1>4. /\ r \in ResolvedPart /\ l \in ResolvedPart /\ r.part = Parts[1] /\ l.part = Parts[2]
      /\ l.part.prefix \in KnownPrefixes
  <2>1. 1 \in DOMAIN resolved /\ 2 \in DOMAIN resolved
    BY <1>3
  <2>2. r \in ResolvedPart /\ l \in ResolvedPart
    <3>1. \A k \in 1..2 : resolved[k] \in ResolvedPart
      BY <1>1, <1>3, ElementOfSeq
    <3> QED BY <3>1
  <2>3. /\ r.part = Parts[1] /\ l.part = Parts[2]
        /\ l.part.prefix \in KnownPrefixes
    BY <1>1, <2>1
  <2> QED BY <2>2, <2>3
<1>5. ~ r.part.limits /\ l.part = [r.part EXCEPT !.limits = TRUE]
  BY <1>2, <1>4, PrefixesAssumption
<1>6. /\ r.file_system = l.file_system
      /\ r.file_system = "gcs" => NoOrphans("gcs")
  BY <1>3
<1>7. WellOpened(1) /\ WellOpened(2) /\ result = FlattenSeq([k \in 1..2 |->
                                                   Listing(InStore(resolved[k]))])
  BY <1>1, <1>3 DEF OpenedUpTo
<1>8. /\ AllThere(r) /\ AllThere(l) /\ IsListingOf(s, InStore(r))
      /\ IsListingOf(t, InStore(l))
  BY <1>7 DEF WellOpened
<1>9. r.file_system = "posix" => r.part.shards # Star
  <2>1. IsAlone(1) /\ 1 + 1 = 2 /\ 2 \in DOMAIN resolved
    BY <1>3, <1>7 DEF WellOpened
  <2> QED BY <1>6, <2>1 DEF IsAlone
<1>10. s \in Seq(Stored) /\ t \in Seq(Stored)
  BY <1>1, <1>4, <1>8, ListingType
<1>11. [k \in 1..2 |-> Listing(InStore(resolved[k]))] = <<s>> \o <<t>>
  <2>1. /\ \A k \in 1..2 : k = 1 \/ k = 2
        /\ [k \in 1..2 |-> Listing(InStore(resolved[k]))] = <<s, t>>
    OBVIOUS
  <2> HIDE DEF s, t
  <2>2. <<s, t>> = <<s>> \o <<t>>
    BY PairOf
  <2> QED BY <2>1, <2>2
<1> HIDE DEF r, l
<1>12. Len(s) \in Nat /\ Len(t) = Len(s) /\ \A i \in 1..Len(s) : t[i] = OfLimits(s[i])
  <2>1. s = Listing(InStore(r)) /\ t = Listing(InStore(l))
    OBVIOUS
  <2> HIDE DEF s, t
  <2> QED BY <1>1, <1>4, <1>5, <1>6, <1>8, <1>9, <2>1, LimitsFollow
<1> HIDE DEF s, t
<1>13. result = s \o t
  <2>1. <<s>> \in Seq(Seq(Stored)) /\ <<t>> \in Seq(Seq(Stored))
    BY <1>10
  <2>2. FlattenSeq(<<s>> \o <<t>>) = FlattenSeq(<<s>>) \o FlattenSeq(<<t>>)
    BY <2>1, FlattenConcat
  <2>3. FlattenSeq(<<s>>) = s /\ FlattenSeq(<<t>>) = t
    BY <1>10, FlattenOne
  <2> QED BY <1>7, <1>11, <2>2, <2>3
<1> QED BY <1>1, <1>10, <1>12, <1>13, HalvesFit

\* BagzReader::Open with separate limits reads the shards of a bag of one part
\* with their own limits, if both are found in one file system, of which GCS
\* lacks no half of a pair.
THEOREM OpensOwnLimits == OpenSpec => []OwnLimits
<1>1. OpenInv => OwnLimits
  BY InvOwnLimits
<1> QED BY <1>1, OpenInvariant, PTL
=============================================================================
