--------------------------- MODULE BagzReaderProof ---------------------------
(***************************************************************************)
(* Proofs about BagzReader for any shards, layouts, arguments and size_t.  *)
(*                                                                         *)
(* The first part: slices of slices stand for what they say, and reads     *)
(* answer exactly if what they ask for lies in the slice.  The arithmetic  *)
(* is that of remainders: a sum may wrap at every slice, as long as the    *)
(* record that it stands for is in the bag.                                *)
(*                                                                         *)
(* The second part: a call plans tasks whose records fill its results, one *)
(* each, in whatever order the tasks run (Plan), so that no two of them    *)
(* write one result, and what is written is what the call asks for.  This  *)
(* rests on where the shards' records lie in the bag: added up, found by   *)
(* lower_bound or divided by the number of shards, split into ranges,      *)
(* sorted and merged into ranges again.                                    *)
(***************************************************************************)
EXTENDS BagzReader, FiniteSetTheorems, WellFoundedInduction, TLAPS

-----------------------------------------------------------------------------
(* Remainders *)

\* Remainder and quotient.
LEMMA ModRange ==
  ASSUME NEW M \in Nat \ {0}, NEW x \in Int
  PROVE  x % M \in 0..M-1 /\ x = (x \div M) * M + (x % M) /\ x \div M \in Int
OBVIOUS

\* Two remainders that differ by a multiple are one.
LEMMA ModUnique ==
  ASSUME NEW M \in Nat \ {0}, NEW x \in 0..M-1, NEW y \in 0..M-1, NEW k \in Int,
         x = y + k * M
  PROVE  x = y
<1>1. CASE k = 0
  BY <1>1
<1>2. CASE k >= 1
  <2>1. k * M >= M
    BY <1>2
  <2>2. QED
    BY <2>1
<1>3. CASE k <= -1
  <2>1. k * M <= -M
    BY <1>3
  <2>2. QED
    BY <2>1
<1>4. QED
  BY <1>1, <1>2, <1>3

\* Numbers that differ by a multiple have one remainder.
LEMMA ModSame ==
  ASSUME NEW M \in Nat \ {0}, NEW x \in Int, NEW y \in Int, NEW k \in Int,
         x = y + k * M
  PROVE  x % M = y % M
<1> DEFINE p == x \div M
           q == y \div M
           a == x % M
           b == y % M
           j == q + k - p
<1>1. p \in Int /\ q \in Int /\ a \in 0..M-1 /\ b \in 0..M-1
      /\ x = p * M + a /\ y = q * M + b
  BY ModRange
<1>2. j \in Int
  BY <1>1
<1> HIDE DEF p, q, a, b
<1>3. a = b + j * M
  BY <1>1
<1> HIDE DEF j
<1>4. a = b
  BY <1>1, <1>2, <1>3, ModUnique
<1>5. QED
  BY <1>4 DEF a, b

\* A number below the modulus is its own remainder.
LEMMA ModSmall ==
  ASSUME NEW M \in Nat \ {0}, NEW x \in 0..M-1
  PROVE  x % M = x
OBVIOUS

\* A remainder differs from the number by a multiple.
LEMMA ModSplit ==
  ASSUME NEW M \in Nat \ {0}, NEW x \in Int
  PROVE  \E k \in Int : x % M = x - k * M
<1> DEFINE p == x \div M
           a == x % M
<1>1. p \in Int /\ a \in Int /\ x = p * M + a
  BY ModRange
<1> HIDE DEF p, a
<1>2. a = x - p * M
  BY <1>1
<1>3. QED
  BY <1>1, <1>2 DEF a

\* The numbers that size_t and int64_t keep of a sum or product.
LEMMA Kept ==
  ASSUME NEW x \in Int
  PROVE  /\ Size(x) \in 0..SizeModulus-1
         /\ \E k \in Int : Size(x) = x - k * SizeModulus
         /\ Int64(x) \in Int
         /\ \E k \in Int : Int64(x) = x - k * SizeModulus
<1> DEFINE h == SizeModulus \div 2
<1>1. SizeModulus \in Nat \ {0} /\ h \in Int
  BY SizeModulusAssumption
<1>2. Size(x) \in 0..SizeModulus-1
  BY <1>1, ModRange DEF Size
<1>3. \E k \in Int : Size(x) = x - k * SizeModulus
  BY <1>1, ModSplit DEF Size
<1> DEFINE y == x + h
<1> HIDE DEF h
<1>4. y \in Int
  BY <1>1
<1>5. Int64(x) = (y % SizeModulus) - h
  BY DEF Int64, h
<1> HIDE DEF y
<1>6. \E k \in Int : Int64(x) = x - k * SizeModulus
  <2>1. PICK k \in Int : y % SizeModulus = y - k * SizeModulus
    BY <1>1, <1>4, ModSplit
  <2>2. y - h = x
    BY <1>1 DEF y
  <2>3. Int64(x) = x - k * SizeModulus
    BY <1>1, <1>4, <1>5, <2>1, <2>2
  <2>4. QED
    BY <2>3
<1>7. Int64(x) \in Int
  BY <1>1, <1>6
<1>8. QED
  BY <1>2, <1>3, <1>6, <1>7

-----------------------------------------------------------------------------
(* The invariant *)

\* The bag, and what the slice stands for.
SliceInv ==
  /\ sizes \in ShardSizes
  /\ slice \in [start: 0..SizeModulus-1, step: Int, length: 0..SizeModulus-1]
  /\ view \in [1..slice.length -> 0..Total-1]
  /\ \A i \in 0..slice.length-1 : Global(i) = view[i + 1]

\* A read that has begun asks for what is in the view, except by indices, and
\* has no status yet.
AnswerInv ==
  /\ pc \in {"open", "idle", "reading"} => status = "none"
  /\ pc = "reading" /\ op \notin {"indices", "handle"} => InView
  /\ AnswersFitView

\* The inductive invariant of the view and of the answers.
IInv == SliceInv /\ AnswerInv

\* size_t counts the records of the bag.
LEMMA TotalType ==
  ASSUME sizes \in ShardSizes
  PROVE  Total \in 0..SizeModulus-1
BY SizesFitAssumption DEF Total, AccumulatedCount

\* What the invariant says of a position in the view.
LEMMA ViewFacts ==
  ASSUME SliceInv
  PROVE  /\ Len(view) = slice.length
         /\ slice.start \in Nat /\ slice.step \in Int
         /\ slice.length \in 0..SizeModulus-1 /\ SizeModulus \in Nat \ {0}
         /\ Total \in Nat
         /\ \A i \in 0..slice.length-1 :
              /\ At(view, i) = view[i + 1]
              /\ Global(i) = view[i + 1]
              /\ view[i + 1] \in 0..Total-1
<1>1. Total \in Nat
  BY TotalType DEF SliceInv
<1>2. slice.start \in Nat /\ slice.step \in Int
      /\ slice.length \in 0..SizeModulus-1 /\ SizeModulus \in Nat \ {0}
  BY SizeModulusAssumption DEF SliceInv
<1>3. Len(view) = slice.length
  BY <1>1, <1>2 DEF SliceInv
<1>4. ASSUME NEW i \in 0..slice.length-1
      PROVE  /\ At(view, i) = view[i + 1]
             /\ Global(i) = view[i + 1]
             /\ view[i + 1] \in 0..Total-1
  <2>1. i + 1 \in 1..slice.length
    BY <1>2
  <2>2. QED
    BY <2>1, <1>1 DEF SliceInv, At
<1>5. QED
  BY <1>1, <1>2, <1>3, <1>4

\* Before OpenFiles.
LEMMA InitInv == Init => IInv
<1> SUFFICES ASSUME Init
             PROVE  IInv
  OBVIOUS
<1>1. SliceInv
  BY SizeModulusAssumption DEF Init, SliceInv, FullView
<1>2. AnswerInv
  BY DEF Init, AnswerInv, AnswersFitView
<1>3. QED
  BY <1>1, <1>2 DEF IInv

-----------------------------------------------------------------------------
(* Opening and slicing *)

\* OpenFiles: the view is the bag.
LEMMA OpenFilesInv == SliceInv /\ OpenFiles => SliceInv'
<1> SUFFICES ASSUME SliceInv, OpenFiles
             PROVE  SliceInv'
  OBVIOUS
<1>1. Total \in 0..SizeModulus-1 /\ SizeModulus \in Nat \ {0}
  BY TotalType, SizeModulusAssumption DEF SliceInv
<1>2. sizes' = sizes /\ Total' = Total
  BY DEF OpenFiles, Total, AccumulatedCount
<1>3. slice' = [start |-> 0, step |-> 1, length |-> Total]
      /\ view' = [k \in 1..Total |-> k - 1]
  BY DEF OpenFiles, FullView
<1>4. slice' \in [start: 0..SizeModulus-1, step: Int, length: 0..SizeModulus-1]
  BY <1>1, <1>3
<1>5. view' \in [1..slice'.length -> 0..Total'-1]
  BY <1>1, <1>2, <1>3
<1>6. ASSUME NEW i \in 0..slice'.length-1
      PROVE  Global(i)' = view'[i + 1]
  <2>1. i \in 0..SizeModulus-1 /\ i + 1 \in 1..Total /\ i \in Int
    BY <1>1, <1>3
  <2>2. Global(i)' = Size(0 + i * 1)
    BY <1>3 DEF Global, GlobalIndex
  <2>3. 0 + i * 1 = i
    BY <2>1
  <2>4. Size(i) = i
    BY <2>1, <1>1, ModSmall DEF Size
  <2>5. view'[i + 1] = i
    BY <2>1, <1>3
  <2>6. QED
    BY <2>2, <2>3, <2>4, <2>5
<1>7. QED
  BY <1>2, <1>4, <1>5, <1>6 DEF SliceInv

\* What Slice accepts lies in the view: no sum of its arguments wraps.
LEMMA FitsInView ==
  ASSUME NEW v, v.length \in Nat,
         NEW start \in SliceStarts, NEW step \in SliceSteps \ {0},
         NEW length \in SliceLengths,
         NEW i \in 0..length-1
  PROVE  SliceFits(v, start, step, length) => start + step * i \in 0..v.length-1
<1> SUFFICES ASSUME SliceFits(v, start, step, length)
             PROVE  start + step * i \in 0..v.length-1
  OBVIOUS
<1>1. /\ SizeModulus \in Nat \ {0}
      /\ start \in 0..SizeModulus-1 /\ step \in Int \ {0}
      /\ length \in 1..SizeModulus-1 /\ i \in 0..length-1
  BY SizeModulusAssumption, ArgumentsAssumption
<1>2. start + step * length < SizeModulus /\ -(step * length) < SizeModulus
  BY ArgumentsFitAssumption
<1>3. start < v.length
  BY <1>1 DEF SliceFits
<1>4. CASE step > 0
  <2> DEFINE end == start + step * (length - 1) + 1
  <2>1. end \in 0..SizeModulus-1
    <3>1. step * (length - 1) = step * length - step /\ step * (length - 1) >= 0
      BY <1>1, <1>4
    <3>2. QED
      BY <3>1, <1>1, <1>2, <1>4
  <2>2. Size(end) <= v.length
    BY <1>1, <1>4 DEF SliceFits
  <2> HIDE DEF end
  <2>3. end <= v.length
    BY <2>1, <2>2, <1>1, ModSmall DEF Size
  <2>4. step * i <= step * (length - 1) /\ step * i >= 0 /\ step * i \in Int
    BY <1>1, <1>4
  <2>5. QED
    BY <2>3, <2>4, <1>1 DEF end
<1>5. CASE step < 0
  <2> DEFINE back == -step * (length - 1)
  <2>1. back \in 0..SizeModulus-1
    <3>1. back = -(step * length) + step /\ back >= 0
      BY <1>1, <1>5
    <3>2. QED
      BY <3>1, <1>1, <1>2, <1>5
  <2>2. start >= Size(back)
    BY <1>1, <1>5 DEF SliceFits
  <2> HIDE DEF back
  <2>3. start >= back
    BY <2>1, <2>2, <1>1, ModSmall DEF Size
  <2>4. step * i >= step * (length - 1) /\ step * i <= 0 /\ step * i \in Int
    BY <1>1, <1>5
  <2>5. back = -(step * (length - 1))
    BY <1>1 DEF back
  <2>6. QED
    BY <2>3, <2>4, <2>5, <1>1, <1>3
<1>6. QED
  BY <1>1, <1>4, <1>5

\* And what lies in the view is accepted.
LEMMA InViewFits ==
  ASSUME NEW v, v.length \in 0..SizeModulus-1,
         NEW start \in SliceStarts, NEW step \in SliceSteps \ {0},
         NEW length \in SliceLengths,
         \A i \in 0..length-1 : start + step * i \in 0..v.length-1
  PROVE  SliceFits(v, start, step, length)
<1>1. /\ SizeModulus \in Nat \ {0}
      /\ start \in 0..SizeModulus-1 /\ step \in Int \ {0}
      /\ length \in 0..SizeModulus-1
  BY SizeModulusAssumption, ArgumentsAssumption
<1>2. CASE length = 0
  BY <1>2 DEF SliceFits
<1>3. CASE length # 0
  <2>1. 0 \in 0..length-1 /\ length - 1 \in 0..length-1
    BY <1>1, <1>3
  <2> DEFINE last == start + step * (length - 1)
  <2>2. start + step * 0 \in 0..v.length-1 /\ last \in 0..v.length-1
    BY <2>1
  <2>3. start < v.length
    BY <2>2, <1>1
  <2>4. CASE step > 0
    <3> HIDE DEF last
    <3>1. last + 1 \in 0..SizeModulus-1 /\ last + 1 <= v.length
      BY <2>2, <1>1
    <3>2. Size(last + 1) <= v.length
      BY <3>1, <1>1, ModSmall DEF Size
    <3>3. QED
      BY <3>2, <2>3, <2>4, <1>3 DEF SliceFits, last
  <2>5. CASE step < 0
    <3> DEFINE back == -step * (length - 1)
    <3>1. back = start - last /\ back >= 0
      BY <1>1, <1>3, <2>5
    <3>2. back \in 0..SizeModulus-1 /\ back <= start
      <4>1. last \in Int /\ last >= 0
        BY <2>2
      <4> HIDE DEF last, back
      <4>2. back \in Int
        BY <3>1, <4>1, <1>1
      <4>3. QED
        BY <3>1, <4>1, <4>2, <1>1
    <3> HIDE DEF back
    <3>3. start >= Size(back)
      BY <3>2, <1>1, ModSmall DEF Size
    <3>4. ~(step > 0)
      BY <2>5, <1>1
    <3>5. QED
      BY <3>3, <3>4, <2>3, <1>3 DEF SliceFits, back
  <2>6. QED
    BY <2>4, <2>5, <1>1
<1>4. QED
  BY <1>2, <1>3

\* The view of a slice of the view, index by index.
LEMMA SliceInvStep == SliceInv /\ Slice => SliceInv'
<1> SUFFICES ASSUME SliceInv, Slice
             PROVE  SliceInv'
  OBVIOUS
<1> USE DEF SliceOf
<1>1. PICK start \in SliceStarts, step \in SliceSteps \ {0},
           length \in SliceLengths :
        /\ SliceFits(slice, start, step, length)
        /\ slice' = SliceOf(slice, start, step, length)
        /\ view' = [k \in 1..length |->
                      At(view, SlicePositions(start, step, length)[k])]
  BY DEF Slice
<1>2. /\ start \in 0..SizeModulus-1 /\ step \in Int
      /\ length \in 0..SizeModulus-1
  BY ArgumentsAssumption
<1> DEFINE a == slice.start
           b == slice.step
<1>3. a \in Nat /\ b \in Int /\ slice.length \in 0..SizeModulus-1
      /\ SizeModulus \in Nat \ {0}
  BY ViewFacts
<1>4. slice'.start = (IF length = 0 THEN 0 ELSE Size(a + start * b))
      /\ slice'.step = Int64(step * b) /\ slice'.length = length
  BY <1>1
<1>5. a + start * b \in Int /\ step * b \in Int
  BY <1>2, <1>3
<1>6. slice' \in [start: 0..SizeModulus-1, step: Int, length: 0..SizeModulus-1]
  <2>1. Size(a + start * b) \in 0..SizeModulus-1 /\ Int64(step * b) \in Int
    BY <1>5, Kept
  <2>2. 0 \in 0..SizeModulus-1
    BY <1>3
  <2>3. QED
    BY <1>1, <1>2, <2>1, <2>2
<1>7. sizes' = sizes /\ Total' = Total
  BY DEF Slice, Total, AccumulatedCount
<1>8. ASSUME NEW i \in 0..length-1
      PROVE  /\ view'[i + 1] \in 0..Total-1
             /\ Global(i)' = view'[i + 1]
  <2> DEFINE p == start + step * i
  <2>1. p \in 0..slice.length-1
    BY <1>1, <1>3, FitsInView
  <2>2. view'[i + 1] = At(view, p)
    <3>1. i + 1 \in 1..length /\ (i + 1) - 1 = i
      BY <1>2
    <3>2. SlicePositions(start, step, length)[i + 1] = start + step * ((i + 1) - 1)
      BY <3>1 DEF SlicePositions
    <3>3. QED
      BY <1>1, <3>1, <3>2
  <2>3. view'[i + 1] = Global(p) /\ view'[i + 1] \in 0..Total-1
    BY <2>1, <2>2, ViewFacts
  <2>4. Global(i)' = Global(p)
    <3>1. length # 0 /\ i \in Int
      BY <1>2
    <3> DEFINE x == a + start * b
               y == step * b
               s == slice'.start
               t == slice'.step
    <3>2. s = Size(x) /\ t = Int64(y) /\ x \in Int /\ y \in Int
      BY <1>4, <1>5, <3>1
    <3> HIDE DEF x, y
    <3>3. PICK k \in Int : s = x - k * SizeModulus
      BY <3>2, Kept
    <3>4. PICK n \in Int : t = y - n * SizeModulus
      BY <3>2, Kept
    <3>5. s \in Int /\ t \in Int /\ start \in Int /\ step \in Int
          /\ a \in Int /\ b \in Int
      BY <1>6, <1>2, <1>3
    <3> HIDE DEF a, b, s, t
    <3>6. s = a + start * b - k * SizeModulus /\ t = step * b - n * SizeModulus
      BY <1>3, <3>2, <3>3, <3>4, <3>5 DEF x, y
    <3>7. Size(s + i * t) = Size(a + (start + step * i) * b)
      <4> DEFINE g == s + i * t
                 h == a + (start + step * i) * b
                 j == -(k + i * n)
      <4>1. g \in Int /\ h \in Int /\ j \in Int
        BY <3>1, <3>5
      <4>2. g = h + j * SizeModulus
        BY <1>3, <3>1, <3>5, <3>6
      <4> HIDE DEF g, h, j
      <4>3. g % SizeModulus = h % SizeModulus
        BY <1>3, <4>1, <4>2, ModSame
      <4>4. QED
        BY <4>3 DEF g, h, Size
    <3>8. QED
      BY <3>7 DEF a, b, s, t, Global, GlobalIndex
  <2>5. QED
    BY <2>3, <2>4
<1>9. view' \in [1..slice'.length -> 0..Total'-1]
  <2>1. \A k \in 1..length : view'[k] \in 0..Total-1
    <3> SUFFICES ASSUME NEW k \in 1..length
                 PROVE  view'[k] \in 0..Total-1
      OBVIOUS
    <3>1. k - 1 \in 0..length-1 /\ (k - 1) + 1 = k
      BY <1>2
    <3>2. QED
      BY <3>1, <1>8
  <2>2. view' = [k \in 1..length |-> view'[k]]
    BY <1>1
  <2>3. QED
    BY <2>1, <2>2, <1>4, <1>7
<1>10. QED
  BY <1>4, <1>6, <1>7, <1>8, <1>9 DEF SliceInv

\* Everything else leaves the bag and the slice alone.
LEMMA SliceInvKept ==
  ASSUME SliceInv, UNCHANGED <<sizes, slice, view>>
  PROVE  SliceInv'
BY DEF SliceInv, Total, AccumulatedCount, Global, GlobalIndex

-----------------------------------------------------------------------------
(* Reading *)

\* What a range reads is in the bag if it is in the view.
LEMMA RangeIsValid ==
  ASSUME SliceInv, slice.step = 1,
         NEW start \in Nat, NEW count \in Nat \ {0},
         \A i \in 0..count-1 : start + i \in 0..slice.length-1
  PROVE  ValidRange(AccumulatedCount, Size(start + slice.start), count)
<1> DEFINE y == start + slice.start
           g == Size(y)
<1>1. SizeModulus \in Nat \ {0} /\ Total \in 0..SizeModulus-1 /\ y \in Int
  BY SizeModulusAssumption, TotalType, ViewFacts DEF SliceInv
<1> HIDE DEF y
<1>2. g \in 0..SizeModulus-1 /\ \E k \in Int : g = y - k * SizeModulus
  BY <1>1, Kept
<1> HIDE DEF g
<1>3. ASSUME NEW i \in 0..count-1
      PROVE  Size(g + i) \in 0..Total-1
  <2>1. PICK k \in Int : g = y - k * SizeModulus
    BY <1>2
  <2> DEFINE z == y + i
             j == -k
             e == g + i
  <2>2. z \in Int /\ j \in Int /\ e \in Int /\ e = z + j * SizeModulus
    BY <1>1, <1>2, <2>1
  <2> HIDE DEF z, j, e
  <2>3. e % SizeModulus = z % SizeModulus
    BY <1>1, <2>2, ModSame
  <2>4. start + i \in 0..slice.length-1
    OBVIOUS
  <2>5. Global(start + i) \in 0..Total-1
    BY <2>4, ViewFacts
  <2>6. slice.start + (start + i) * slice.step = z
    BY ViewFacts DEF z, y
  <2>7. Size(z) \in 0..Total-1
    BY <2>5, <2>6 DEF Global, GlobalIndex
  <2>8. QED
    BY <2>3, <2>7 DEF e, Size
<1>4. g < Total
  <2>1. 0 \in 0..count-1 /\ g + 0 = g
    BY <1>2
  <2>2. Size(g) \in 0..Total-1
    BY <1>3, <2>1
  <2>3. Size(g) = g
    BY <1>1, <1>2, ModSmall DEF Size
  <2>4. QED
    BY <1>1, <2>2, <2>3
<1>5. g + count <= Total
  <2> SUFFICES ASSUME g + count > Total
               PROVE  FALSE
    BY <1>1, <1>2
  <2> DEFINE j == Total - g
  <2>1. j \in 0..count-1 /\ g + j = Total
    BY <1>1, <1>2, <1>4
  <2> HIDE DEF j
  <2>2. Size(Total) \in 0..Total-1
    BY <1>3, <2>1
  <2>3. Size(Total) = Total
    BY <1>1, ModSmall DEF Size
  <2>4. QED
    BY <1>1, <2>2, <2>3
<1>6. count <= Total /\ g <= Total - count
  BY <1>1, <1>2, <1>5
<1>7. ValidRange(AccumulatedCount, g, count)
  BY <1>6 DEF ValidRange, Total
<1>8. QED
  BY <1>7 DEF g, y

\* A slice is refused exactly if it does not lie in the view.
LEMMA RejectSliceAnswer == IInv /\ RejectSlice => AnswerInv'
<1> SUFFICES ASSUME IInv, RejectSlice
             PROVE  AnswerInv'
  OBVIOUS
<1>1. PICK start \in SliceStarts, step \in SliceSteps, length \in SliceLengths :
        \/ /\ step = 0
           /\ Answer("slice_of_step_0", <<>>, "out_of_range")
        \/ /\ step # 0 /\ ~SliceFits(slice, start, step, length)
           /\ Answer("slice", SlicePositions(start, step, length), "out_of_range")
  BY DEF RejectSlice
<1>2. view' = view /\ slice' = slice
  BY DEF RejectSlice, reader
<1>3. CASE step = 0
  BY <1>1, <1>3 DEF Answer, AnswerInv, AnswersFitView
<1>4. CASE step # 0
  <2>1. /\ pc' = "returned" /\ op' = "slice" /\ status' = "out_of_range"
        /\ wanted' = SlicePositions(start, step, length)
        /\ ~SliceFits(slice, start, step, length)
    BY <1>1, <1>4 DEF Answer
  <2>2. ~InView'
    <3> SUFFICES ASSUME InView'
                 PROVE  FALSE
      OBVIOUS
    <3>1. slice.length \in 0..SizeModulus-1 /\ Len(view) = slice.length
          /\ SizeModulus \in Nat \ {0}
      BY ViewFacts DEF IInv
    <3>2. length \in 0..SizeModulus-1 /\ step \in Int /\ start \in 0..SizeModulus-1
      BY ArgumentsAssumption
    <3>3. ASSUME NEW i \in 0..length-1
          PROVE  start + step * i \in 0..slice.length-1
      <4>1. i + 1 \in 1..length /\ (i + 1) - 1 = i
        BY <3>1, <3>2
      <4>2. wanted' = [k \in 1..length |-> start + step * (k - 1)]
        BY <2>1 DEF SlicePositions
      <4>3. i + 1 \in DOMAIN wanted' /\ wanted'[i + 1] = start + step * i
        BY <4>1, <4>2
      <4>4. QED
        BY <4>3, <3>1, <1>2 DEF InView
    <3>4. SliceFits(slice, start, step, length)
      BY <3>1, <3>3, <1>4, InViewFits
    <3>5. QED
      BY <3>4, <2>1
  <2>3. QED
    BY <2>1, <2>2 DEF AnswerInv, AnswersFitView
<1>5. QED
  BY <1>3, <1>4

\* The elements of a sequence, for the types of the arguments.
LEMMA InSeq ==
  ASSUME NEW S, NEW list \in Seq(S)
  PROVE  /\ \A k \in DOMAIN list : list[k] \in S
         /\ Len(list) = 1 => list[1] \in S
OBVIOUS

\* operator[] answers exactly if its index lies in the view.
LEMMA ReadOneAnswer == IInv /\ ReadOne => AnswerInv'
<1> SUFFICES ASSUME IInv, ReadOne
             PROVE  AnswerInv'
  OBVIOUS
<1>1. PICK index \in {list[1] : list \in {l \in IndexLists : Len(l) = 1}} :
        IF index >= slice.length
          THEN Answer("index", <<index>>, "out_of_range")
          ELSE LET at == ShardIndex(Interleaved, AccumulatedCount, Global(index))
               IN  Start("index", <<index>>,
                         <<[shard |-> at.shard, shard_start |-> at.shard_index,
                            count |-> 1, result_offset |-> 0,
                            result_stride |-> 1]>>,
                         OneByOne(1))
  BY DEF ReadOne
<1>2. view' = view
  BY DEF ReadOne, reader
<1>3. Len(view) = slice.length /\ slice.length \in 0..SizeModulus-1
      /\ SizeModulus \in Nat \ {0} /\ status = "none"
  BY ViewFacts DEF IInv, ReadOne, AnswerInv
<1>4. index \in 0..SizeModulus-1
  <2>1. PICK list \in IndexLists : Len(list) = 1 /\ index = list[1]
    OBVIOUS
  <2>2. list \in Seq(0..SizeModulus-1)
    BY ArgumentsAssumption
  <2>3. list[1] \in 0..SizeModulus-1
    BY <2>1, <2>2, InSeq
  <2>4. QED
    BY <2>1, <2>3
<1>5. CASE index >= slice.length
  <2>1. /\ pc' = "returned" /\ op' = "index" /\ status' = "out_of_range"
        /\ wanted' = <<index>>
    BY <1>1, <1>5 DEF Answer
  <2>2. ~InView'
    BY <2>1, <1>2, <1>3, <1>4, <1>5 DEF InView
  <2>3. QED
    BY <2>1, <2>2 DEF AnswerInv, AnswersFitView
<1>6. CASE ~(index >= slice.length)
  <2>1. /\ pc' = "reading" /\ op' = "index" /\ status' = status
        /\ wanted' = <<index>>
    BY <1>1, <1>6 DEF Start
  <2>2. InView'
    BY <2>1, <1>2, <1>3, <1>4, <1>6 DEF InView
  <2>3. QED
    BY <2>1, <2>2, <1>3 DEF AnswerInv, AnswersFitView
<1>7. QED
  BY <1>5, <1>6

\* Reads of the bag by indices that lie in it.
LEMMA IndicesStart ==
  ASSUME NEW call, NEW positions, NEW indices,
         \A k \in DOMAIN indices : ~(indices[k] >= Total),
         ReadStateIndices(call, positions, indices)
  PROVE  pc' = "reading" /\ op' = call /\ wanted' = positions /\ status' = status
BY DEF ReadStateIndices, Start

\* ReadRange, of a slice with any step.
LEMMA ReadRangeAnswer == IInv /\ ReadRange => AnswerInv'
<1> SUFFICES ASSUME IInv, ReadRange
             PROVE  AnswerInv'
  OBVIOUS
<1>1. PICK start \in RangeStarts, count \in RangeCounts :
        LET positions == [k \in 1..count |-> start + k - 1]
        IN  IF ~RangeFits(start, count)
              THEN Answer("range", positions, "out_of_range")
            ELSE IF slice.step # 1
              THEN ReadStateIndices("range", positions,
                                    [k \in 1..count |-> Global(start + k - 1)])
              ELSE ReadStateRange("range", positions,
                                  Size(start + slice.start), count)
  BY DEF ReadRange
<1> DEFINE positions == [k \in 1..count |-> start + k - 1]
           indices == [k \in 1..count |-> Global(start + k - 1)]
<1>2. view' = view
  BY DEF ReadRange, reader
<1>3. Len(view) = slice.length /\ slice.length \in 0..SizeModulus-1
      /\ SizeModulus \in Nat \ {0} /\ status = "none" /\ Total \in Nat
  BY ViewFacts DEF IInv, ReadRange, AnswerInv
<1>4. start \in 0..SizeModulus-1 /\ count \in 0..SizeModulus-1
      /\ start + count \in 0..SizeModulus-1
  <2>1. start \in 0..SizeModulus-1 /\ count \in 0..SizeModulus-1
    BY ArgumentsAssumption
  <2>2. start + count < SizeModulus
    BY ArgumentsFitAssumption
  <2>3. QED
    BY <2>1, <2>2, <1>3
<1>5. RangeFits(start, count) <=> start + count <= slice.length
  <2> DEFINE n == start + count
  <2>1. n \in 0..SizeModulus-1
    BY <1>4
  <2> HIDE DEF n
  <2>2. Size(n) = n
    BY <1>3, <2>1, ModSmall DEF Size
  <2>3. QED
    BY <2>2 DEF n, RangeFits
<1>6. CASE ~RangeFits(start, count)
  <2>1. /\ pc' = "returned" /\ op' = "range" /\ status' = "out_of_range"
        /\ wanted' = positions
    BY <1>1, <1>6 DEF Answer
  <2>2. wanted' # <<>> => ~InView'
    <3> SUFFICES ASSUME wanted' # <<>>, InView'
                 PROVE  FALSE
      OBVIOUS
    <3>1. count # 0
      BY <2>1, <1>4
    <3>2. count \in DOMAIN wanted' /\ wanted'[count] = start + count - 1
      BY <2>1, <3>1, <1>4
    <3>3. start + count - 1 \in 0..Len(view)-1
      BY <3>2, <1>2 DEF InView
    <3>4. QED
      BY <3>3, <1>3, <1>4, <1>5, <1>6
  <2>3. QED
    BY <2>1, <2>2 DEF AnswerInv, AnswersFitView
<1>7. CASE RangeFits(start, count)
  <2>1. \A i \in 0..count-1 : start + i \in 0..slice.length-1
    BY <1>3, <1>4, <1>5, <1>7
  <2>2. \A k \in 1..count : start + k - 1 \in 0..slice.length-1
    BY <1>3, <1>4, <1>5, <1>7
  <2>3. wanted' = positions => InView'
    BY <2>2, <1>2, <1>3 DEF InView
  <2>4. CASE slice.step # 1
    <3>1. \A k \in DOMAIN indices : ~(indices[k] >= Total)
      <4> SUFFICES ASSUME NEW k \in 1..count
                   PROVE  ~(Global(start + k - 1) >= Total)
        OBVIOUS
      <4> DEFINE p == start + k - 1
      <4>1. p \in 0..slice.length-1
        BY <2>2
      <4> HIDE DEF p
      <4>2. Global(p) \in 0..Total-1
        BY <4>1, ViewFacts DEF IInv
      <4>3. QED
        BY <4>2, <1>3 DEF p
    <3>2. ReadStateIndices("range", positions, indices)
      BY <1>1, <1>7, <2>4
    <3> HIDE DEF indices, positions
    <3>3. pc' = "reading" /\ op' = "range" /\ wanted' = positions
          /\ status' = status
      BY <3>1, <3>2, IndicesStart
    <3>4. QED
      BY <3>3, <2>3, <1>3 DEF AnswerInv, AnswersFitView
  <2>5. CASE slice.step = 1
    <3>1. ReadStateRange("range", positions, Size(start + slice.start), count)
      BY <1>1, <1>7, <2>5
    <3>2. CASE ~ValidRange(AccumulatedCount, Size(start + slice.start), count)
      <4>1. /\ pc' = "returned" /\ status' = "out_of_range"
            /\ wanted' = positions
        BY <3>1, <3>2 DEF ReadStateRange, Answer
      <4>2. count = 0
        <5> SUFFICES ASSUME count # 0
                     PROVE  FALSE
          OBVIOUS
        <5>1. start \in Nat /\ count \in Nat \ {0} /\ SliceInv
          BY <1>3, <1>4 DEF IInv
        <5>2. ValidRange(AccumulatedCount, Size(start + slice.start), count)
          BY <5>1, <2>1, <2>5, RangeIsValid
        <5>3. QED
          BY <5>2, <3>2
      <4>3. wanted' = <<>>
        BY <4>1, <4>2
      <4>4. QED
        BY <4>1, <4>3 DEF AnswerInv, AnswersFitView
    <3>3. CASE ValidRange(AccumulatedCount, Size(start + slice.start), count)
      <4>1. \/ /\ pc' = "reading" /\ op' = "range" /\ status' = status
               /\ wanted' = positions
            \/ pc' = "returned" /\ status' = "trapped"
        BY <3>1, <3>3 DEF ReadStateRange, Answer, Start
      <4>2. QED
        BY <4>1, <2>3, <1>3 DEF AnswerInv, AnswersFitView
    <3>4. QED
      BY <3>2, <3>3
  <2>6. QED
    BY <2>4, <2>5
<1>8. QED
  BY <1>6, <1>7

\* ReadIndices, whichever length the indices are compared with.
LEMMA ReadIndicesAnswer == IInv /\ ReadIndices => AnswerInv'
<1> SUFFICES ASSUME IInv, ReadIndices
             PROVE  AnswerInv'
  OBVIOUS
<1>1. PICK indices \in IndexLists :
        IF slice.step = 1 /\ slice.start = 0
          THEN ReadStateIndices("indices", indices, indices)
        ELSE IF \E k \in DOMAIN indices : indices[k] >= slice.length
          THEN Answer("indices", indices, "out_of_range")
          ELSE ReadStateIndices("indices", indices,
                                [k \in DOMAIN indices |-> Global(indices[k])])
  BY DEF ReadIndices
<1>2. view' = view
  BY DEF ReadIndices, reader
<1>3. Len(view) = slice.length /\ slice.length \in 0..SizeModulus-1
      /\ SizeModulus \in Nat \ {0} /\ status = "none" /\ Total \in Nat
  BY ViewFacts DEF IInv, ReadIndices, AnswerInv
<1>4. \A k \in DOMAIN indices : indices[k] \in 0..SizeModulus-1
  <2>1. indices \in Seq(0..SizeModulus-1)
    BY ArgumentsAssumption
  <2>2. QED
    BY <2>1, InSeq
<1> DEFINE OutOfRange == /\ pc' = "returned" /\ op' = "indices"
                         /\ status' = "out_of_range" /\ wanted' = indices
           Reading == pc' = "reading" /\ op' = "indices" /\ status' = status
<1>5. ASSUME OutOfRange, NEW k \in DOMAIN indices,
             ~(indices[k] \in 0..slice.length-1)
      PROVE  AnswerInv'
  <2>1. ~InView'
    BY <1>2, <1>3, <1>5 DEF InView
  <2>2. QED
    BY <1>5, <2>1 DEF AnswerInv, AnswersFitView
<1>6. ASSUME Reading
      PROVE  AnswerInv'
  BY <1>3, <1>6 DEF AnswerInv, AnswersFitView
<1>7. CASE slice.step = 1 /\ slice.start = 0
  <2>1. ReadStateIndices("indices", indices, indices)
    BY <1>1, <1>7
  <2>2. CASE \E k \in DOMAIN indices : indices[k] >= Total
    <3>1. PICK k \in DOMAIN indices : indices[k] >= Total
      BY <2>2
    <3>2. OutOfRange
      BY <2>1, <2>2 DEF ReadStateIndices, Answer
    <3>3. ~(indices[k] \in 0..slice.length-1)
      <4> SUFFICES ASSUME indices[k] \in 0..slice.length-1
                   PROVE  FALSE
        OBVIOUS
      <4> DEFINE x == indices[k]
      <4>1. x \in 0..SizeModulus-1 /\ x >= Total
        BY <1>4, <3>1
      <4>2. Global(x) \in 0..Total-1
        BY ViewFacts DEF IInv
      <4> HIDE DEF x
      <4>3. slice.start + x * slice.step = x
        BY <1>7, <4>1
      <4>4. Global(x) = x
        BY <1>3, <4>1, <4>3, ModSmall DEF Global, GlobalIndex, Size
      <4>5. QED
        BY <1>3, <4>1, <4>2, <4>4
    <3>4. QED
      BY <3>2, <3>3, <1>5
  <2>3. CASE ~\E k \in DOMAIN indices : indices[k] >= Total
    <3>1. Reading
      BY <2>1, <2>3 DEF ReadStateIndices, Start
    <3>2. QED
      BY <3>1, <1>6
  <2>4. QED
    BY <2>2, <2>3
<1>8. CASE ~(slice.step = 1 /\ slice.start = 0)
  <2>1. CASE \E k \in DOMAIN indices : indices[k] >= slice.length
    <3>1. PICK k \in DOMAIN indices : indices[k] >= slice.length
      BY <2>1
    <3>2. OutOfRange
      BY <1>1, <1>8, <2>1 DEF Answer
    <3>3. ~(indices[k] \in 0..slice.length-1)
      BY <1>3, <1>4, <3>1
    <3>4. QED
      BY <3>2, <3>3, <1>5
  <2>2. CASE ~\E k \in DOMAIN indices : indices[k] >= slice.length
    <3> DEFINE globals == [k \in DOMAIN indices |-> Global(indices[k])]
    <3>1. ReadStateIndices("indices", indices, globals)
      BY <1>1, <1>8, <2>2
    <3>2. \A k \in DOMAIN globals : ~(globals[k] >= Total)
      <4> SUFFICES ASSUME NEW k \in DOMAIN indices
                   PROVE  ~(Global(indices[k]) >= Total)
        OBVIOUS
      <4>1. indices[k] \in 0..slice.length-1
        BY <1>3, <1>4, <2>2
      <4>2. Global(indices[k]) \in 0..Total-1
        BY <4>1, ViewFacts DEF IInv
      <4>3. QED
        BY <4>2, <1>3
    <3> HIDE DEF globals
    <3>3. Reading
      BY <3>1, <3>2, IndicesStart
    <3>4. QED
      BY <3>3, <1>6
  <2>3. QED
    BY <2>1, <2>2
<1>9. QED
  BY <1>7, <1>8

-----------------------------------------------------------------------------
(* Every step *)

\* Every step keeps the invariant.
LEMMA NextInv == IInv /\ [Next]_vars => IInv'
<1> SUFFICES ASSUME IInv, [Next]_vars
             PROVE  IInv'
  OBVIOUS
<1> USE DEF IInv
<1>1. CASE OpenFiles
  <2>1. SliceInv'
    BY <1>1, OpenFilesInv
  <2>2. AnswerInv'
    BY <1>1 DEF OpenFiles, AnswerInv, AnswersFitView
  <2>3. QED
    BY <2>1, <2>2
<1>2. CASE RejectUnbalanced
  <2>1. SliceInv'
    BY <1>2, SliceInvKept DEF RejectUnbalanced, reader
  <2>2. AnswerInv'
    BY <1>2 DEF RejectUnbalanced, Answer, AnswerInv, AnswersFitView
  <2>3. QED
    BY <2>1, <2>2
<1>3. CASE Slice
  <2>1. SliceInv'
    BY <1>3, SliceInvStep
  <2>2. AnswerInv'
    BY <1>3 DEF Slice, AnswerInv, AnswersFitView
  <2>3. QED
    BY <2>1, <2>2
<1>4. CASE RejectSlice
  BY <1>4, SliceInvKept, RejectSliceAnswer DEF RejectSlice, reader
<1>5. CASE ReadOne
  BY <1>5, SliceInvKept, ReadOneAnswer DEF ReadOne, reader
<1>6. CASE ReadHandle
  <2>1. SliceInv'
    BY <1>6, SliceInvKept DEF ReadHandle
  <2>2. AnswerInv'
    BY <1>6 DEF ReadHandle, AnswerInv, AnswersFitView
  <2>3. QED
    BY <2>1, <2>2
<1>7. CASE ReadFromHandle
  <2>1. SliceInv'
    BY <1>7, SliceInvKept DEF ReadFromHandle, reader
  <2>2. AnswerInv'
    BY <1>7 DEF ReadFromHandle, Start, AnswerInv, AnswersFitView
  <2>3. QED
    BY <2>1, <2>2
<1>8. CASE ReadRange
  BY <1>8, SliceInvKept, ReadRangeAnswer DEF ReadRange, reader
<1>9. CASE ReadIndices
  BY <1>9, SliceInvKept, ReadIndicesAnswer DEF ReadIndices, reader
<1>10. ASSUME NEW t \in DOMAIN tasks, StoreRecord(t) \/ TaskFails(t)
       PROVE  IInv'
  <2>1. UNCHANGED <<sizes, slice, view, pc, op, wanted, status>>
    BY <1>10 DEF StoreRecord, TaskFails, reader
  <2>2. SliceInv'
    BY <2>1, SliceInvKept
  <2>3. AnswerInv'
    BY <2>1 DEF AnswerInv, AnswersFitView, InView
  <2>4. QED
    BY <2>2, <2>3
<1>11. CASE Succeed
  <2>1. UNCHANGED <<sizes, slice, view, op, wanted>>
        /\ pc = "reading" /\ pc' = "returned" /\ status' = "ok"
    BY <1>11 DEF Succeed, reader
  <2>2. SliceInv'
    BY <2>1, SliceInvKept
  <2>3. AnswerInv'
    BY <2>1 DEF AnswerInv, AnswersFitView, InView
  <2>4. QED
    BY <2>2, <2>3
<1>12. CASE Fail
  <2>1. UNCHANGED <<sizes, slice, view>> /\ pc' = "returned" /\ status' = "error"
    BY <1>12 DEF Fail, reader
  <2>2. SliceInv'
    BY <2>1, SliceInvKept
  <2>3. AnswerInv'
    BY <2>1 DEF AnswerInv, AnswersFitView
  <2>4. QED
    BY <2>2, <2>3
<1>13. CASE UNCHANGED vars
  <2>1. UNCHANGED <<sizes, slice, view, pc, op, wanted, status>>
    BY <1>13 DEF vars, reader
  <2>2. SliceInv'
    BY <2>1, SliceInvKept
  <2>3. AnswerInv'
    BY <2>1 DEF AnswerInv, AnswersFitView, InView
  <2>4. QED
    BY <2>2, <2>3
<1>14. QED
  BY <1>1, <1>2, <1>3, <1>4, <1>5, <1>6, <1>7, <1>8, <1>9, <1>10, <1>11, <1>12,
     <1>13
  DEF Next, Call, Returned

\* The invariant holds in every state.
LEMMA SpecInv == Spec => []IInv
BY InitInv, NextInv, PTL DEF Spec

-----------------------------------------------------------------------------
(* The theorems about views and answers *)

\* Slice: index i of a slice of slices is, modulo 2^64, the record that taking
\* the slices one after the other gives, and this record is in the bag.
THEOREM SlicesAreViews == Spec => []SliceIsView
<1>1. IInv => SliceIsView
  <2> SUFFICES ASSUME IInv
               PROVE  SliceIsView
    OBVIOUS
  <2>1. Len(view) = slice.length /\ Total \in Nat
    BY ViewFacts DEF IInv
  <2>2. \A i \in 0..slice.length-1 :
          Global(i) = view[i + 1] /\ view[i + 1] \in 0..Total-1
    BY ViewFacts DEF IInv
  <2>3. QED
    BY <2>1, <2>2 DEF SliceIsView
<1>2. QED
  BY <1>1, SpecInv, PTL

\* operator[] and ReadRange answer only with what lies in the view, and no call,
\* Slice and ReadIndices included, is refused as out of range for what does.
THEOREM AnswersAreExact == Spec => []AnswersFitView
<1>1. IInv => AnswersFitView
  BY DEF IInv, AnswerInv
<1>2. QED
  BY <1>1, SpecInv, PTL

-----------------------------------------------------------------------------
(* The sizes of the shards, added up *)

\* Every non-empty set of naturals has a least element.
LEMMA LeastNatural ==
  ASSUME NEW T \in SUBSET Nat, T # {}
  PROVE  \E n \in T : \A m \in T : n <= m
<1> DEFINE R == StrictSubsetOrdering(Nat)
           X == {0..n : n \in T}
<1>1. X \subseteq FiniteSubsetsOf(Nat)
  <2>1. \A n \in T : IsFiniteSet(0..n)
    BY FS_Interval
  <2> QED BY <2>1 DEF FiniteSubsetsOf
<1>2. X # {}
  OBVIOUS
<1>3. IsWellFoundedOn(R, FiniteSubsetsOf(Nat))
  BY FS_StrictSubsetOrderingWellFounded
<1> HIDE DEF R
<1>4. PICK x \in X : \A y \in X : ~ (<<y, x>> \in R)
  <2> HIDE DEF X
  <2> QED BY <1>1, <1>2, <1>3, WFMin
<1>5. PICK n \in T : x = 0..n
  BY <1>4
<1>6. ASSUME NEW m \in T, m < n
      PROVE  FALSE
  <2>1. 0..m \in X /\ 0..m \subseteq Nat /\ 0..n \subseteq Nat
    OBVIOUS
  <2>2. 0..m \subseteq 0..n
    BY <1>6
  <2>3. n \in 0..n /\ n \notin 0..m
    BY <1>6
  <2>4. <<0..m, 0..n>> \in R
    BY <2>1, <2>2, <2>3 DEF R, StrictSubsetOrdering
  <2> QED BY <2>1, <2>4, <1>4, <1>5
<1> QED BY <1>6

\* The recursion of AccumulatedCounts has a solution; otherwise there were a
\* first length without one.
LEMMA CountExists ==
  ASSUME NEW shards \in Seq(Nat)
  PROVE  \E f \in [0..Len(shards) -> Nat] :
           \A n \in 0..Len(shards) : f[n] = IF n = 0 THEN 0 ELSE f[n - 1] + shards[n]
<1> DEFINE L == Len(shards)
           Sums(f, m) == \A n \in 0..m : f[n] = IF n = 0 THEN 0 ELSE f[n - 1] + shards[n]
           T == {m \in 0..L : ~\E f \in [0..m -> Nat] : Sums(f, m)}
<1>1. L \in Nat /\ \A n \in 1..L : shards[n] \in Nat
  OBVIOUS
<1> HIDE DEF L
<1>2. SUFFICES ASSUME L \in T
               PROVE  FALSE
  <2>1. L \in 0..L
    BY <1>1
  <2>2. CASE \E f \in [0..L -> Nat] : Sums(f, L)
    BY <2>2 DEF L
  <2>3. CASE ~\E f \in [0..L -> Nat] : Sums(f, L)
    BY <1>2, <2>1, <2>3
  <2>4. QED
    BY <2>2, <2>3
<1>3. T # {}
  BY <1>2
<1>4. PICK m \in T : \A k \in T : m <= k
  <2>1. T \in SUBSET Nat
    BY <1>1
  <2> HIDE DEF T
  <2>2. QED
    BY <2>1, <1>3, LeastNatural
<1>5. m # 0
  <2>1. Sums([n \in 0..0 |-> 0], 0) /\ [n \in 0..0 |-> 0] \in [0..0 -> Nat]
    OBVIOUS
  <2>2. \E f \in [0..0 -> Nat] : Sums(f, 0)
    BY <2>1
  <2>3. 0 \notin T
    BY <2>2
  <2>4. QED
    BY <2>3
<1>6. m \in 1..L /\ m - 1 \in 0..L /\ m - 1 \notin T
  <2> HIDE DEF T
  <2>1. m \in 0..L
    BY DEF T
  <2>2. QED
    BY <2>1, <1>1, <1>4, <1>5
<1>7. PICK f \in [0..(m - 1) -> Nat] : Sums(f, m - 1)
  BY <1>6
<1> DEFINE g == [n \in 0..m |-> IF n = m THEN f[m - 1] + shards[m] ELSE f[n]]
<1>8. g \in [0..m -> Nat]
  <2>1. f[m - 1] + shards[m] \in Nat
    BY <1>1, <1>6
  <2>2. \A n \in 0..m : n # m => f[n] \in Nat
    BY <1>6
  <2>3. QED
    BY <2>1, <2>2
<1>9. Sums(g, m)
  <2>1. ASSUME NEW n \in 0..m
        PROVE  g[n] = IF n = 0 THEN 0 ELSE g[n - 1] + shards[n]
    <3>1. CASE n = m
      <4>1. g[n] = f[m - 1] + shards[m] /\ m # 0 /\ m - 1 \in 0..m /\ m - 1 # m
        BY <1>6, <3>1
      <4>2. g[m - 1] = f[m - 1]
        BY <4>1
      <4>3. QED
        BY <3>1, <4>1, <4>2
    <3>2. CASE n # m
      <4>1. n \in 0..(m - 1) /\ g[n] = f[n]
        BY <1>6, <3>2
      <4>2. f[n] = IF n = 0 THEN 0 ELSE f[n - 1] + shards[n]
        BY <1>7, <4>1
      <4>3. n # 0 => n - 1 \in 0..m /\ n - 1 # m /\ g[n - 1] = f[n - 1]
        BY <1>6, <4>1
      <4>4. QED
        BY <4>1, <4>2, <4>3
    <3>3. QED
      BY <3>1, <3>2
  <2>2. QED
    BY <2>1
<1>10. QED
  BY <1>8, <1>9

\* What OpenFiles accumulates.
LEMMA CountFacts ==
  ASSUME NEW shards \in Seq(Nat)
  PROVE  LET a == AccumulatedCounts(shards)
         IN  /\ a \in Seq(Nat) /\ Len(a) = Len(shards)
             /\ \A s \in 1..Len(shards) :
                  a[s] = CountBefore(a, s - 1) + shards[s]
<1> DEFINE L == Len(shards)
           IsCount(f) == f = [n \in 0..L |-> IF n = 0 THEN 0 ELSE f[n - 1] + shards[n]]
           c == CHOOSE f : IsCount(f)
           a == AccumulatedCounts(shards)
<1>1. L \in Nat
  OBVIOUS
<1>2. PICK f \in [0..L -> Nat] :
        \A n \in 0..L : f[n] = IF n = 0 THEN 0 ELSE f[n - 1] + shards[n]
  BY CountExists
<1>3. IsCount(f)
  BY <1>2
<1>4. a = [n \in 1..L |-> c[n]]
  BY DEF AccumulatedCounts
<1>5. IsCount(c)
  <2> HIDE DEF IsCount
  <2>1. QED
    BY <1>3
<1> HIDE DEF c, a
<1>6. \A n \in 0..L : c[n] = IF n = 0 THEN 0 ELSE c[n - 1] + shards[n]
  BY <1>5
<1>7. ASSUME NEW n \in 1..L
      PROVE  a[n] = CountBefore(a, n - 1) + shards[n] /\ a[n] = c[n]
  <2>1. n \in 0..L /\ n # 0 /\ n - 1 \in 0..L /\ (n - 1 # 0 => n - 1 \in 1..L)
    BY <1>1
  <2>2. a[n] = c[n] /\ c[n] = c[n - 1] + shards[n]
    BY <1>4, <1>6, <2>1
  <2>3. CountBefore(a, n - 1) = c[n - 1]
    <3>1. CASE n - 1 = 0
      BY <1>6, <2>1, <3>1 DEF CountBefore
    <3>2. CASE n - 1 # 0
      BY <1>4, <2>1, <3>2 DEF CountBefore
    <3>3. QED
      BY <3>1, <3>2
  <2>4. QED
    BY <2>2, <2>3
<1>8. \A n \in 0..L : c[n] \in Nat
  <2>1. \A n \in 0..L : f[n] \in Nat
    OBVIOUS
  <2>2. \A n \in 0..L : c[n] = f[n]
    <3> DEFINE T == {n \in 0..L : c[n] # f[n]}
    <3>1. SUFFICES ASSUME T # {}
                   PROVE  FALSE
      OBVIOUS
    <3>2. PICK m \in T : \A k \in T : m <= k
      <4>1. T \in SUBSET Nat
        BY <1>1
      <4> HIDE DEF T
      <4>2. QED
        BY <4>1, <3>1, LeastNatural
    <3>3. m \in 0..L /\ c[m] # f[m]
      OBVIOUS
    <3>4. m # 0 /\ m - 1 \in 0..L
      BY <1>1, <1>2, <1>6, <3>3
    <3>5. m - 1 \notin T
      <4> HIDE DEF T
      <4>1. QED
        BY <1>1, <3>2, <3>3, <3>4
    <3>6. c[m - 1] = f[m - 1]
      BY <3>4, <3>5
    <3>7. QED
      BY <1>2, <1>6, <3>3, <3>4, <3>6
  <2>3. QED
    BY <2>1, <2>2
<1>9. a \in Seq(Nat) /\ Len(a) = L
  <2>1. \A n \in 1..L : c[n] \in Nat
    BY <1>1, <1>8
  <2>2. a \in [1..L -> Nat]
    BY <1>4, <2>1
  <2>3. QED
    BY <1>1, <2>2
<1>10. QED
  BY <1>7, <1>9 DEF a

-----------------------------------------------------------------------------
(* The bag: its shards, and where each record comes in it *)

\* How many shards there are.
NumShards == Len(sizes)

\* How many records there are in the shards before one.
Before(s) == CountBefore(AccumulatedCount, s)

\* What i rounds over the shards take.  Its laws are lemmas, so that no other
\* proof meets a product.
Rounds(i) == i * NumShards

\* The place of a record in the bag.
Position(r) == IF Interleaved THEN Rounds(r[2]) + r[1] ELSE Before(r[1]) + r[2]

\* An interleaved bag is opened only if its shards are balanced.
Openable == sizes \in ShardSizes /\ (Interleaved => Balanced)

\* The sizes of the shards add up: records before a shard, and in all.
LEMMA ShardFacts ==
  ASSUME sizes \in ShardSizes
  PROVE  /\ NumShards \in Nat /\ Total \in Nat
         /\ \A s \in 0..NumShards-1 : s + 1 \in DOMAIN sizes /\ sizes[s + 1] \in Nat
         /\ Len(AccumulatedCount) = NumShards
         /\ \A s \in 1..NumShards : AccumulatedCount[s] = Before(s)
         /\ \A s \in 0..NumShards : Before(s) \in Nat
         /\ Before(0) = 0
         /\ \A s \in 0..NumShards-1 : Before(s + 1) = Before(s) + sizes[s + 1]
         /\ Total = Before(NumShards)
<1> DEFINE a == AccumulatedCount
<1>1. sizes \in Seq(Nat) /\ NumShards \in Nat
  BY ShardSizesAssumption DEF NumShards
<1>2. /\ a \in Seq(Nat) /\ Len(a) = NumShards
      /\ \A s \in 1..NumShards : a[s] = CountBefore(a, s - 1) + sizes[s]
  BY <1>1, CountFacts DEF NumShards, AccumulatedCount
<1>3. \A s \in 0..NumShards-1 : s + 1 \in DOMAIN sizes /\ sizes[s + 1] \in Nat
  BY <1>1 DEF NumShards
<1>4. Before(0) = 0
  BY DEF Before, CountBefore
<1>5. \A s \in 1..NumShards : a[s] = Before(s) /\ a[s] \in Nat
  BY <1>1, <1>2 DEF Before, CountBefore
<1>6. \A s \in 0..NumShards : Before(s) \in Nat
  <2>1. \A s \in 0..NumShards : s = 0 \/ s \in 1..NumShards
    BY <1>1
  <2>2. QED
    BY <1>4, <1>5, <2>1
<1>7. ASSUME NEW s \in 0..NumShards-1
      PROVE  Before(s + 1) = Before(s) + sizes[s + 1]
  <2>1. s + 1 \in 1..NumShards /\ (s + 1) - 1 = s
    BY <1>1
  <2>2. a[s + 1] = CountBefore(a, s) + sizes[s + 1]
    BY <1>2, <2>1
  <2>3. QED
    BY <1>5, <2>1, <2>2 DEF Before
<1>8. Total = Before(NumShards)
  BY <1>2 DEF Total, TotalCount, Before
<1>9. Total \in Nat
  BY <1>1, <1>6, <1>8
<1>10. QED
  BY <1>1, <1>2, <1>3, <1>4, <1>5, <1>6, <1>7, <1>8, <1>9

\* The counts do not decrease.
LEMMA BeforeAscends ==
  ASSUME sizes \in ShardSizes, NEW s \in 0..NumShards
  PROVE  \A t \in 0..NumShards : s <= t => Before(s) <= Before(t)
<1>1. NumShards \in Nat
  BY ShardFacts
<1>2. \A t \in 0..NumShards : Before(t) \in Nat
  BY ShardFacts
<1>3. \A t \in 0..NumShards-1 : Before(t + 1) = Before(t) + sizes[t + 1] /\ sizes[t + 1] \in Nat
  BY ShardFacts
<1> DEFINE T == {t \in 0..NumShards : s <= t /\ ~(Before(s) <= Before(t))}
<1>4. SUFFICES ASSUME T # {}
               PROVE  FALSE
  OBVIOUS
<1>5. PICK m \in T : \A k \in T : m <= k
  <2>1. T \in SUBSET Nat
    BY <1>1
  <2> HIDE DEF T
  <2>2. QED
    BY <2>1, <1>4, LeastNatural
<1>6. m \in 0..NumShards /\ s <= m /\ ~(Before(s) <= Before(m))
  OBVIOUS
<1>7. m # s /\ m - 1 \in 0..NumShards-1 /\ s <= m - 1 /\ m - 1 \in 0..NumShards
  BY <1>1, <1>2, <1>6
<1>8. m - 1 \notin T
  <2> HIDE DEF T
  <2>1. QED
    BY <1>5, <1>6, <1>7
<1>9. Before(s) <= Before(m - 1)
  BY <1>7, <1>8
<1>10. Before(m) = Before(m - 1) + sizes[m] /\ sizes[m] \in Nat
  <2>1. (m - 1) + 1 = m
    BY <1>6
  <2>2. QED
    BY <1>3, <1>7, <2>1
<1>11. QED
  BY <1>2, <1>6, <1>7, <1>9, <1>10

\* Rounds grow by the number of shards.
LEMMA RoundsFacts ==
  ASSUME sizes \in ShardSizes
  PROVE  /\ Rounds(0) = 0
         /\ \A i \in Nat : Rounds(i) \in Nat /\ Rounds(i + 1) = Rounds(i) + NumShards
         /\ \A i, j \in Nat : i < j => Rounds(i) + NumShards <= Rounds(j)
<1> DEFINE L == NumShards
<1>1. L \in Nat
  BY ShardFacts
<1>2. Rounds(0) = 0 /\ \A i \in Nat : Rounds(i) \in Nat /\ Rounds(i + 1) = Rounds(i) + L
  BY <1>1 DEF Rounds
<1>3. ASSUME NEW i \in Nat, NEW j \in Nat, i < j
      PROVE  Rounds(i) + L <= Rounds(j)
  <2>1. j * L = i * L + (j - i) * L
    BY <1>1
  <2>2. (j - i) * L >= L
    <3>1. (j - i) * L = L + (j - i - 1) * L /\ j - i - 1 \in Nat
      BY <1>1, <1>3
    <3>2. (j - i - 1) * L \in Nat
      BY <1>1, <3>1
    <3>3. QED
      BY <1>1, <3>1, <3>2
  <2>3. i * L \in Nat /\ (j - i) * L \in Int
    BY <1>1
  <2>4. QED
    BY <1>1, <2>1, <2>2, <2>3 DEF Rounds
<1>4. QED
  BY <1>2, <1>3

\* Turns are taken in rounds, and in a round in the order of the shards.
LEMMA RoundsOrder ==
  ASSUME sizes \in ShardSizes,
         NEW i \in Nat, NEW j \in Nat, NEW s \in 0..NumShards-1, NEW t \in 0..NumShards-1
  PROVE  Rounds(i) + s < Rounds(j) + t <=> i < j \/ (i = j /\ s < t)
<1>1. NumShards \in Nat /\ Rounds(i) \in Nat /\ Rounds(j) \in Nat
  BY ShardFacts, RoundsFacts
<1>2. CASE i < j
  <2>1. Rounds(i) + NumShards <= Rounds(j)
    BY <1>2, RoundsFacts
  <2>2. QED
    BY <1>1, <1>2, <2>1
<1>3. CASE i = j
  BY <1>1, <1>3
<1>4. CASE i > j
  <2>1. Rounds(j) + NumShards <= Rounds(i)
    BY <1>4, RoundsFacts
  <2>2. QED
    BY <1>1, <1>4, <2>1
<1>5. QED
  BY <1>2, <1>3, <1>4

\* The round and the shard of a place are determined by it.
LEMMA RoundsUnique ==
  ASSUME sizes \in ShardSizes,
         NEW i \in Nat, NEW j \in Nat, NEW s \in 0..NumShards-1, NEW t \in 0..NumShards-1,
         Rounds(i) + s = Rounds(j) + t
  PROVE  i = j /\ s = t
<1>1. NumShards \in Nat /\ Rounds(i) \in Nat /\ Rounds(j) \in Nat
  BY ShardFacts, RoundsFacts
<1>2. ~(Rounds(i) + s < Rounds(j) + t) /\ ~(Rounds(j) + t < Rounds(i) + s)
  BY <1>1
<1>3. ~(i < j \/ (i = j /\ s < t)) /\ ~(j < i \/ (j = i /\ t < s))
  BY <1>2, RoundsOrder
<1>4. QED
  BY <1>3

\* The division of ShardIndexFromInterleaved.
LEMMA RoundsDivision ==
  ASSUME sizes \in ShardSizes, NumShards > 0, NEW g \in Nat
  PROVE  /\ g % NumShards \in 0..NumShards-1 /\ g \div NumShards \in Nat
         /\ g = Rounds(g \div NumShards) + (g % NumShards)
<1> DEFINE L == NumShards
<1>1. L \in Nat \ {0}
  BY ShardFacts
<1> HIDE DEF L
<1>2. g % L \in 0..L-1 /\ g = (g \div L) * L + (g % L) /\ g \div L \in Int
  BY <1>1
<1>3. g \div L \in Nat
  BY <1>1
<1>4. QED
  BY <1>2, <1>3 DEF L, Rounds

\* Balanced shards: from one to the next at most one record less, and in all.
LEMMA BalancedFacts ==
  ASSUME sizes \in ShardSizes, Balanced, NEW s \in 0..NumShards-1, NEW t \in 0..NumShards-1
  PROVE  /\ s <= t => sizes[t + 1] <= sizes[s + 1]
         /\ sizes[s + 1] <= sizes[t + 1] + 1
<1>1. NumShards \in Nat /\ \A k \in 1..NumShards : sizes[k] \in Nat
  <2>1. NumShards \in Nat /\ \A k \in 0..NumShards-1 : sizes[k + 1] \in Nat
    BY ShardFacts
  <2>2. \A k \in 1..NumShards : k - 1 \in 0..NumShards-1 /\ (k - 1) + 1 = k
    BY <2>1
  <2>3. QED
    BY <2>1, <2>2
<1>2. \A i \in 2..NumShards : sizes[i] <= sizes[i - 1] /\ sizes[1] - sizes[i] <= 1
  BY DEF Balanced, NumShards
<1>3. \A i \in 1..NumShards : \A j \in 1..NumShards : i <= j => sizes[j] <= sizes[i]
  <2> SUFFICES ASSUME NEW i \in 1..NumShards
               PROVE  \A j \in 1..NumShards : i <= j => sizes[j] <= sizes[i]
    OBVIOUS
  <2> DEFINE T == {j \in 1..NumShards : i <= j /\ ~(sizes[j] <= sizes[i])}
  <2>1. SUFFICES ASSUME T # {}
                 PROVE  FALSE
    OBVIOUS
  <2>2. PICK m \in T : \A k \in T : m <= k
    <3>1. T \in SUBSET Nat
      BY <1>1
    <3> HIDE DEF T
    <3>2. QED
      BY <3>1, <2>1, LeastNatural
  <2>3. m \in 1..NumShards /\ i <= m /\ ~(sizes[m] <= sizes[i])
    OBVIOUS
  <2>4. m # i /\ m \in 2..NumShards /\ m - 1 \in 1..NumShards /\ i <= m - 1
    BY <1>1, <2>3
  <2>5. m - 1 \notin T
    <3> HIDE DEF T
    <3>1. QED
      BY <2>2, <2>3, <2>4
  <2>6. sizes[m - 1] <= sizes[i] /\ sizes[m] <= sizes[m - 1]
    BY <1>2, <2>4, <2>5
  <2>7. QED
    BY <1>1, <2>3, <2>4, <2>6
<1>4. s + 1 \in 1..NumShards /\ t + 1 \in 1..NumShards /\ 1 \in 1..NumShards
  BY <1>1
<1>5. sizes[s + 1] <= sizes[1]
  BY <1>3, <1>4
<1>6. sizes[1] <= sizes[t + 1] + 1
  <2>1. t + 1 = 1 \/ t + 1 \in 2..NumShards
    BY <1>4
  <2>2. QED
    BY <1>1, <1>2, <1>4, <2>1
<1>7. sizes[s + 1] <= sizes[t + 1] + 1
  BY <1>1, <1>4, <1>5, <1>6
<1>8. s <= t => sizes[t + 1] <= sizes[s + 1]
  BY <1>3, <1>4
<1>9. QED
  BY <1>7, <1>8

\* The records of balanced shards are the first of their rounds.
LEMMA BalancedTotal ==
  ASSUME sizes \in ShardSizes, Balanced, NEW s \in 0..NumShards-1, NEW i \in Nat,
         sizes[s + 1] <= i
  PROVE  Total <= Rounds(i) + s
<1>1. NumShards \in Nat /\ \A t \in 0..NumShards : Before(t) \in Nat
  BY ShardFacts
<1>2. \A t \in 0..NumShards-1 :
        Before(t + 1) = Before(t) + sizes[t + 1] /\ sizes[t + 1] \in Nat
  BY ShardFacts
<1>3. \A t \in 0..NumShards-1 : sizes[t + 1] <= IF t < s THEN i + 1 ELSE i
  <2> SUFFICES ASSUME NEW t \in 0..NumShards-1
               PROVE  sizes[t + 1] <= IF t < s THEN i + 1 ELSE i
    OBVIOUS
  <2>1. sizes[t + 1] \in Nat /\ sizes[s + 1] \in Nat
    BY <1>2
  <2>2. sizes[t + 1] <= sizes[s + 1] + 1 /\ (s <= t => sizes[t + 1] <= sizes[s + 1])
    BY BalancedFacts
  <2>3. QED
    BY <2>1, <2>2
<1> DEFINE T == {t \in 0..NumShards : ~(Before(t) <= t * i + AtMost(t, s))}
<1>4. T = {}
  <2>1. SUFFICES ASSUME T # {}
                 PROVE  FALSE
    OBVIOUS
  <2>2. PICK m \in T : \A k \in T : m <= k
    <3>1. T \in SUBSET Nat
      BY <1>1
    <3> HIDE DEF T
    <3>2. QED
      BY <3>1, <2>1, LeastNatural
  <2>3. m \in 0..NumShards /\ ~(Before(m) <= m * i + AtMost(m, s))
    OBVIOUS
  <2>4. m # 0
    <3>1. Before(0) = 0 /\ 0 * i = 0 /\ AtMost(0, s) = 0
      BY <1>1, ShardFacts DEF AtMost
    <3>2. QED
      BY <2>3, <3>1
  <2> DEFINE t == m - 1
  <2>5. t \in 0..NumShards-1 /\ t \in 0..NumShards /\ m = t + 1
    BY <1>1, <2>3, <2>4
  <2>6. t \notin T
    <3> HIDE DEF T
    <3>1. t < m
      BY <2>5
    <3>2. QED
      BY <2>2, <2>5, <3>1
  <2> HIDE DEF t
  <2>7. Before(t) <= t * i + AtMost(t, s)
    BY <2>5, <2>6
  <2>8. Before(m) = Before(t) + sizes[t + 1] /\ sizes[t + 1] \in Nat
    BY <1>2, <2>5
  <2>9. m * i = t * i + i /\ t * i \in Nat
    BY <2>5
  <2>10. AtMost(m, s) = AtMost(t, s) + (IF t < s THEN 1 ELSE 0) /\ AtMost(t, s) \in Nat
    BY <2>5 DEF AtMost
  <2>11. sizes[t + 1] <= IF t < s THEN i + 1 ELSE i
    BY <1>3, <2>5
  <2> DEFINE ti == t * i
             low == AtMost(t, s)
             size == sizes[t + 1]
             b == Before(t)
  <2>12. b \in Nat /\ ti \in Nat /\ low \in Nat /\ size \in Nat /\ b <= ti + low
    BY <1>1, <2>5, <2>7, <2>8, <2>9, <2>10
  <2>13. Before(m) = b + size /\ m * i = ti + i
         /\ AtMost(m, s) = low + (IF t < s THEN 1 ELSE 0)
         /\ size <= IF t < s THEN i + 1 ELSE i
    BY <2>8, <2>9, <2>10, <2>11
  <2> HIDE DEF ti, low, size, b
  <2>14. Before(m) <= m * i + AtMost(m, s)
    BY <2>12, <2>13
  <2>15. QED
    BY <2>3, <2>14
<1>5. Before(NumShards) <= NumShards * i + AtMost(NumShards, s)
  BY <1>1, <1>4
<1>6. AtMost(NumShards, s) = s /\ NumShards * i = Rounds(i) /\ Total = Before(NumShards)
  <2>1. AtMost(NumShards, s) = s
    BY <1>1 DEF AtMost
  <2>2. NumShards * i = Rounds(i)
    BY <1>1 DEF Rounds
  <2>3. QED
    BY <2>1, <2>2, ShardFacts
<1>7. QED
  BY <1>5, <1>6

\* A record of the bag.
LEMMA RecordFacts ==
  ASSUME sizes \in ShardSizes, NEW r
  PROVE  r \in BagRecords <=>
           \E s \in 0..NumShards-1 : \E i \in 0..sizes[s + 1]-1 : r = <<s, i>>
BY DEF BagRecords, NumShards

\* The order of the places is the one that the header documents.
LEMMA PositionOrder ==
  ASSUME sizes \in ShardSizes, NEW q \in BagRecords, NEW r \in BagRecords
  PROVE  /\ Position(q) \in Nat /\ Position(r) \in Nat
         /\ Precedes(q, r) <=> Position(q) < Position(r)
         /\ Position(q) = Position(r) => q = r
<1>1. PICK s \in 0..NumShards-1 : \E i \in 0..sizes[s + 1]-1 : q = <<s, i>>
  BY RecordFacts
<1>2. PICK i \in 0..sizes[s + 1]-1 : q = <<s, i>>
  BY <1>1
<1>3. PICK t \in 0..NumShards-1 : \E j \in 0..sizes[t + 1]-1 : r = <<t, j>>
  BY RecordFacts
<1>4. PICK j \in 0..sizes[t + 1]-1 : r = <<t, j>>
  BY <1>3
<1>5. NumShards \in Nat /\ sizes[s + 1] \in Nat /\ sizes[t + 1] \in Nat
  BY ShardFacts
<1>6. i \in Nat /\ j \in Nat
  BY <1>5
<1>7. q[1] = s /\ q[2] = i /\ r[1] = t /\ r[2] = j
  BY <1>2, <1>4
<1>8. CASE Interleaved
  <2>1. Rounds(i) \in Nat /\ Rounds(j) \in Nat
    BY <1>6, RoundsFacts
  <2>2. Position(q) = Rounds(i) + s /\ Position(r) = Rounds(j) + t
    BY <1>7, <1>8 DEF Position
  <2>3. Rounds(i) + s < Rounds(j) + t <=> i < j \/ (i = j /\ s < t)
    BY <1>6, RoundsOrder
  <2>4. Precedes(q, r) <=> i < j \/ (i = j /\ s < t)
    BY <1>7, <1>8 DEF Precedes
  <2>5. Position(q) = Position(r) => i = j /\ s = t
    BY <1>6, <2>2, RoundsUnique
  <2>6. QED
    BY <1>2, <1>4, <1>5, <2>1, <2>2, <2>3, <2>4, <2>5
<1>9. CASE ~Interleaved
  <2> DEFINE b == Before(s)
             c == Before(t)
             x == sizes[s + 1]
             y == sizes[t + 1]
  <2>1. b \in Nat /\ c \in Nat /\ x \in Nat /\ y \in Nat /\ i < x /\ j < y
    BY <1>5, ShardFacts
  <2>2. Position(q) = b + i /\ Position(r) = c + j
    BY <1>7, <1>9 DEF Position
  <2>3. s < t => b + x <= c
    <3> SUFFICES ASSUME s < t PROVE b + x <= c
      OBVIOUS
    <3>1. s + 1 \in 0..NumShards /\ t \in 0..NumShards /\ s + 1 <= t
      BY <1>5
    <3>2. Before(s + 1) <= Before(t) /\ Before(s + 1) = Before(s) + sizes[s + 1]
      BY <3>1, BeforeAscends, ShardFacts
    <3>3. QED
      BY <3>2
  <2>4. t < s => c + y <= b
    <3> SUFFICES ASSUME t < s PROVE c + y <= b
      OBVIOUS
    <3>1. t + 1 \in 0..NumShards /\ s \in 0..NumShards /\ t + 1 <= s
      BY <1>5
    <3>2. Before(t + 1) <= Before(s) /\ Before(t + 1) = Before(t) + sizes[t + 1]
      BY <3>1, BeforeAscends, ShardFacts
    <3>3. QED
      BY <3>2
  <2>5. s = t => b = c
    OBVIOUS
  <2>6. Precedes(q, r) <=> s < t \/ (s = t /\ i < j)
    BY <1>7, <1>9 DEF Precedes
  <2> HIDE DEF b, c, x, y
  <2>7. /\ b + i < c + j <=> s < t \/ (s = t /\ i < j)
        /\ b + i = c + j => s = t /\ i = j
        /\ b + i \in Nat /\ c + j \in Nat
    BY <1>6, <2>1, <2>3, <2>4, <2>5
  <2>8. QED
    BY <1>2, <1>4, <2>2, <2>6, <2>7
<1>10. QED
  BY <1>8, <1>9

\* std::lower_bound finds the shard of a record of a concatenated bag.
LEMMA LowerBoundFacts ==
  ASSUME sizes \in ShardSizes, NEW g \in 0..Total-1
  PROVE  LET s == LowerBound(AccumulatedCount, g + 1)
         IN  s \in 0..NumShards-1 /\ Before(s) <= g /\ g < Before(s + 1)
<1> DEFINE a == AccumulatedCount
           Fits(n) == /\ \A k \in 1..n : a[k] < g + 1
                      /\ n < Len(a) => a[n + 1] >= g + 1
           s == LowerBound(a, g + 1)
<1>1. NumShards \in Nat /\ Total \in Nat /\ Len(a) = NumShards
      /\ Before(0) = 0 /\ Total = Before(NumShards)
  BY ShardFacts
<1>2. \A n \in 1..NumShards : a[n] = Before(n)
  BY ShardFacts
<1>3. \A n \in 0..NumShards : Before(n) \in Nat
  BY ShardFacts
<1> DEFINE T == {n \in 1..NumShards : Before(n) >= g + 1}
<1> HIDE DEF a
<1>4. T # {}
  <2>1. NumShards # 0
    BY <1>1
  <2>2. NumShards \in T
    BY <1>1, <1>3, <2>1
  <2>3. QED
    BY <2>2
<1>5. PICK m \in T : \A k \in T : m <= k
  <2>1. T \in SUBSET Nat
    BY <1>1
  <2> HIDE DEF T
  <2>2. QED
    BY <2>1, <1>4, LeastNatural
<1>6. m \in 1..NumShards /\ Before(m) >= g + 1
  OBVIOUS
<1>7. ASSUME NEW k \in 1..(m - 1)
      PROVE  a[k] < g + 1
  <2>1. k \in 1..NumShards /\ k < m
    BY <1>1, <1>6
  <2>2. k \notin T
    <3> HIDE DEF T
    <3>1. QED
      BY <1>5, <1>6, <2>1
  <2>3. a[k] = Before(k) /\ Before(k) \in Nat
    BY <1>2, <1>3, <2>1
  <2>4. QED
    BY <2>1, <2>2, <2>3
<1>8. Fits(m - 1) /\ m - 1 \in 0..Len(a)
  <2>1. a[(m - 1) + 1] = Before(m)
    BY <1>2, <1>6
  <2>2. QED
    BY <1>1, <1>6, <1>7, <2>1
<1>9. s = CHOOSE n \in 0..Len(a) : Fits(n)
  BY DEF LowerBound
<1> HIDE DEF s
<1>10. s \in 0..Len(a) /\ Fits(s)
  <2> HIDE DEF Fits
  <2>1. QED
    BY <1>8, <1>9
<1>11. s # NumShards
  <2> SUFFICES ASSUME s = NumShards
               PROVE  FALSE
    OBVIOUS
  <2>1. NumShards \in 1..s
    BY <1>1, <1>6
  <2>2. Before(NumShards) < g + 1
    BY <1>2, <1>6, <1>10, <2>1
  <2>3. QED
    BY <1>1, <2>2
<1>12. s \in 0..NumShards-1 /\ s + 1 \in 1..NumShards
  BY <1>1, <1>10, <1>11
<1>13. g < Before(s + 1)
  <2>1. a[s + 1] >= g + 1
    BY <1>1, <1>10, <1>12
  <2>2. a[s + 1] = Before(s + 1) /\ Before(s + 1) \in Nat /\ g \in Nat
    <3>1. s + 1 \in 0..NumShards
      BY <1>1, <1>12
    <3>2. QED
      BY <1>1, <1>2, <1>3, <1>12, <3>1
  <2>3. QED
    BY <2>1, <2>2
<1>14. Before(s) <= g
  <2>1. CASE s = 0
    BY <1>1, <2>1
  <2>2. CASE s # 0
    <3>1. s \in 1..s /\ s \in 1..NumShards
      BY <1>1, <1>12, <2>2
    <3>2. a[s] < g + 1 /\ a[s] = Before(s) /\ Before(s) \in Nat
      BY <1>2, <1>3, <1>10, <1>12, <3>1
    <3>3. QED
      BY <3>2
  <2>3. QED
    BY <2>1, <2>2
<1>15. QED
  BY <1>12, <1>13, <1>14 DEF s, a

\* ShardIndexing::index: the record that it finds for a global index is in the
\* bag, at that place.
LEMMA ShardIndexPlaced ==
  ASSUME Openable, NEW g \in 0..Total-1
  PROVE  LET at == ShardIndex(Interleaved, AccumulatedCount, g)
         IN  /\ at = [shard |-> at.shard, shard_index |-> at.shard_index]
             /\ at.shard \in 0..NumShards-1
             /\ at.shard_index \in 0..sizes[at.shard + 1]-1
             /\ <<at.shard, at.shard_index>> \in BagRecords
             /\ Position(<<at.shard, at.shard_index>>) = g
<1> DEFINE at == ShardIndex(Interleaved, AccumulatedCount, g)
<1>1. sizes \in ShardSizes
  BY DEF Openable
<1>2. NumShards \in Nat /\ Total \in Nat /\ Len(AccumulatedCount) = NumShards
      /\ Before(0) = 0 /\ Total = Before(NumShards)
  BY <1>1, ShardFacts
<1>3. \A s \in 0..NumShards-1 : sizes[s + 1] \in Nat /\ Before(s + 1) = Before(s) + sizes[s + 1]
  BY <1>1, ShardFacts
<1>4. ASSUME NEW s \in 0..NumShards-1, NEW i \in 0..sizes[s + 1]-1,
             at = [shard |-> s, shard_index |-> i], Position(<<s, i>>) = g
      PROVE  /\ at = [shard |-> at.shard, shard_index |-> at.shard_index]
             /\ at.shard \in 0..NumShards-1
             /\ at.shard_index \in 0..sizes[at.shard + 1]-1
             /\ <<at.shard, at.shard_index>> \in BagRecords
             /\ Position(<<at.shard, at.shard_index>>) = g
  <2>1. at.shard = s /\ at.shard_index = i
    BY <1>4
  <2>2. <<s, i>> \in BagRecords
    BY <1>1, RecordFacts
  <2> HIDE DEF at
  <2>3. QED
    BY <1>4, <2>1, <2>2
<1>5. CASE Interleaved
  <2> DEFINE s == g % NumShards
             i == g \div NumShards
  <2>1. NumShards > 0 /\ g \in Nat
    BY <1>2
  <2>2. s \in 0..NumShards-1 /\ i \in Nat /\ g = Rounds(i) + s
    BY <1>1, <2>1, RoundsDivision
  <2>3. at = [shard |-> s, shard_index |-> i]
    BY <1>2, <1>5 DEF ShardIndex, ShardIndexFromInterleaved
  <2> HIDE DEF s, i, at
  <2>4. i < sizes[s + 1]
    <3> SUFFICES ASSUME sizes[s + 1] <= i
                 PROVE  FALSE
      BY <1>3, <2>2
    <3>1. Balanced
      BY <1>5 DEF Openable
    <3>2. Total <= Rounds(i) + s
      BY <1>1, <2>2, <3>1, BalancedTotal
    <3>3. QED
      BY <1>2, <2>2, <3>2
  <2>5. i \in 0..sizes[s + 1]-1
    BY <1>3, <2>2, <2>4
  <2>6. Position(<<s, i>>) = g
    BY <1>5, <2>2 DEF Position
  <2>7. QED
    BY <1>4, <2>2, <2>3, <2>5, <2>6 DEF at
<1>6. CASE ~Interleaved
  <2> DEFINE s == LowerBound(AccumulatedCount, g + 1)
             i == g - Before(s)
  <2>1. s \in 0..NumShards-1 /\ Before(s) <= g /\ g < Before(s + 1)
    BY <1>1, LowerBoundFacts
  <2>2. at = [shard |-> s, shard_index |-> i]
    BY <1>6 DEF ShardIndex, ShardIndexFromConcatated, Before
  <2> HIDE DEF s, at
  <2>3. s \in 0..NumShards
    BY <1>2, <2>1
  <2>4. Before(s) \in Nat
    BY <1>1, <2>3, ShardFacts
  <2>5. sizes[s + 1] \in Nat /\ Before(s + 1) = Before(s) + sizes[s + 1]
    BY <1>3, <2>1
  <2>6. i \in 0..sizes[s + 1]-1 /\ Before(s) + i = g
    BY <2>1, <2>4, <2>5
  <2> HIDE DEF i
  <2>7. Position(<<s, i>>) = g
    BY <1>6, <2>6 DEF Position
  <2>8. QED
    BY <1>4, <2>1, <2>2, <2>6, <2>7 DEF at
<1>7. QED
  BY <1>5, <1>6

\* No record is placed behind the last.
LEMMA PositionInBag ==
  ASSUME Openable, NEW r \in BagRecords, NEW g \in Nat, g < Position(r)
  PROVE  \E q \in BagRecords : Position(q) = g
<1>1. sizes \in ShardSizes
  BY DEF Openable
<1>2. PICK t \in 0..NumShards-1 : \E j \in 0..sizes[t + 1]-1 : r = <<t, j>>
  BY <1>1, RecordFacts
<1>3. PICK j \in 0..sizes[t + 1]-1 : r = <<t, j>>
  BY <1>2
<1>4. NumShards \in Nat /\ sizes[t + 1] \in Nat /\ j \in Nat /\ r[1] = t /\ r[2] = j
  BY <1>1, <1>3, ShardFacts
<1>5. CASE Interleaved
  <2> DEFINE s == g % NumShards
             i == g \div NumShards
  <2>1. NumShards > 0
    BY <1>4
  <2>2. s \in 0..NumShards-1 /\ i \in Nat /\ g = Rounds(i) + s
    BY <1>1, <2>1, RoundsDivision
  <2> HIDE DEF s, i
  <2>3. Rounds(i) + s < Rounds(j) + t
    BY <1>4, <1>5, <2>2 DEF Position
  <2>4. i < j \/ (i = j /\ s < t)
    BY <1>1, <1>4, <2>2, <2>3, RoundsOrder
  <2>5. sizes[s + 1] \in Nat
    BY <1>1, <2>2, ShardFacts
  <2>6. i < sizes[s + 1]
    <3>1. Balanced
      BY <1>5 DEF Openable
    <3>2. /\ s <= t => sizes[t + 1] <= sizes[s + 1]
          /\ sizes[t + 1] <= sizes[s + 1] + 1
      BY <1>1, <2>2, <3>1, BalancedFacts
    <3>3. QED
      BY <1>4, <2>2, <2>4, <2>5, <3>2
  <2>7. i \in 0..sizes[s + 1]-1
    BY <2>2, <2>5, <2>6
  <2>8. <<s, i>> \in BagRecords
    BY <1>1, <2>2, <2>7, RecordFacts
  <2>9. Position(<<s, i>>) = g
    BY <1>5, <2>2 DEF Position
  <2>10. QED
    BY <2>8, <2>9
<1>6. CASE ~Interleaved
  <2>1. t + 1 \in 0..NumShards /\ NumShards \in 0..NumShards /\ t \in 0..NumShards
    BY <1>4
  <2>2. Before(t + 1) <= Before(NumShards) /\ Before(t + 1) = Before(t) + sizes[t + 1]
        /\ Before(t) \in Nat /\ Before(NumShards) = Total /\ Total \in Nat
    BY <1>1, <1>4, <2>1, BeforeAscends, ShardFacts
  <2>3. Position(r) = Before(t) + j
    BY <1>4, <1>6 DEF Position
  <2>4. g \in 0..Total-1
    <3> DEFINE b == Before(t)
               x == sizes[t + 1]
    <3>1. b + x <= Total /\ b \in Nat /\ x \in Nat /\ j < x /\ g < b + j
      BY <1>4, <2>2, <2>3
    <3> HIDE DEF b, x
    <3>2. QED
      BY <1>4, <2>2, <3>1
  <2>5. QED
    BY <2>4, ShardIndexPlaced
<1>7. QED
  BY <1>5, <1>6

\* The place of a record is the number of records before it.
LEMMA PositionCounts ==
  ASSUME Openable, NEW r \in BagRecords
  PROVE  GlobalIndexOf(r) = Position(r)
<1> DEFINE S == {q \in BagRecords : Precedes(q, r)}
           n == Position(r)
           f == [q \in S |-> Position(q)]
<1>1. sizes \in ShardSizes
  BY DEF Openable
<1>2. n \in Nat
  BY <1>1, PositionOrder
<1>3. \A q \in S : Position(q) \in 0..n-1
  BY <1>1, <1>2, PositionOrder
<1>4. \A p, q \in S : Position(p) = Position(q) => p = q
  BY <1>1, PositionOrder
<1>5. \A g \in 0..n-1 : \E q \in S : Position(q) = g
  <2> SUFFICES ASSUME NEW g \in 0..n-1
               PROVE  \E q \in S : Position(q) = g
    OBVIOUS
  <2>1. g \in Nat /\ g < Position(r)
    BY <1>2
  <2>2. PICK q \in BagRecords : Position(q) = g
    BY <2>1, PositionInBag
  <2>3. Precedes(q, r)
    BY <1>1, <2>1, <2>2, PositionOrder
  <2>4. QED
    BY <2>2, <2>3
<1> HIDE DEF S, n
<1>6. f \in Injection(S, 0..n-1) /\ f \in Surjection(S, 0..n-1)
  BY <1>3, <1>4, <1>5 DEF Injection, IsInjective, Surjection
<1>7. IsFiniteSet(0..n-1) /\ Cardinality(0..n-1) = n
  BY <1>2, FS_Interval
<1>8. IsFiniteSet(S) /\ (Cardinality(S) = Cardinality(0..n-1) <=> f \in Surjection(S, 0..n-1))
  BY <1>6, <1>7, FS_Injection
<1>9. Cardinality(S) = n
  BY <1>6, <1>7, <1>8
<1>10. QED
  BY <1>9 DEF S, n, GlobalIndexOf

\* ShardIndexing::index, for either layout: the record that it finds for a global
\* index has that many records of the bag before it, in the documented order.
THEOREM IndexFindsRecord ==
  ASSUME Openable, NEW g \in 0..Total-1
  PROVE  LET at == ShardIndex(Interleaved, AccumulatedCount, g)
             r == <<at.shard, at.shard_index>>
         IN  r \in BagRecords /\ GlobalIndexOf(r) = g
<1> DEFINE at == ShardIndex(Interleaved, AccumulatedCount, g)
           r == <<at.shard, at.shard_index>>
<1>1. r \in BagRecords /\ Position(r) = g
  BY ShardIndexPlaced
<1> HIDE DEF r
<1>2. GlobalIndexOf(r) = g
  BY <1>1, PositionCounts
<1>3. QED
  BY <1>1, <1>2 DEF r

-----------------------------------------------------------------------------
(* Sorting *)

\* A total order on S.
Orders(before, S) ==
  /\ \A x \in S : <<x, x>> \notin before
  /\ \A x, y \in S : x # y => <<x, y>> \in before \/ <<y, x>> \in before
  /\ \A x, y, z \in S : <<x, y>> \in before /\ <<y, z>> \in before => <<x, z>> \in before

\* SortedSeq has each element of a finite set once, in order.
LEMMA SortedSeqFacts ==
  ASSUME NEW S, IsFiniteSet(S), NEW before, Orders(before, S)
  PROVE  LET s == SortedSeq(S, before)
         IN  /\ s \in [1..Cardinality(S) -> S] /\ Cardinality(S) \in Nat
             /\ \A x \in S : \E k \in 1..Cardinality(S) : s[k] = x
             /\ \A j, k \in 1..Cardinality(S) : s[j] = s[k] => j = k
             /\ \A j, k \in 1..Cardinality(S) : j < k => <<s[j], s[k]>> \in before
<1> DEFINE N == Cardinality(S)
           Below(x) == {y \in S : <<y, x>> \in before}
           Rank(x) == Cardinality(Below(x))
           s == SortedSeq(S, before)
<1>1. N \in Nat
  BY FS_CardinalityType
<1>2. ASSUME NEW x \in S
      PROVE  Rank(x) \in 0..N-1
  <2>1. Below(x) \in SUBSET S /\ x \notin Below(x)
    BY DEF Orders
  <2> HIDE DEF Below
  <2>2. IsFiniteSet(Below(x)) /\ Rank(x) <= N /\ (N = Rank(x) => S = Below(x))
    BY <2>1, FS_Subset
  <2>3. Rank(x) \in Nat
    BY <2>2, FS_CardinalityType
  <2>4. Rank(x) # N
    BY <2>1, <2>2
  <2> HIDE DEF Rank, N
  <2>5. QED
    BY <1>1, <2>2, <2>3, <2>4
<1>3. ASSUME NEW x \in S, NEW y \in S, <<x, y>> \in before
      PROVE  Rank(x) < Rank(y)
  <2>1. Below(x) \in SUBSET Below(y) /\ x \notin Below(x) /\ x \in Below(y)
    BY <1>3 DEF Orders
  <2>2. Below(y) \in SUBSET S
    OBVIOUS
  <2> HIDE DEF Below
  <2>3. IsFiniteSet(Below(y))
    BY <2>2, FS_Subset
  <2>4. Rank(x) <= Rank(y) /\ (Rank(y) = Rank(x) => Below(y) = Below(x))
    BY <2>1, <2>3, FS_Subset
  <2>5. Rank(x) # Rank(y)
    BY <2>1, <2>4
  <2>6. Rank(x) \in Int /\ Rank(y) \in Int
    BY <1>1, <1>2
  <2> HIDE DEF Rank
  <2>7. QED
    BY <2>4, <2>5, <2>6
<1>4. s = [k \in 1..N |-> CHOOSE x \in S : Rank(x) = k - 1]
  BY DEF SortedSeq
<1> HIDE DEF Rank, N, s
<1>5. \A x, y \in S : Rank(x) = Rank(y) => x = y
  <2> SUFFICES ASSUME NEW x \in S, NEW y \in S, Rank(x) = Rank(y), x # y
               PROVE  FALSE
    OBVIOUS
  <2>1. <<x, y>> \in before \/ <<y, x>> \in before
    BY DEF Orders
  <2>2. Rank(x) < Rank(y) \/ Rank(y) < Rank(x)
    BY <1>3, <2>1
  <2>3. Rank(x) \in Int /\ Rank(y) \in Int
    BY <1>1, <1>2
  <2>4. QED
    BY <2>2, <2>3
<1>6. \A k \in 0..N-1 : \E x \in S : Rank(x) = k
  <2> DEFINE f == [x \in S |-> Rank(x)]
  <2>1. f \in Injection(S, 0..N-1)
    BY <1>2, <1>5 DEF Injection, IsInjective
  <2>2. IsFiniteSet(0..N-1) /\ Cardinality(0..N-1) = N
    BY <1>1, FS_Interval
  <2>3. Cardinality(S) = Cardinality(0..N-1) <=> f \in Surjection(S, 0..N-1)
    BY <2>1, <2>2, FS_Injection
  <2>4. f \in Surjection(S, 0..N-1)
    BY <2>2, <2>3 DEF N
  <2>5. QED
    BY <2>4 DEF Surjection
<1>7. ASSUME NEW k \in 1..N
      PROVE  s[k] \in S /\ Rank(s[k]) = k - 1
  <2>1. k - 1 \in 0..N-1
    BY <1>1
  <2>2. \E x \in S : Rank(x) = k - 1
    BY <1>6, <2>1
  <2>3. s[k] = CHOOSE x \in S : Rank(x) = k - 1
    BY <1>4
  <2>4. QED
    BY <2>2, <2>3
<1>8. s \in [1..N -> S]
  <2>1. s = [k \in 1..N |-> s[k]]
    BY <1>4
  <2>2. QED
    BY <1>7, <2>1
<1>9. ASSUME NEW x \in S
      PROVE  \E k \in 1..N : s[k] = x
  <2> DEFINE k == Rank(x) + 1
  <2>1. k \in 1..N /\ k - 1 = Rank(x)
    BY <1>1, <1>2
  <2>2. s[k] \in S /\ Rank(s[k]) = Rank(x)
    BY <1>7, <2>1
  <2>3. s[k] = x
    BY <1>5, <2>2
  <2>4. QED
    BY <2>1, <2>3
<1>10. ASSUME NEW j \in 1..N, NEW k \in 1..N, s[j] = s[k]
       PROVE  j = k
  <2>1. j - 1 = k - 1
    BY <1>7, <1>10
  <2>2. QED
    BY <1>1, <2>1
<1>11. ASSUME NEW j \in 1..N, NEW k \in 1..N, j < k
       PROVE  <<s[j], s[k]>> \in before
  <2>1. s[j] \in S /\ s[k] \in S /\ Rank(s[j]) = j - 1 /\ Rank(s[k]) = k - 1
    BY <1>7
  <2>2. s[j] # s[k]
    BY <1>10, <1>11, <1>1
  <2>3. ~(<<s[k], s[j]>> \in before)
    <3> SUFFICES ASSUME <<s[k], s[j]>> \in before
                 PROVE  FALSE
      OBVIOUS
    <3>1. Rank(s[k]) < Rank(s[j])
      BY <1>3, <2>1
    <3>2. QED
      BY <1>1, <1>11, <2>1, <3>1
  <2>4. QED
    BY <2>1, <2>2, <2>3 DEF Orders
<1>12. QED
  BY <1>1, <1>8, <1>9, <1>10, <1>11 DEF N, s

\* Ascending has the elements of a finite set of naturals from the least on.
LEMMA AscendingFacts ==
  ASSUME NEW n \in Nat, NEW S \in SUBSET (1..n)
  PROVE  LET s == Ascending(S)
             N == Cardinality(S)
         IN  /\ N \in Nat /\ s \in [1..N -> S] /\ Len(s) = N /\ DOMAIN s = 1..N
             /\ \A x \in S : \E k \in 1..N : s[k] = x
             /\ \A j, k \in 1..N : s[j] = s[k] => j = k
             /\ \A j, k \in 1..N : j < k => s[j] < s[k]
<1> DEFINE before == {p \in S \X S : p[1] < p[2]}
           s == Ascending(S)
           N == Cardinality(S)
<1>1. \A x, y \in S : <<x, y>> \in before <=> x < y
  OBVIOUS
<1>2. Orders(before, S)
  <2>1. \A x \in S : x \in Int
    OBVIOUS
  <2> HIDE DEF before
  <2>2. QED
    BY <1>1, <2>1 DEF Orders
<1>3. IsFiniteSet(S)
  <2>1. IsFiniteSet(1..n)
    BY FS_Interval
  <2>2. QED
    BY <2>1, FS_Subset
<1>4. s = SortedSeq(S, before)
  BY DEF Ascending
<1> HIDE DEF before, s
<1>5. /\ s \in [1..N -> S] /\ N \in Nat
      /\ \A x \in S : \E k \in 1..N : s[k] = x
      /\ \A j, k \in 1..N : s[j] = s[k] => j = k
      /\ \A j, k \in 1..N : j < k => <<s[j], s[k]>> \in before
  BY <1>2, <1>3, <1>4, SortedSeqFacts
<1> HIDE DEF N
<1>6. \A j, k \in 1..N : j < k => s[j] < s[k]
  BY <1>1, <1>5
<1>7. Len(s) = N /\ DOMAIN s = 1..N
  BY <1>5
<1>8. QED
  BY <1>5, <1>6, <1>7 DEF N, s

-----------------------------------------------------------------------------
(* The tasks of a read *)

\* The record that a task reads after n others.
Record(task, n) == <<task.shard, task.shard_start + n>>

\* The result that it fills; the code counts them from 0.
ResultOf(task, n) == ResultIndex(task, n) + 1

\* The records of a task are records of its shard.
TaskFits(task) ==
  /\ task.shard \in 0..NumShards-1
  /\ task.shard_start \in Nat /\ task.count \in Nat
  /\ FitsShard(task)

\* Each of the results is there for exactly one of the records that are read.
Fills(ranges, results) ==
  /\ \A t \in DOMAIN ranges : \A n \in 0..ranges[t].count-1 :
       ResultOf(ranges[t], n) \in results
  /\ \A g \in results : \E t \in DOMAIN ranges : \E n \in 0..ranges[t].count-1 :
       ResultOf(ranges[t], n) = g
  /\ \A t, u \in DOMAIN ranges :
       \A n \in 0..ranges[t].count-1 : \A m \in 0..ranges[u].count-1 :
         ResultOf(ranges[t], n) = ResultOf(ranges[u], m) => t = u /\ n = m

\* Each position is in exactly one group of results.
Partitions(results, positions) ==
  /\ positions \in SUBSET Nat
  /\ \A g \in DOMAIN results : results[g] \in SUBSET positions /\ results[g] # {}
  /\ \A k \in positions : \E g \in DOMAIN results : k \in results[g]
  /\ \A g, h \in DOMAIN results : \A k \in results[g] : k \in results[h] => g = h

\* A group of results shows the record that is wanted at its positions.
Shows(ranges, results, goal) ==
  \A t \in DOMAIN ranges : \A n \in 0..ranges[t].count-1 :
    \A k \in results[ResultOf(ranges[t], n)] :
      goal[k] # Outside => Position(Record(ranges[t], n)) = goal[k]

\* The tasks of a read fill the results with the records that are wanted.
Plan(ranges, results, goal) ==
  /\ \A t \in DOMAIN ranges : TaskFits(ranges[t])
  /\ Fills(ranges, DOMAIN results)
  /\ Partitions(results, DOMAIN goal)
  /\ Shows(ranges, results, goal)

\* The place of the record that each position of the call stands for.
Goal == [k \in DOMAIN wanted |-> WantedIndex(k)]

\* Where the n-th record of task t is stored.
SlotOf(t, n) == FirstOf(groups[ResultOf(tasks[t], n)])

\* What has been read is stored, and nothing else.
ProgressInv ==
  /\ DOMAIN done = DOMAIN tasks /\ DOMAIN slots = DOMAIN wanted
  /\ DOMAIN stores = DOMAIN wanted
  /\ \A t \in DOMAIN tasks : \A n \in 0..done[t]-1 :
       slots[SlotOf(t, n)] = Record(tasks[t], n) /\ stores[SlotOf(t, n)] = 1
  /\ \A k \in DOMAIN slots :
       \/ slots[k] = Unset /\ stores[k] = 0
       \/ \E t \in DOMAIN tasks : \E n \in 0..done[t]-1 : k = SlotOf(t, n)

\* No task reads more than it has to.
TasksInv ==
  /\ \A t \in DOMAIN tasks : TaskFits(tasks[t]) /\ done[t] \in 0..tasks[t].count
  /\ failed \subseteq DOMAIN tasks

\* The results are written once, with the records that are wanted.
SlotsInv ==
  \A k \in DOMAIN slots :
    /\ stores[k] <= 1
    /\ slots[k] # Unset =>
         /\ slots[k] \in BagRecords
         /\ WantedIndex(k) # Outside => Position(slots[k]) = WantedIndex(k)

\* A handle lies where its record is in the bag.
HandleInv ==
  handle # NoHandle =>
    /\ <<handle.at.shard, handle.at.shard_index>> \in BagRecords
    /\ handle.of = Position(<<handle.at.shard, handle.at.shard_index>>)

\* The types of what does not depend on a read.
BaseInv ==
  /\ layout \in Layouts
  /\ slices \in 0..MaxSlices
  /\ pc \in {"open", "idle", "reading", "returned"}
  /\ status \in {"none", "ok", "invalid", "out_of_range", "error", "trapped"}

\* The inductive invariant of a read, which presupposes IInv.
ReadInv ==
  /\ BaseInv
  /\ TasksInv
  /\ HandleInv
  /\ OkIsComplete
  /\ pc \in {"idle", "reading"} => Openable
  /\ pc \in {"open", "idle"} => tasks = <<>> /\ slots = <<>> /\ failed = {}
  /\ pc = "reading" => Plan(tasks, groups, Goal) /\ ProgressInv
  /\ pc = "returned" => SlotsInv /\ (Openable \/ slots = <<>>)

\* A task reads records of the bag.
LEMMA RecordInBag ==
  ASSUME sizes \in ShardSizes, NEW task, TaskFits(task), NEW n \in 0..task.count-1
  PROVE  Record(task, n) \in BagRecords /\ Record(task, n) # Unset
<1> DEFINE s == task.shard
           i == task.shard_start + n
<1>1. s \in 0..NumShards-1 /\ task.shard_start \in Nat /\ task.count \in Nat
      /\ task.shard_start + task.count <= sizes[s + 1] /\ sizes[s + 1] \in Nat
  BY ShardFacts DEF TaskFits, FitsShard
<1>2. i \in 0..sizes[s + 1]-1
  BY <1>1
<1> HIDE DEF s, i
<1>3. <<s, i>> \in BagRecords
  BY <1>1, <1>2, RecordFacts
<1>4. <<s, i>> # <<>>
  OBVIOUS
<1>5. QED
  BY <1>3, <1>4 DEF s, i, Record, Unset

\* The first of the results that show a record is one of them.
LEMMA FirstOfFacts ==
  ASSUME NEW S \in SUBSET Nat, S # {}
  PROVE  FirstOf(S) \in S
<1>1. \E k \in S : \A other \in S : k <= other
  BY LeastNatural
<1>2. QED
  BY <1>1 DEF FirstOf

\* A record has a place of its own among the results.
LEMMA SlotFacts ==
  ASSUME Plan(tasks, groups, Goal),
         NEW t \in DOMAIN tasks, NEW n \in 0..tasks[t].count-1
  PROVE  /\ ResultOf(tasks[t], n) \in DOMAIN groups
         /\ SlotOf(t, n) \in groups[ResultOf(tasks[t], n)]
         /\ SlotOf(t, n) \in DOMAIN wanted
         /\ \A u \in DOMAIN tasks : \A m \in 0..tasks[u].count-1 :
              SlotOf(u, m) = SlotOf(t, n) => u = t /\ m = n
<1> DEFINE g(u, m) == ResultOf(tasks[u], m)
<1>1. DOMAIN Goal = DOMAIN wanted
  BY DEF Goal
<1>2. Partitions(groups, DOMAIN wanted) /\ Fills(tasks, DOMAIN groups)
  BY <1>1 DEF Plan
<1>3. ASSUME NEW u \in DOMAIN tasks, NEW m \in 0..tasks[u].count-1
      PROVE  /\ g(u, m) \in DOMAIN groups /\ SlotOf(u, m) \in groups[g(u, m)]
             /\ SlotOf(u, m) \in DOMAIN wanted
  <2>1. g(u, m) \in DOMAIN groups
    BY <1>2 DEF Fills
  <2> HIDE DEF g
  <2>2. groups[g(u, m)] \in SUBSET DOMAIN wanted /\ groups[g(u, m)] # {}
        /\ DOMAIN wanted \in SUBSET Nat
    BY <1>2, <2>1 DEF Partitions
  <2>3. FirstOf(groups[g(u, m)]) \in groups[g(u, m)]
    BY <2>2, FirstOfFacts
  <2>4. SlotOf(u, m) = FirstOf(groups[g(u, m)])
    BY DEF SlotOf, g
  <2>5. QED
    BY <2>1, <2>2, <2>3, <2>4
<1>4. ASSUME NEW u \in DOMAIN tasks, NEW m \in 0..tasks[u].count-1,
             SlotOf(u, m) = SlotOf(t, n)
      PROVE  u = t /\ m = n
  <2>1. g(u, m) = g(t, n)
    <3> HIDE DEF g
    <3>1. QED
      BY <1>2, <1>3, <1>4 DEF Partitions
  <2>2. (\A uu, vv \in DOMAIN tasks :
          \A nn \in 0..tasks[uu].count-1 : \A mm \in 0..tasks[vv].count-1 :
            ResultOf(tasks[uu], nn) = ResultOf(tasks[vv], mm) => uu = vv /\ nn = mm)
    BY <1>2 DEF Fills
  <2>3. ResultOf(tasks[u], m) = ResultOf(tasks[t], n)
    BY <2>1
  <2>4. QED
    BY <2>2, <2>3
<1>5. QED
  BY <1>3, <1>4

\* While a read goes on, what it has stored is what is wanted.
LEMMA StoredIsWanted ==
  ASSUME sizes \in ShardSizes, Plan(tasks, groups, Goal), TasksInv, ProgressInv
  PROVE  SlotsInv
<1> SUFFICES ASSUME NEW k \in DOMAIN slots
             PROVE  /\ stores[k] <= 1
                    /\ slots[k] # Unset =>
                         /\ slots[k] \in BagRecords
                         /\ WantedIndex(k) # Outside => Position(slots[k]) = WantedIndex(k)
  BY DEF SlotsInv
<1>1. CASE slots[k] = Unset /\ stores[k] = 0
  BY <1>1
<1>2. CASE \E t \in DOMAIN tasks : \E n \in 0..done[t]-1 : k = SlotOf(t, n)
  <2>1. PICK t \in DOMAIN tasks : \E n \in 0..done[t]-1 : k = SlotOf(t, n)
    BY <1>2
  <2>2. PICK n \in 0..done[t]-1 : k = SlotOf(t, n)
    BY <2>1
  <2>3. TaskFits(tasks[t]) /\ done[t] \in 0..tasks[t].count /\ tasks[t].count \in Nat
    BY DEF TasksInv, TaskFits
  <2>4. n \in 0..tasks[t].count-1
    BY <2>3
  <2>5. slots[k] = Record(tasks[t], n) /\ stores[k] = 1
    BY <2>2 DEF ProgressInv
  <2>6. slots[k] \in BagRecords
    BY <2>3, <2>4, <2>5, RecordInBag
  <2>7. k \in groups[ResultOf(tasks[t], n)] /\ k \in DOMAIN wanted
    BY <2>2, <2>4, SlotFacts
  <2>8. Goal[k] # Outside => Position(Record(tasks[t], n)) = Goal[k]
    BY <2>4, <2>7 DEF Plan, Shows
  <2>9. Goal[k] = WantedIndex(k)
    BY <2>7 DEF Goal
  <2>10. QED
    BY <2>5, <2>6, <2>8, <2>9
<1>3. QED
  BY <1>1, <1>2 DEF ProgressInv

\* StoreRecord writes a result that nobody has written.
LEMMA ProgressStep ==
  ASSUME Plan(tasks, groups, Goal), TasksInv, ProgressInv,
         NEW t \in DOMAIN tasks, StoreRecord(t)
  PROVE  ProgressInv' /\ done'[t] \in 0..tasks[t].count
<1> DEFINE n == done[t]
           s == SlotOf(t, n)
<1>1. tasks' = tasks /\ groups' = groups /\ wanted' = wanted
      /\ n < tasks[t].count
      /\ done' = [done EXCEPT ![t] = done[t] + 1]
  BY DEF StoreRecord
<1>2. /\ slots' = [slots EXCEPT ![s] = Record(tasks[t], n)]
      /\ stores' = [stores EXCEPT ![s] = stores[s] + 1]
  BY DEF StoreRecord, SlotOf, Record, ResultOf
<1>3. \A u \in DOMAIN tasks : done[u] \in 0..tasks[u].count /\ tasks[u].count \in Nat
  BY DEF TasksInv, TaskFits
<1>4. \A u : \A m : SlotOf(u, m)' = SlotOf(u, m)
  BY <1>1 DEF SlotOf
<1>5. DOMAIN done = DOMAIN tasks /\ DOMAIN slots = DOMAIN wanted
      /\ DOMAIN stores = DOMAIN wanted
  BY DEF ProgressInv
<1>6. n \in 0..tasks[t].count-1 /\ n \in Nat
  BY <1>1, <1>3
<1>7. s \in DOMAIN wanted
      /\ \A u \in DOMAIN tasks : \A m \in 0..tasks[u].count-1 :
           SlotOf(u, m) = s => u = t /\ m = n
  BY <1>6, SlotFacts
<1> HIDE DEF s
<1>8. \A u \in DOMAIN tasks : \A m \in 0..done[u]-1 :
        /\ SlotOf(u, m) # s
        /\ SlotOf(u, m) \in DOMAIN wanted
        /\ slots[SlotOf(u, m)] = Record(tasks[u], m) /\ stores[SlotOf(u, m)] = 1
  <2> SUFFICES ASSUME NEW u \in DOMAIN tasks, NEW m \in 0..done[u]-1
               PROVE  /\ SlotOf(u, m) # s
                      /\ SlotOf(u, m) \in DOMAIN wanted
                      /\ slots[SlotOf(u, m)] = Record(tasks[u], m)
                      /\ stores[SlotOf(u, m)] = 1
    OBVIOUS
  <2>1. m \in 0..tasks[u].count-1
    BY <1>3
  <2>2. SlotOf(u, m) \in DOMAIN wanted
    BY <2>1, SlotFacts
  <2>3. ~(u = t /\ m = n)
    BY <1>6
  <2>4. SlotOf(u, m) # s
    BY <1>7, <2>1, <2>3
  <2>5. QED
    BY <2>2, <2>4 DEF ProgressInv
<1>9. stores[s] = 0
  <2>1. \/ slots[s] = Unset /\ stores[s] = 0
        \/ \E u \in DOMAIN tasks : \E m \in 0..done[u]-1 : s = SlotOf(u, m)
    BY <1>5, <1>7 DEF ProgressInv
  <2>2. QED
    BY <1>8, <2>1
<1>10. \A u \in DOMAIN tasks : \A m \in 0..done'[u]-1 : m \in 0..done[u]-1 \/ (u = t /\ m = n)
  BY <1>1, <1>3, <1>5
<1>11. \A u \in DOMAIN tasks : \A m \in 0..done[u]-1 : m \in 0..done'[u]-1
  BY <1>1, <1>3, <1>5
<1>12. n \in 0..done'[t]-1 /\ done'[t] \in 0..tasks[t].count
  BY <1>1, <1>3, <1>5, <1>6
<1>13. slots'[s] = Record(tasks[t], n) /\ stores'[s] = 1
       /\ DOMAIN slots' = DOMAIN wanted /\ DOMAIN stores' = DOMAIN wanted
       /\ \A k \in DOMAIN wanted : k # s => slots'[k] = slots[k] /\ stores'[k] = stores[k]
  BY <1>2, <1>5, <1>7, <1>9
<1> HIDE DEF n
<1>14. ASSUME NEW u \in DOMAIN tasks, NEW m \in 0..done'[u]-1
       PROVE  slots'[SlotOf(u, m)] = Record(tasks[u], m) /\ stores'[SlotOf(u, m)] = 1
  <2>1. CASE m \in 0..done[u]-1
    BY <1>8, <1>13, <2>1
  <2>2. CASE u = t /\ m = n
    BY <1>13, <2>2 DEF s
  <2>3. QED
    BY <1>10, <2>1, <2>2
<1>15. ASSUME NEW k \in DOMAIN wanted
       PROVE  \/ slots'[k] = Unset /\ stores'[k] = 0
              \/ \E u \in DOMAIN tasks : \E m \in 0..done'[u]-1 : k = SlotOf(u, m)
  <2>1. CASE k = s
    BY <1>12, <2>1 DEF s
  <2>2. CASE k # s
    <3>1. \/ slots[k] = Unset /\ stores[k] = 0
          \/ \E u \in DOMAIN tasks : \E m \in 0..done[u]-1 : k = SlotOf(u, m)
      BY <1>5 DEF ProgressInv
    <3>2. QED
      BY <1>11, <1>13, <2>2, <3>1
  <2>3. QED
    BY <2>1, <2>2
<1>16. DOMAIN done' = DOMAIN tasks
  BY <1>1, <1>5
<1>17. ProgressInv'
  BY <1>1, <1>4, <1>13, <1>14, <1>15, <1>16 DEF ProgressInv
<1>18. QED
  BY <1>12, <1>17

\* When every task has read all its records, the copies of duplicates make the
\* results complete.
LEMMA CopiesAreWanted ==
  ASSUME sizes \in ShardSizes, Plan(tasks, groups, Goal), TasksInv, ProgressInv,
         \A t \in DOMAIN tasks : done[t] = tasks[t].count,
         NEW k \in DOMAIN wanted
  PROVE  /\ DOMAIN CopyDuplicates = DOMAIN wanted
         /\ CopyDuplicates[k] # Unset
         /\ CopyDuplicates[k] \in BagRecords
         /\ WantedIndex(k) # Outside => Position(CopyDuplicates[k]) = WantedIndex(k)
<1>1. DOMAIN Goal = DOMAIN wanted /\ Goal[k] = WantedIndex(k) /\ DOMAIN slots = DOMAIN wanted
  BY DEF Goal, ProgressInv
<1>2. Partitions(groups, DOMAIN wanted) /\ Fills(tasks, DOMAIN groups)
  BY <1>1 DEF Plan
<1>3. PICK g \in DOMAIN groups : k \in groups[g]
  BY <1>2 DEF Partitions
<1>4. PICK t \in DOMAIN tasks : \E n \in 0..tasks[t].count-1 : ResultOf(tasks[t], n) = g
  BY <1>2 DEF Fills
<1>5. PICK n \in 0..tasks[t].count-1 : ResultOf(tasks[t], n) = g
  BY <1>4
<1>6. SlotOf(t, n) = FirstOf(groups[g]) /\ slots[SlotOf(t, n)] = Record(tasks[t], n)
  BY <1>5 DEF SlotOf, ProgressInv
<1>7. (CHOOSE h \in {groups[m] : m \in DOMAIN groups} : k \in h) = groups[g]
  <2>1. groups[g] \in {groups[m] : m \in DOMAIN groups}
    OBVIOUS
  <2>2. \A h \in {groups[m] : m \in DOMAIN groups} : k \in h => h = groups[g]
    BY <1>2, <1>3 DEF Partitions
  <2>3. QED
    BY <1>3, <2>1, <2>2
<1>8. CopyDuplicates[k] = slots[FirstOf(groups[g])] /\ DOMAIN CopyDuplicates = DOMAIN wanted
  <2>1. \E m \in DOMAIN groups : k \in groups[m]
    BY <1>3
  <2>2. QED
    BY <1>1, <1>7, <2>1 DEF CopyDuplicates
<1>9. CopyDuplicates[k] = Record(tasks[t], n)
  BY <1>6, <1>8
<1>10. TaskFits(tasks[t])
  BY DEF TasksInv
<1>11. Record(tasks[t], n) \in BagRecords /\ Record(tasks[t], n) # Unset
  BY <1>10, RecordInBag
<1>12. Goal[k] # Outside => Position(Record(tasks[t], n)) = Goal[k]
  BY <1>3, <1>5 DEF Plan, Shows
<1>13. QED
  BY <1>1, <1>8, <1>9, <1>11, <1>12

-----------------------------------------------------------------------------
(* Ranges *)

\* Each position has a result of its own.
LEMMA OneByOneFacts ==
  ASSUME NEW n \in Nat
  PROVE  /\ Partitions(OneByOne(n), 1..n) /\ DOMAIN OneByOne(n) = 1..n
         /\ \A k \in 1..n : OneByOne(n)[k] = {k}
BY DEF Partitions, OneByOne

\* Ranges whose results come in the order of the bag.
LEMMA InOrderPlan ==
  ASSUME NEW start \in Nat, NEW count \in Nat, NEW ranges,
         \A t \in DOMAIN ranges : TaskFits(ranges[t]),
         \A t \in DOMAIN ranges : \A n \in 0..ranges[t].count-1 :
           /\ ResultIndex(ranges[t], n) \in 0..count-1
           /\ Position(Record(ranges[t], n)) = start + ResultIndex(ranges[t], n),
         \A j \in 0..count-1 : \E t \in DOMAIN ranges : \E n \in 0..ranges[t].count-1 :
           ResultIndex(ranges[t], n) = j,
         \A t, u \in DOMAIN ranges :
           \A n \in 0..ranges[t].count-1 : \A m \in 0..ranges[u].count-1 :
             ResultIndex(ranges[t], n) = ResultIndex(ranges[u], m) => t = u /\ n = m
  PROVE  Plan(ranges, OneByOne(count), [k \in 1..count |-> start + k - 1])
<1> DEFINE goal == [k \in 1..count |-> start + k - 1]
           results == OneByOne(count)
<1>1. DOMAIN goal = 1..count
  OBVIOUS
<1>2. Partitions(results, 1..count) /\ DOMAIN results = 1..count
      /\ \A k \in 1..count : results[k] = {k}
  BY OneByOneFacts
<1> HIDE DEF results
<1>3. Fills(ranges, 1..count)
  <2>1. \A t \in DOMAIN ranges : \A n \in 0..ranges[t].count-1 :
          ResultOf(ranges[t], n) \in 1..count
    BY DEF ResultOf
  <2>2. ASSUME NEW g \in 1..count
        PROVE  \E t \in DOMAIN ranges : \E n \in 0..ranges[t].count-1 :
                 ResultOf(ranges[t], n) = g
    <3>1. g - 1 \in 0..count-1 /\ (g - 1) + 1 = g
      OBVIOUS
    <3>2. PICK t \in DOMAIN ranges : \E n \in 0..ranges[t].count-1 :
            ResultIndex(ranges[t], n) = g - 1
      BY <3>1
    <3>3. QED
      BY <3>1, <3>2 DEF ResultOf
  <2>3. ASSUME NEW t \in DOMAIN ranges, NEW u \in DOMAIN ranges,
               NEW n \in 0..ranges[t].count-1, NEW m \in 0..ranges[u].count-1,
               ResultOf(ranges[t], n) = ResultOf(ranges[u], m)
        PROVE  t = u /\ n = m
    <3> DEFINE i == ResultIndex(ranges[t], n)
               j == ResultIndex(ranges[u], m)
    <3>1. i \in 0..count-1 /\ j \in 0..count-1 /\ i + 1 = j + 1
      BY <2>3 DEF ResultOf
    <3> HIDE DEF i, j
    <3>2. i = j
      BY <3>1
    <3>3. ResultIndex(ranges[t], n) = ResultIndex(ranges[u], m)
      BY <3>2 DEF i, j
    <3>4. QED
      BY <3>3
  <2>4. QED
    BY <2>1, <2>2, <2>3 DEF Fills
<1>4. ASSUME NEW t \in DOMAIN ranges, NEW n \in 0..ranges[t].count-1,
             NEW k \in results[ResultOf(ranges[t], n)]
      PROVE  Position(Record(ranges[t], n)) = goal[k]
  <2> DEFINE j == ResultIndex(ranges[t], n)
  <2>1. j \in 0..count-1 /\ Position(Record(ranges[t], n)) = start + j
    OBVIOUS
  <2>2. ResultOf(ranges[t], n) = j + 1
    BY DEF ResultOf
  <2> HIDE DEF j
  <2>3. k = j + 1 /\ k \in 1..count
    BY <1>2, <2>1, <2>2
  <2>4. goal[k] = start + j
    BY <2>1, <2>3
  <2>5. QED
    BY <2>1, <2>4
<1>5. Shows(ranges, results, goal)
  BY <1>4 DEF Shows
<1> HIDE DEF goal
<1>6. Plan(ranges, results, goal)
  BY <1>1, <1>2, <1>3, <1>5 DEF Plan
<1>7. QED
  BY <1>6 DEF goal, results

\* Rounds add up.
LEMMA RoundsAdd ==
  ASSUME sizes \in ShardSizes, NEW i \in Nat, NEW j \in Nat
  PROVE  Rounds(i + j) = Rounds(i) + Rounds(j) /\ Rounds(1) = NumShards
         /\ Rounds(i) \in Nat /\ Rounds(j) \in Nat
<1>1. NumShards \in Nat
  BY ShardFacts
<1>2. QED
  BY <1>1 DEF Rounds

\* How the code rounds a division up.
LEMMA DivideUp ==
  ASSUME NEW d \in Nat \ {0}, NEW x \in Int, NEW y \in Int
  PROVE  x < ((y + d - 1) \div d) <=> x * d < y
<1> DEFINE z == y + d - 1
           q == z \div d
           r == z % d
<1>1. z \in Int /\ q \in Int /\ r \in 0..d-1 /\ z = q * d + r
  BY DEF z
<1>2. z = y + d - 1
  OBVIOUS
<1> HIDE DEF z, q, r
<1>3. CASE x < q
  <2>1. (x + 1) * d <= q * d
    BY <1>1, <1>3
  <2>2. (x + 1) * d = x * d + d /\ x * d \in Int /\ q * d \in Int
    BY <1>1
  <2>3. x * d < y
    BY <1>1, <1>2, <2>1, <2>2
  <2>4. QED
    BY <1>3, <2>3 DEF q, z
<1>4. CASE q <= x
  <2>1. q * d <= x * d /\ x * d \in Int /\ q * d \in Int
    BY <1>1, <1>4
  <2>2. ~(x * d < y)
    BY <1>1, <1>2, <2>1
  <2>3. ~(x < q)
    BY <1>1, <1>4
  <2>4. QED
    BY <2>2, <2>3 DEF q, z
<1>5. QED
  BY <1>1, <1>3, <1>4

\* The part of an interleaved range that is in the i-th shard from its first.
LEMMA InterleavedPartFacts ==
  ASSUME sizes \in ShardSizes, Balanced, NEW start \in Nat, NEW count \in Nat,
         start + count <= Total, NEW i \in Nat, i < count, i < NumShards
  PROVE  LET part == InterleavedPart(AccumulatedCount, start, count, i)
         IN  /\ TaskFits(part) /\ part.count > 0
             /\ \A n \in Nat :
                  /\ ResultIndex(part, n) = Rounds(n) + i
                  /\ n < part.count <=> Rounds(n) + i < count
                  /\ Rounds(part.shard_start + n) + part.shard = start + (Rounds(n) + i)
<1> DEFINE L == NumShards
           f == start % L
           q == start \div L
           new == i + f >= L
           b == IF new THEN 1 ELSE 0
           s == i + f - (IF new THEN L ELSE 0)
           x == q + b
           end == (start + count - s + L - 1) \div L
           part == InterleavedPart(AccumulatedCount, start, count, i)
<1>1. L \in Nat \ {0} /\ Len(AccumulatedCount) = L
  BY ShardFacts
<1>2. f \in 0..L-1 /\ q \in Nat /\ start = Rounds(q) + f /\ Rounds(q) \in Nat
  <2>1. L > 0
    BY <1>1
  <2>2. QED
    BY <2>1, RoundsDivision, RoundsFacts
<1>3. part = [shard |-> s, shard_start |-> x, count |-> end - x,
              result_offset |-> i, result_stride |-> L]
  BY <1>1 DEF InterleavedPart, ShardIndexFromInterleaved
<1> HIDE DEF L, f, q, part
<1>4. s \in 0..L-1 /\ b \in 0..1 /\ x \in Nat
  BY <1>1, <1>2 DEF L
<1>5. Rounds(x) + s = start + i
  <2>1. Rounds(x) = Rounds(q) + Rounds(b) /\ Rounds(1) = L /\ Rounds(0) = 0
    BY <1>2, <1>4, RoundsAdd, RoundsFacts DEF L
  <2>2. CASE new
    <3>1. b = 1 /\ s = i + f - L
      BY <2>2
    <3> HIDE DEF s, x, b, new
    <3>2. QED
      BY <1>1, <1>2, <2>1, <3>1
  <2>3. CASE ~new
    <3>1. b = 0 /\ s = i + f - 0
      BY <2>3
    <3> HIDE DEF s, x, b, new
    <3>2. QED
      BY <1>1, <1>2, <2>1, <3>1
  <2>4. QED
    BY <2>2, <2>3
<1>6. end \in Int
  BY <1>1, <1>4
<1>7. \A m \in Nat : m < end <=> Rounds(m) < start + count - s
  <2> SUFFICES ASSUME NEW m \in Nat
               PROVE  m < end <=> Rounds(m) < start + count - s
    OBVIOUS
  <2> DEFINE y == start + count - s
  <2>1. y \in Int
    BY <1>1, <1>4
  <2>2. end = (y + L - 1) \div L
    OBVIOUS
  <2> HIDE DEF y, end
  <2>3. m < ((y + L - 1) \div L) <=> m * L < y
    BY <1>1, <2>1, DivideUp
  <2>4. QED
    BY <2>2, <2>3 DEF Rounds, L, y
<1> HIDE DEF s, x, b, new, end
<1>8. ASSUME NEW n \in Nat
      PROVE  /\ Rounds(x + n) + s = start + (Rounds(n) + i)
             /\ n < end - x <=> Rounds(n) + i < count
  <2>1. Rounds(x + n) = Rounds(x) + Rounds(n) /\ Rounds(x) \in Nat /\ Rounds(n) \in Nat
    BY <1>4, RoundsAdd
  <2>2. x + n < end <=> Rounds(x + n) < start + count - s
    BY <1>4, <1>7
  <2> DEFINE a == Rounds(x + n)
             c == Rounds(n)
             d == Rounds(x)
  <2>3. a = d + c /\ c \in Nat /\ d \in Nat /\ d + s = start + i
        /\ (x + n < end <=> a < start + count - s)
    BY <1>5, <2>1, <2>2
  <2>4. s \in Int
    BY <1>1, <1>4
  <2> HIDE DEF a, c, d
  <2>5. a + s = start + (c + i) /\ (n < end - x <=> c + i < count)
    BY <1>4, <1>6, <2>3, <2>4
  <2>6. QED
    BY <2>5 DEF a, c
<1>9. end - x > 0
  <2>1. Rounds(0) = 0
    BY RoundsFacts
  <2>2. 0 < end - x <=> Rounds(0) + i < count
    BY <1>8
  <2>3. QED
    BY <1>4, <1>6, <2>1, <2>2
<1>10. x + (end - x) <= sizes[s + 1]
  <2> SUFFICES ASSUME ~(x + (end - x) <= sizes[s + 1])
               PROVE  FALSE
    OBVIOUS
  <2> DEFINE n == end - x - 1
  <2>1. n \in Nat /\ n < end - x /\ x + n \in Nat
    BY <1>4, <1>6, <1>9
  <2>2. s \in 0..NumShards-1 /\ sizes[s + 1] \in Nat
    BY <1>4, ShardFacts DEF L
  <2>3. sizes[s + 1] <= x + n
    BY <1>4, <1>6, <2>2
  <2> HIDE DEF n
  <2>4. Total <= Rounds(x + n) + s
    BY <2>1, <2>2, <2>3, BalancedTotal
  <2>5. Rounds(x + n) + s < start + count
    <3>1. Rounds(x + n) + s = start + (Rounds(n) + i) /\ Rounds(n) + i < count
      BY <1>8, <2>1
    <3>2. Rounds(n) \in Nat
      BY <2>1, RoundsFacts
    <3>3. QED
      BY <3>1, <3>2
  <2>6. Total \in Nat /\ Rounds(x + n) \in Nat
    BY <2>1, ShardFacts, RoundsFacts
  <2>7. QED
    BY <1>1, <1>4, <2>4, <2>5, <2>6
<1>11. part.shard = s /\ part.shard_start = x /\ part.count = end - x
       /\ part.result_offset = i /\ part.result_stride = L
  BY <1>3
<1>12. TaskFits(part)
  BY <1>4, <1>6, <1>9, <1>10, <1>11 DEF TaskFits, FitsShard, L
<1>13. \A n \in Nat : ResultIndex(part, n) = Rounds(n) + i
  <2> SUFFICES ASSUME NEW n \in Nat
               PROVE  ResultIndex(part, n) = Rounds(n) + i
    OBVIOUS
  <2>1. ResultIndex(part, n) = L * n + i
    BY <1>11 DEF ResultIndex
  <2>2. L * n = n * L
    BY <1>1
  <2>3. QED
    BY <2>1, <2>2 DEF Rounds, L
<1>14. QED
  BY <1>8, <1>9, <1>11, <1>12, <1>13 DEF part

\* The ranges of interleaved shards fill the results.
LEMMA InterleavedPlan ==
  ASSUME sizes \in ShardSizes, Balanced, Interleaved,
         NEW start \in Nat, NEW count \in Nat, start + count <= Total
  PROVE  Plan(ShardRangeFromInterleaved(AccumulatedCount, start, count),
              OneByOne(count), [k \in 1..count |-> start + k - 1])
<1> DEFINE L == NumShards
           ranges == ShardRangeFromInterleaved(AccumulatedCount, start, count)
           part(i) == InterleavedPart(AccumulatedCount, start, count, i)
<1>1. L \in Nat /\ Len(AccumulatedCount) = L
  BY ShardFacts
<1>2. DOMAIN ranges = 1..AtMost(count, L) /\ \A t \in DOMAIN ranges : ranges[t] = part(t - 1)
  BY <1>1 DEF ShardRangeFromInterleaved
<1>3. \A t : t \in DOMAIN ranges <=> t \in Nat /\ t - 1 \in Nat /\ t - 1 < count /\ t - 1 < L
  BY <1>1, <1>2 DEF AtMost
<1> HIDE DEF ranges, part
<1>4. ASSUME NEW t \in DOMAIN ranges
      PROVE  /\ TaskFits(ranges[t])
             /\ \A n \in Nat :
                  /\ ResultIndex(ranges[t], n) = Rounds(n) + (t - 1)
                  /\ n < ranges[t].count <=> Rounds(n) + (t - 1) < count
                  /\ Rounds(ranges[t].shard_start + n) + ranges[t].shard
                       = start + (Rounds(n) + (t - 1))
  <2> DEFINE i == t - 1
  <2>1. i \in Nat /\ i < count /\ i < NumShards /\ ranges[t] = part(i)
    BY <1>2, <1>3 DEF L
  <2> HIDE DEF i
  <2>2. /\ TaskFits(part(i))
        /\ \A n \in Nat :
             /\ ResultIndex(part(i), n) = Rounds(n) + i
             /\ n < part(i).count <=> Rounds(n) + i < count
             /\ Rounds(part(i).shard_start + n) + part(i).shard = start + (Rounds(n) + i)
    BY <2>1, InterleavedPartFacts DEF part
  <2>3. QED
    BY <2>1, <2>2 DEF i
<1>5. ASSUME NEW t \in DOMAIN ranges, NEW n \in 0..ranges[t].count-1
      PROVE  /\ n \in Nat /\ t - 1 \in 0..L-1
             /\ ResultIndex(ranges[t], n) = Rounds(n) + (t - 1)
             /\ ResultIndex(ranges[t], n) \in 0..count-1
             /\ Position(Record(ranges[t], n)) = start + ResultIndex(ranges[t], n)
  <2>1. n \in Nat /\ n < ranges[t].count
    BY <1>4 DEF TaskFits
  <2>2. t - 1 \in 0..L-1 /\ t - 1 \in Nat
    BY <1>1, <1>3
  <2>3. /\ ResultIndex(ranges[t], n) = Rounds(n) + (t - 1) /\ Rounds(n) + (t - 1) < count
        /\ Rounds(ranges[t].shard_start + n) + ranges[t].shard = start + (Rounds(n) + (t - 1))
    BY <1>4, <2>1
  <2>4. Rounds(n) \in Nat
    BY <2>1, RoundsFacts
  <2>5. Position(Record(ranges[t], n)) = Rounds(ranges[t].shard_start + n) + ranges[t].shard
    BY DEF Position, Record
  <2>6. ResultIndex(ranges[t], n) \in 0..count-1
    BY <2>2, <2>3, <2>4
  <2>7. QED
    BY <2>1, <2>2, <2>3, <2>5, <2>6
<1>6. ASSUME NEW j \in 0..count-1
      PROVE  \E t \in DOMAIN ranges : \E n \in 0..ranges[t].count-1 :
               ResultIndex(ranges[t], n) = j
  <2> DEFINE i == j % L
             n == j \div L
             t == i + 1
  <2>1. NumShards > 0 /\ j \in Nat
    <3>1. Total > 0 /\ Before(0) = 0 /\ Total = Before(NumShards)
      BY ShardFacts
    <3>2. QED
      BY <1>1, <3>1 DEF L
  <2>2. i \in 0..L-1 /\ n \in Nat /\ j = Rounds(n) + i
    BY <2>1, RoundsDivision DEF L
  <2>3. Rounds(n) \in Nat
    BY <2>2, RoundsFacts
  <2> HIDE DEF i, n
  <2>4. t \in DOMAIN ranges /\ t - 1 = i
    BY <1>1, <1>3, <2>1, <2>2, <2>3
  <2>5. n < ranges[t].count /\ ResultIndex(ranges[t], n) = j
    BY <1>4, <2>1, <2>2, <2>4
  <2>6. ranges[t].count \in Nat
    BY <1>4, <2>4 DEF TaskFits
  <2>7. n \in 0..ranges[t].count-1
    BY <2>2, <2>5, <2>6
  <2>8. QED
    BY <2>4, <2>5, <2>7
<1>7. ASSUME NEW t \in DOMAIN ranges, NEW u \in DOMAIN ranges,
             NEW n \in 0..ranges[t].count-1, NEW m \in 0..ranges[u].count-1,
             ResultIndex(ranges[t], n) = ResultIndex(ranges[u], m)
      PROVE  t = u /\ n = m
  <2> DEFINE i == t - 1
             j == u - 1
  <2>1. n \in Nat /\ i \in 0..NumShards-1 /\ ResultIndex(ranges[t], n) = Rounds(n) + i
    BY <1>5 DEF L
  <2>2. m \in Nat /\ j \in 0..NumShards-1 /\ ResultIndex(ranges[u], m) = Rounds(m) + j
    BY <1>5 DEF L
  <2>3. t \in Nat /\ u \in Nat
    BY <1>3
  <2> HIDE DEF i, j
  <2>4. n = m /\ i = j
    BY <1>7, <2>1, <2>2, RoundsUnique
  <2>5. QED
    BY <2>3, <2>4 DEF i, j
<1>8. Plan(ranges, OneByOne(count), [k \in 1..count |-> start + k - 1])
  <2>1. \A t \in DOMAIN ranges : TaskFits(ranges[t])
    BY <1>4
  <2>2. \A t \in DOMAIN ranges : \A n \in 0..ranges[t].count-1 :
          /\ ResultIndex(ranges[t], n) \in 0..count-1
          /\ Position(Record(ranges[t], n)) = start + ResultIndex(ranges[t], n)
    BY <1>5
  <2>3. \A t, u \in DOMAIN ranges :
          \A n \in 0..ranges[t].count-1 : \A m \in 0..ranges[u].count-1 :
            ResultIndex(ranges[t], n) = ResultIndex(ranges[u], m) => t = u /\ n = m
    BY <1>7
  <2>4. QED
    BY <1>6, <2>1, <2>2, <2>3, InOrderPlan
<1>9. QED
  BY <1>8 DEF ranges

\* A shard's records end before those of a later one begin.
LEMMA ShardsApart ==
  ASSUME sizes \in ShardSizes, NEW s \in 0..NumShards-1, NEW t \in 0..NumShards-1, s < t
  PROVE  Before(s) + sizes[s + 1] <= Before(t)
<1>1. NumShards \in Nat
  BY ShardFacts
<1>2. s + 1 \in 0..NumShards /\ t \in 0..NumShards /\ s + 1 <= t
  BY <1>1
<1>3. Before(s + 1) <= Before(t)
  BY <1>2, BeforeAscends
<1>4. Before(s + 1) = Before(s) + sizes[s + 1]
  BY ShardFacts
<1>5. QED
  BY <1>3, <1>4

\* The part of a range that is in a shard: all that the shard has of it, in the
\* order of the bag.
PartFits(part, shard, start, count) ==
  /\ TaskFits(part) /\ part.shard = shard
  /\ \A n \in 0..part.count-1 :
       /\ ResultIndex(part, n) \in 0..count-1
       /\ Position(Record(part, n)) = start + ResultIndex(part, n)
  /\ \A x \in 0..sizes[shard + 1]-1 :
       Before(shard) + x \in start..(start + count - 1) =>
         part.shard_start <= x /\ x < part.shard_start + part.count

\* A range of concatenated shards, given where its first and its last record
\* are: the part in one of the shards from the one to the other.
LEMMA ConcatatedPartFacts ==
  ASSUME sizes \in ShardSizes, ~Interleaved, NEW start \in Nat, NEW count \in Nat \ {0},
         NEW fs \in 0..NumShards-1, NEW fi \in 0..sizes[fs + 1]-1,
         NEW ls \in 0..NumShards-1, NEW li \in 0..sizes[ls + 1]-1,
         Before(fs) + fi = start, Before(ls) + li = start + count - 1,
         NEW i \in 0..NumShards-1, fs <= i, i <= ls
  PROVE  PartFits(ConcatatedPart(AccumulatedCount,
                                 [shard |-> fs, shard_index |-> fi],
                                 [shard |-> ls, shard_index |-> li], i),
                  i, start, count)
<1> DEFINE part == ConcatatedPart(AccumulatedCount,
                                  [shard |-> fs, shard_index |-> fi],
                                  [shard |-> ls, shard_index |-> li], i)
           a == IF i = fs THEN fi ELSE 0
           e == IF i = ls THEN li + 1 ELSE sizes[i + 1]
           b == Before(i)
           size == sizes[i + 1]
<1>1. NumShards \in Nat /\ sizes[fs + 1] \in Nat /\ sizes[ls + 1] \in Nat /\ size \in Nat
  BY ShardFacts
<1>2. b \in Nat /\ Before(fs) \in Nat /\ Before(ls) \in Nat
  <2>1. i \in 0..NumShards /\ fs \in 0..NumShards /\ ls \in 0..NumShards
    BY <1>1
  <2>2. QED
    BY <2>1, ShardFacts
<1>3. NumRecordsInShard(i, AccumulatedCount) = size
  <2>1. i + 1 \in 1..NumShards
    BY <1>1
  <2>2. AccumulatedCount[i + 1] = Before(i + 1) /\ Before(i + 1) = b + size
    BY <2>1, ShardFacts
  <2>3. NumRecordsInShard(i, AccumulatedCount) = AccumulatedCount[i + 1] - b
    BY DEF NumRecordsInShard, Before
  <2>4. QED
    BY <1>1, <1>2, <2>2, <2>3
<1>4. part = [shard |-> i, shard_start |-> a, count |-> e - a,
              result_offset |-> b + a - Before(fs) - fi, result_stride |-> 1]
  BY <1>3 DEF ConcatatedPart, Before
<1>5. part.shard = i /\ part.shard_start = a /\ part.count = e - a
      /\ part.result_offset = b + a - Before(fs) - fi /\ part.result_stride = 1
  BY <1>4
<1> HIDE DEF part
<1>6. /\ i = fs => b = Before(fs) /\ size = sizes[fs + 1]
      /\ i = ls => b = Before(ls) /\ size = sizes[ls + 1]
      /\ i # fs => Before(fs) + sizes[fs + 1] <= b
      /\ i # ls => b + size <= Before(ls)
  <2>1. i # fs => fs < i
    BY <1>1
  <2>2. i # ls => i < ls
    BY <1>1
  <2>3. QED
    BY <2>1, <2>2, ShardsApart
<1> DEFINE bf == Before(fs)
           bl == Before(ls)
           sf == sizes[fs + 1]
           sl == sizes[ls + 1]
<1>7. /\ bf \in Nat /\ bl \in Nat /\ sf \in Nat /\ sl \in Nat /\ b \in Nat /\ size \in Nat
      /\ fi \in 0..sf-1 /\ li \in 0..sl-1 /\ bf + fi = start /\ bl + li = start + count - 1
      /\ i = fs => b = bf /\ size = sf
      /\ i = ls => b = bl /\ size = sl
      /\ i # fs => bf + sf <= b
      /\ i # ls => b + size <= bl
  BY <1>1, <1>2, <1>6
<1>8. e = IF i = ls THEN li + 1 ELSE size
  OBVIOUS
<1> HIDE DEF b, size, bf, bl, sf, sl, e
<1>9. /\ a \in Nat /\ e \in Nat /\ e <= size
      /\ start <= b + a /\ b + e <= start + count
      /\ a <= e
  <2>1. a \in Nat /\ e \in Nat /\ e <= size
    BY <1>7, <1>8
  <2>2. start <= b + a
    BY <1>7
  <2>3. b + e <= start + count
    BY <1>7, <1>8
  <2>4. a <= e
    BY <1>7, <1>8
  <2>5. QED
    BY <2>1, <2>2, <2>3, <2>4
<1>10. \A x \in 0..size-1 :
         b + x \in start..(start + count - 1) => a <= x /\ x < e
  BY <1>7, <1>8
<1> HIDE DEF a
<1>11. TaskFits(part)
  <2>1. part.shard_start + part.count <= size
    BY <1>5, <1>9, <1>7
  <2>2. e - a \in Nat
    BY <1>9
  <2>3. QED
    BY <1>5, <1>9, <2>1, <2>2 DEF TaskFits, FitsShard, size
<1>12. ASSUME NEW n \in 0..part.count-1
       PROVE  /\ ResultIndex(part, n) \in 0..count-1
              /\ Position(Record(part, n)) = start + ResultIndex(part, n)
  <2>1. n \in 0..(e - a)-1 /\ n \in Int
    BY <1>5, <1>9
  <2>2. ResultIndex(part, n) = n + (b + a - start)
    <3>1. ResultIndex(part, n) = 1 * n + (b + a - bf - fi)
      BY <1>5 DEF ResultIndex, bf
    <3>2. QED
      BY <1>7, <1>9, <2>1, <3>1
  <2>3. Position(Record(part, n)) = b + (a + n)
    BY <1>5 DEF Position, Record, b
  <2>4. QED
    BY <1>7, <1>9, <2>1, <2>2, <2>3
<1>13. ASSUME NEW x \in 0..sizes[i + 1]-1,
              Before(i) + x \in start..(start + count - 1)
       PROVE  part.shard_start <= x /\ x < part.shard_start + part.count
  <2>1. x \in 0..size-1 /\ b + x \in start..(start + count - 1)
    BY <1>13 DEF size, b
  <2>2. a <= x /\ x < e
    BY <1>10, <2>1
  <2>3. part.shard_start + part.count = e
    BY <1>5, <1>9
  <2>4. QED
    BY <1>5, <2>2, <2>3
<1>14. QED
  BY <1>5, <1>11, <1>12, <1>13 DEF part, PartFits

\* Where the shard index of a record of a concatenated bag lies.
LEMMA ConcatatedPlaced ==
  ASSUME sizes \in ShardSizes, ~Interleaved, NEW g \in 0..Total-1
  PROVE  \E s \in 0..NumShards-1 : \E x \in 0..sizes[s + 1]-1 :
           /\ ShardIndexFromConcatated(AccumulatedCount, g) = [shard |-> s, shard_index |-> x]
           /\ Before(s) + x = g
<1> DEFINE at == ShardIndex(Interleaved, AccumulatedCount, g)
<1>1. /\ at = [shard |-> at.shard, shard_index |-> at.shard_index]
      /\ at.shard \in 0..NumShards-1
      /\ at.shard_index \in 0..sizes[at.shard + 1]-1
      /\ Position(<<at.shard, at.shard_index>>) = g
  BY ShardIndexPlaced DEF Openable
<1>2. at = ShardIndexFromConcatated(AccumulatedCount, g)
  BY DEF ShardIndex
<1> HIDE DEF at
<1>3. Before(at.shard) + at.shard_index = g
  BY <1>1 DEF Position
<1>4. QED
  BY <1>1, <1>2, <1>3

\* The ranges of concatenated shards fill the results.
LEMMA ConcatatedPlan ==
  ASSUME sizes \in ShardSizes, ~Interleaved,
         NEW start \in Nat, NEW count \in Nat, start + count <= Total
  PROVE  Plan(ShardRangeFromConcatated(AccumulatedCount, start, count),
              OneByOne(count), [k \in 1..count |-> start + k - 1])
<1> DEFINE ranges == ShardRangeFromConcatated(AccumulatedCount, start, count)
<1>1. NumShards \in Nat /\ Total \in Nat
  BY ShardFacts
<1>2. CASE count = 0
  <2>1. DOMAIN ranges = {}
    BY <1>2 DEF ShardRangeFromConcatated
  <2>2. \A j \in 0..count-1 : FALSE
    BY <1>2
  <2> HIDE DEF ranges
  <2>3. Plan(ranges, OneByOne(count), [k \in 1..count |-> start + k - 1])
    BY <2>1, <2>2, InOrderPlan
  <2>4. QED
    BY <2>3 DEF ranges
<1>3. CASE count # 0
  <2> DEFINE last == start + count - 1
  <2>1. start \in 0..Total-1 /\ last \in 0..Total-1 /\ count \in Nat \ {0}
    BY <1>1, <1>3
  <2>2. PICK fs \in 0..NumShards-1 : \E x \in 0..sizes[fs + 1]-1 :
           /\ ShardIndexFromConcatated(AccumulatedCount, start) = [shard |-> fs, shard_index |-> x]
           /\ Before(fs) + x = start
    BY <2>1, ConcatatedPlaced
  <2>3. PICK fi \in 0..sizes[fs + 1]-1 :
           /\ ShardIndexFromConcatated(AccumulatedCount, start) = [shard |-> fs, shard_index |-> fi]
           /\ Before(fs) + fi = start
    BY <2>2
  <2>4. PICK ls \in 0..NumShards-1 : \E x \in 0..sizes[ls + 1]-1 :
           /\ ShardIndexFromConcatated(AccumulatedCount, last) = [shard |-> ls, shard_index |-> x]
           /\ Before(ls) + x = last
    BY <2>1, ConcatatedPlaced
  <2>5. PICK li \in 0..sizes[ls + 1]-1 :
           /\ ShardIndexFromConcatated(AccumulatedCount, last) = [shard |-> ls, shard_index |-> li]
           /\ Before(ls) + li = last
    BY <2>4
  <2> DEFINE fr == [shard |-> fs, shard_index |-> fi]
             lr == [shard |-> ls, shard_index |-> li]
             part(i) == ConcatatedPart(AccumulatedCount, fr, lr, i)
             K == lr.shard - fr.shard + 1
             parts == ConcatatedParts(AccumulatedCount, fr, lr)
             S == {k \in DOMAIN parts : NotEmpty(parts[k])}
             chosen == Ascending(S)
             N == Cardinality(S)
  <2>6. ranges = [n \in DOMAIN chosen |-> parts[chosen[n]]]
    <3>1. ShardIndexFromConcatated(AccumulatedCount, start) = fr
          /\ ShardIndexFromConcatated(AccumulatedCount, last) = lr
      BY <2>3, <2>5
    <3> HIDE DEF fr, lr
    <3>2. QED
      BY <1>3, <3>1 DEF ShardRangeFromConcatated, NotEmptyParts
  <2>7. /\ sizes[fs + 1] \in Nat /\ sizes[ls + 1] \in Nat
        /\ Before(fs) \in Nat /\ Before(ls) \in Nat
    <3>1. fs \in 0..NumShards /\ ls \in 0..NumShards
      BY <1>1
    <3>2. QED
      BY <3>1, ShardFacts
  <2>8. ASSUME NEW s \in 0..NumShards-1, NEW x \in 0..sizes[s + 1]-1,
               Before(s) + x \in start..last
        PROVE  fs <= s /\ s <= ls
    <3>1. sizes[s + 1] \in Nat /\ Before(s) \in Nat
      <4>1. s \in 0..NumShards
        BY <1>1
      <4>2. QED
        BY <4>1, ShardFacts
    <3> DEFINE b == Before(s)
               c == sizes[s + 1]
               bf == Before(fs)
               bl == Before(ls)
               cl == sizes[ls + 1]
    <3>2. s < fs => b + c <= bf
      BY ShardsApart
    <3>3. ls < s => bl + cl <= b
      BY ShardsApart
    <3>4. bf + fi = start /\ bl + li = last /\ b + x \in start..last
          /\ x \in 0..c-1 /\ fi \in Nat /\ li \in 0..cl-1
          /\ b \in Nat /\ c \in Nat /\ bf \in Nat /\ bl \in Nat /\ cl \in Nat
      BY <2>3, <2>5, <2>7, <2>8, <3>1
    <3> HIDE DEF b, c, bf, bl, cl, last
    <3>5. ~(s < fs) /\ ~(ls < s)
      BY <2>1, <3>2, <3>3, <3>4
    <3>6. QED
      BY <1>1, <3>5
  <2>9. fs <= ls
    <3>1. Before(fs) + fi \in start..last
      BY <2>1, <2>3
    <3>2. QED
      BY <2>8, <3>1
  <2>10. K \in Nat /\ DOMAIN parts = 1..K
    BY <1>1, <2>9 DEF ConcatatedParts
  <2>11. \A i \in 0..NumShards-1 : fs <= i /\ i <= ls =>
           /\ TaskFits(part(i)) /\ part(i).shard = i
           /\ \A n \in 0..part(i).count-1 :
                /\ ResultIndex(part(i), n) \in 0..count-1
                /\ Position(Record(part(i), n)) = start + ResultIndex(part(i), n)
           /\ \A x \in 0..sizes[i + 1]-1 :
                Before(i) + x \in start..last =>
                  part(i).shard_start <= x /\ x < part(i).shard_start + part(i).count
    <3>1. Before(ls) + li = start + count - 1 /\ Before(fs) + fi = start /\ count \in Nat \ {0}
      BY <2>1, <2>3, <2>5
    <3>2. \A i \in 0..NumShards-1 : fs <= i /\ i <= ls => PartFits(part(i), i, start, count)
      BY <3>1, ConcatatedPartFacts
    <3>3. QED
      BY <3>2 DEF PartFits
  <2>12. \A k \in 1..K : fs + k - 1 \in 0..NumShards-1 /\ fs <= fs + k - 1 /\ fs + k - 1 <= ls
                         /\ parts[k] = part(fs + k - 1)
    BY <1>1, <2>9 DEF ConcatatedParts
  <2>13. S \in SUBSET (1..K) /\ \A k \in 1..K : parts[k].count # 0 => k \in S
    BY <2>10 DEF NotEmpty
  <2> HIDE DEF part, ranges, parts, S, K
  <2>14. /\ N \in Nat /\ chosen \in [1..N -> S] /\ DOMAIN chosen = 1..N
         /\ \A x \in S : \E k \in 1..N : chosen[k] = x
         /\ \A j, k \in 1..N : chosen[j] = chosen[k] => j = k
    BY <2>10, <2>13, AscendingFacts
  <2> HIDE DEF chosen, N
  <2>15. DOMAIN ranges = 1..N
    BY <2>6, <2>14
  <2>16. ASSUME NEW t \in DOMAIN ranges
         PROVE  /\ chosen[t] \in 1..K
                /\ fs + chosen[t] - 1 \in 0..NumShards-1
                /\ fs <= fs + chosen[t] - 1 /\ fs + chosen[t] - 1 <= ls
                /\ ranges[t] = part(fs + chosen[t] - 1)
    <3>1. chosen[t] \in S /\ ranges[t] = parts[chosen[t]]
      BY <2>6, <2>14, <2>15
    <3>2. QED
      BY <2>12, <2>13, <3>1
  <2>17. ASSUME NEW t \in DOMAIN ranges
         PROVE  /\ TaskFits(ranges[t]) /\ ranges[t].shard = fs + chosen[t] - 1
                /\ \A n \in 0..ranges[t].count-1 :
                     /\ ResultIndex(ranges[t], n) \in 0..count-1
                     /\ Position(Record(ranges[t], n)) = start + ResultIndex(ranges[t], n)
    BY <2>11, <2>16
  <2>18. ASSUME NEW j \in 0..count-1
         PROVE  \E t \in DOMAIN ranges : \E n \in 0..ranges[t].count-1 :
                  ResultIndex(ranges[t], n) = j
    <3>1. start + j \in 0..Total-1 /\ start + j \in start..last
      BY <1>1
    <3>2. PICK s \in 0..NumShards-1 : \E x \in 0..sizes[s + 1]-1 : Before(s) + x = start + j
      BY <3>1, ConcatatedPlaced
    <3>3. PICK x \in 0..sizes[s + 1]-1 : Before(s) + x = start + j
      BY <3>2
    <3>4. fs <= s /\ s <= ls
      BY <2>8, <3>1, <3>3
    <3> DEFINE k == s - fs + 1
               p == part(s)
    <3>5. k \in 1..K /\ fs + k - 1 = s
      BY <1>1, <3>4 DEF K
    <3>6. parts[k] = p
      BY <2>12, <3>5
    <3>7. /\ TaskFits(p) /\ p.shard = s
          /\ p.shard_start <= x /\ x < p.shard_start + p.count
          /\ \A n \in 0..p.count-1 :
               /\ ResultIndex(p, n) \in 0..count-1
               /\ Position(Record(p, n)) = start + ResultIndex(p, n)
      BY <2>11, <3>1, <3>3, <3>4
    <3> HIDE DEF p, k
    <3>8. p.shard_start \in Nat /\ p.count \in Nat /\ sizes[s + 1] \in Nat
          /\ x \in Nat
      BY <3>7, ShardFacts DEF TaskFits
    <3>9. p.count # 0
      BY <3>7, <3>8
    <3>10. k \in S
      BY <2>13, <3>5, <3>6, <3>9
    <3>11. PICK t \in 1..N : chosen[t] = k
      BY <2>14, <3>10
    <3>12. t \in DOMAIN ranges /\ ranges[t] = p
      BY <2>6, <2>14, <2>15, <3>6, <3>11
    <3> DEFINE n == x - p.shard_start
    <3>13. n \in 0..p.count-1 /\ p.shard_start + n = x
      BY <3>7, <3>8
    <3> HIDE DEF n
    <3>14. Position(Record(p, n)) = Before(s) + x
      BY <3>7, <3>13 DEF Position, Record
    <3>15. ResultIndex(p, n) \in 0..count-1 /\ Position(Record(p, n)) = start + ResultIndex(p, n)
      BY <3>7, <3>13
    <3>16. ResultIndex(p, n) = j
      BY <3>3, <3>14, <3>15
    <3>17. QED
      BY <3>12, <3>13, <3>16
  <2>19. ASSUME NEW t \in DOMAIN ranges, NEW u \in DOMAIN ranges,
                NEW n \in 0..ranges[t].count-1, NEW m \in 0..ranges[u].count-1,
                ResultIndex(ranges[t], n) = ResultIndex(ranges[u], m)
         PROVE  t = u /\ n = m
    <3>1. Position(Record(ranges[t], n)) = Position(Record(ranges[u], m))
      BY <2>17, <2>19
    <3>2. Record(ranges[t], n) \in BagRecords /\ Record(ranges[u], m) \in BagRecords
      BY <2>17, RecordInBag
    <3>3. Record(ranges[t], n) = Record(ranges[u], m)
      BY <3>1, <3>2, PositionOrder
    <3>4. ranges[t].shard = ranges[u].shard
          /\ ranges[t].shard_start + n = ranges[u].shard_start + m
      BY <3>3 DEF Record
    <3>5. chosen[t] = chosen[u]
      <4> DEFINE c == chosen[t]
                 d == chosen[u]
      <4>1. fs + c - 1 = fs + d - 1 /\ c \in 1..K /\ d \in 1..K
        BY <2>16, <2>17, <3>4
      <4> HIDE DEF c, d
      <4>2. c = d
        BY <4>1
      <4>3. QED
        BY <4>2 DEF c, d
    <3>6. t = u
      BY <2>14, <2>15, <3>5
    <3>7. ranges[t].shard_start \in Nat /\ n \in Int /\ m \in Int
      BY <2>17 DEF TaskFits
    <3>8. n = m
      BY <3>4, <3>6, <3>7
    <3>9. QED
      BY <3>6, <3>8
  <2>20. Plan(ranges, OneByOne(count), [k \in 1..count |-> start + k - 1])
    <3>1. \A t \in DOMAIN ranges : TaskFits(ranges[t])
      BY <2>17
    <3>2. \A t \in DOMAIN ranges : \A n \in 0..ranges[t].count-1 :
            /\ ResultIndex(ranges[t], n) \in 0..count-1
            /\ Position(Record(ranges[t], n)) = start + ResultIndex(ranges[t], n)
      BY <2>17
    <3>3. \A t, u \in DOMAIN ranges :
            \A n \in 0..ranges[t].count-1 : \A m \in 0..ranges[u].count-1 :
              ResultIndex(ranges[t], n) = ResultIndex(ranges[u], m) => t = u /\ n = m
      BY <2>19
    <3>4. QED
      BY <2>18, <3>1, <3>2, <3>3, InOrderPlan
  <2>21. QED
    BY <2>20 DEF ranges
<1>4. QED
  BY <1>2, <1>3

\* ShardIndexing::range: the ranges of a valid range cover it, and each of its
\* records is read to the result that the caller looks for it in.
THEOREM RangePlan ==
  ASSUME Openable, NEW start \in Nat, NEW count \in Nat, start + count <= Total
  PROVE  Plan(ShardRanges(Interleaved, AccumulatedCount, start, count),
              OneByOne(count), [k \in 1..count |-> start + k - 1])
<1>1. CASE Interleaved
  BY <1>1, InterleavedPlan DEF ShardRanges, Openable
<1>2. CASE ~Interleaved
  BY <1>2, ConcatatedPlan DEF ShardRanges, Openable
<1>3. QED
  BY <1>1, <1>2

-----------------------------------------------------------------------------
(* Indices *)

\* The ranges show the records one after the other.
ShowsRecords(ranges, records) ==
  \A t \in DOMAIN ranges :
    /\ ranges[t].count \in Nat \ {0} /\ ranges[t].shard_start \in Nat
    /\ \A n \in 0..ranges[t].count-1 :
         /\ records[ResultOf(ranges[t], n)].shard = ranges[t].shard
         /\ records[ResultOf(ranges[t], n)].shard_index = ranges[t].shard_start + n

\* Sorted records fall into ranges that fill the results one after the other,
\* each from the first record on that does not continue the one before.
LEMMA ContiguousFacts ==
  ASSUME NEW N \in Nat, NEW R, NEW records \in [1..N -> R],
         \A k \in 1..N : records[k].shard \in Nat /\ records[k].shard_index \in Nat
  PROVE  /\ Fills(ContiguousRanges(records), 1..N)
         /\ ShowsRecords(ContiguousRanges(records), records)
<1> DEFINE Firsts == {k \in DOMAIN records :
                        k = 1 \/ ~Follows(records[k - 1], records[k])}
           starts == Ascending(Firsts)
           M == Cardinality(Firsts)
           End(n) == IF n = Len(starts) THEN Len(records) + 1 ELSE starts[n + 1]
           ranges == ContiguousRanges(records)
<1>1. DOMAIN records = 1..N /\ Len(records) = N
  OBVIOUS
<1>2. Firsts \in SUBSET (1..N)
  BY <1>1
<1>3. /\ N > 0 => 1 \in Firsts
      /\ \A k \in 1..N : k \notin Firsts => k # 1 /\ Follows(records[k - 1], records[k])
  BY <1>1
<1>4. ranges = [n \in DOMAIN starts |->
                  [shard |-> records[starts[n]].shard,
                   shard_start |-> records[starts[n]].shard_index,
                   count |-> End(n) - starts[n],
                   result_offset |-> starts[n] - 1,
                   result_stride |-> 1]]
  BY DEF ContiguousRanges
<1> HIDE DEF Firsts
<1>5. /\ M \in Nat /\ starts \in [1..M -> Firsts] /\ Len(starts) = M /\ DOMAIN starts = 1..M
      /\ \A x \in Firsts : \E k \in 1..M : starts[k] = x
      /\ \A j, k \in 1..M : j < k => starts[j] < starts[k]
  BY <1>2, AscendingFacts
<1> HIDE DEF M, starts, ranges
<1>6. \A t \in 1..M : End(t) = IF t = M THEN N + 1 ELSE starts[t + 1]
  BY <1>1, <1>5
<1> HIDE DEF End
<1>7. \A t \in 1..M : starts[t] \in 1..N
  BY <1>2, <1>5
<1>8. ASSUME NEW t \in 1..M
      PROVE  End(t) \in Nat /\ starts[t] < End(t) /\ End(t) <= N + 1
  <2>1. CASE t = M
    BY <1>6, <1>7, <2>1
  <2>2. CASE t # M
    <3>1. t + 1 \in 1..M /\ t < t + 1
      BY <1>5, <2>2
    <3>2. End(t) = starts[t + 1] /\ starts[t] < starts[t + 1] /\ starts[t + 1] \in 1..N
      BY <1>5, <1>6, <1>7, <2>2, <3>1
    <3>3. QED
      BY <3>2
  <2>3. QED
    BY <2>1, <2>2
<1>9. N > 0 => M > 0 /\ starts[1] = 1
  <2> SUFFICES ASSUME N > 0
               PROVE  M > 0 /\ starts[1] = 1
    OBVIOUS
  <2>1. PICK k \in 1..M : starts[k] = 1
    BY <1>3, <1>5
  <2>2. M > 0 /\ 1 \in 1..M
    BY <1>5
  <2>3. ~(1 < k)
    BY <1>5, <1>7, <2>1, <2>2
  <2>4. k = 1
    BY <1>5, <2>3
  <2>5. QED
    BY <2>1, <2>2, <2>4
<1>10. \A t, u \in 1..M : t < u => End(t) <= starts[u]
  <2> SUFFICES ASSUME NEW t \in 1..M, NEW u \in 1..M, t < u
               PROVE  End(t) <= starts[u]
    OBVIOUS
  <2>1. t # M /\ t + 1 \in 1..M /\ (t + 1 = u \/ t + 1 < u)
    BY <1>5
  <2>2. End(t) = starts[t + 1] /\ starts[t + 1] \in 1..N /\ starts[u] \in 1..N
    BY <1>6, <1>7, <2>1
  <2>3. starts[t + 1] = starts[u] \/ starts[t + 1] < starts[u]
    BY <1>5, <2>1
  <2>4. QED
    BY <2>2, <2>3
<1>11. ASSUME NEW t \in 1..M, NEW x \in 1..N, starts[t] < x, x < End(t)
       PROVE  Follows(records[x - 1], records[x])
  <2> SUFFICES ASSUME x \in Firsts
               PROVE  FALSE
    BY <1>3
  <2>1. PICK m \in 1..M : starts[m] = x
    BY <1>5
  <2>2. ~(t < m)
    BY <1>5, <1>8, <1>10, <1>11, <2>1
  <2>3. ~(m < t)
    BY <1>5, <1>7, <1>11, <2>1
  <2>4. m = t
    BY <1>5, <2>2, <2>3
  <2>5. QED
    BY <1>7, <1>11, <2>1, <2>4
<1>12. ASSUME NEW t \in 1..M
       PROVE  \A d \in 0..(End(t) - starts[t] - 1) :
                /\ records[starts[t] + d].shard = records[starts[t]].shard
                /\ records[starts[t] + d].shard_index = records[starts[t]].shard_index + d
  <2> DEFINE s == starts[t]
             Same(d) == /\ records[s + d].shard = records[s].shard
                        /\ records[s + d].shard_index = records[s].shard_index + d
             T == {d \in 0..(End(t) - s - 1) : ~Same(d)}
  <2>1. s \in 1..N /\ End(t) \in Nat /\ End(t) <= N + 1
    BY <1>7, <1>8
  <2>2. SUFFICES ASSUME T # {}
                 PROVE  FALSE
    OBVIOUS
  <2>3. PICK m \in T : \A k \in T : m <= k
    <3>1. T \in SUBSET Nat
      BY <2>1
    <3> HIDE DEF T
    <3>2. QED
      BY <3>1, <2>2, LeastNatural
  <2>4. m \in 0..(End(t) - s - 1) /\ ~Same(m)
    OBVIOUS
  <2>5. records[s].shard_index \in Nat
    BY <2>1
  <2>6. m # 0
    <3>1. s + 0 = s /\ records[s].shard_index + 0 = records[s].shard_index
      BY <2>1, <2>5
    <3>2. Same(0)
      BY <3>1
    <3>3. QED
      BY <2>4, <3>2
  <2> DEFINE d == m - 1
             x == s + m
  <2>7. d \in 0..(End(t) - s - 1) /\ m = d + 1 /\ d < m /\ d \in Nat
        /\ x \in 1..N /\ s < x /\ x < End(t) /\ x - 1 = s + d
    BY <2>1, <2>4, <2>6
  <2>8. d \notin T
    <3> HIDE DEF T, d
    <3>1. m \in Int /\ d \in Int
      BY <2>4, <2>7
    <3>2. QED
      BY <2>3, <2>7, <3>1
  <2>9. Same(d)
    <3> HIDE DEF Same, d
    <3>1. QED
      BY <2>7, <2>8
  <2>10. Follows(records[x - 1], records[x])
    <3> HIDE DEF x, d
    <3>1. QED
      BY <1>11, <2>7
  <2>11. records[x - 1] = records[s + d]
    BY <2>7
  <2>12. records[x].shard = records[s].shard
         /\ records[x].shard_index = (records[s].shard_index + d) + 1
    BY <2>9, <2>10, <2>11 DEF Follows
  <2>13. (records[s].shard_index + d) + 1 = records[s].shard_index + m
    BY <2>5, <2>7
  <2>14. Same(m)
    BY <2>12, <2>13
  <2>15. QED
    BY <2>4, <2>14
<1>13. ASSUME NEW x \in 1..N
       PROVE  \E t \in 1..M : starts[t] <= x /\ x < End(t)
  <2>1. M > 0 /\ starts[1] = 1 /\ 1 \in 1..M /\ M \in 1..M
    BY <1>5, <1>9
  <2> DEFINE T == {m \in 1..M : starts[m] > x}
  <2>2. CASE T = {}
    <3>1. starts[M] <= x
      BY <1>7, <2>1, <2>2
    <3>2. End(M) = N + 1
      BY <1>6, <2>1
    <3>3. x < End(M)
      BY <3>2
    <3>4. QED
      BY <2>1, <3>1, <3>3
  <2>3. CASE T # {}
    <3>1. PICK m \in T : \A k \in T : m <= k
      <4>1. T \in SUBSET Nat
        BY <1>5
      <4> HIDE DEF T
      <4>2. QED
        BY <4>1, <2>3, LeastNatural
    <3>2. m \in 1..M /\ starts[m] > x
      OBVIOUS
    <3>3. m # 1
      BY <2>1, <3>2
    <3> DEFINE t == m - 1
    <3>4. t \in 1..M /\ m = t + 1 /\ t # M /\ t < m
      BY <1>5, <3>2, <3>3
    <3>5. t \notin T
      <4> HIDE DEF T, t
      <4>1. m \in Int /\ t \in Int
        BY <1>5, <3>2, <3>4
      <4>2. QED
        BY <3>1, <3>4, <4>1
    <3> HIDE DEF t
    <3>6. starts[t] <= x
      BY <1>7, <3>4, <3>5
    <3>7. End(t) = starts[m]
      BY <1>6, <3>4
    <3>8. x < End(t)
      BY <1>7, <3>2, <3>7
    <3>9. QED
      BY <3>4, <3>6, <3>8
  <2>4. QED
    BY <2>2, <2>3
<1>14. DOMAIN ranges = 1..M
  BY <1>4, <1>5
<1>15. ASSUME NEW t \in 1..M
       PROVE  /\ ranges[t].count = End(t) - starts[t]
              /\ ranges[t].shard = records[starts[t]].shard
              /\ ranges[t].shard_start = records[starts[t]].shard_index
              /\ \A n \in Int : ResultOf(ranges[t], n) = starts[t] + n
  <2>1. ranges[t] = [shard |-> records[starts[t]].shard,
                     shard_start |-> records[starts[t]].shard_index,
                     count |-> End(t) - starts[t],
                     result_offset |-> starts[t] - 1,
                     result_stride |-> 1]
    BY <1>4, <1>5
  <2>2. \A n \in Int : ResultOf(ranges[t], n) = 1 * n + (starts[t] - 1) + 1
    BY <2>1 DEF ResultOf, ResultIndex
  <2>3. starts[t] \in Int
    BY <1>7
  <2>4. \A n \in Int : ResultOf(ranges[t], n) = starts[t] + n
    BY <2>2, <2>3
  <2>5. /\ ranges[t].count = End(t) - starts[t]
        /\ ranges[t].shard = records[starts[t]].shard
        /\ ranges[t].shard_start = records[starts[t]].shard_index
    BY <2>1
  <2>6. QED
    BY <2>4, <2>5
<1>16. ASSUME NEW t \in DOMAIN ranges
       PROVE  /\ ranges[t].count \in Nat \ {0} /\ ranges[t].shard_start \in Nat
              /\ \A n \in 0..ranges[t].count-1 :
                   /\ ResultOf(ranges[t], n) = starts[t] + n
                   /\ ResultOf(ranges[t], n) \in 1..N
                   /\ ResultOf(ranges[t], n) < End(t)
                   /\ records[ResultOf(ranges[t], n)].shard = ranges[t].shard
                   /\ records[ResultOf(ranges[t], n)].shard_index = ranges[t].shard_start + n
  <2>1. t \in 1..M
    BY <1>14
  <2>2. starts[t] \in 1..N /\ End(t) \in Nat /\ starts[t] < End(t) /\ End(t) <= N + 1
    BY <1>7, <1>8, <2>1
  <2>3. ranges[t].count \in Nat \ {0} /\ ranges[t].count = End(t) - starts[t]
    <3>1. ranges[t].count = End(t) - starts[t]
      BY <1>15, <2>1
    <3> DEFINE e == End(t)
    <3>2. e \in Nat /\ starts[t] < e /\ starts[t] \in Nat
      BY <2>2
    <3> HIDE DEF e
    <3>3. e - starts[t] \in Nat \ {0}
      BY <3>2
    <3>4. QED
      BY <3>1, <3>3 DEF e
  <2>4. ranges[t].shard_start \in Nat
    BY <1>15, <2>1, <2>2
  <2>5. ASSUME NEW n \in 0..ranges[t].count-1
        PROVE  /\ ResultOf(ranges[t], n) = starts[t] + n
               /\ ResultOf(ranges[t], n) \in 1..N
               /\ ResultOf(ranges[t], n) < End(t)
               /\ records[ResultOf(ranges[t], n)].shard = ranges[t].shard
               /\ records[ResultOf(ranges[t], n)].shard_index = ranges[t].shard_start + n
    <3>1. n \in 0..(End(t) - starts[t] - 1) /\ n \in Int
      BY <2>2, <2>3
    <3>2. ResultOf(ranges[t], n) = starts[t] + n
      BY <1>15, <2>1, <3>1
    <3>3. starts[t] + n \in 1..N /\ starts[t] + n < End(t)
      BY <2>2, <3>1
    <3>4. records[starts[t] + n].shard = ranges[t].shard
          /\ records[starts[t] + n].shard_index = ranges[t].shard_start + n
      BY <1>12, <1>15, <2>1, <3>1
    <3>5. QED
      BY <3>2, <3>3, <3>4
  <2>6. QED
    BY <2>3, <2>4, <2>5
<1>17. Fills(ranges, 1..N)
  <2>1. ASSUME NEW g \in 1..N
        PROVE  \E t \in DOMAIN ranges : \E n \in 0..ranges[t].count-1 :
                 ResultOf(ranges[t], n) = g
    <3>1. PICK t \in 1..M : starts[t] <= g /\ g < End(t)
      BY <1>13
    <3> DEFINE s == starts[t]
               e == End(t)
               n == g - s
    <3>2. s \in Nat /\ e \in Nat /\ s <= g /\ g < e
      BY <1>7, <1>8, <3>1
    <3> HIDE DEF s, e
    <3>3. n \in 0..(e - s - 1) /\ s + n = g /\ n \in Int
      BY <3>2
    <3> HIDE DEF n
    <3> USE DEF s, e
    <3>4. n \in 0..ranges[t].count-1 /\ ResultOf(ranges[t], n) = g
      BY <1>15, <3>3
    <3>5. QED
      BY <1>14, <3>4
  <2>2. ASSUME NEW t \in DOMAIN ranges, NEW u \in DOMAIN ranges,
               NEW n \in 0..ranges[t].count-1, NEW m \in 0..ranges[u].count-1,
               ResultOf(ranges[t], n) = ResultOf(ranges[u], m)
        PROVE  t = u /\ n = m
    <3> DEFINE x == starts[t] + n
    <3>1. t \in 1..M /\ u \in 1..M
      BY <1>14
    <3>2. starts[t] \in 1..N /\ starts[u] \in 1..N /\ End(t) \in Nat /\ End(u) \in Nat
      BY <1>7, <1>8, <3>1
    <3>3. n \in Nat /\ m \in Nat
      BY <1>16
    <3>4. starts[t] + n = starts[u] + m
          /\ starts[t] + n < End(t) /\ starts[u] + m < End(u)
      BY <1>16, <2>2
    <3>5. ~(t < u)
      <4> SUFFICES ASSUME t < u PROVE FALSE
        OBVIOUS
      <4>1. End(t) <= starts[u]
        BY <1>10, <3>1
      <4>2. QED
        BY <3>2, <3>3, <3>4, <4>1
    <3>6. ~(u < t)
      <4> SUFFICES ASSUME u < t PROVE FALSE
        OBVIOUS
      <4>1. End(u) <= starts[t]
        BY <1>10, <3>1
      <4>2. QED
        BY <3>2, <3>3, <3>4, <4>1
    <3>7. t = u
      BY <1>5, <3>1, <3>5, <3>6
    <3>8. QED
      BY <3>2, <3>3, <3>4, <3>7
  <2>3. QED
    BY <1>16, <2>1, <2>2 DEF Fills
<1>18. ShowsRecords(ranges, records)
  BY <1>16 DEF ShowsRecords
<1>19. QED
  BY <1>17, <1>18 DEF ranges

\* The records of some indices, each once.
LEMMA SortedRecordsFacts ==
  ASSUME Openable, NEW n \in Nat, NEW indices, DOMAIN indices = 1..n,
         \A k \in 1..n : indices[k] \in 0..Total-1
  PROVE  LET records == SortedRecords(indices)
             N == Len(records)
             R == {ShardIndex(Interleaved, AccumulatedCount, indices[k]) :
                     k \in DOMAIN indices}
         IN  /\ N \in Nat /\ records \in [1..N -> R]
             /\ \A j, k \in 1..N : records[j] = records[k] => j = k
             /\ \A k \in 1..n : \E j \in 1..N :
                  records[j] = ShardIndex(Interleaved, AccumulatedCount, indices[k])
<1> DEFINE At0(k) == ShardIndex(Interleaved, AccumulatedCount, indices[k])
           R == {At0(k) : k \in DOMAIN indices}
           before == {p \in R \X R : ByShardAndIndex(p[1], p[2])}
           records == SortedRecords(indices)
           N == Cardinality(R)
<1>1. IsFiniteSet(R)
  <2> DEFINE f == [k \in 1..n |-> At0(k)]
  <2>1. f \in Surjection(1..n, R)
    BY DEF Surjection
  <2>2. IsFiniteSet(1..n)
    BY FS_Interval
  <2> HIDE DEF f, R
  <2>3. QED
    BY <2>1, <2>2, FS_Surjection
<1>2. \A r \in R : /\ r = [shard |-> r.shard, shard_index |-> r.shard_index]
                   /\ r.shard \in Int /\ r.shard_index \in Int
  <2> SUFFICES ASSUME NEW k \in 1..n
               PROVE  /\ At0(k) = [shard |-> At0(k).shard, shard_index |-> At0(k).shard_index]
                      /\ At0(k).shard \in Int /\ At0(k).shard_index \in Int
    OBVIOUS
  <2>1. indices[k] \in 0..Total-1
    OBVIOUS
  <2>2. /\ At0(k) = [shard |-> At0(k).shard, shard_index |-> At0(k).shard_index]
        /\ At0(k).shard \in 0..NumShards-1
        /\ At0(k).shard_index \in 0..sizes[At0(k).shard + 1]-1
    BY <2>1, ShardIndexPlaced
  <2>3. NumShards \in Nat /\ sizes[At0(k).shard + 1] \in Nat
    BY <2>2, ShardFacts DEF Openable
  <2>4. QED
    BY <2>2, <2>3
<1>3. records = SortedSeq(R, before)
  BY DEF SortedRecords
<1>4. \A x, y \in R : <<x, y>> \in before <=> ByShardAndIndex(x, y)
  OBVIOUS
<1>5. \A k \in 1..n : At0(k) \in R
  OBVIOUS
<1> HIDE DEF R, before, records
<1>6. Orders(before, R)
  <2>1. \A x \in R : <<x, x>> \notin before
    BY <1>2, <1>4 DEF ByShardAndIndex
  <2>2. \A x, y \in R : x # y => <<x, y>> \in before \/ <<y, x>> \in before
    <3> SUFFICES ASSUME NEW x \in R, NEW y \in R,
                        ~ByShardAndIndex(x, y), ~ByShardAndIndex(y, x)
                 PROVE  x = y
      BY <1>4
    <3>1. x.shard = y.shard /\ x.shard_index = y.shard_index
      BY <1>2 DEF ByShardAndIndex
    <3>2. QED
      BY <1>2, <3>1
  <2>3. ASSUME NEW x \in R, NEW y \in R, NEW z \in R,
               ByShardAndIndex(x, y), ByShardAndIndex(y, z)
        PROVE  ByShardAndIndex(x, z)
    <3>1. x.shard \in Int /\ y.shard \in Int /\ z.shard \in Int
          /\ x.shard_index \in Int /\ y.shard_index \in Int /\ z.shard_index \in Int
      BY <1>2
    <3>2. QED
      BY <2>3, <3>1 DEF ByShardAndIndex
  <2>4. QED
    BY <1>4, <2>1, <2>2, <2>3 DEF Orders
<1>7. /\ records \in [1..N -> R] /\ N \in Nat
      /\ \A x \in R : \E k \in 1..N : records[k] = x
      /\ \A j, k \in 1..N : records[j] = records[k] => j = k
  BY <1>1, <1>3, <1>6, SortedSeqFacts
<1> HIDE DEF N
<1>8. Len(records) = N
  BY <1>7
<1>9. QED
  BY <1>5, <1>7, <1>8 DEF R, records

\* ReadIndices: the ranges of the sorted indices cover their records, and each
\* record is read for all the results that want it.
THEOREM IndicesPlan ==
  ASSUME Openable, NEW n \in Nat, NEW indices, DOMAIN indices = 1..n,
         \A k \in 1..n : indices[k] \in 0..Total-1,
         NEW goal, DOMAIN goal = 1..n,
         \A k \in 1..n : goal[k] # Outside => goal[k] = indices[k]
  PROVE  LET records == SortedRecords(indices)
         IN  Plan(ContiguousRanges(records),
                  [k \in DOMAIN records |-> Wanting(records[k], indices)], goal)
<1> DEFINE at(k) == ShardIndex(Interleaved, AccumulatedCount, indices[k])
           R == {at(k) : k \in DOMAIN indices}
           records == SortedRecords(indices)
           N == Len(records)
           results == [g \in DOMAIN records |-> Wanting(records[g], indices)]
           ranges == ContiguousRanges(records)
<1>1. /\ N \in Nat /\ records \in [1..N -> R]
      /\ \A j, k \in 1..N : records[j] = records[k] => j = k
      /\ \A k \in 1..n : \E j \in 1..N : records[j] = at(k)
  BY SortedRecordsFacts
<1>2. ASSUME NEW k \in 1..n
      PROVE  /\ at(k).shard \in 0..NumShards-1
             /\ at(k).shard_index \in 0..sizes[at(k).shard + 1]-1
             /\ Position(<<at(k).shard, at(k).shard_index>>) = indices[k]
  <2>1. indices[k] \in 0..Total-1
    OBVIOUS
  <2>2. QED
    BY <2>1, ShardIndexPlaced
<1>3. \A g \in 1..N : \E k \in 1..n : records[g] = at(k)
  BY <1>1
<1>4. DOMAIN results = 1..N
      /\ \A g \in 1..N : results[g] = {k \in 1..n : at(k) = records[g]}
  BY <1>1 DEF Wanting
<1> HIDE DEF at, R, records, N, results, ranges
<1>5. NumShards \in Nat /\ \A s \in 0..NumShards-1 : sizes[s + 1] \in Nat
  BY ShardFacts DEF Openable
<1>6. \A g \in 1..N :
        /\ records[g].shard \in 0..NumShards-1
        /\ records[g].shard_index \in 0..sizes[records[g].shard + 1]-1
        /\ records[g].shard \in Nat /\ records[g].shard_index \in Nat
  <2> SUFFICES ASSUME NEW g \in 1..N
               PROVE  /\ records[g].shard \in 0..NumShards-1
                      /\ records[g].shard_index \in 0..sizes[records[g].shard + 1]-1
                      /\ records[g].shard \in Nat /\ records[g].shard_index \in Nat
    OBVIOUS
  <2>1. PICK k \in 1..n : records[g] = at(k)
    BY <1>3
  <2>2. at(k).shard \in 0..NumShards-1
        /\ at(k).shard_index \in 0..sizes[at(k).shard + 1]-1
        /\ sizes[at(k).shard + 1] \in Nat
    BY <1>2, <1>5
  <2>3. at(k).shard \in Nat /\ at(k).shard_index \in Nat
    BY <1>5, <2>2
  <2>4. QED
    BY <2>1, <2>2, <2>3
<1>7. /\ Fills(ranges, 1..N)
      /\ \A t \in DOMAIN ranges :
           /\ ranges[t].count \in Nat \ {0} /\ ranges[t].shard_start \in Nat
           /\ \A m \in 0..ranges[t].count-1 :
                /\ records[ResultOf(ranges[t], m)].shard = ranges[t].shard
                /\ records[ResultOf(ranges[t], m)].shard_index = ranges[t].shard_start + m
  <2>1. \A k \in 1..N : records[k].shard \in Nat /\ records[k].shard_index \in Nat
    BY <1>6
  <2>2. QED
    <3>1. Fills(ranges, 1..N) /\ ShowsRecords(ranges, records)
      BY <1>1, <2>1, ContiguousFacts DEF ranges
    <3>2. QED
      BY <3>1 DEF ShowsRecords
<1>8. \A t \in DOMAIN ranges : \A m \in 0..ranges[t].count-1 : ResultOf(ranges[t], m) \in 1..N
  BY <1>7 DEF Fills
<1>9. ASSUME NEW t \in DOMAIN ranges
      PROVE  TaskFits(ranges[t])
  <2> DEFINE c == ranges[t].count
             m == c - 1
             a == ResultOf(ranges[t], m)
             sh == ranges[t].shard
  <2>1. c \in Nat \ {0} /\ ranges[t].shard_start \in Nat /\ m \in 0..c-1
    BY <1>7
  <2>2. a \in 1..N /\ records[a].shard = sh
        /\ records[a].shard_index = ranges[t].shard_start + m
    BY <1>7, <1>8, <2>1
  <2> HIDE DEF a
  <2>3. sh \in 0..NumShards-1 /\ ranges[t].shard_start + m \in 0..sizes[sh + 1]-1
        /\ sizes[sh + 1] \in Nat
    BY <1>5, <1>6, <2>2
  <2>4. ranges[t].shard_start + c <= sizes[sh + 1]
    BY <2>1, <2>3
  <2>5. QED
    BY <2>1, <2>3, <2>4 DEF TaskFits, FitsShard
<1>10. Partitions(results, 1..n)
  <2>1. \A g \in DOMAIN results : results[g] \in SUBSET (1..n) /\ results[g] # {}
    BY <1>3, <1>4
  <2>2. \A k \in 1..n : \E g \in DOMAIN results : k \in results[g]
    BY <1>1, <1>4
  <2>3. \A g, h \in DOMAIN results : \A k \in results[g] : k \in results[h] => g = h
    BY <1>1, <1>4
  <2>4. 1..n \in SUBSET Nat
    OBVIOUS
  <2>5. QED
    BY <2>1, <2>2, <2>3, <2>4 DEF Partitions
<1>11. ASSUME NEW t \in DOMAIN ranges, NEW m \in 0..ranges[t].count-1,
              NEW k \in results[ResultOf(ranges[t], m)], goal[k] # Outside
       PROVE  Position(Record(ranges[t], m)) = goal[k]
  <2> DEFINE g == ResultOf(ranges[t], m)
  <2>1. g \in 1..N /\ records[g].shard = ranges[t].shard
        /\ records[g].shard_index = ranges[t].shard_start + m
    BY <1>7, <1>8
  <2>2. k \in 1..n /\ at(k) = records[g]
    BY <1>4, <2>1
  <2> HIDE DEF g
  <2>3. Position(<<records[g].shard, records[g].shard_index>>) = indices[k]
    BY <1>2, <2>2
  <2>4. goal[k] = indices[k]
    BY <1>11, <2>2
  <2>5. QED
    BY <2>1, <2>3, <2>4 DEF Record
<1>12. Shows(ranges, results, goal)
  BY <1>11 DEF Shows
<1>13. Plan(ranges, results, goal)
  BY <1>4, <1>7, <1>9, <1>10, <1>12 DEF Plan
<1>14. QED
  BY <1>13 DEF ranges, results, records

-----------------------------------------------------------------------------
(* Steps of a read *)

\* The bag does not change.
LEMMA BagStays ==
  ASSUME UNCHANGED <<layout, sizes>>
  PROVE  /\ BagRecords' = BagRecords
         /\ \A r : Position(r)' = Position(r)
         /\ \A task : TaskFits(task)' <=> TaskFits(task)
         /\ Openable' <=> Openable
         /\ HandleInv /\ handle' = handle => HandleInv'
<1>1. NumShards' = NumShards /\ Interleaved' = Interleaved
      /\ AccumulatedCount' = AccumulatedCount
  BY DEF NumShards, Interleaved, AccumulatedCount
<1>2. BagRecords' = BagRecords
  BY DEF BagRecords
<1>3. \A r : Position(r)' = Position(r)
  BY <1>1 DEF Position, Rounds, Before
<1>4. \A task : TaskFits(task)' <=> TaskFits(task)
  BY <1>1 DEF TaskFits, FitsShard
<1>5. Openable' <=> Openable
  BY <1>1 DEF Openable, Balanced
<1>6. HandleInv /\ handle' = handle => HandleInv'
  BY <1>2, <1>3 DEF HandleInv
<1>7. QED
  BY <1>2, <1>3, <1>4, <1>5, <1>6

\* The plan of a read depends on the bag, which does not change.
LEMMA PlanStays ==
  ASSUME UNCHANGED <<layout, sizes>>, NEW ranges, NEW results, NEW goal,
         Plan(ranges, results, goal),
         tasks' = ranges, groups' = results, Goal' = goal
  PROVE  Plan(tasks, groups, Goal)'
<1>1. \A task : TaskFits(task)' <=> TaskFits(task)
  BY BagStays
<1>2. \A r : Position(r)' = Position(r)
  BY BagStays
<1>3. QED
  BY <1>1, <1>2 DEF Plan, Shows

\* A read that has begun.
LEMMA StartInv ==
  ASSUME ReadInv, pc = "idle", UNCHANGED reader,
         NEW call, NEW positions, NEW ranges, NEW results, NEW goal,
         goal = [k \in DOMAIN positions |->
                   IF call = "handle" THEN positions[k] ELSE At(view, positions[k])],
         Plan(ranges, results, goal),
         Start(call, positions, ranges, results)
  PROVE  ReadInv'
<1>1. /\ pc' = "reading" /\ op' = call /\ wanted' = positions
      /\ tasks' = ranges /\ groups' = results
      /\ done' = [t \in DOMAIN ranges |-> 0] /\ failed' = {}
      /\ slots' = [k \in DOMAIN positions |-> Unset]
      /\ stores' = [k \in DOMAIN positions |-> 0]
      /\ status' = status
  BY DEF Start
<1>2. UNCHANGED <<layout, sizes, slices, view, handle>>
  BY DEF reader
<1>3. \A task : TaskFits(task)' <=> TaskFits(task)
  BY <1>2, BagStays
<1>4. Goal' = goal
  BY <1>1, <1>2 DEF Goal, WantedIndex
<1>5. Plan(tasks, groups, Goal)'
  BY <1>1, <1>2, <1>4, PlanStays
<1>6. \A t \in DOMAIN ranges : TaskFits(ranges[t]) /\ ranges[t].count \in Nat
  BY DEF Plan, TaskFits
<1>7. TasksInv'
  BY <1>1, <1>3, <1>6 DEF TasksInv
<1>8. ProgressInv'
  <2>1. \A t \in DOMAIN ranges : \A n \in 0..done'[t]-1 : FALSE
    BY <1>1
  <2>2. QED
    BY <1>1, <2>1 DEF ProgressInv
<1>9. BaseInv' /\ HandleInv' /\ Openable'
  <2>1. Openable /\ HandleInv /\ BaseInv
    BY DEF ReadInv
  <2>2. QED
    BY <1>1, <1>2, <2>1, BagStays DEF BaseInv
<1>10. OkIsComplete'
  BY <1>1 DEF OkIsComplete
<1>11. QED
  BY <1>1, <1>5, <1>7, <1>8, <1>9, <1>10 DEF ReadInv

\* A call that is answered at once shows no results.
LEMMA AnswerReadInv ==
  ASSUME ReadInv, pc \in {"open", "idle"}, UNCHANGED reader,
         NEW call, NEW positions, NEW s \in {"invalid", "out_of_range", "trapped"},
         Answer(call, positions, s)
  PROVE  ReadInv'
<1>1. /\ pc' = "returned" /\ status' = s
      /\ UNCHANGED <<layout, sizes, slices, handle, tasks, done, failed, slots, stores>>
  BY DEF Answer, reader, progress
<1>2. slots = <<>> /\ tasks = <<>> /\ failed = {} /\ HandleInv /\ BaseInv
  BY DEF ReadInv
<1>3. HandleInv' /\ BaseInv'
  BY <1>1, <1>2, BagStays DEF BaseInv
<1>4. TasksInv'
  BY <1>1, <1>2 DEF TasksInv
<1>5. SlotsInv'
  BY <1>1, <1>2 DEF SlotsInv
<1>6. OkIsComplete'
  BY <1>1 DEF OkIsComplete
<1>7. QED
  BY <1>1, <1>3, <1>4, <1>5, <1>6 DEF ReadInv

\* A read of one record.
LEMMA SinglePlan ==
  ASSUME sizes \in ShardSizes, NEW s, NEW i, <<s, i>> \in BagRecords,
         NEW goal, DOMAIN goal = 1..1,
         goal[1] # Outside => Position(<<s, i>>) = goal[1]
  PROVE  Plan(<<[shard |-> s, shard_start |-> i, count |-> 1,
                 result_offset |-> 0, result_stride |-> 1]>>,
              OneByOne(1), goal)
<1> DEFINE task == [shard |-> s, shard_start |-> i, count |-> 1,
                    result_offset |-> 0, result_stride |-> 1]
           ranges == <<task>>
           results == OneByOne(1)
<1>1. task.shard = s /\ task.shard_start = i /\ task.count = 1
      /\ task.result_offset = 0 /\ task.result_stride = 1
  OBVIOUS
<1> HIDE DEF task
<1>2. DOMAIN ranges = {1} /\ ranges[1] = task
  OBVIOUS
<1>3. 1..1 = {1} /\ 0..task.count-1 = {0} /\ DOMAIN goal = {1}
  BY <1>1
<1>4. Partitions(results, DOMAIN goal) /\ DOMAIN results = {1} /\ results[1] = {1}
  BY <1>3, OneByOneFacts
<1> HIDE DEF ranges, results
<1>5. ResultOf(task, 0) = 1
  BY <1>1 DEF ResultOf, ResultIndex
<1>6. s \in 0..NumShards-1 /\ i \in 0..sizes[s + 1]-1
  <2>1. PICK t \in 0..NumShards-1 : \E j \in 0..sizes[t + 1]-1 : <<s, i>> = <<t, j>>
    BY RecordFacts
  <2>2. PICK j \in 0..sizes[t + 1]-1 : <<s, i>> = <<t, j>>
    BY <2>1
  <2>3. s = t /\ i = j
    BY <2>2
  <2>4. QED
    BY <2>3
<1>7. TaskFits(task)
  <2>1. sizes[s + 1] \in Nat
    BY <1>6, ShardFacts
  <2>2. QED
    BY <1>1, <1>6, <2>1 DEF TaskFits, FitsShard
<1>8. Fills(ranges, {1})
  BY <1>2, <1>3, <1>5 DEF Fills
<1>9. Record(task, 0) = <<s, i>>
  <2>1. i + 0 = i
    <3>1. sizes[s + 1] \in Nat
      BY <1>6, ShardFacts
    <3>2. i \in Int
      BY <1>6, <3>1
    <3>3. QED
      BY <3>2
  <2>2. QED
    BY <1>1, <2>1 DEF Record
<1>10. Shows(ranges, results, goal)
  BY <1>2, <1>3, <1>4, <1>5, <1>9 DEF Shows
<1>11. Plan(ranges, results, goal)
  BY <1>2, <1>4, <1>7, <1>8, <1>10 DEF Plan
<1>12. QED
  BY <1>11 DEF ranges, results, task

\* operator[] plans the one record that its index stands for.
LEMMA ReadOneInv == IInv /\ ReadInv /\ ReadOne => ReadInv'
<1> SUFFICES ASSUME IInv, ReadInv, ReadOne
             PROVE  ReadInv'
  OBVIOUS
<1>1. PICK index \in {list[1] : list \in {l \in IndexLists : Len(l) = 1}} :
        IF index >= slice.length
          THEN Answer("index", <<index>>, "out_of_range")
          ELSE LET at == ShardIndex(Interleaved, AccumulatedCount, Global(index))
               IN  Start("index", <<index>>,
                         <<[shard |-> at.shard, shard_start |-> at.shard_index,
                            count |-> 1, result_offset |-> 0,
                            result_stride |-> 1]>>,
                         OneByOne(1))
  BY DEF ReadOne
<1>2. pc = "idle" /\ UNCHANGED reader
  BY DEF ReadOne
<1>3. CASE index >= slice.length
  BY <1>1, <1>2, <1>3, AnswerReadInv
<1>4. CASE ~(index >= slice.length)
  <2> DEFINE at == ShardIndex(Interleaved, AccumulatedCount, Global(index))
             goal == [k \in DOMAIN <<index>> |-> At(view, <<index>>[k])]
  <2>1. index \in 0..slice.length-1
    <3>1. PICK list \in IndexLists : Len(list) = 1 /\ index = list[1]
      OBVIOUS
    <3>2. list \in Seq(0..SizeModulus-1)
      BY ArgumentsAssumption
    <3>3. index \in 0..SizeModulus-1 /\ SizeModulus \in Nat
      BY <3>1, <3>2, InSeq, SizeModulusAssumption
    <3>4. slice.length \in 0..SizeModulus-1
      BY ViewFacts DEF IInv
    <3>5. QED
      BY <1>4, <3>3, <3>4
  <2>2. Global(index) \in 0..Total-1 /\ At(view, index) = Global(index)
    BY <2>1, ViewFacts DEF IInv
  <2>3. Openable /\ sizes \in ShardSizes
    BY <1>2 DEF ReadInv, Openable
  <2>4. <<at.shard, at.shard_index>> \in BagRecords
        /\ Position(<<at.shard, at.shard_index>>) = Global(index)
    BY <2>2, <2>3, ShardIndexPlaced
  <2>5. DOMAIN goal = 1..1 /\ goal[1] = Global(index)
    BY <2>2
  <2>6. Start("index", <<index>>,
              <<[shard |-> at.shard, shard_start |-> at.shard_index,
                 count |-> 1, result_offset |-> 0, result_stride |-> 1]>>,
              OneByOne(1))
    BY <1>1, <1>4
  <2>7. goal = [k \in DOMAIN <<index>> |->
                  IF "index" = "handle" THEN <<index>>[k] ELSE At(view, <<index>>[k])]
    OBVIOUS
  <2> HIDE DEF at, goal
  <2>8. Plan(<<[shard |-> at.shard, shard_start |-> at.shard_index,
                count |-> 1, result_offset |-> 0, result_stride |-> 1]>>,
             OneByOne(1), goal)
    BY <2>3, <2>4, <2>5, SinglePlan
  <2>9. QED
    BY <1>2, <2>6, <2>7, <2>8, StartInv
<1>5. QED
  BY <1>3, <1>4

\* A read from a handle plans the record that the handle was got for.
LEMMA ReadFromHandleInv == IInv /\ ReadInv /\ ReadFromHandle => ReadInv'
<1> SUFFICES ASSUME IInv, ReadInv, ReadFromHandle
             PROVE  ReadInv'
  OBVIOUS
<1> DEFINE at == handle.at
           list == <<handle.of>>
           goal == [k \in DOMAIN list |-> list[k]]
<1>1. /\ pc = "idle" /\ UNCHANGED reader /\ handle # NoHandle
      /\ Start("handle", list,
               <<[shard |-> at.shard, shard_start |-> at.shard_index,
                  count |-> 1, result_offset |-> 0, result_stride |-> 1]>>,
               OneByOne(1))
  BY DEF ReadFromHandle
<1>2. sizes \in ShardSizes
  BY <1>1 DEF ReadInv, Openable
<1>3. /\ <<at.shard, at.shard_index>> \in BagRecords
      /\ Position(<<at.shard, at.shard_index>>) = handle.of
  BY <1>1 DEF ReadInv, HandleInv
<1>4. DOMAIN goal = 1..1 /\ goal[1] = handle.of
  OBVIOUS
<1>5. goal = [k \in DOMAIN list |->
                IF "handle" = "handle" THEN list[k] ELSE At(view, list[k])]
  OBVIOUS
<1> HIDE DEF at, goal, list
<1>6. Plan(<<[shard |-> at.shard, shard_start |-> at.shard_index,
              count |-> 1, result_offset |-> 0, result_stride |-> 1]>>,
           OneByOne(1), goal)
  BY <1>2, <1>3, <1>4, SinglePlan
<1>7. QED
  BY <1>1, <1>5, <1>6, StartInv

\* A handle is got for the record that its index stands for.
LEMMA ReadHandleInv == IInv /\ ReadInv /\ ReadHandle => ReadInv'
<1> SUFFICES ASSUME IInv, ReadInv, ReadHandle
             PROVE  ReadInv'
  OBVIOUS
<1>1. PICK index \in 0..slice.length-1 :
        handle' = [at |-> ShardIndex(Interleaved, AccumulatedCount, Global(index)),
                   of |-> At(view, index)]
  BY DEF ReadHandle
<1>2. /\ pc = "idle" /\ UNCHANGED <<layout, sizes, slices, view, pc, op, wanted, groups,
                                    tasks, done, failed, slots, stores, status>>
  BY DEF ReadHandle, progress
<1> DEFINE at == ShardIndex(Interleaved, AccumulatedCount, Global(index))
<1>3. Global(index) \in 0..Total-1 /\ At(view, index) = Global(index)
  BY ViewFacts DEF IInv
<1>4. Openable
  BY <1>2 DEF ReadInv
<1>5. <<at.shard, at.shard_index>> \in BagRecords
      /\ Position(<<at.shard, at.shard_index>>) = Global(index)
  BY <1>3, <1>4, ShardIndexPlaced
<1> HIDE DEF at
<1>6. handle'.at = at /\ handle'.of = Global(index)
  BY <1>1, <1>3 DEF at
<1>7. HandleInv'
  <2>1. BagRecords' = BagRecords /\ \A r : Position(r)' = Position(r)
    BY <1>2, BagStays
  <2>2. QED
    BY <1>5, <1>6, <2>1 DEF HandleInv
<1>8. Openable' /\ \A task : TaskFits(task)' <=> TaskFits(task)
  BY <1>2, <1>4, BagStays
<1>9. TasksInv'
  BY <1>2, <1>8 DEF ReadInv, TasksInv
<1>10. BaseInv' /\ OkIsComplete'
  BY <1>2 DEF ReadInv, BaseInv, OkIsComplete
<1>11. QED
  BY <1>2, <1>7, <1>8, <1>9, <1>10 DEF ReadInv

\* Reads by indices, whatever they were got from.
LEMMA ReadStateIndicesInv ==
  ASSUME ReadInv, pc = "idle", UNCHANGED reader, Total \in Nat,
         NEW call, call # "handle", NEW n \in Nat,
         NEW positions, DOMAIN positions = 1..n,
         NEW indices, DOMAIN indices = 1..n,
         \A k \in 1..n : indices[k] \in Nat,
         \A k \in 1..n : ~(indices[k] >= Total) /\ At(view, positions[k]) # Outside =>
                           At(view, positions[k]) = indices[k],
         ReadStateIndices(call, positions, indices)
  PROVE  ReadInv'
<1>1. CASE \E k \in DOMAIN indices : indices[k] >= Total
  <2>1. Answer(call, positions, "out_of_range")
    BY <1>1 DEF ReadStateIndices
  <2>2. QED
    BY <2>1, AnswerReadInv
<1>2. CASE ~\E k \in DOMAIN indices : indices[k] >= Total
  <2> DEFINE records == SortedRecords(indices)
             ranges == ContiguousRanges(records)
             results == [k \in DOMAIN records |-> Wanting(records[k], indices)]
             goal == [k \in DOMAIN positions |-> At(view, positions[k])]
  <2>1. Start(call, positions, ranges, results)
    BY <1>2 DEF ReadStateIndices
  <2>2. \A k \in 1..n : indices[k] \in 0..Total-1
    BY <1>2
  <2>3. DOMAIN goal = 1..n /\ \A k \in 1..n : goal[k] # Outside => goal[k] = indices[k]
    BY <1>2
  <2>4. goal = [k \in DOMAIN positions |->
                  IF call = "handle" THEN positions[k] ELSE At(view, positions[k])]
    OBVIOUS
  <2>5. Openable
    BY DEF ReadInv
  <2> HIDE DEF goal
  <2>6. Plan(ranges, results, goal)
    BY <2>2, <2>3, <2>5, IndicesPlan
  <2> HIDE DEF ranges, results
  <2>7. QED
    BY <2>1, <2>4, <2>6, StartInv
<1>3. QED
  BY <1>1, <1>2

\* ReadIndices plans the records that its indices stand for in the slice.
LEMMA ReadIndicesInv == IInv /\ ReadInv /\ ReadIndices => ReadInv'
<1> SUFFICES ASSUME IInv, ReadInv, ReadIndices
             PROVE  ReadInv'
  OBVIOUS
<1>1. PICK indices \in IndexLists :
        IF slice.step = 1 /\ slice.start = 0
          THEN ReadStateIndices("indices", indices, indices)
        ELSE IF \E k \in DOMAIN indices : indices[k] >= slice.length
          THEN Answer("indices", indices, "out_of_range")
          ELSE ReadStateIndices("indices", indices,
                                [k \in DOMAIN indices |-> Global(indices[k])])
  BY DEF ReadIndices
<1> DEFINE n == Len(indices)
<1>2. pc = "idle" /\ UNCHANGED reader
  BY DEF ReadIndices
<1>3. slice.length \in 0..SizeModulus-1 /\ SizeModulus \in Nat \ {0} /\ Total \in Nat
      /\ Len(view) = slice.length
      /\ \A i \in 0..slice.length-1 : At(view, i) = Global(i) /\ Global(i) \in 0..Total-1
  BY ViewFacts DEF IInv
<1>4. n \in Nat /\ DOMAIN indices = 1..n
      /\ \A k \in 1..n : indices[k] \in 0..SizeModulus-1
  <2> DEFINE S == 0..SizeModulus-1
  <2>1. indices \in Seq(S)
    BY ArgumentsAssumption
  <2> HIDE DEF S
  <2>2. n \in Nat /\ DOMAIN indices = 1..n
    BY <2>1
  <2>3. \A k \in DOMAIN indices : indices[k] \in S
    BY <2>1, InSeq
  <2>4. QED
    BY <2>2, <2>3 DEF S
<1> HIDE DEF n
<1>5. CASE slice.step = 1 /\ slice.start = 0
  <2>1. ReadStateIndices("indices", indices, indices)
    BY <1>1, <1>5
  <2>2. ASSUME NEW k \in 1..n, At(view, indices[k]) # Outside
        PROVE  At(view, indices[k]) = indices[k]
    <3> DEFINE x == indices[k]
    <3>1. x \in 0..SizeModulus-1
      BY <1>4
    <3> HIDE DEF x
    <3>2. x + 1 \in DOMAIN view
      BY <2>2 DEF At, x
    <3>3. DOMAIN view = 1..slice.length
      BY DEF IInv, SliceInv
    <3>4. x \in 0..slice.length-1
      BY <1>3, <3>1, <3>2, <3>3
    <3>5. At(view, x) = Global(x)
      BY <1>3, <3>4
    <3>6. slice.start + x * slice.step = x
      BY <1>5, <3>1
    <3>7. Global(x) = x
      BY <1>3, <3>1, <3>6, ModSmall DEF Global, GlobalIndex, Size
    <3>8. QED
      BY <3>5, <3>7 DEF x
  <2>3. \A k \in 1..n : indices[k] \in Nat
    BY <1>3, <1>4
  <2>4. QED
    BY <1>2, <1>3, <1>4, <2>1, <2>2, <2>3, ReadStateIndicesInv
<1>6. CASE ~(slice.step = 1 /\ slice.start = 0)
  <2>1. CASE \E k \in DOMAIN indices : indices[k] >= slice.length
    <3>1. Answer("indices", indices, "out_of_range")
      BY <1>1, <1>6, <2>1
    <3>2. QED
      BY <1>2, <3>1, AnswerReadInv
  <2>2. CASE ~\E k \in DOMAIN indices : indices[k] >= slice.length
    <3> DEFINE globals == [k \in DOMAIN indices |-> Global(indices[k])]
    <3>1. ReadStateIndices("indices", indices, globals)
      BY <1>1, <1>6, <2>2
    <3>2. ASSUME NEW k \in 1..n
          PROVE  indices[k] \in 0..slice.length-1
      <4> DEFINE x == indices[k]
      <4>1. x \in 0..SizeModulus-1 /\ ~(x >= slice.length)
        BY <1>4, <2>2
      <4> HIDE DEF x
      <4>2. x \in 0..slice.length-1
        BY <1>3, <4>1
      <4>3. QED
        BY <4>2 DEF x
    <3>3. \A k \in 1..n : globals[k] \in Nat /\ At(view, indices[k]) = globals[k]
      BY <1>3, <1>4, <3>2
    <3>4. DOMAIN globals = 1..n
      BY <1>4
    <3> HIDE DEF globals
    <3>5. QED
      BY <1>2, <1>3, <1>4, <3>1, <3>3, <3>4, ReadStateIndicesInv
  <2>3. QED
    BY <2>1, <2>2
<1>7. QED
  BY <1>5, <1>6

\* Without a step, what follows the first of a range in the view follows it in
\* the bag.
LEMMA RangeGoal ==
  ASSUME SliceInv, slice.step = 1, NEW start \in Nat, NEW count \in Nat,
         ValidRange(AccumulatedCount, Size(start + slice.start), count),
         NEW i \in 0..count-1, start + i \in 0..slice.length-1
  PROVE  At(view, start + i) = Size(start + slice.start) + i
<1> DEFINE y == start + slice.start
           g == Size(y)
<1>1. SizeModulus \in Nat \ {0} /\ Total \in 0..SizeModulus-1 /\ y \in Int
      /\ slice.start \in Nat
  BY SizeModulusAssumption, TotalType, ViewFacts DEF SliceInv
<1> HIDE DEF y
<1>2. g \in 0..SizeModulus-1 /\ \E k \in Int : g = y - k * SizeModulus
  BY <1>1, Kept
<1>3. count <= Total /\ g <= Total - count
  BY DEF ValidRange, Total, y
<1> HIDE DEF g
<1>4. PICK k \in Int : g = y - k * SizeModulus
  BY <1>2
<1> DEFINE z == y + i
           j == -k
           e == g + i
<1>5. z \in Int /\ j \in Int /\ e \in Int /\ e = z + j * SizeModulus
  BY <1>1, <1>2, <1>4
<1>6. e \in 0..SizeModulus-1
  BY <1>1, <1>2, <1>3
<1>7. slice.start + (start + i) * slice.step = z
  BY <1>1 DEF y
<1>8. At(view, start + i) = Global(start + i)
  BY ViewFacts
<1> HIDE DEF z, j, e
<1>9. e % SizeModulus = z % SizeModulus
  BY <1>1, <1>5, ModSame
<1>10. e % SizeModulus = e
  BY <1>1, <1>6, ModSmall
<1>11. Global(start + i) = z % SizeModulus
  BY <1>7 DEF Global, GlobalIndex, Size
<1>12. QED
  BY <1>8, <1>9, <1>10, <1>11 DEF e, g, y

\* ReadRange plans its records, by range or, with a step, by indices.
LEMMA ReadRangeInv == IInv /\ ReadInv /\ ReadRange => ReadInv'
<1> SUFFICES ASSUME IInv, ReadInv, ReadRange
             PROVE  ReadInv'
  OBVIOUS
<1>1. PICK start \in RangeStarts, count \in RangeCounts :
        LET positions == [k \in 1..count |-> start + k - 1]
        IN  IF ~RangeFits(start, count)
              THEN Answer("range", positions, "out_of_range")
            ELSE IF slice.step # 1
              THEN ReadStateIndices("range", positions,
                                    [k \in 1..count |-> Global(start + k - 1)])
              ELSE ReadStateRange("range", positions,
                                  Size(start + slice.start), count)
  BY DEF ReadRange
<1> DEFINE positions == [k \in 1..count |-> start + k - 1]
           indices == [k \in 1..count |-> Global(start + k - 1)]
<1>2. pc = "idle" /\ UNCHANGED reader
  BY DEF ReadRange
<1>3. slice.length \in 0..SizeModulus-1 /\ SizeModulus \in Nat \ {0} /\ Total \in Nat
      /\ slice.start \in Nat
      /\ \A i \in 0..slice.length-1 : At(view, i) = Global(i) /\ Global(i) \in 0..Total-1
  BY ViewFacts DEF IInv
<1>4. start \in Nat /\ count \in Nat /\ start + count \in 0..SizeModulus-1
  <2>1. start \in 0..SizeModulus-1 /\ count \in 0..SizeModulus-1
    BY ArgumentsAssumption
  <2>2. start + count < SizeModulus
    BY ArgumentsFitAssumption
  <2>3. QED
    BY <2>1, <2>2, <1>3
<1>5. CASE ~RangeFits(start, count)
  <2>1. Answer("range", positions, "out_of_range")
    BY <1>1, <1>5
  <2>2. QED
    BY <1>2, <2>1, AnswerReadInv
<1>6. CASE RangeFits(start, count)
  <2>1. \A k \in 1..count : start + k - 1 \in 0..slice.length-1
    <3> DEFINE n == start + count
    <3>1. n \in 0..SizeModulus-1
      BY <1>4
    <3> HIDE DEF n
    <3>2. Size(n) = n
      BY <1>3, <3>1, ModSmall DEF Size
    <3>3. start + count <= slice.length
      BY <1>6, <3>2 DEF n, RangeFits
    <3>4. QED
      BY <1>3, <1>4, <3>3
  <2>2. CASE slice.step # 1
    <3>1. ReadStateIndices("range", positions, indices)
      BY <1>1, <1>6, <2>2
    <3>2. DOMAIN positions = 1..count /\ DOMAIN indices = 1..count
      OBVIOUS
    <3>3. \A k \in 1..count : indices[k] \in Nat /\ At(view, positions[k]) = indices[k]
      <4> SUFFICES ASSUME NEW k \in 1..count
                   PROVE  indices[k] \in Nat /\ At(view, positions[k]) = indices[k]
        OBVIOUS
      <4> DEFINE p == start + k - 1
      <4>1. p \in 0..slice.length-1 /\ indices[k] = Global(p) /\ positions[k] = p
        BY <2>1
      <4> HIDE DEF p, indices, positions
      <4>2. Global(p) \in 0..Total-1 /\ At(view, p) = Global(p)
        BY <1>3, <4>1
      <4>3. QED
        BY <1>3, <4>1, <4>2
    <3> HIDE DEF positions, indices
    <3>4. QED
      BY <1>2, <1>3, <1>4, <3>1, <3>2, <3>3, ReadStateIndicesInv
  <2>3. CASE slice.step = 1
    <3> DEFINE g == Size(start + slice.start)
    <3>1. ReadStateRange("range", positions, g, count)
      BY <1>1, <1>6, <2>3
    <3>2. CASE ~ValidRange(AccumulatedCount, g, count)
      <4>1. Answer("range", positions, "out_of_range")
        BY <3>1, <3>2 DEF ReadStateRange
      <4>2. QED
        BY <1>2, <4>1, AnswerReadInv
    <3>3. CASE ValidRange(AccumulatedCount, g, count)
      <4> DEFINE ranges == ShardRanges(Interleaved, AccumulatedCount, g, count)
                 goal == [k \in 1..count |-> g + k - 1]
      <4>1. CASE Answer("range", positions, "trapped")
        BY <1>2, <4>1, AnswerReadInv
      <4>2. CASE Start("range", positions, ranges, OneByOne(count))
        <5>1. g \in Nat /\ g + count <= Total
          <6>1. g \in 0..SizeModulus-1
            <7>1. start + slice.start \in Int
              BY <1>3, <1>4
            <7>2. QED
              BY <7>1, Kept
          <6>2. count <= Total /\ g <= Total - count
            BY <3>3 DEF ValidRange, Total
          <6> HIDE DEF g
          <6>3. QED
            BY <1>3, <1>4, <6>1, <6>2
        <5>2. Openable
          BY <1>2 DEF ReadInv
        <5> DEFINE shown == [k \in DOMAIN positions |->
                               IF "range" = "handle" THEN positions[k]
                               ELSE At(view, positions[k])]
        <5>3. goal = shown
          <6>1. ASSUME NEW k \in 1..count
                PROVE  At(view, positions[k]) = g + k - 1
            <7> DEFINE i == k - 1
            <7>1. i \in 0..count-1 /\ start + i = start + k - 1
              BY <1>4
            <7>2. start + i \in 0..slice.length-1
              BY <2>1, <7>1
            <7> HIDE DEF i
            <7>3. At(view, start + i) = g + i
              BY <1>4, <2>3, <3>3, <7>1, <7>2, RangeGoal DEF IInv
            <7>4. positions[k] = start + i
              BY <7>1
            <7> HIDE DEF g
            <7>5. g + i = g + k - 1
              BY <5>1 DEF i
            <7>6. QED
              BY <7>3, <7>4, <7>5
          <6>2. DOMAIN positions = 1..count
            OBVIOUS
          <6> HIDE DEF g, positions
          <6>3. QED
            BY <6>1, <6>2
        <5> HIDE DEF g
        <5>4. Plan(ranges, OneByOne(count), goal)
          BY <1>4, <5>1, <5>2, RangePlan
        <5> HIDE DEF goal, positions, ranges, shown
        <5>5. shown = [k \in DOMAIN positions |->
                         IF "range" = "handle" THEN positions[k]
                         ELSE At(view, positions[k])]
          BY DEF shown
        <5>6. QED
          BY <1>2, <4>2, <5>3, <5>4, <5>5, StartInv
      <4>3. QED
        BY <3>1, <3>3, <4>1, <4>2 DEF ReadStateRange
    <3>4. QED
      BY <3>2, <3>3
  <2>4. QED
    BY <2>2, <2>3
<1>7. QED
  BY <1>5, <1>6

-----------------------------------------------------------------------------
(* The other steps *)

\* What the end of a read leaves for the caller.
LEMMA SucceedInv == ReadInv /\ Succeed => ReadInv'
<1> SUFFICES ASSUME ReadInv, Succeed
             PROVE  ReadInv'
  OBVIOUS
<1>1. /\ pc = "reading" /\ \A t \in DOMAIN tasks : done[t] = tasks[t].count
      /\ slots' = CopyDuplicates /\ pc' = "returned" /\ status' = "ok"
      /\ UNCHANGED <<layout, sizes, slices, view, handle, op, wanted, tasks, done, failed,
                     stores>>
  BY DEF Succeed, reader
<1>2. /\ sizes \in ShardSizes /\ Plan(tasks, groups, Goal) /\ TasksInv /\ ProgressInv
      /\ HandleInv /\ BaseInv
  BY <1>1 DEF ReadInv, Openable
<1>3. \A k \in DOMAIN wanted :
        /\ CopyDuplicates[k] # Unset
        /\ CopyDuplicates[k] \in BagRecords
        /\ WantedIndex(k) # Outside => Position(CopyDuplicates[k]) = WantedIndex(k)
  BY <1>1, <1>2, CopiesAreWanted
<1>4. DOMAIN CopyDuplicates = DOMAIN slots /\ DOMAIN slots = DOMAIN wanted
  BY <1>2 DEF ProgressInv, CopyDuplicates
<1>5. \A k \in DOMAIN slots : stores[k] <= 1
  BY <1>2, StoredIsWanted DEF SlotsInv
<1>6. BagRecords' = BagRecords /\ (\A r : Position(r)' = Position(r))
      /\ (\A task : TaskFits(task)' <=> TaskFits(task)) /\ HandleInv' /\ Openable'
  BY <1>1, <1>2, BagStays DEF ReadInv
<1>7. \A k : WantedIndex(k)' = WantedIndex(k)
  BY <1>1 DEF WantedIndex
<1>8. SlotsInv'
  BY <1>1, <1>3, <1>4, <1>5, <1>6, <1>7 DEF SlotsInv
<1>9. OkIsComplete'
  BY <1>1, <1>3 DEF OkIsComplete
<1>10. TasksInv' /\ BaseInv'
  BY <1>1, <1>2, <1>6 DEF TasksInv, BaseInv
<1>11. QED
  BY <1>1, <1>6, <1>8, <1>9, <1>10 DEF ReadInv

\* A step that leaves the results and the tasks alone.
LEMMA ReadInvKept ==
  ASSUME ReadInv,
         UNCHANGED <<layout, sizes, slices, view, handle, op, wanted, groups, tasks, done,
                     failed, slots, stores>>,
         \/ pc' = pc /\ status' = status
         \/ pc = "reading" /\ pc' = "returned" /\ status' = "error"
  PROVE  ReadInv'
<1>1. BagRecords' = BagRecords /\ (\A r : Position(r)' = Position(r))
      /\ (\A task : TaskFits(task)' <=> TaskFits(task)) /\ HandleInv'
      /\ (Openable' <=> Openable)
  BY BagStays DEF ReadInv
<1>2. \A k : WantedIndex(k)' = WantedIndex(k)
  BY DEF WantedIndex
<1>3. Goal' = Goal
  BY <1>2 DEF Goal
<1>4. Plan(tasks, groups, Goal) => Plan(tasks, groups, Goal)'
  BY <1>3, PlanStays
<1>5. ProgressInv => ProgressInv'
  BY DEF ProgressInv, SlotOf
<1>6. TasksInv' /\ BaseInv' /\ (SlotsInv => SlotsInv')
  BY <1>1, <1>2 DEF ReadInv, TasksInv, BaseInv, SlotsInv
<1>7. pc = "reading" => SlotsInv
  BY StoredIsWanted DEF ReadInv, Openable
<1>8. OkIsComplete'
  BY DEF ReadInv, OkIsComplete
<1>9. QED
  BY <1>1, <1>4, <1>5, <1>6, <1>7, <1>8 DEF ReadInv

\* OpenFiles and Slice: nothing is being read.
LEMMA NoReadInv ==
  ASSUME SliceInv, ReadInv, OpenFiles \/ Slice
  PROVE  ReadInv'
<1>1. /\ pc \in {"open", "idle"} /\ pc' = "idle" /\ slices' \in 0..MaxSlices
      /\ status' = status
      /\ UNCHANGED <<layout, sizes, handle, tasks, done, failed, slots, stores>>
  BY MaxSlicesAssumption DEF OpenFiles, Slice, progress, ReadInv, BaseInv
<1>2. /\ BaseInv /\ HandleInv /\ slots = <<>> /\ tasks = <<>> /\ failed = {}
  BY <1>1 DEF ReadInv
<1>3. HandleInv' /\ (Openable' <=> Openable)
  BY <1>1, <1>2, BagStays
<1>4. Openable
  <2>1. CASE OpenFiles
    <3>1. (Interleaved => Balanced) /\ sizes \in ShardSizes
      BY <2>1 DEF OpenFiles, SliceInv
    <3>2. QED
      BY <3>1 DEF Openable
  <2>2. CASE Slice
    BY <2>2 DEF Slice, ReadInv
  <2>3. QED
    BY <2>1, <2>2
<1>5. BaseInv'
  BY <1>1, <1>2 DEF BaseInv
<1>6. TasksInv'
  BY <1>1, <1>2 DEF TasksInv
<1>7. OkIsComplete'
  BY <1>1 DEF OkIsComplete
<1>8. QED
  BY <1>1, <1>2, <1>3, <1>4, <1>5, <1>6, <1>7 DEF ReadInv

\* A task stores a record, or fails.
LEMMA TaskReadInv ==
  ASSUME ReadInv, NEW t \in DOMAIN tasks, StoreRecord(t) \/ TaskFails(t)
  PROVE  ReadInv'
<1>1. /\ pc = "reading"
      /\ UNCHANGED <<layout, sizes, slices, view, handle, pc, op, wanted, groups, tasks,
                     status>>
  BY DEF StoreRecord, TaskFails, reader
<1>2. /\ BaseInv /\ TasksInv /\ HandleInv /\ Openable /\ sizes \in ShardSizes
      /\ Plan(tasks, groups, Goal) /\ ProgressInv
  BY <1>1 DEF ReadInv, Openable
<1>3. HandleInv' /\ Openable' /\ BaseInv'
      /\ \A task : TaskFits(task)' <=> TaskFits(task)
  BY <1>1, <1>2, BagStays DEF BaseInv
<1>4. Plan(tasks, groups, Goal)'
  <2>1. Goal' = Goal
    BY <1>1 DEF Goal, WantedIndex
  <2>2. QED
    BY <1>1, <1>2, <2>1, PlanStays
<1>5. CASE StoreRecord(t)
  <2>1. /\ done' = [done EXCEPT ![t] = done[t] + 1] /\ failed' = failed
    BY <1>5 DEF StoreRecord
  <2>2. ProgressInv' /\ done'[t] \in 0..tasks[t].count
    BY <1>2, <1>5, ProgressStep
  <2>3. \A u \in DOMAIN tasks : done'[u] \in 0..tasks[u].count
    BY <1>2, <2>1, <2>2 DEF TasksInv
  <2>4. TasksInv'
    BY <1>1, <1>2, <1>3, <2>1, <2>3 DEF TasksInv
  <2>5. QED
    BY <1>1, <1>3, <1>4, <2>2, <2>4 DEF ReadInv, OkIsComplete
<1>6. CASE TaskFails(t)
  <2>1. failed' = failed \cup {t} /\ UNCHANGED <<done, slots, stores>>
    BY <1>6 DEF TaskFails
  <2>2. ProgressInv'
    BY <1>1, <1>2, <2>1 DEF ProgressInv, SlotOf
  <2>3. TasksInv'
    BY <1>1, <1>2, <1>3, <2>1 DEF TasksInv
  <2>4. QED
    BY <1>1, <1>3, <1>4, <2>2, <2>3 DEF ReadInv, OkIsComplete
<1>7. QED
  BY <1>5, <1>6

\* Before OpenFiles.
LEMMA InitReadInv == Init => ReadInv
<1> SUFFICES ASSUME Init
             PROVE  ReadInv
  OBVIOUS
<1>1. BaseInv
  BY MaxSlicesAssumption DEF Init, BaseInv
<1>2. TasksInv
  BY DEF Init, TasksInv
<1>3. HandleInv /\ OkIsComplete
  BY DEF Init, HandleInv, OkIsComplete
<1>4. QED
  BY <1>1, <1>2, <1>3 DEF Init, ReadInv

\* Every step keeps the invariant of a read.
LEMMA NextReadInv == IInv /\ ReadInv /\ [Next]_vars => ReadInv'
<1> SUFFICES ASSUME IInv, ReadInv, [Next]_vars
             PROVE  ReadInv'
  OBVIOUS
<1>1. CASE OpenFiles \/ Slice
  BY <1>1, NoReadInv DEF IInv
<1>2. CASE RejectUnbalanced
  BY <1>2, AnswerReadInv DEF RejectUnbalanced
<1>3. CASE RejectSlice
  <2>1. PICK call \in {"slice_of_step_0", "slice"} :
          \E positions : Answer(call, positions, "out_of_range")
    BY <1>3 DEF RejectSlice
  <2>2. PICK positions : Answer(call, positions, "out_of_range")
    BY <2>1
  <2>3. QED
    BY <1>3, <2>2, AnswerReadInv DEF RejectSlice
<1>4. CASE ReadOne
  BY <1>4, ReadOneInv
<1>5. CASE ReadHandle
  BY <1>5, ReadHandleInv
<1>6. CASE ReadFromHandle
  BY <1>6, ReadFromHandleInv
<1>7. CASE ReadRange
  BY <1>7, ReadRangeInv
<1>8. CASE ReadIndices
  BY <1>8, ReadIndicesInv
<1>9. CASE \E t \in DOMAIN tasks : StoreRecord(t) \/ TaskFails(t)
  BY <1>9, TaskReadInv
<1>10. CASE Succeed
  BY <1>10, SucceedInv
<1>11. CASE Fail
  BY <1>11, ReadInvKept DEF Fail, reader, progress
<1>12. CASE UNCHANGED vars
  BY <1>12, ReadInvKept DEF vars, reader, progress
<1>13. QED
  BY <1>1, <1>2, <1>3, <1>4, <1>5, <1>6, <1>7, <1>8, <1>9, <1>10, <1>11, <1>12
     DEF Next, Call, Returned

\* Both invariants hold in every state.
LEMMA SpecReadInv == Spec => [](IInv /\ ReadInv)
<1>1. Init => IInv /\ ReadInv
  BY InitInv, InitReadInv
<1>2. IInv /\ ReadInv /\ [Next]_vars => (IInv /\ ReadInv)'
  BY NextInv, NextReadInv
<1>3. QED
  BY <1>1, <1>2, PTL DEF Spec

\* While a call is read and when it has returned, its results are in order.
LEMMA SlotsAlways == ReadInv => SlotsInv /\ (slots = <<>> \/ Openable)
<1> SUFFICES ASSUME ReadInv
             PROVE  SlotsInv /\ (slots = <<>> \/ Openable)
  OBVIOUS
<1>1. pc \in {"open", "idle", "reading", "returned"}
  BY DEF ReadInv, BaseInv
<1>2. CASE pc \in {"open", "idle"}
  BY <1>2 DEF ReadInv, SlotsInv
<1>3. CASE pc = "reading"
  BY <1>3, StoredIsWanted DEF ReadInv, Openable
<1>4. CASE pc = "returned"
  BY <1>4 DEF ReadInv
<1>5. QED
  BY <1>1, <1>2, <1>3, <1>4

-----------------------------------------------------------------------------
(* The theorems about results *)

\* BagzReader's type invariant: no task is given records that its shard has
\* not, or reads more than it has, and every result is a record of the bag.
THEOREM TypeCorrect == Spec => []TypeOK
<1>1. IInv /\ ReadInv => TypeOK
  <2> SUFFICES ASSUME IInv, ReadInv
               PROVE  TypeOK
    OBVIOUS
  <2>1. sizes \in ShardSizes /\ slice.start \in 0..SizeModulus-1 /\ slice.step \in Int
        /\ slice.length \in 0..SizeModulus-1
    BY DEF IInv, SliceInv
  <2>2. BaseInv /\ TasksInv /\ SlotsInv
    BY SlotsAlways DEF ReadInv
  <2>3. \A t \in DOMAIN tasks :
          /\ tasks[t].shard < Len(sizes) /\ FitsShard(tasks[t])
          /\ done[t] \in 0..tasks[t].count
    <3> SUFFICES ASSUME NEW t \in DOMAIN tasks
                 PROVE  /\ tasks[t].shard < Len(sizes) /\ FitsShard(tasks[t])
                        /\ done[t] \in 0..tasks[t].count
      OBVIOUS
    <3>1. TaskFits(tasks[t]) /\ done[t] \in 0..tasks[t].count
      BY <2>2 DEF TasksInv
    <3>2. Len(sizes) \in Nat
      BY <2>1, ShardSizesAssumption
    <3>3. QED
      BY <3>1, <3>2 DEF TaskFits, NumShards
  <2>4. QED
    BY <2>1, <2>2, <2>3 DEF TypeOK, BaseInv, TasksInv, SlotsInv
<1>2. QED
  BY <1>1, SpecReadInv, PTL

\* ReadShardRanges: whatever the layout, the shards, the slice and the call, no
\* result is written twice, and each is the record of the view it is wanted for.
THEOREM ResultsAreRight == Spec => []ResultsAreWanted
<1>1. ReadInv => ResultsAreWanted
  <2> SUFFICES ASSUME ReadInv, NEW k \in DOMAIN slots
               PROVE  /\ stores[k] <= 1
                      /\ slots[k] # Unset /\ WantedIndex(k) # Outside =>
                           GlobalIndexOf(slots[k]) = WantedIndex(k)
    BY DEF ResultsAreWanted
  <2>1. SlotsInv /\ (slots = <<>> \/ Openable)
    BY SlotsAlways
  <2>2. Openable
    BY <2>1
  <2>3. QED
    BY <2>1, <2>2, PositionCounts DEF SlotsInv
<1>2. QED
  BY <1>1, SpecReadInv, PTL

\* ReadShardRanges and the copies of duplicates: a read that succeeds has left
\* no result unset.
THEOREM OkReadsAreComplete == Spec => []OkIsComplete
<1>1. ReadInv => OkIsComplete
  BY DEF ReadInv
<1>2. QED
  BY <1>1, SpecReadInv, PTL
=============================================================================
