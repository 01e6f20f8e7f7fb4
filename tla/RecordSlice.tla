----------------------------- MODULE RecordSlice -----------------------------
(***************************************************************************)
(* The arithmetic of BagzReader::Slice: a view is a start, a step and a    *)
(* length, of types size_t, int64_t and size_t.  size_t wraps at           *)
(* SizeModulus and int64_t at half of it on either side.                   *)
(***************************************************************************)
EXTENDS Integers

CONSTANT SizeModulus   \* size_t is 0..SizeModulus-1

ASSUME SizeModulusAssumption == SizeModulus \in Nat \ {0}

Size(x) == x % SizeModulus
Int64(x) ==
  ((x + (SizeModulus \div 2)) % SizeModulus) - (SizeModulus \div 2)

FullView(num_records) == [start |-> 0, step |-> 1, length |-> num_records]

\* Mutant: the position of the last record is compared, not the one after it.
SliceFits_OnePast(view, start, step, length) ==
  \/ length = 0
  \/ /\ start < view.length
     /\ IF step > 0 THEN Size(start + step * (length - 1)) <= view.length
                    ELSE start >= Size(-step * (length - 1))

SliceFits(view, start, step, length) ==
  \/ length = 0
  \/ /\ start < view.length
     /\ IF step > 0 THEN Size(start + step * (length - 1) + 1) <= view.length
                    ELSE start >= Size(-step * (length - 1))

\* Mutant: an empty slice keeps its start.
SliceOf_EmptyToo(view, start, step, length) ==
  [start |-> Size(view.start + start * view.step),
   step |-> Int64(step * view.step),
   length |-> length]

\* Mutant: the start is not scaled by the step of the view.
SliceOf_Unscaled(view, start, step, length) ==
  [start |-> IF length = 0 THEN 0 ELSE Size(view.start + start),
   step |-> Int64(step * view.step),
   length |-> length]

SliceOf(view, start, step, length) ==
  [start |-> IF length = 0 THEN 0 ELSE Size(view.start + start * view.step),
   step |-> Int64(step * view.step),
   length |-> length]

\* Where an index of the view lies in the bag.
GlobalIndex(view, index) == Size(view.start + index * view.step)
=============================================================================
