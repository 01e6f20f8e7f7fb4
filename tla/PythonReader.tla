---------------------------- MODULE PythonReader ----------------------------
(***************************************************************************)
(* bagz.Reader as a Python sequence: src/python/bagz_reader.cc, and the    *)
(* indexes src/bagz_index.cc and src/bagz_multi_index.cc with their        *)
(* bindings.                                                               *)
(*                                                                         *)
(* A reader is sliced, reversed and pickled, in any order; it should       *)
(* behave as the list of its records does, which is kept beside it.  Calls *)
(* that only read are operators of the reader, answering a pair of "ok"    *)
(* and a value, or the name of the exception.  All records can be read;    *)
(* what happens when one can not is in ShardReader and PythonIterator.     *)
(* The step of a reader may wrap to 0; then some calls raise ValueError.   *)
(***************************************************************************)
EXTENDS RecordSlice, SequencesExt, FiniteSets

CONSTANTS
  Values,       \* what a record may be
  Bags,         \* the bags, sequences of values
  SliceBounds,  \* what may be written as the start or stop of a slice
  SliceSteps,   \* and as its step
  MaxOps        \* bound: readers made of readers

ASSUME BagsAssumption == Bags \subseteq Seq(Values)
\* A length is returned as a Py_ssize_t, which is the positive half of size_t.
ASSUME BagsFitAssumption == \A b \in Bags : Len(b) < SizeModulus \div 2
ASSUME SliceBoundsAssumption == SliceBounds \subseteq Int
ASSUME SliceStepsAssumption == SliceSteps \subseteq Int \ {0}
ASSUME MaxOpsAssumption == MaxOps \in Nat

VARIABLES
  bag,
  reader,   \* the slice
  ops,
  raised,   \* whether making a reader has raised an exception
  list      \* history: the same operations applied to a list

vars == <<bag, reader, ops, raised, list>>

Init ==
  /\ bag \in Bags
  /\ reader = FullView(Len(bag))
  /\ ops = 0
  /\ raised = FALSE
  /\ list = bag

-----------------------------------------------------------------------------
(* Slices *)

Clamp(x, low, high) == IF x < low THEN low ELSE IF x > high THEN high ELSE x

\* slice.compute: a bound that is omitted, or one counted from either end.
Omitted == {}

Bound(written, omitted, num_records, step) ==
  IF written = Omitted THEN omitted
  ELSE LET x == CHOOSE b \in written : TRUE
       IN  Clamp(IF x < 0 THEN x + num_records ELSE x,
                 IF step > 0 THEN 0 ELSE -1,
                 IF step > 0 THEN num_records ELSE num_records - 1)

ComputedSlice(num_records, start, stop, step) ==
  LET first == Bound(start, IF step > 0 THEN 0 ELSE num_records - 1,
                     num_records, step)
      end == Bound(stop, IF step > 0 THEN num_records ELSE -1, num_records, step)
  IN  [start |-> first, step |-> step,
       length |-> IF step > 0
                    THEN IF first < end THEN (end - first - 1) \div step + 1 ELSE 0
                    ELSE IF end < first THEN (first - end - 1) \div (-step) + 1
                                        ELSE 0]

Slices == {{}} \cup {{b} : b \in SliceBounds}

\* The reader that BagzReader::Slice makes, or the exception.
SliceOrRaise(view, start, step, length) ==
  IF SliceFits(view, Size(start), step, length)
    THEN /\ reader' = SliceOf(view, Size(start), step, length)
         /\ UNCHANGED raised
    ELSE raised' = TRUE /\ UNCHANGED reader

GetSlice ==
  /\ \E start, stop \in Slices, step \in SliceSteps :
       LET slice == ComputedSlice(reader.length, start, stop, step)
           listed == ComputedSlice(Len(list), start, stop, step)
       IN  /\ SliceOrRaise(reader, slice.start, slice.step, slice.length)
           /\ list' = [k \in 1..listed.length |->
                         list[listed.start + (k - 1) * listed.step + 1]]
  /\ UNCHANGED bag

Reversed ==
  /\ IF reader.length = 0
       THEN UNCHANGED <<reader, raised>>
       ELSE SliceOrRaise(reader, reader.length - 1, -1, reader.length)
  /\ list' = Reverse(list)
  /\ UNCHANGED bag

\* Mutant: the step is not restored.
Restored_NoStep(state) ==
  SliceOrRaise(FullView(Len(bag)), state.start, 1, state.length)

\* __setstate__ opens the bag again and takes the slice of it.
Restored(state) ==
  LET reopened == FullView(Len(bag))
  IN  IF state = reopened THEN reader' = reopened /\ UNCHANGED raised
      ELSE IF state.step = 0 THEN raised' = TRUE /\ UNCHANGED reader
      ELSE SliceOrRaise(reopened, state.start, state.step, state.length)

Pickle == Restored(reader) /\ UNCHANGED <<bag, list>>

Next ==
  /\ ~raised
  /\ ops < MaxOps
  /\ ops' = ops + 1
  /\ GetSlice \/ Reversed \/ Pickle

Spec == Init /\ [][Next]_vars

-----------------------------------------------------------------------------
(* Reading *)

IndexError == <<"IndexError">>
ValueError == <<"ValueError">>
KeyError == <<"KeyError">>
Ok(value) == <<"ok", value>>

\* The records at some positions of the bag, if all of them exist.
RecordsAt(positions) ==
  IF \E k \in DOMAIN positions : positions[k] >= Len(bag) THEN IndexError
  ELSE Ok([k \in DOMAIN positions |-> bag[positions[k] + 1]])

GetItem(view, index) ==
  IF index >= view.length THEN IndexError
  ELSE Ok(bag[GlobalIndex(view, index) + 1])

\* BagzReader::ReadRange, for the indexes below.
ReadRange(view, start, num_records) ==
  IF Size(start + num_records) > view.length THEN IndexError
  ELSE RecordsAt([k \in 1..num_records |-> GlobalIndex(view, start + k - 1)])

\* Mutant: a step of 0 is read as any other.
ReadRangeWithAllocator_AnyStep(view, start, num_records) ==
  ReadRange(view, start, num_records)

\* ReadRangeWithAllocator, for read, read_range and iterators: it does not take a
\* step that has wrapped to 0.
ReadRangeWithAllocator(view, start, num_records) ==
  IF Size(start + num_records) > view.length THEN IndexError
  ELSE IF view.step = 0 THEN ValueError
  ELSE ReadRange(view, start, num_records)

Read(view) == ReadRangeWithAllocator(view, 0, view.length)

\* A view that begins like the bag passes the indices on as they are.
ReadIndices(view, indices) ==
  IF view.start = 0 /\ view.step = 1 THEN RecordsAt(indices)
  ELSE IF \E k \in DOMAIN indices : indices[k] >= view.length THEN IndexError
  ELSE RecordsAt([k \in DOMAIN indices |-> GlobalIndex(view, indices[k])])

ReadIndicesFromSlice(view, start, stop, step) ==
  LET slice == ComputedSlice(view.length, start, stop, step)
  IN  IF slice.step = 1
        THEN ReadRangeWithAllocator(view, Size(slice.start), slice.length)
        ELSE ReadIndices(view, [k \in 1..slice.length |->
                                  Size(slice.start + (k - 1) * slice.step)])

-----------------------------------------------------------------------------
(* Searching *)

\* What a BagzIterator over a view returns: its records in their order, or the
\* error of its first batch.  Of an empty view it reads no batch.
Iterated(view) == IF view.length = 0 THEN Ok(<<>>) ELSE Read(view)

\* AnyOf with the callbacks of index, in and count.
PositionsOf(value, records) == {k \in DOMAIN records : records[k] = value}

\* Mutant: the index is counted from the start of the slice.
IndexOf_FromSlice(view, value, start, length) ==
  LET searched == Iterated(SliceOf(view, start, 1, length))
  IN  IF ~SliceFits(view, start, 1, length) THEN IndexError
      ELSE IF searched[1] # "ok" THEN searched
      ELSE LET found == PositionsOf(value, searched[2])
           IN  IF found = {} THEN ValueError ELSE Ok(Min(found) - 1)

\* What is called stop is used as the length of the slice that is searched.
IndexOf(view, value, start, length) ==
  LET searched == Iterated(SliceOf(view, start, 1, length))
  IN  IF ~SliceFits(view, start, 1, length) THEN IndexError
      ELSE IF searched[1] # "ok" THEN searched
      ELSE LET found == PositionsOf(value, searched[2])
           IN  IF found = {} THEN ValueError ELSE Ok(start + Min(found) - 1)

IndexOfToEnd(view, value, start) ==
  IndexOf(view, value, start, Size(view.length - start))

IsIn(view, value) ==
  LET searched == Iterated(view)
  IN  IF searched[1] # "ok" THEN searched
      ELSE Ok(PositionsOf(value, searched[2]) # {})

Count(view, value) ==
  LET searched == Iterated(view)
  IN  IF searched[1] # "ok" THEN searched
      ELSE Ok(Cardinality(PositionsOf(value, searched[2])))

-----------------------------------------------------------------------------
(* Index and MultiIndex *)

EmptyMap == [v \in {} |-> 0]

Emplace(index, record, i) ==
  [v \in DOMAIN index \cup {record} |-> IF v \in DOMAIN index THEN index[v] ELSE i]

PushBack(index, record, i) ==
  [v \in DOMAIN index \cup {record} |->
     IF v \notin DOMAIN index THEN <<i>>
     ELSE IF v = record THEN Append(index[v], i)
     ELSE index[v]]

\* BagzIndex::Create and BagzMultiIndex::Create: one loop over the records.
IndexOfRecords(records) ==
  LET index[n \in 0..Len(records)] ==
        IF n = 0 THEN EmptyMap ELSE Emplace(index[n - 1], records[n], n - 1)
  IN  index[Len(records)]

MultiIndexOfRecords(records) ==
  LET index[n \in 0..Len(records)] ==
        IF n = 0 THEN EmptyMap ELSE PushBack(index[n - 1], records[n], n - 1)
  IN  index[Len(records)]

\* Of a reader, read as one range; a failure is raised as that of a value.
CreateIndex(view) ==
  LET records == ReadRange(view, 0, view.length)
  IN  IF records[1] = "ok" THEN Ok(IndexOfRecords(records[2])) ELSE ValueError

CreateMultiIndex(view) ==
  LET records == ReadRange(view, 0, view.length)
  IN  IF records[1] = "ok" THEN Ok(MultiIndexOfRecords(records[2])) ELSE ValueError

\* operator[] of both classes, nullopt for what they do not have.
NullOpt == <<"nullopt">>

Find(index, record) ==
  IF record \in DOMAIN index THEN Ok(index[record]) ELSE NullOpt

MultiFind(index, record) ==
  IF record \in DOMAIN index THEN Ok(index[record]) ELSE NullOpt

Lookup(index, record) ==
  IF Find(index, record) = NullOpt THEN KeyError ELSE Find(index, record)

MultiLookup(index, record) ==
  IF MultiFind(index, record) = NullOpt THEN KeyError ELSE MultiFind(index, record)

\* get, which takes a default with MultiIndex only.
GetOrNone(index, record) == Find(index, record)

GetOrDefault(index, record, default) ==
  IF MultiFind(index, record) = NullOpt THEN default ELSE MultiFind(index, record)

\* in and len
Has(index, record) == record \in DOMAIN index

MultiHas(index, record) == record \in DOMAIN index

NumUnique(index) == Cardinality(DOMAIN index)

NumUniqueOfMulti(index) == Cardinality(DOMAIN index)

-----------------------------------------------------------------------------
(* Properties *)

\* The type invariant; an empty slice starts at 0.
TypeOK ==
  /\ bag \in Bags
  /\ reader.start \in 0..SizeModulus-1 /\ reader.step \in Int
  /\ reader.length \in 0..Len(bag) /\ reader.length = 0 => reader.start = 0
  /\ ops \in 0..MaxOps
  /\ list \in Seq(Values)
  /\ raised \in BOOLEAN

\* What reads or searches a reader of records in their order fails.
Unreadable == reader.step = 0

\* __getitem__ with slices, __reversed__ and __setstate__: a reader made of
\* readers, pickled in between or not, shows what the list would, record by record
\* and, unless its step has wrapped to 0, read as a whole and made wherever a list
\* can be.  With a step of 0, which no reader of two records has, reading the whole
\* raises ValueError, and so may restoring it.
ReaderIsList ==
  /\ raised => Unreadable
  /\ Unreadable => Len(list) \in {0, 1}
  /\ reader.length = Len(list)
  /\ Read(reader) = IF Unreadable THEN ValueError ELSE Ok(list)
  /\ \A i \in 0..Len(list) :
       GetItem(reader, i) = IF i < Len(list) THEN Ok(list[i + 1]) ELSE IndexError

\* read_indices of a slice, whether it is read as a range or index by index,
\* returns what taking that slice of the list would, and read_range what
\* lies there.  Both refuse a range of a reader whose step is 0, and only that.
ReadsLikeList ==
  /\ \A start, stop \in Slices, step \in SliceSteps :
       LET listed == ComputedSlice(Len(list), start, stop, step)
       IN  ReadIndicesFromSlice(reader, start, stop, step) =
             IF Unreadable /\ step = 1 THEN ValueError
             ELSE Ok([k \in 1..listed.length |->
                        list[listed.start + (k - 1) * listed.step + 1]])
  /\ \A start, n \in 0..Len(list) :
       ReadRangeWithAllocator(reader, start, n) =
         IF start + n > Len(list) THEN IndexError
         ELSE IF Unreadable THEN ValueError
         ELSE Ok(SubSeq(list, start + 1, start + n))

\* Where a value first stands in the list, from one position to before another.
FirstIn(value, start, stop) ==
  LET found == {i \in start..stop-1 : list[i + 1] = value}
  IN  IF found = {} THEN ValueError ELSE Ok(Min(found))

\* index with a start finds what list.index finds, but raises IndexError where the
\* start is behind the end.  With a stop it searches as many records as the stop
\* says from the start on, which list.index does only if the start is 0, and raises
\* IndexError if there are fewer.
IndexFindsFirst ==
  \A value \in Values, start \in 0..Len(list)+1 :
    /\ IndexOfToEnd(reader, value, start) =
         IF start > Len(list) THEN IndexError ELSE FirstIn(value, start, Len(list))
    /\ \A stop \in 0..Len(list)+1 :
         IndexOf(reader, value, start, stop) =
           IF stop > 0 /\ start + stop > Len(list) THEN IndexError
           ELSE FirstIn(value, start, start + stop)

\* in and count find in the reader what they find in the list.
FindsLikeList ==
  \A value \in Values :
    /\ IsIn(reader, value) = Ok(value \in ToSet(list))
    /\ Count(reader, value) = Ok(Cardinality({i \in DOMAIN list : list[i] = value}))

\* Index and MultiIndex of a reader hold what the list says: the first position of
\* each value, and all of them in order.  Their length is that of the reader just
\* if it has no duplicates.
IndexesHoldList ==
  LET created == CreateIndex(reader)
      createdMulti == CreateMultiIndex(reader)
      index == created[2]
      multi == createdMulti[2]
  IN  /\ created[1] = "ok" /\ createdMulti[1] = "ok"
      /\ NumUnique(index) = NumUniqueOfMulti(multi)
      /\ NumUnique(index) = reader.length <=> IsInjective(list)
      /\ \A value \in Values :
           /\ Has(index, value) = (value \in ToSet(list))
           /\ MultiHas(multi, value) = (value \in ToSet(list))
           /\ IF value \in ToSet(list)
                THEN /\ Lookup(index, value) = FirstIn(value, 0, Len(list))
                     /\ GetOrNone(index, value) = Lookup(index, value)
                     /\ MultiLookup(multi, value) = GetOrDefault(multi, value, NullOpt)
                     /\ LET positions == MultiLookup(multi, value)[2]
                        IN  /\ Len(positions) =
                                 Cardinality({i \in DOMAIN list : list[i] = value})
                            /\ Ok(Head(positions)) = Lookup(index, value)
                            /\ IsSorted(positions, <)
                            /\ \A k \in DOMAIN positions :
                                 GetItem(reader, positions[k]) = Ok(value)
                ELSE /\ Lookup(index, value) = KeyError
                     /\ MultiLookup(multi, value) = KeyError
                     /\ GetOrNone(index, value) = NullOpt
                     /\ GetOrDefault(multi, value, <<"default">>) = <<"default">>

\* Searching a reader whose step is 0 raises ValueError for any value, also for the
\* one record that it has.
NothingIsFound ==
  \A value \in Values :
    /\ IndexOfToEnd(reader, value, 0) = ValueError
    /\ IsIn(reader, value) = ValueError /\ Count(reader, value) = ValueError

\* index, in and count search a reader as they search the list, as far as above, and
\* fail if it has a record and its step is 0; Index and MultiIndex hold the places in
\* the list in both cases, and so agree with them.
SearchesLikeList ==
  /\ IndexesHoldList
  /\ IF Unreadable /\ Len(list) > 0 THEN NothingIsFound
     ELSE IndexFindsFirst /\ FindsLikeList
=============================================================================
