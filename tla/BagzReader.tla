----------------------------- MODULE BagzReader -----------------------------
(***************************************************************************)
(* The reader of src/bagz_reader.cc: a view (start, step, length) of the   *)
(* records of some shards, its slices, and reads of one record, of a range *)
(* and of indices, whose shard ranges are read in parallel into a vector   *)
(* of results.                                                             *)
(*                                                                         *)
(* A record is the pair of its shard and its index there.  Reading a shard *)
(* range is what ShardReader does and running the tasks what ParallelDo    *)
(* does: records come in order, any task may fail.  A reader does not      *)
(* change, so that one read is enough.                                     *)
(***************************************************************************)
EXTENDS ShardIndexing, RecordSlice

CONSTANTS
  Layouts,       \* of "concatenated" and "interleaved"
  ShardSizes,    \* sequences of sizes of shards
  MaxSlices,     \* bound: slices taken of slices
  SliceStarts, SliceSteps, SliceLengths,  \* arguments of Slice
  RangeStarts, RangeCounts,               \* arguments of ReadRange
  IndexLists     \* arguments of ReadIndices; of operator[], if of length 1

ASSUME LayoutsAssumption == Layouts \subseteq {"concatenated", "interleaved"}
ASSUME ShardSizesAssumption == ShardSizes \subseteq Seq(Nat)
ASSUME MaxSlicesAssumption == MaxSlices \in Nat
ASSUME ArgumentsAssumption ==
  /\ SliceStarts \cup SliceLengths \cup RangeStarts \cup RangeCounts
       \subseteq 0..SizeModulus-1
  /\ SliceSteps \subseteq Int
  /\ IndexLists \subseteq Seq(0..SizeModulus-1)

\* accumulated_count, as OpenFiles adds the sizes up.
AccumulatedCounts(shards) ==
  LET count[n \in 0..Len(shards)] == IF n = 0 THEN 0 ELSE count[n - 1] + shards[n]
  IN  [n \in 1..Len(shards) |-> count[n]]

\* size_t counts the records of a bag.
ASSUME SizesFitAssumption ==
  \A shards \in ShardSizes :
    TotalCount(AccumulatedCounts(shards)) \in 0..SizeModulus-1

\* The sums of a call's arguments stay within size_t, as the code takes for
\* granted; those of a slice's start and step may wrap.
ASSUME ArgumentsFitAssumption ==
  /\ \A start \in SliceStarts, step \in SliceSteps, length \in SliceLengths :
       start + step * length < SizeModulus /\ -(step * length) < SizeModulus
  /\ \A start \in RangeStarts, count \in RangeCounts :
       start + count < SizeModulus

VARIABLES
  layout,
  sizes,    \* of the shards
  slice,    \* slice_start_, slice_step_, slice_length_
  slices,   \* how many slices have been taken
  view,     \* history: the global indices that the slice stands for
  handle,   \* where a record lies, or none; history: its global index
  pc,
  op,       \* the call that has been made
  wanted,   \* history: the positions in the view it asks for
  groups,   \* the results that show the same record, in order of the records
  tasks,    \* the shard ranges
  done,     \* how many records of each have been read
  failed,   \* the tasks that have failed
  slots,    \* the vector of results
  stores,   \* history: how often a task has written each of them
  status

reader == <<layout, sizes, slice, slices, view, handle>>
progress == <<done, failed, slots, stores>>
vars == <<reader, pc, op, wanted, groups, tasks, progress, status>>

Interleaved == layout = "interleaved"

AccumulatedCount == AccumulatedCounts(sizes)

Total == TotalCount(AccumulatedCount)

\* No position of the view, and no global index.
Outside == -1

Unset == <<>>
NoHandle == [at |-> Unset, of |-> Outside]

Init ==
  /\ layout \in Layouts
  /\ sizes \in ShardSizes
  /\ slice = FullView(0)
  /\ slices = 0
  /\ view = <<>>
  /\ handle = NoHandle
  /\ pc = "open"
  /\ op = "none"
  /\ wanted = <<>>
  /\ groups = <<>>
  /\ tasks = <<>>
  /\ done = <<>>
  /\ failed = {}
  /\ slots = <<>>
  /\ stores = <<>>
  /\ status = "none"

-----------------------------------------------------------------------------
(* OpenFiles *)

Balanced ==
  \A i \in 2..Len(sizes) : sizes[i] <= sizes[i - 1] /\ sizes[1] - sizes[i] <= 1

OpenFiles ==
  /\ pc = "open"
  /\ Interleaved => Balanced
  /\ pc' = "idle"
  /\ slice' = FullView(Total)
  /\ view' = [k \in 1..Total |-> k - 1]
  /\ UNCHANGED <<layout, sizes, slices, handle, op, wanted, groups, tasks,
                 progress, status>>

Answer(call, positions, s) ==
  /\ pc' = "returned"
  /\ op' = call
  /\ wanted' = positions
  /\ status' = s
  /\ UNCHANGED <<groups, tasks, progress>>

RejectUnbalanced ==
  /\ pc = "open"
  /\ Interleaved /\ ~Balanced
  /\ Answer("open", <<>>, "invalid")
  /\ UNCHANGED reader

-----------------------------------------------------------------------------
(* Slice *)

At(positions, i) == IF i + 1 \in DOMAIN positions THEN positions[i + 1] ELSE Outside

SlicePositions(start, step, length) ==
  [k \in 1..length |-> start + step * (k - 1)]

Slice ==
  /\ pc = "idle"
  /\ slices < MaxSlices
  /\ \E start \in SliceStarts, step \in SliceSteps \ {0}, length \in SliceLengths :
       /\ SliceFits(slice, start, step, length)
       /\ slice' = SliceOf(slice, start, step, length)
       /\ view' = [k \in 1..length |->
                     At(view, SlicePositions(start, step, length)[k])]
  /\ slices' = slices + 1
  /\ UNCHANGED <<layout, sizes, handle, pc, op, wanted, groups, tasks, progress,
                 status>>

RejectSlice ==
  /\ pc = "idle"
  /\ slices < MaxSlices
  /\ \E start \in SliceStarts, step \in SliceSteps, length \in SliceLengths :
       \/ /\ step = 0
          /\ Answer("slice_of_step_0", <<>>, "out_of_range")
       \/ /\ step # 0 /\ ~SliceFits(slice, start, step, length)
          /\ Answer("slice", SlicePositions(start, step, length), "out_of_range")
  /\ UNCHANGED reader

-----------------------------------------------------------------------------
(* The shard ranges of a read, and the results they fill *)

Start(call, positions, ranges, results) ==
  /\ pc' = "reading"
  /\ op' = call
  /\ wanted' = positions
  /\ tasks' = ranges
  /\ groups' = results
  /\ done' = [t \in DOMAIN ranges |-> 0]
  /\ failed' = {}
  /\ slots' = [k \in DOMAIN positions |-> Unset]
  /\ stores' = [k \in DOMAIN positions |-> 0]
  /\ UNCHANGED status

OneByOne(n) == [k \in 1..n |-> {k}]

\* The index of an interleaved range is divided by the number of shards before
\* the number of records is looked at; nothing uses the result if that is 0.
DividesByZero == Interleaved /\ sizes = <<>>

\* State::ReadRangeWithAllocator
ReadStateRange(call, positions, start, count) ==
  IF ~ValidRange(AccumulatedCount, start, count)
    THEN Answer(call, positions, "out_of_range")
    ELSE \/ Start(call, positions,
                  ShardRanges(Interleaved, AccumulatedCount, start, count),
                  OneByOne(count))
         \/ DividesByZero /\ Answer(call, positions, "trapped")

\* The results that each record is read for; several, for duplicates.
Wanting(record, indices) ==
  {k \in DOMAIN indices :
     ShardIndex(Interleaved, AccumulatedCount, indices[k]) = record}

ByShardAndIndex(a, b) ==
  a.shard < b.shard \/ (a.shard = b.shard /\ a.shard_index < b.shard_index)

\* The records of the indices, each once, in the order of the shards.
SortedRecords(indices) ==
  LET records == {ShardIndex(Interleaved, AccumulatedCount, indices[k]) :
                    k \in DOMAIN indices}
  IN  SortedSeq(records,
                {p \in records \X records : ByShardAndIndex(p[1], p[2])})

\* Mutant: the shards are not compared.
Follows_AnyShard(a, b) == b.shard_index = a.shard_index + 1

\* Whether record b continues the range that record a belongs to.
Follows(a, b) == b.shard = a.shard /\ b.shard_index = a.shard_index + 1

ContiguousRanges(records) ==
  LET Firsts == {k \in DOMAIN records :
                   k = 1 \/ ~Follows(records[k - 1], records[k])}
      starts == Ascending(Firsts)
      End(n) == IF n = Len(starts) THEN Len(records) + 1 ELSE starts[n + 1]
  IN  [n \in DOMAIN starts |->
         [shard |-> records[starts[n]].shard,
          shard_start |-> records[starts[n]].shard_index,
          count |-> End(n) - starts[n],
          result_offset |-> starts[n] - 1,
          result_stride |-> 1]]

\* State::ReadIndicesWithAllocator
ReadStateIndices(call, positions, indices) ==
  IF \E k \in DOMAIN indices : indices[k] >= Total
    THEN Answer(call, positions, "out_of_range")
    ELSE LET records == SortedRecords(indices)
         IN  Start(call, positions, ContiguousRanges(records),
                   [k \in DOMAIN records |-> Wanting(records[k], indices)])

-----------------------------------------------------------------------------
(* operator[], ReadRange and ReadIndices *)

\* Where an index of the slice lies in the bag.
Global(index) == GlobalIndex(slice, index)

ReadOne ==
  /\ pc = "idle"
  /\ \E index \in {list[1] : list \in {l \in IndexLists : Len(l) = 1}} :
       IF index >= slice.length
         THEN Answer("index", <<index>>, "out_of_range")
         ELSE LET at == ShardIndex(Interleaved, AccumulatedCount, Global(index))
              IN  Start("index", <<index>>,
                        <<[shard |-> at.shard, shard_start |-> at.shard_index,
                           count |-> 1, result_offset |-> 0,
                           result_stride |-> 1]>>,
                        OneByOne(1))
  /\ UNCHANGED reader

\* A handle names the bytes of a record in its shard; it does not depend on the
\* slice it was got from.
ReadHandle ==
  /\ pc = "idle"
  /\ handle = NoHandle
  /\ \E index \in 0..slice.length-1 :
       handle' = [at |-> ShardIndex(Interleaved, AccumulatedCount, Global(index)),
                  of |-> At(view, index)]
  /\ UNCHANGED <<layout, sizes, slice, slices, view, pc, op, wanted, groups, tasks,
                 progress, status>>

ReadFromHandle ==
  /\ pc = "idle"
  /\ handle # NoHandle
  /\ Start("handle", <<handle.of>>,
           <<[shard |-> handle.at.shard, shard_start |-> handle.at.shard_index,
              count |-> 1, result_offset |-> 0, result_stride |-> 1]>>,
           OneByOne(1))
  /\ UNCHANGED reader

RangeFits(start, count) == Size(start + count) <= slice.length

ReadRange ==
  /\ pc = "idle"
  /\ \E start \in RangeStarts, count \in RangeCounts :
       LET positions == [k \in 1..count |-> start + k - 1]
       IN  IF ~RangeFits(start, count)
             THEN Answer("range", positions, "out_of_range")
           ELSE IF slice.step # 1
             THEN ReadStateIndices("range", positions,
                                   [k \in 1..count |-> Global(start + k - 1)])
             ELSE ReadStateRange("range", positions,
                                 Size(start + slice.start), count)
  /\ UNCHANGED reader

ReadIndices ==
  /\ pc = "idle"
  /\ \E indices \in IndexLists :
       IF slice.step = 1 /\ slice.start = 0
         THEN ReadStateIndices("indices", indices, indices)
       ELSE IF \E k \in DOMAIN indices : indices[k] >= slice.length
         THEN Answer("indices", indices, "out_of_range")
         ELSE ReadStateIndices("indices", indices,
                               [k \in DOMAIN indices |-> Global(indices[k])])
  /\ UNCHANGED reader

-----------------------------------------------------------------------------
(* ReadShardRanges: the tasks run in parallel *)

FitsShard(task) == task.shard_start + task.count <= sizes[task.shard + 1]

\* The callback for the next record of the task.
ResultIndex(task, n) == task.result_stride * n + task.result_offset

FirstOf(results) == CHOOSE k \in results : \A other \in results : k <= other

StoreRecord(t) ==
  /\ pc = "reading"
  /\ t \notin failed
  /\ done[t] < tasks[t].count
  /\ FitsShard(tasks[t])
  /\ LET slot == FirstOf(groups[ResultIndex(tasks[t], done[t]) + 1])
     IN  /\ slots' = [slots EXCEPT ![slot] =
                        <<tasks[t].shard, tasks[t].shard_start + done[t]>>]
         /\ stores' = [stores EXCEPT ![slot] = @ + 1]
  /\ done' = [done EXCEPT ![t] = @ + 1]
  /\ UNCHANGED <<reader, pc, op, wanted, groups, tasks, failed, status>>

\* Mutant: the failure is put down to the shard.
TaskFails_OfShard(t) ==
  /\ pc = "reading"
  /\ t \notin failed
  /\ done[t] < tasks[t].count
  /\ failed' = failed \cup {tasks[t].shard}
  /\ UNCHANGED <<reader, pc, op, wanted, groups, tasks, done, slots, stores,
                 status>>

TaskFails(t) ==
  /\ pc = "reading"
  /\ t \notin failed
  /\ done[t] < tasks[t].count
  /\ failed' = failed \cup {t}
  /\ UNCHANGED <<reader, pc, op, wanted, groups, tasks, done, slots, stores,
                 status>>

\* ParallelDo joins its threads: what has begun has ended.
Ended(t) == t \in failed \/ done[t] = tasks[t].count

\* Mutant: duplicates are not copied.
CopyDuplicates_Not == slots

CopyDuplicates ==
  [k \in DOMAIN slots |->
     IF \E n \in DOMAIN groups : k \in groups[n]
       THEN slots[FirstOf(CHOOSE g \in {groups[n] : n \in DOMAIN groups} : k \in g)]
       ELSE slots[k]]

Succeed ==
  /\ pc = "reading"
  /\ \A t \in DOMAIN tasks : t \notin failed /\ done[t] = tasks[t].count
  /\ slots' = CopyDuplicates
  /\ pc' = "returned"
  /\ status' = "ok"
  /\ UNCHANGED <<reader, op, wanted, groups, tasks, done, failed, stores>>

Fail ==
  /\ pc = "reading"
  /\ failed # {}
  /\ \A t \in DOMAIN tasks : Ended(t) \/ done[t] = 0
  /\ pc' = "returned"
  /\ status' = "error"
  /\ UNCHANGED <<reader, op, wanted, groups, tasks, progress>>

Returned == pc = "returned" /\ UNCHANGED vars

-----------------------------------------------------------------------------
Call == OpenFiles \/ RejectUnbalanced \/ Slice \/ RejectSlice
        \/ ReadOne \/ ReadHandle \/ ReadFromHandle \/ ReadRange \/ ReadIndices

Next ==
  \/ Call
  \/ \E t \in DOMAIN tasks : StoreRecord(t) \/ TaskFails(t)
  \/ Succeed
  \/ Fail
  \/ Returned

Spec == Init /\ [][Next]_vars

-----------------------------------------------------------------------------
(* Properties *)

\* The records of the bag in the order that the header documents: shard after
\* shard, or in turns.
BagRecords ==
  UNION {{<<s, i>> : i \in 0..sizes[s + 1]-1} : s \in 0..Len(sizes)-1}

Precedes(q, r) ==
  IF Interleaved THEN q[2] < r[2] \/ (q[2] = r[2] /\ q[1] < r[1])
                 ELSE q[1] < r[1] \/ (q[1] = r[1] /\ q[2] < r[2])

GlobalIndexOf(r) == Cardinality({q \in BagRecords : Precedes(q, r)})

\* The type invariant; no task is given records that its shard has not, or
\* reads more than it has.
TypeOK ==
  /\ layout \in Layouts
  /\ sizes \in ShardSizes
  /\ slice.start \in 0..SizeModulus-1 /\ slice.step \in Int
  /\ slice.length \in 0..SizeModulus-1
  /\ slices \in 0..MaxSlices
  /\ pc \in {"open", "idle", "reading", "returned"}
  /\ status \in {"none", "ok", "invalid", "out_of_range", "error",
                "trapped"}
  /\ \A t \in DOMAIN tasks :
       /\ tasks[t].shard < Len(sizes) /\ FitsShard(tasks[t])
       /\ done[t] \in 0..tasks[t].count
  /\ failed \subseteq DOMAIN tasks
  /\ \A k \in DOMAIN slots : slots[k] = Unset \/ slots[k] \in BagRecords

\* Slice: however often it is applied, with steps of either sign whose
\* products and sums wrap, slice_start_ + i * slice_step_ is the record that
\* position i of the slice stands for, and lies in the bag.
SliceIsView ==
  /\ slice.length = Len(view)
  /\ \A i \in 0..Len(view)-1 : Global(i) = view[i + 1] /\ view[i + 1] < Total

WantedIndex(k) ==
  IF op = "handle" THEN wanted[k] ELSE At(view, wanted[k])

\* ReadShardRanges: the threads write to different results, none of them
\* twice, and each result is the record of the view that is asked for
\* (range and index of shard_indexing.cc, and the ranges ReadIndices makes of
\* the sorted indices); so is the one of a handle, whatever has been sliced since.
ResultsAreWanted ==
  \A k \in DOMAIN slots :
    /\ stores[k] <= 1
    /\ slots[k] # Unset /\ WantedIndex(k) # Outside =>
         GlobalIndexOf(slots[k]) = WantedIndex(k)

\* When a read succeeds all its results are there, duplicates included.
OkIsComplete ==
  pc = "returned" /\ status = "ok" => \A k \in DOMAIN wanted : slots[k] # Unset

\* A slice, operator[] or ReadRange answers when all it is asked for lies in
\* the view, and only then; ReadIndices answers at least then.
InView == \A k \in DOMAIN wanted : wanted[k] \in 0..Len(view)-1

AnswersFitView ==
  /\ status = "out_of_range" /\ wanted # <<>> => ~InView
  /\ status = "ok" /\ op \notin {"indices", "handle"} => InView

\* A slice is a "view of the records in the bag" (bagz_reader.h:110): nothing
\* read through it lies outside.  ReadIndices does not look at the length of a
\* slice that starts at 0 with step 1, and the sum in ReadRange may wrap.
OnlyTheView == status = "ok" /\ op # "handle" => InView
=============================================================================
