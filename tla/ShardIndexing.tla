---------------------------- MODULE ShardIndexing ----------------------------
(***************************************************************************)
(* src/internal/shard_indexing.cc: where the record with a global index    *)
(* lies, and how a range of global indices falls on the shards, when the   *)
(* shards are concatenated and when they are interleaved.                  *)
(*                                                                         *)
(* Shards are numbered from 0, as in the code: accumulated_count[s + 1] is *)
(* the number of records in the shards 0 to s.  Within the preconditions   *)
(* of the header no sum overflows.                                         *)
(***************************************************************************)
EXTENDS Integers, Sequences, FiniteSets

AtMost(a, b) == IF a <= b THEN a ELSE b

\* What SetToSortSeq of SequencesExt is, by counting and without an operator as
\* a parameter, as the proofs need it: the elements of a finite set, each
\* behind as many others as a total order, a set of pairs, puts before it.
SortedSeq(S, before) ==
  [k \in 1..Cardinality(S) |->
     CHOOSE x \in S : Cardinality({y \in S : <<y, x>> \in before}) = k - 1]

\* A set of numbers, in the order in which a loop over it goes.
Ascending(S) == SortedSeq(S, {p \in S \X S : p[1] < p[2]})

\* Records in the shards before shard; the code's case for shard 0 included.
CountBefore(accumulated_count, shard) ==
  IF shard = 0 THEN 0 ELSE accumulated_count[shard]

NumRecordsInShard(shard, accumulated_count) ==
  accumulated_count[shard + 1] - CountBefore(accumulated_count, shard)

TotalCount(accumulated_count) ==
  CountBefore(accumulated_count, Len(accumulated_count))

\* valid_range; checked in this order to avoid overflow.
ValidRange(accumulated_count, start, count) ==
  /\ count <= TotalCount(accumulated_count)
  /\ start <= TotalCount(accumulated_count) - count

-----------------------------------------------------------------------------
(* Concatenated *)

\* std::lower_bound: how many of the ascending counts are below bound.
LowerBound(accumulated_count, bound) ==
  CHOOSE n \in 0..Len(accumulated_count) :
    /\ \A k \in 1..n : accumulated_count[k] < bound
    /\ n < Len(accumulated_count) => accumulated_count[n + 1] >= bound

ShardIndexFromConcatated(accumulated_count, global_index) ==
  LET shard == LowerBound(accumulated_count, global_index + 1)
  IN  [shard |-> shard,
       shard_index |-> global_index - CountBefore(accumulated_count, shard)]

\* The part of shard i of a range from first to last, both included.
ConcatatedPart(accumulated_count, first, last, i) ==
  LET shard_start == IF i = first.shard THEN first.shard_index ELSE 0
      shard_end == IF i = last.shard THEN last.shard_index + 1
                   ELSE NumRecordsInShard(i, accumulated_count)
  IN  [shard |-> i,
       shard_start |-> shard_start,
       count |-> shard_end - shard_start,
       result_offset |-> CountBefore(accumulated_count, i) + shard_start
                         - CountBefore(accumulated_count, first.shard)
                         - first.shard_index,
       result_stride |-> 1]

\* The loop over the shards of the range.
ConcatatedParts(accumulated_count, first, last) ==
  [k \in 1..(last.shard - first.shard + 1) |->
     ConcatatedPart(accumulated_count, first, last, first.shard + k - 1)]

NotEmpty(range) == range.count # 0

\* The parts that are pushed, in their order.
NotEmptyParts(parts) ==
  LET chosen == Ascending({k \in DOMAIN parts : NotEmpty(parts[k])})
  IN  [n \in DOMAIN chosen |-> parts[chosen[n]]]

ShardRangeFromConcatated(accumulated_count, start, count) ==
  IF count = 0 THEN <<>>
  ELSE NotEmptyParts(ConcatatedParts(accumulated_count,
         ShardIndexFromConcatated(accumulated_count, start),
         ShardIndexFromConcatated(accumulated_count, start + count - 1)))

-----------------------------------------------------------------------------
(* Interleaved *)

ShardIndexFromInterleaved(accumulated_count, global_index) ==
  [shard |-> global_index % Len(accumulated_count),
   shard_index |-> global_index \div Len(accumulated_count)]

\* The i-th shard from that of start on, with its records at or after start
\* and before start + count.
InterleavedPart(accumulated_count, start, count, i) ==
  LET span == Len(accumulated_count)
      first == ShardIndexFromInterleaved(accumulated_count, start)
      new_start == i + first.shard >= span
      shard_id == i + first.shard - (IF new_start THEN span ELSE 0)
      index_start == first.shard_index + (IF new_start THEN 1 ELSE 0)
      index_end == (start + count - shard_id + span - 1) \div span
  IN  [shard |-> shard_id,
       shard_start |-> index_start,
       count |-> index_end - index_start,
       result_offset |-> i,
       result_stride |-> span]

ShardRangeFromInterleaved(accumulated_count, start, count) ==
  [k \in 1..AtMost(count, Len(accumulated_count)) |->
     InterleavedPart(accumulated_count, start, count, k - 1)]

-----------------------------------------------------------------------------
(* ShardIndexing::index and range *)

ShardIndex(interleaved, accumulated_count, global_index) ==
  IF interleaved
    THEN ShardIndexFromInterleaved(accumulated_count, global_index)
    ELSE ShardIndexFromConcatated(accumulated_count, global_index)

ShardRanges(interleaved, accumulated_count, start, count) ==
  IF interleaved
    THEN ShardRangeFromInterleaved(accumulated_count, start, count)
    ELSE ShardRangeFromConcatated(accumulated_count, start, count)
=============================================================================
