---------------------------- MODULE ShardReader -----------------------------
(***************************************************************************)
(* Reading the records of one shard: BagzShardReader::Read and ReadRange   *)
(* of src/internal/bagz_shard_reader.cc, called with the callbacks that    *)
(* BagzReader::State passes them, which decompress each record.            *)
(*                                                                         *)
(* A byte of the records file is its position in the file, so that a view  *)
(* shows which bytes of the file it holds and in which order.  The limits  *)
(* file is a sequence of numbers, not necessarily well-formed.  PRead of   *)
(* the records file hands out its bytes in pieces of any size and may fail *)
(* between two of them (src/file/file_system/pread_file.h).                *)
(***************************************************************************)
EXTENDS Integers, Sequences

CONSTANTS
  LimitsFiles,    \* contents of limits files
  RecordsSizes,   \* sizes of records files
  Requests,       \* values of index and count in calls
  Undecodables    \* sets of records whose decompression fails

ASSUME LimitsFilesAssumption == LimitsFiles \subseteq Seq(Nat)
ASSUME RecordsSizesAssumption == RecordsSizes \subseteq Nat
ASSUME RequestsAssumption == Requests \subseteq Nat
ASSUME UndecodablesAssumption == Undecodables \subseteq SUBSET Nat

VARIABLES
  op,                   \* "Read" or "ReadRange"
  index,                \* argument: the first record
  count,                \* argument: how many records; 1 in a Read
  limits_file,          \* contents of limits_; never changes
  records_size,         \* size of records_; never changes
  undecodable,          \* records that do not decompress, unless empty
  pc,                   \* where the call is
  limits,               \* the limits around the records, read from the file
  position,             \* the next byte that PRead will hand out
  chunk,                \* bytes of the current piece not yet consumed
  partial,              \* bytes of a record set aside for the next piece
  num_remaining_bytes,  \* of ReadFromByteRange
  result_index,         \* of ReadFromLimits
  status,               \* what the shard reader returns
  compress_status,      \* what the callback's last call has stored
  views                 \* history: what the callback was called with

args == <<op, index, count>>
files == <<limits_file, records_size, undecodable>>
progress == <<position, chunk, partial, num_remaining_bytes, result_index>>
called == <<compress_status, views>>
vars == <<args, files, pc, limits, progress, status, called>>

Init ==
  /\ \/ op = "Read" /\ count = 1
     \/ op = "ReadRange" /\ count \in Requests
  /\ index \in Requests
  /\ limits_file \in LimitsFiles
  /\ records_size \in RecordsSizes
  /\ undecodable \in Undecodables
  /\ pc = "start"
  /\ limits = <<>>
  /\ position = 0
  /\ chunk = <<>>
  /\ partial = <<>>
  /\ num_remaining_bytes = 0
  /\ result_index = 0
  /\ status = "ok"
  /\ compress_status = "ok"
  /\ views = <<>>

-----------------------------------------------------------------------------
(* The caller's side *)

\* The bytes from..to - 1 of the records file.
Bytes(from, to) == [i \in 1..(to - from) |-> from + i - 1]

\* DecompressInto copies an empty record without decompressing it.
Decompresses(i, bytes) == bytes = <<>> \/ index + i \notin undecodable

\* The callback of ReadShardRanges, and of ReadWithAllocator (which returns
\* nothing): each call overwrites compress_status.
Callback(i, bytes) ==
  /\ views' = Append(views, [index |-> i, bytes |-> bytes,
                             kept |-> Decompresses(i, bytes)])
  /\ compress_status' = IF Decompresses(i, bytes) THEN "ok" ELSE "error"

Return(s) ==
  /\ pc' = "update"
  /\ status' = s

\* The caller adds the callback's status to that of the shard reader.
UpdateStatus ==
  /\ pc = "update"
  /\ pc' = "returned"
  /\ status' = IF status = "ok" THEN compress_status ELSE status
  /\ UNCHANGED <<args, files, limits, progress, called>>

-----------------------------------------------------------------------------
(* The arguments, and the limits file *)

Size == Len(limits_file)

\* The largest index that leaves room for count records is not computed
\* before it is known that there is one: no subtraction underflows.
InRange ==
  IF op = "Read" THEN index < Size
                 ELSE count <= Size /\ index <= Size - count

RejectArguments ==
  /\ pc = "start"
  /\ ~InRange
  /\ Return("error")
  /\ UNCHANGED <<args, files, limits, progress, called>>

ReturnNoRecords ==
  /\ pc = "start"
  /\ InRange
  /\ count = 0
  /\ Return("ok")
  /\ UNCHANGED <<args, files, limits, progress, called>>

\* Without a byte of records every record is taken to be empty, whatever the
\* limits file says.
AllEmpty ==
  /\ pc = "start"
  /\ InRange
  /\ count > 0
  /\ records_size = 0
  /\ pc' = "empty"
  /\ UNCHANGED <<args, files, limits, progress, status, called>>

\* One read of count + 1 limits, or of count when the records start at the
\* beginning of the file, where no limit is stored.
ReadLimits ==
  /\ pc = "start"
  /\ InRange
  /\ count > 0
  /\ records_size > 0
  /\ \/ /\ limits' = IF index = 0
                       THEN <<0>> \o SubSeq(limits_file, 1, count)
                       ELSE SubSeq(limits_file, index, index + count)
        /\ pc' = "check"
        /\ UNCHANGED status
     \/ Return("error") /\ UNCHANGED limits
  /\ UNCHANGED <<args, files, progress, called>>

FirstLimit == limits[1]
LastLimit == limits[Len(limits)]

\* Mutant: the last limit is not compared with the size of the file.
ValidLimits_NoLast == \A i \in 1..(Len(limits) - 1) : limits[i] <= limits[i + 1]

\* Each limit is compared with the next one, and the last with the file.
ValidLimits ==
  /\ \A i \in 1..(Len(limits) - 1) : limits[i] <= limits[i + 1]
  /\ LastLimit <= records_size

RejectLimits ==
  /\ pc = "check"
  /\ ~ValidLimits
  /\ Return("error")
  /\ UNCHANGED <<args, files, limits, progress, called>>

NoBytes ==
  /\ pc = "check"
  /\ ValidLimits
  /\ FirstLimit = LastLimit
  /\ pc' = "empty"
  /\ UNCHANGED <<args, files, limits, progress, status, called>>

StartPRead ==
  /\ pc = "check"
  /\ ValidLimits
  /\ FirstLimit < LastLimit
  /\ pc' = "pread"
  /\ position' = FirstLimit
  /\ num_remaining_bytes' = LastLimit - FirstLimit
  /\ UNCHANGED <<args, files, limits, chunk, partial, result_index, status,
                 called>>

-----------------------------------------------------------------------------
(* PRead of the records file *)

\* The next non-empty piece.
Piece ==
  /\ pc = "pread"
  /\ chunk = <<>>
  /\ \E to \in (position + 1)..LastLimit :
       /\ chunk' = Bytes(position, to)
       /\ position' = to
  /\ UNCHANGED <<args, files, pc, limits, partial, num_remaining_bytes,
                 result_index, status, called>>

PReadFails ==
  /\ pc = "pread"
  /\ chunk = <<>>
  /\ position < LastLimit
  /\ Return("error")
  /\ UNCHANGED <<args, files, limits, progress, called>>

\* Mutant: what follows the last byte is forgotten.
PReadEnds_NoTail ==
  /\ pc = "pread"
  /\ chunk = <<>>
  /\ position = LastLimit
  /\ Return("ok")
  /\ UNCHANGED <<args, files, limits, progress, called>>

\* The records after the last byte are empty ones, which no piece shows.
PReadEnds ==
  /\ pc = "pread"
  /\ chunk = <<>>
  /\ position = LastLimit
  /\ IF op = "Read"
       THEN Return("ok")
       ELSE pc' = "empty" /\ UNCHANGED status
  /\ UNCHANGED <<args, files, limits, progress, called>>

-----------------------------------------------------------------------------
(* ReadFromByteRange: the pieces of a single record *)

LastPieceOfRecord ==
  /\ pc = "pread"
  /\ op = "Read"
  /\ chunk # <<>>
  /\ Len(chunk) = num_remaining_bytes
  /\ partial' = IF partial = <<>> THEN partial ELSE partial \o chunk
  /\ Callback(0, IF partial = <<>> THEN chunk ELSE partial \o chunk)
  /\ chunk' = <<>>
  /\ UNCHANGED <<args, files, pc, limits, position, num_remaining_bytes,
                 result_index, status>>

\* Mutant: bytes set aside before are subtracted once more.
PieceOfRecord_CountsTwice ==
  /\ pc = "pread"
  /\ op = "Read"
  /\ chunk # <<>>
  /\ Len(chunk) # num_remaining_bytes
  /\ partial' = partial \o chunk
  /\ num_remaining_bytes' = num_remaining_bytes - Len(partial')
  /\ chunk' = <<>>
  /\ UNCHANGED <<args, files, pc, limits, position, result_index, status,
                 called>>

PieceOfRecord ==
  /\ pc = "pread"
  /\ op = "Read"
  /\ chunk # <<>>
  /\ Len(chunk) # num_remaining_bytes
  /\ partial' = partial \o chunk
  /\ num_remaining_bytes' = num_remaining_bytes - Len(chunk)
  /\ chunk' = <<>>
  /\ UNCHANGED <<args, files, pc, limits, position, result_index, status,
                 called>>

-----------------------------------------------------------------------------
(* ReadFromLimits: the pieces of a range of records *)

\* What is missing of record result_index.
RecordSize ==
  limits[result_index + 2] - limits[result_index + 1] - Len(partial)

\* The record continues in the next piece.
SetAside ==
  /\ pc = "pread"
  /\ op = "ReadRange"
  /\ chunk # <<>>
  /\ RecordSize > Len(chunk)
  /\ partial' = partial \o chunk
  /\ chunk' = <<>>
  /\ UNCHANGED <<args, files, pc, limits, position, num_remaining_bytes,
                 result_index, status, called>>

\* Mutant: what was set aside is not put in front of the rest of the record.
Complete_DropsPartial ==
  /\ pc = "pread"
  /\ op = "ReadRange"
  /\ chunk # <<>>
  /\ RecordSize <= Len(chunk)
  /\ Callback(result_index, SubSeq(chunk, 1, RecordSize))
  /\ partial' = <<>>
  /\ chunk' = SubSeq(chunk, RecordSize + 1, Len(chunk))
  /\ result_index' = result_index + 1
  /\ UNCHANGED <<args, files, pc, limits, position, num_remaining_bytes, status>>

\* The record is complete.  If the callback returns false, PRead does too,
\* with an OK status, and the loop over the empty records at the end of the
\* range goes on from the record that the callback has refused.
Complete ==
  /\ pc = "pread"
  /\ op = "ReadRange"
  /\ chunk # <<>>
  /\ RecordSize <= Len(chunk)
  /\ LET record == partial \o SubSeq(chunk, 1, RecordSize)
     IN  /\ Callback(result_index, record)
         /\ IF Decompresses(result_index, record)
              THEN /\ partial' = <<>>
                   /\ chunk' = SubSeq(chunk, RecordSize + 1, Len(chunk))
                   /\ result_index' = result_index + 1
                   /\ UNCHANGED pc
              ELSE /\ pc' = "empty"
                   /\ partial' = IF partial = <<>> THEN partial ELSE record
                   /\ UNCHANGED <<chunk, result_index>>
  /\ UNCHANGED <<args, files, limits, position, num_remaining_bytes, status>>

-----------------------------------------------------------------------------
(* Empty records: all of them, all in the range, those left after PRead.   *)
(* The callback cannot refuse an empty view.                               *)

EmptyRecord ==
  /\ pc = "empty"
  /\ result_index < count
  /\ Callback(result_index, <<>>)
  /\ result_index' = result_index + 1
  /\ UNCHANGED <<args, files, pc, limits, position, chunk, partial,
                 num_remaining_bytes, status>>

EmptyRecordsEnd ==
  /\ pc = "empty"
  /\ result_index = count
  /\ Return("ok")
  /\ UNCHANGED <<args, files, limits, progress, called>>

Returned == pc = "returned" /\ UNCHANGED vars

-----------------------------------------------------------------------------
Call == RejectArguments \/ ReturnNoRecords \/ AllEmpty \/ ReadLimits
        \/ RejectLimits \/ NoBytes \/ StartPRead
Pieces == Piece \/ PReadFails \/ PReadEnds \/ LastPieceOfRecord
          \/ PieceOfRecord \/ SetAside \/ Complete
Empties == EmptyRecord \/ EmptyRecordsEnd

Step == Call \/ Pieces \/ Empties \/ UpdateStatus

Next == Step \/ Returned

Spec == Init /\ [][Next]_vars

-----------------------------------------------------------------------------
(* What a caller relies on *)

View == [index : Nat, bytes : Seq(Nat), kept : BOOLEAN]

\* The state is well-typed, and no size that the code computes by a
\* subtraction of size_t values is negative.
TypeOK ==
  /\ op \in {"Read", "ReadRange"}
  /\ index \in Nat /\ count \in Nat
  /\ limits_file \in Seq(Nat)
  /\ records_size \in Nat
  /\ undecodable \subseteq Nat
  /\ pc \in {"start", "check", "pread", "empty", "update", "returned"}
  /\ limits \in Seq(Nat)
  /\ position \in Nat
  /\ chunk \in Seq(Nat)
  /\ partial \in Seq(Nat)
  /\ num_remaining_bytes \in Nat
  /\ result_index \in 0..count
  /\ pc = "pread" /\ chunk # <<>> /\ op = "ReadRange" => RecordSize \in Nat
  /\ status \in {"ok", "error"}
  /\ compress_status \in {"ok", "error"}
  /\ views \in Seq(View)

\* Record i of the shard: its bytes end at limit i and start where the
\* record before it ends.
Record(i) ==
  IF records_size = 0 THEN <<>>
  ELSE Bytes(IF i = 0 THEN 0 ELSE limits_file[i], limits_file[i + 1])

\* However PRead cuts the records into pieces, and wherever empty records are
\* between them, the callback sees the records of the request one by one, in
\* order, each with exactly its own bytes, up to the first one that it
\* refuses.
ViewsAreRecords ==
  \A k \in DOMAIN views :
    (\A j \in 1..(k - 1) : views[j].kept)
      => /\ views[k].index = k - 1
         /\ views[k].bytes = Record(index + k - 1)

\* A call that returns OK, none of whose records was refused, has shown all
\* the records it was asked for: none is lost at the end of the last piece.
OkIsComplete ==
  /\ pc = "returned" /\ status = "ok"
  /\ \A k \in DOMAIN views : views[k].kept
  => Len(views) = count

\* If the limits around the requested records decrease somewhere or point
\* behind the records, the call fails and shows no record at all, not even
\* those whose own limits are fine (bagz_shard_reader.h:133-136).
BadLimitsShowNothing ==
  /\ InRange /\ count > 0 /\ records_size > 0
  /\ \/ limits_file[index + count] > records_size
     \/ \E i \in (index + 1)..(index + count) :
          i > 1 /\ limits_file[i - 1] > limits_file[i]
  => /\ views = <<>>
     /\ pc = "returned" => status = "error"

\* A single read never reports OK for a record that it could not decompress
\* (ReadWithAllocator and ReadFromHandleWithAllocator of bagz_reader.cc).
ReadReportsCorruption ==
  op = "Read" /\ pc = "returned" /\ status = "ok"
    => \A k \in DOMAIN views : views[k].kept

\* bagz_reader.h:166-171 of ReadRangeWithAllocator: "On success, and for each
\* `index` in the range, [...] the uncompressed record is then copied into the
\* returned buffer."
OkMeansDecompressed ==
  pc = "returned" /\ status = "ok" => \A k \in DOMAIN views : views[k].kept
=============================================================================
