----------------------------- MODULE BagzWriter -----------------------------
(***************************************************************************)
(* The writer of src/bagz_writer.cc on the files of the POSIX file system: *)
(* records and their limits go to two buffered files; closing appends the  *)
(* limits to the records when they are to be placed in the tail.           *)
(*                                                                         *)
(* A file is the sequence of bytes written to it, of which the first       *)
(* `disk' have left the stdio buffer: these are what a reader finds, at    *)
(* any time and after a crash.  (The machine stays up: nothing is synced.) *)
(* A byte is marked with the record or the limit it belongs to; a limit    *)
(* takes WordSize bytes.                                                   *)
(***************************************************************************)
EXTENDS Integers, Sequences

CONSTANTS
  WordSize,          \* bytes of a limit: sizeof(uint64_t)
  AppendBufferSize,  \* bytes that AppendSourceToDest copies at a time
  RecordSizes,       \* sizes of records, compressed if they are
  MaxWrites,         \* bound: calls of Write
  Failing            \* which kinds of calls of the file system may fail

ASSUME WordSizeAssumption == WordSize \in Nat \ {0}
ASSUME AppendBufferSizeAssumption == AppendBufferSize \in Nat \ {0}
ASSUME RecordSizesAssumption == RecordSizes \subseteq Nat
ASSUME MaxWritesAssumption == MaxWrites \in Nat
ASSUME FailingAssumption ==
  Failing \subseteq {"open", "compress", "write", "flush", "close", "append",
                      "delete"}

VARIABLES
  limits_placement,  \* "tail" or "separate"
  records_file,      \* stream, disk, and whether the file is open
  limits_file,       \* likewise
  limits_name,       \* whether the limits file has a directory entry
  records_size_,     \* the end of the last record, as the writer counts it
  pc,                \* the call in progress, or what became of the writer:
                     \* "closed" is a Close that returned OK
  record_size,       \* local to Write: size of the record
  offset,            \* local to AppendSourceToDest
  status,            \* of the call in progress, or the last one
  attempts,          \* history: calls of Write so far
  written,           \* history: number and size of records whose Write was OK
  acknowledged,      \* history: how many of them an OK Flush or Close covers
  intact             \* history: no fwrite, fflush or append has failed

files == <<records_file, limits_file, limits_name>>
local == <<record_size, offset>>
history == <<attempts, written, acknowledged, intact>>
vars == <<limits_placement, files, records_size_, pc, local, status, history>>

NoFile == [stream |-> <<>>, disk |-> 0, open |-> FALSE]

Init ==
  /\ limits_placement \in {"tail", "separate"}
  /\ records_file = NoFile
  /\ limits_file = NoFile
  /\ limits_name = FALSE
  /\ records_size_ = 0
  /\ pc = "open_records"
  /\ record_size = 0
  /\ offset = 0
  /\ status = "ok"
  /\ attempts = 0
  /\ written = <<>>
  /\ acknowledged = 0
  /\ intact = TRUE

-----------------------------------------------------------------------------
(* The POSIX files *)

\* fwrite: the buffer may be spilled, as far as the system likes.
Written(f, data, g) ==
  \E n \in f.disk..(Len(f.stream) + Len(data)) :
    g = [f EXCEPT !.stream = f.stream \o data, !.disk = n]

\* A call of stdio that fails has put a part of what was buffered and given to
\* it into the file; of the rest it keeps a part and drops the others.
Failed(f, data, g) ==
  \E n \in f.disk..(Len(f.stream) + Len(data)) :
    /\ n < Len(f.stream) + Len(data) \/ data = <<>>
    /\ \E d \in f.disk..n :
         g = [f EXCEPT !.stream = SubSeq(f.stream \o data, 1, n), !.disk = d]

\* Mutant: nothing is flushed.
Flushed_Not(f) == f

\* fflush, and fclose with what it leaves.
Flushed(f) == [f EXCEPT !.disk = Len(f.stream)]
Closed(f) == [f EXCEPT !.disk = Len(f.stream), !.open = FALSE]

\* After a failed fclose there is no file to close again.
ClosedPartly(f, g) ==
  \E n \in f.disk..Len(f.stream) :
    g = [stream |-> SubSeq(f.stream, 1, n), disk |-> n, open |-> FALSE]

NewFile == [stream |-> <<>>, disk |-> 0, open |-> TRUE]

\* Whether the files hold all that was given to them, in their buffers or not.
StaysIntact == intact' = (intact /\ status' = "ok")

MayFail(call) == call \in Failing /\ status' = "error"

-----------------------------------------------------------------------------
(* Opening *)

OpenRecords ==
  /\ pc = "open_records"
  /\ \/ records_file' = NewFile /\ pc' = "open_limits" /\ UNCHANGED status
     \/ MayFail("open") /\ pc' = "destroyed" /\ UNCHANGED records_file
  /\ UNCHANGED <<limits_placement, limits_file, limits_name, records_size_,
                 local, history>>

\* If this fails the records file, truncated, is closed by its owner.
OpenLimits ==
  /\ pc = "open_limits"
  /\ \/ /\ limits_file' = NewFile /\ limits_name' = TRUE /\ pc' = "idle"
        /\ UNCHANGED <<records_file, status>>
     \/ /\ MayFail("open") /\ pc' = "destroyed"
        /\ records_file' = Closed(records_file)
        /\ UNCHANGED <<limits_file, limits_name>>
  /\ UNCHANGED <<limits_placement, records_size_, local, history>>

-----------------------------------------------------------------------------
(* Write *)

RecordBytes(k, size) == [j \in 1..size |-> [of |-> "record", n |-> k, byte |-> j]]
Word(v) == [j \in 1..WordSize |-> [of |-> "limit", n |-> v, byte |-> j]]

\* The record is compressed first; if that fails nothing has happened.
CompressFails ==
  /\ pc = "idle"
  /\ attempts < MaxWrites
  /\ attempts' = attempts + 1
  /\ MayFail("compress")
  /\ UNCHANGED <<limits_placement, files, records_size_, pc, local, written,
                 acknowledged, intact>>

\* Mutant: the limit is the size of the record.
RecordsSizeAfter_SizeOnly(size) == size

RecordsSizeAfter(size) == records_size_ + size

WriteRecord ==
  /\ pc = "idle"
  /\ attempts < MaxWrites
  /\ attempts' = attempts + 1
  /\ \E size \in RecordSizes :
       LET data == RecordBytes(attempts + 1, size)
       IN  \/ /\ Written(records_file, data, records_file')
              /\ record_size' = size
              /\ records_size_' = RecordsSizeAfter(size)
              /\ pc' = "write_limit"
              /\ status' = "ok"
           \/ /\ Failed(records_file, data, records_file')
              /\ MayFail("write")
              /\ UNCHANGED <<record_size, records_size_, pc>>
  /\ StaysIntact
  /\ UNCHANGED <<limits_placement, limits_file, limits_name, offset, written,
                 acknowledged>>

WriteLimit ==
  /\ pc = "write_limit"
  /\ pc' = "idle"
  /\ \/ /\ Written(limits_file, Word(records_size_), limits_file')
        /\ written' = Append(written, [n |-> attempts, size |-> record_size])
        /\ UNCHANGED status
     \/ /\ Failed(limits_file, Word(records_size_), limits_file')
        /\ MayFail("write")
        /\ UNCHANGED written
  /\ StaysIntact
  /\ UNCHANGED <<limits_placement, records_file, limits_name, records_size_,
                 local, attempts, acknowledged>>

-----------------------------------------------------------------------------
(* Flush: the limits first; the records whatever became of the limits *)

FlushLimits ==
  /\ pc = "idle"
  /\ pc' = "flush_records"
  /\ \/ limits_file' = Flushed(limits_file) /\ status' = "ok"
     \/ Failed(limits_file, <<>>, limits_file') /\ MayFail("flush")
  /\ StaysIntact
  /\ UNCHANGED <<limits_placement, records_file, limits_name, records_size_,
                 local, attempts, written, acknowledged>>

FlushRecords ==
  /\ pc = "flush_records"
  /\ pc' = "idle"
  /\ \/ /\ records_file' = Flushed(records_file)
        /\ acknowledged' = IF status = "ok" THEN Len(written) ELSE acknowledged
        /\ UNCHANGED status
     \/ /\ Failed(records_file, <<>>, records_file')
        /\ MayFail("flush")
        /\ UNCHANGED acknowledged
  /\ StaysIntact
  /\ UNCHANGED <<limits_placement, limits_file, limits_name, records_size_,
                 local, attempts, written>>

-----------------------------------------------------------------------------
(* Close *)

\* A step of Close that fails ends it: BagzWriter resets the state.
FailClose(call) == MayFail(call) /\ pc' = "reset"

CloseLimits ==
  /\ pc = "idle"
  /\ \/ /\ limits_file' = Closed(limits_file)
        /\ status' = "ok"
        /\ pc' = IF limits_placement = "tail" THEN "read_limits"
                                              ELSE "close_records"
     \/ ClosedPartly(limits_file, limits_file') /\ FailClose("close")
  /\ UNCHANGED <<limits_placement, records_file, limits_name, records_size_,
                 local, history>>

OpenLimitsToRead ==
  /\ pc = "read_limits"
  /\ \/ pc' = "append" /\ offset' = 0 /\ UNCHANGED status
     \/ FailClose("open") /\ UNCHANGED offset
  /\ UNCHANGED <<limits_placement, files, records_size_, record_size, history>>

OnDisk(f) == SubSeq(f.stream, 1, f.disk)

AtMost(a, b) == IF a <= b THEN a ELSE b

\* One turn of AppendSourceToDest.
AppendLimits ==
  /\ pc = "append"
  /\ offset < limits_file.disk
  /\ LET length == AtMost(AppendBufferSize, limits_file.disk - offset)
         data == SubSeq(OnDisk(limits_file), offset + 1, offset + length)
     IN  \/ /\ Written(records_file, data, records_file')
            /\ offset' = offset + AppendBufferSize
            /\ UNCHANGED <<pc, status>>
         \/ /\ Failed(records_file, data, records_file')
            /\ FailClose("append")
            /\ UNCHANGED offset
  /\ UNCHANGED <<limits_placement, limits_file, limits_name, records_size_,
                 record_size, history>>

\* Mutant: the first buffer is taken for all.
AppendEnds_OneTurn ==
  /\ pc = "append"
  /\ offset > 0
  /\ pc' = "close_records"
  /\ UNCHANGED <<limits_placement, files, records_size_, local, status, history>>

\* Mutant: the records file is not closed before the limits are deleted.
AppendEnds_NoClose ==
  /\ pc = "append"
  /\ offset >= limits_file.disk
  /\ pc' = "delete"
  /\ UNCHANGED <<limits_placement, files, records_size_, local, status, history>>

AppendEnds ==
  /\ pc = "append"
  /\ offset >= limits_file.disk
  /\ pc' = "close_records"
  /\ UNCHANGED <<limits_placement, files, records_size_, local, status, history>>



CloseRecords ==
  /\ pc = "close_records"
  /\ \/ /\ records_file' = Closed(records_file)
        /\ IF limits_placement = "tail"
             THEN pc' = "delete" /\ UNCHANGED acknowledged
             ELSE pc' = "closed" /\ acknowledged' = Len(written)
        /\ UNCHANGED status
     \/ /\ ClosedPartly(records_file, records_file')
        /\ FailClose("close")
        /\ UNCHANGED acknowledged
  /\ UNCHANGED <<limits_placement, limits_file, limits_name, records_size_,
                 local, attempts, written, intact>>

DeleteLimits ==
  /\ pc = "delete"
  /\ \/ /\ limits_name' = FALSE
        /\ pc' = "closed"
        /\ acknowledged' = Len(written)
        /\ UNCHANGED status
     \/ FailClose("delete") /\ UNCHANGED <<limits_name, acknowledged>>
  /\ UNCHANGED <<limits_placement, records_file, limits_file, records_size_,
                 local, attempts, written, intact>>

-----------------------------------------------------------------------------
(* The end of the State: after a failed Close, or of a writer that is       *)
(* destroyed without one.  The limits file, declared last, goes first; what *)
(* fclose says is ignored.                                                  *)

Destroy ==
  /\ pc = "idle"
  /\ pc' = "reset"
  /\ UNCHANGED <<limits_placement, files, records_size_, local, status, history>>

\* Mutant: the destructor leaves the files open.
DestroyedFile_Leaked(f, g) == g = f

DestroyedFile(f, g) ==
  IF f.open
    THEN g = Closed(f) \/ ("close" \in Failing /\ ClosedPartly(f, g))
    ELSE g = f

ResetLimits ==
  /\ pc = "reset"
  /\ pc' = "reset_records"
  /\ DestroyedFile(limits_file, limits_file')
  /\ UNCHANGED <<limits_placement, records_file, limits_name, records_size_,
                 local, status, history>>

ResetRecords ==
  /\ pc = "reset_records"
  /\ pc' = "destroyed"
  /\ DestroyedFile(records_file, records_file')
  /\ UNCHANGED <<limits_placement, limits_file, limits_name, records_size_,
                 local, status, history>>

Ended == {"closed", "destroyed", "crashed"}

\* The process ends between two steps, or in one: what is buffered is lost.
Lost(f) == [stream |-> OnDisk(f), disk |-> f.disk, open |-> FALSE]

Crash ==
  /\ pc \notin Ended
  /\ pc' = "crashed"
  /\ records_file' = Lost(records_file)
  /\ limits_file' = Lost(limits_file)
  /\ UNCHANGED <<limits_placement, limits_name, records_size_, local, status,
                 history>>

Over == pc \in Ended /\ UNCHANGED vars

-----------------------------------------------------------------------------
Writing == CompressFails \/ WriteRecord \/ WriteLimit
Flushing == FlushLimits \/ FlushRecords
Closing == OpenLimitsToRead \/ AppendLimits \/ AppendEnds \/ CloseRecords
           \/ DeleteLimits \/ ResetLimits \/ ResetRecords

Next == OpenRecords \/ OpenLimits \/ Writing \/ Flushing \/ CloseLimits
        \/ Destroy \/ Closing \/ Crash \/ Over

Spec == Init /\ [][Next]_vars

-----------------------------------------------------------------------------
(* What a reader finds: src/internal/bagz_shard_reader.cc on the files of   *)
(* one shard, with the limits in their own file or in the tail.             *)

\* Bytes that are no limit the writer wrote decode to no known number.
Decode(word) == LET v == word[1].n IN IF word = Word(v) THEN v ELSE -1

ShardSize(limits) == Len(limits) \div WordSize

Limit(limits, k) ==
  IF k = 0 THEN 0
           ELSE Decode(SubSeq(limits, (k - 1) * WordSize + 1, k * WordSize))

\* Reading record k yields data, if it yields anything; without records no
\* limit is read.
Shows(records, limits, k, data) ==
  /\ k \in 1..ShardSize(limits)
  /\ IF records = <<>>
       THEN data = <<>>
       ELSE LET first == Limit(limits, k - 1)
                last == Limit(limits, k)
            IN  /\ 0 <= first /\ first <= last /\ last <= Len(records)
                /\ data = SubSeq(records, first + 1, last)

\* SplitRecordsAndLimits
RecordsEnd(bag) == Decode(SubSeq(bag, Len(bag) - WordSize + 1, Len(bag)))

Splits(bag) ==
  \/ bag = <<>>
  \/ /\ Len(bag) >= WordSize
     /\ RecordsEnd(bag) \in 0..(Len(bag) - WordSize)
     /\ (Len(bag) - RecordsEnd(bag)) % WordSize = 0

RecordsOf(bag) == IF bag = <<>> THEN <<>> ELSE SubSeq(bag, 1, RecordsEnd(bag))
LimitsOf(bag) ==
  IF bag = <<>> THEN <<>> ELSE SubSeq(bag, RecordsEnd(bag) + 1, Len(bag))

Content(k) == RecordBytes(written[k].n, written[k].size)

SeparateShows(k, data) ==
  limits_name /\ Shows(OnDisk(records_file), OnDisk(limits_file), k, data)

TailShows(k, data) ==
  LET bag == OnDisk(records_file)
  IN  Splits(bag) /\ Shows(RecordsOf(bag), LimitsOf(bag), k, data)

\* A reader with one limits placement or the other finds the k-th record.
Readable(k) == SeparateShows(k, Content(k)) \/ TailShows(k, Content(k))

-----------------------------------------------------------------------------
(* Properties *)

FileType ==
  [stream : Seq([of : {"record", "limit"}, n : Nat, byte : Nat]),
   disk : Nat, open : BOOLEAN]

\* The files, the program counter and the counters of the writer keep their
\* types, no more of a file is on the disk than was written to it, and when
\* the writer is gone, by Close or by its destructor, both files are closed.
TypeOK ==
  /\ limits_placement \in {"tail", "separate"}
  /\ records_file \in FileType /\ records_file.disk <= Len(records_file.stream)
  /\ limits_file \in FileType /\ limits_file.disk <= Len(limits_file.stream)
  /\ limits_name \in BOOLEAN
  /\ records_size_ \in Nat
  /\ pc \in {"open_records", "open_limits", "idle", "write_limit",
             "flush_records", "read_limits", "append", "close_records",
             "delete", "reset", "reset_records"} \cup Ended
  /\ record_size \in Nat
  /\ offset \in Nat
  /\ status \in {"ok", "error"}
  /\ attempts \in 0..MaxWrites
  /\ written \in Seq([n : 1..MaxWrites, size : RecordSizes])
  /\ acknowledged \in 0..Len(written)
  /\ intact \in BOOLEAN
  /\ pc \in Ended => ~records_file.open /\ ~limits_file.open

\* BagzWriter::Flush and Close: what an OK Flush or Close covers can be read
\* from then on, between any two steps of a later call, after a Close that
\* failed half-way, and after a crash; unless a Write or a Flush has failed.
AcknowledgedIsReadable == intact => \A k \in 1..acknowledged : Readable(k)

\* BagzWriter::Close: after an OK Close the bag, read with the placement it was
\* written with, holds the records whose Write was OK, in their order, and no
\* other; a tail has left no limits file behind.
ClosedBagIsExact ==
  pc = "closed" /\ intact =>
    LET bag == OnDisk(records_file)
    IN  IF limits_placement = "tail"
          THEN /\ Splits(bag)
               /\ ShardSize(LimitsOf(bag)) = Len(written)
               /\ \A k \in 1..Len(written) : TailShows(k, Content(k))
               /\ ~limits_name
          ELSE /\ ShardSize(OnDisk(limits_file)) = Len(written)
               /\ \A k \in 1..Len(written) : SeparateShows(k, Content(k))

\* Whatever the buffers have let through, of limits before records and of
\* either in part, a reader of the two files is shown a written record or an
\* error: never a piece of one, a mixture, or the bytes of the limits.  (Not so
\* while the records file is empty, whose records are all taken to be empty.)
NothingInvented ==
  intact /\ OnDisk(records_file) # <<>> =>
    \A k \in 1..ShardSize(OnDisk(limits_file)) :
      \A first, last \in 0..records_file.disk :
        LET data == SubSeq(OnDisk(records_file), first + 1, last)
        IN  SeparateShows(k, data) => k <= Len(written) /\ data = Content(k)

\* No step, no Close that fails and no crash makes a record unreadable that
\* could be read before, as long as no Write or Flush fails: the limits file goes
\* only when the tail is complete.  Of the two files, while there are two, that
\* is so whatever fails: also after a Write or a Flush that left a part of its
\* bytes.  (Empty records read from an empty file aside, which their limits do
\* not vouch for.)
ReadableStays ==
  [][\A k \in 1..Len(written) : OnDisk(records_file) # <<>> =>
       /\ intact' /\ Readable(k) => Readable(k)'
       /\ limits_name' /\ SeparateShows(k, Content(k)) =>
            SeparateShows(k, Content(k))']_vars

\* Close: "The data that was successfully written will be recoverable using
\* `BagzReader`".  Not after a Write that failed with a part of its data in
\* the file: the records that follow are written OK, behind bytes that no limit
\* accounts for.
WrittenIsRecoverable ==
  pc = "closed" => \A k \in 1..Len(written) : Readable(k)
=============================================================================
