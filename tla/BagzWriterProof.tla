-------------------------- MODULE BagzWriterProof --------------------------
(***************************************************************************)
(* Proofs about BagzWriter: its type invariant, that what is acknowledged  *)
(* is readable, that a closed bag is exact, that nothing is invented and    *)
(* that readable records stay readable, for every size of records, limits   *)
(* and buffers.                                                             *)
(*                                                                          *)
(* The inductive invariant says what the files hold.  `ends' gives the end  *)
(* of every written record; as long as the writer is intact the records     *)
(* file holds a prefix of the records one after the other, the limits file  *)
(* a prefix of their ends, and what follows the records is either the one   *)
(* being written or a copy of a limits file that is complete.               *)
(***************************************************************************)
EXTENDS BagzWriter, FiniteSetTheorems, WellFoundedInduction, SequenceTheorems, TLAPS

-----------------------------------------------------------------------------
(* The inductive invariant *)

Byte == [of : {"record", "limit"}, n : Nat, byte : Nat]

RecordByte(k, j) == [of |-> "record", n |-> k, byte |-> j]
LimitByte(v, j) == [of |-> "limit", n |-> v, byte |-> j]

\* Where k limits end.  Its laws are lemmas, so that no proof meets a product.
Words(k) == k * WordSize

Opening == {"open_records", "open_limits"}

\* Before the first record, and which files are open in the course of a Close.
Files ==
  /\ pc \in Opening =>
       /\ written = <<>> /\ attempts = 0 /\ records_size_ = 0
       /\ records_file.stream = <<>> /\ limits_file.stream = <<>>
  /\ pc \in Opening \cup {"read_limits", "append", "close_records", "delete",
                           "reset_records"} => ~limits_file.open
  /\ pc \in {"open_records", "delete"} => ~records_file.open
  /\ pc = "write_limit" => attempts >= 1 /\ record_size \in RecordSizes

\* The limits file has its name from its opening to the end of the last Close.
Names ==
  /\ ~limits_name => \/ pc \in Opening \cup {"destroyed", "crashed"} /\ written = <<>>
                     \/ pc = "closed" /\ limits_placement = "tail"
  /\ pc \in {"read_limits", "append", "delete"} => limits_placement = "tail"
  /\ pc = "closed" /\ limits_placement = "tail" => ~limits_name

\* ends[k] is the end of the k-th written record.
IsEnds(ends) ==
  /\ ends \in [0..Len(written) -> Nat]
  /\ ends[0] = 0
  /\ \A k \in 1..Len(written) : ends[k] = ends[k - 1] + written[k].size
  /\ \A i, j \in 0..Len(written) : i <= j => ends[i] <= ends[j]

\* A prefix of the limits ...
LimitsFit(ends) ==
  /\ Len(limits_file.stream) <= Words(Len(written))
  /\ \A k \in 1..Len(written), j \in 1..WordSize :
       Words(k - 1) + j <= Len(limits_file.stream) =>
         limits_file.stream[Words(k - 1) + j] = LimitByte(ends[k], j)

\* ... and of the records.
RecordsFit(ends) ==
  \A k \in 1..Len(written) : \A j \in 1..written[k].size :
    ends[k - 1] + j <= Len(records_file.stream) =>
      records_file.stream[ends[k - 1] + j] = RecordByte(written[k].n, j)

RecordsEndAt(ends) == ends[Len(written)]

\* The limits are complete and on the disk.
LimitsComplete ==
  /\ Len(limits_file.stream) = Words(Len(written))
  /\ limits_file.disk = Len(limits_file.stream)

\* What follows the records.
TailFits(ends) ==
  LET tail == Len(records_file.stream) - RecordsEndAt(ends)
  IN  tail > 0 =>
        \/ pc = "crashed"
        \/ /\ pc = "write_limit"
           /\ \A p \in 1..tail : records_file.stream[RecordsEndAt(ends) + p]
                                   = RecordByte(attempts, p)
        \/ /\ pc # "write_limit" /\ LimitsComplete
           /\ tail <= Words(Len(written))
           /\ \A p \in 1..tail : records_file.stream[RecordsEndAt(ends) + p]
                                   = limits_file.stream[p]

\* What is acknowledged is on the disk.
AcknowledgedFits(ends) ==
  /\ limits_file.disk >= Words(acknowledged)
  /\ records_file.disk >= ends[acknowledged]

\* How far the call in progress has got.
ProgressFits(ends) ==
  LET limits == Len(limits_file.stream)
      records == Len(records_file.stream)
      end == RecordsEndAt(ends)
      all == Words(Len(written))
  IN  /\ pc \in Opening \cup {"idle", "flush_records"} =>
           limits = all /\ records = end /\ records_size_ = end
      /\ pc = "flush_records" => limits_file.disk = limits
      /\ pc = "write_limit" =>
           /\ limits = all
           /\ records = end + record_size /\ records_size_ = end + record_size
      /\ pc \in {"read_limits", "append", "close_records", "delete", "closed"} =>
           LimitsComplete
      /\ pc = "read_limits" => records = end
      /\ pc = "append" => records = end + AtMost(offset, all)
      /\ pc \in {"close_records", "closed"} /\ limits_placement = "separate" =>
           records = end
      /\ pc \in {"close_records", "delete", "closed"} /\ limits_placement = "tail" =>
           records = end + all
      /\ pc \in {"delete", "closed"} => records_file.disk = records

Fits(ends) ==
  /\ IsEnds(ends)
  /\ LimitsFit(ends)
  /\ RecordsFit(ends)
  /\ TailFits(ends)
  /\ AcknowledgedFits(ends)
  /\ ProgressFits(ends)

SomeFit == \E ends \in [0..Len(written) -> Nat] : Fits(ends)

IInv == /\ TypeOK
        /\ Files
        /\ Names
        /\ intact => SomeFit

-----------------------------------------------------------------------------
(* What the calls of the files do to them *)

IsFile(f) == f \in FileType /\ f.disk <= Len(f.stream)

\* g is f after some bytes of `data' have been added to it and some of what was
\* not yet on the disk has been dropped.
After(f, data, g) ==
  /\ IsFile(g)
  /\ f.disk <= g.disk
  /\ Len(g.stream) <= Len(f.stream) + Len(data)
  /\ \A i \in 1..Len(g.stream) :
       g.stream[i] = IF i <= Len(f.stream) THEN f.stream[i]
                                           ELSE data[i - Len(f.stream)]

\* A file of the model is a record of a sequence of bytes and where it is.
LEMMA FileFacts ==
  ASSUME NEW f, IsFile(f)
  PROVE  /\ f = [stream |-> f.stream, disk |-> f.disk, open |-> f.open]
         /\ f.stream \in Seq(Byte) /\ Len(f.stream) \in Nat
         /\ f.disk \in Nat /\ f.disk <= Len(f.stream) /\ f.open \in BOOLEAN
  <1>1. f \in FileType /\ f.disk <= Len(f.stream)
    BY DEF IsFile
  <1>2. f = [stream |-> f.stream, disk |-> f.disk, open |-> f.open]
        /\ f.stream \in Seq(Byte) /\ f.disk \in Nat /\ f.open \in BOOLEAN
    BY <1>1 DEF FileType, Byte
  <1>3. QED
    BY <1>1, <1>2, LenProperties

\* A record of the three fields, of the right types, is a file.
LEMMA MakeFile ==
  ASSUME NEW s \in Seq(Byte), NEW d \in 0..Len(s), NEW o \in BOOLEAN
  PROVE  IsFile([stream |-> s, disk |-> d, open |-> o])
  <1>1. Len(s) \in Nat
    BY LenProperties
  <1>2. QED
    BY <1>1 DEF IsFile, FileType, Byte

\* Keeping the first m bytes of what was buffered and given, d of them on the
\* disk: all that stdio does to a file is of this form.
LEMMA Kept ==
  ASSUME NEW f, IsFile(f), NEW data \in Seq(Byte), NEW o \in BOOLEAN,
         NEW m \in f.disk..(Len(f.stream) + Len(data)), NEW d \in f.disk..m
  PROVE  /\ After(f, data, [stream |-> SubSeq(f.stream \o data, 1, m),
                            disk |-> d, open |-> o])
         /\ Len(SubSeq(f.stream \o data, 1, m)) = m
  <1> DEFINE s == f.stream \o data
             t == SubSeq(s, 1, m)
             g == [stream |-> t, disk |-> d, open |-> o]
  <1>1. /\ f.stream \in Seq(Byte) /\ Len(f.stream) \in Nat /\ f.disk \in Nat
        /\ Len(data) \in Nat
    BY FileFacts, LenProperties
  <1>2. /\ s \in Seq(Byte) /\ Len(s) = Len(f.stream) + Len(data)
        /\ \A i \in 1..Len(s) : s[i] = IF i <= Len(f.stream) THEN f.stream[i]
                                         ELSE data[i - Len(f.stream)]
    BY <1>1, ConcatProperties
  <1>3. m \in Nat /\ m <= Len(s) /\ d \in 0..m /\ d >= f.disk
    BY <1>1, <1>2
  <1>4. \A i \in 1..m : s[i] \in Byte
    BY <1>2, <1>3, ElementOfSeq
  <1>5. /\ t \in Seq(Byte)
        /\ Len(t) = IF 1 <= m THEN m - 1 + 1 ELSE 0
        /\ \A i \in 1..(m - 1 + 1) : t[i] = s[1 + i - 1]
    <2> HIDE DEF s
    <2> QED  BY <1>3, <1>4, SubSeqProperties
  <1>6. Len(t) = m /\ \A i \in 1..m : t[i] = s[i]
    BY <1>3, <1>5
  <1>7. IsFile(g) /\ g.stream = t /\ g.disk = d
    <2> HIDE DEF t
    <2> QED  BY <1>3, <1>5, <1>6, MakeFile
  <1>8. QED
    <2> HIDE DEF t, s, g
    <2>1. f.disk <= g.disk /\ Len(g.stream) <= Len(f.stream) + Len(data)
      BY <1>1, <1>2, <1>3, <1>6, <1>7
    <2>2. ASSUME NEW i \in 1..Len(g.stream)
          PROVE  g.stream[i] = IF i <= Len(f.stream) THEN f.stream[i]
                                                     ELSE data[i - Len(f.stream)]
      <3>1. i \in 1..m /\ i \in 1..Len(s)
        BY <1>2, <1>3, <1>6, <1>7, <2>2
      <3>2. QED
        BY <3>1, <1>2, <1>6, <1>7
    <2>3. After(f, data, g)
      BY <2>1, <2>2, <1>7 DEF After
    <2>4. QED
      BY <2>3, <1>6 DEF g, t, s

\* A call that keeps all it was given leaves a file that continues the old one.
LEMMA KeptAll ==
  ASSUME NEW f, IsFile(f), NEW data \in Seq(Byte), NEW o \in BOOLEAN,
         NEW d \in f.disk..(Len(f.stream) + Len(data))
  PROVE  /\ After(f, data, [stream |-> f.stream \o data, disk |-> d, open |-> o])
         /\ Len(f.stream \o data) = Len(f.stream) + Len(data)
  <1>1. /\ f.stream \in Seq(Byte) /\ Len(f.stream) \in Nat /\ f.disk \in Nat
        /\ f.disk <= Len(f.stream) /\ Len(data) \in Nat
    BY FileFacts, LenProperties
  <1>2. f.stream \o data \in Seq(Byte)
        /\ Len(f.stream \o data) = Len(f.stream) + Len(data)
    BY <1>1, ConcatProperties
  <1>3. SubSeq(f.stream \o data, 1, Len(f.stream \o data)) = f.stream \o data
    BY <1>2, SubSeqFull
  <1>4. Len(f.stream) + Len(data) \in f.disk..(Len(f.stream) + Len(data))
    BY <1>1
  <1> DEFINE m == Len(f.stream) + Len(data)
  <1>5. SubSeq(f.stream \o data, 1, m) = f.stream \o data
    BY <1>2, <1>3
  <1>6. After(f, data, [stream |-> SubSeq(f.stream \o data, 1, m),
                        disk |-> d, open |-> o])
    <2> HIDE DEF m
    <2> QED  BY <1>4, Kept DEF m
  <1>7. QED
    BY <1>2, <1>5, <1>6

\* fwrite that succeeds: the data follow what was there, all of them.
LEMMA WrittenAfter ==
  ASSUME NEW f, IsFile(f), NEW data \in Seq(Byte), NEW g, Written(f, data, g)
  PROVE  /\ After(f, data, g) /\ g.open = f.open
         /\ Len(g.stream) = Len(f.stream) + Len(data)
  <1>1. PICK d \in f.disk..(Len(f.stream) + Len(data)) :
          g = [f EXCEPT !.stream = f.stream \o data, !.disk = d]
    BY DEF Written
  <1>2. f = [stream |-> f.stream, disk |-> f.disk, open |-> f.open]
        /\ f.open \in BOOLEAN
    BY FileFacts
  <1>3. g = [stream |-> f.stream \o data, disk |-> d, open |-> f.open]
    BY <1>1, <1>2
  <1>4. QED
    BY <1>2, <1>3, KeptAll

\* A call of stdio that fails: a part of the data may follow.
LEMMA FailedAfter ==
  ASSUME NEW f, IsFile(f), NEW data \in Seq(Byte), NEW g, Failed(f, data, g)
  PROVE  After(f, data, g) /\ g.open = f.open
  <1>1. PICK m \in f.disk..(Len(f.stream) + Len(data)) :
          \E d \in f.disk..m :
            g = [f EXCEPT !.stream = SubSeq(f.stream \o data, 1, m), !.disk = d]
    BY DEF Failed
  <1>2. PICK d \in f.disk..m :
          g = [f EXCEPT !.stream = SubSeq(f.stream \o data, 1, m), !.disk = d]
    BY <1>1
  <1>3. f = [stream |-> f.stream, disk |-> f.disk, open |-> f.open]
        /\ f.open \in BOOLEAN
    BY FileFacts
  <1>4. g = [stream |-> SubSeq(f.stream \o data, 1, m), disk |-> d, open |-> f.open]
    BY <1>2, <1>3
  <1>5. QED
    BY <1>3, <1>4, Kept

\* Nothing is given; all is kept, and d bytes of it are on the disk.
LEMMA SpilledAfter ==
  ASSUME NEW f, IsFile(f), NEW o \in BOOLEAN, NEW d \in f.disk..Len(f.stream)
  PROVE  After(f, <<>>, [stream |-> f.stream, disk |-> d, open |-> o])
  <1>1. f.stream \in Seq(Byte) /\ Len(f.stream) \in Nat
    BY FileFacts
  <1>2. <<>> \in Seq(Byte) /\ Len(<<>>) = 0 /\ f.stream \o <<>> = f.stream
    BY <1>1, ConcatEmptySeq, EmptySeq
  <1>3. d \in f.disk..(Len(f.stream) + Len(<<>>))
    BY <1>1, <1>2
  <1>4. QED
    BY <1>2, <1>3, KeptAll

\* fflush: the same bytes, all on the disk.
LEMMA FlushedAfter ==
  ASSUME NEW f, IsFile(f)
  PROVE  /\ After(f, <<>>, Flushed(f)) /\ Flushed(f).open = f.open
         /\ Flushed(f).stream = f.stream /\ Flushed(f).disk = Len(f.stream)
  <1>1. /\ f = [stream |-> f.stream, disk |-> f.disk, open |-> f.open]
        /\ f.open \in BOOLEAN /\ Len(f.stream) \in f.disk..Len(f.stream)
    BY FileFacts
  <1>2. Flushed(f) = [stream |-> f.stream, disk |-> Len(f.stream), open |-> f.open]
    BY <1>1 DEF Flushed
  <1>3. QED
    BY <1>1, <1>2, SpilledAfter

\* fclose: the same bytes, all on the disk, and the file is not open.
LEMMA ClosedAfter ==
  ASSUME NEW f, IsFile(f)
  PROVE  /\ After(f, <<>>, Closed(f)) /\ ~Closed(f).open
         /\ Closed(f).stream = f.stream /\ Closed(f).disk = Len(f.stream)
  <1>1. /\ f = [stream |-> f.stream, disk |-> f.disk, open |-> f.open]
        /\ Len(f.stream) \in f.disk..Len(f.stream)
    BY FileFacts
  <1>2. /\ f.open \in BOOLEAN
        /\ Closed(f) = [[f EXCEPT !.disk = Len(f.stream)] EXCEPT !.open = FALSE]
    BY FileFacts DEF Closed
  <1>3. [f EXCEPT !.disk = Len(f.stream)]
          = [stream |-> f.stream, disk |-> Len(f.stream), open |-> f.open]
    BY <1>1
  <1>4. Closed(f) = [stream |-> f.stream, disk |-> Len(f.stream), open |-> FALSE]
    BY <1>2, <1>3
  <1>5. After(f, <<>>, Closed(f))
    BY <1>1, <1>4, SpilledAfter
  <1>6. QED
    BY <1>4, <1>5

\* What fclose keeps after a failure, or a crash leaves.
LEMMA CutAfter ==
  ASSUME NEW f, IsFile(f), NEW m \in f.disk..Len(f.stream)
  PROVE  After(f, <<>>, [stream |-> SubSeq(f.stream, 1, m), disk |-> m, open |-> FALSE])
  <1>1. f.stream \in Seq(Byte) /\ Len(f.stream) \in Nat /\ f.disk \in Nat
    BY FileFacts
  <1>2. <<>> \in Seq(Byte) /\ Len(<<>>) = 0 /\ f.stream \o <<>> = f.stream
    BY <1>1, ConcatEmptySeq, EmptySeq
  <1>3. m \in f.disk..(Len(f.stream) + Len(<<>>)) /\ m \in f.disk..m
    BY <1>1, <1>2
  <1>4. QED
    BY <1>2, <1>3, Kept

\* fclose that fails: what was buffered may be lost, and the file is not open.
LEMMA ClosedPartlyAfter ==
  ASSUME NEW f, IsFile(f), NEW g, ClosedPartly(f, g)
  PROVE  After(f, <<>>, g) /\ ~g.open
  BY CutAfter DEF ClosedPartly

\* A crash: what was buffered is lost.
LEMMA LostAfter ==
  ASSUME NEW f, IsFile(f)
  PROVE  After(f, <<>>, Lost(f)) /\ ~Lost(f).open
  <1>1. f.disk \in f.disk..Len(f.stream)
    BY FileFacts
  <1>2. QED
    BY <1>1, CutAfter DEF Lost, OnDisk

\* A file that no call touches.
LEMMA SameAfter ==
  ASSUME NEW f, IsFile(f)
  PROVE  After(f, <<>>, f)
  <1>1. /\ f = [stream |-> f.stream, disk |-> f.disk, open |-> f.open]
        /\ f.open \in BOOLEAN /\ f.disk \in f.disk..Len(f.stream)
    BY FileFacts
  <1>2. QED
    BY <1>1, SpilledAfter

\* The destructor of a file, which may close it or find it closed.
LEMMA DestroyedAfter ==
  ASSUME NEW f, IsFile(f), NEW g, DestroyedFile(f, g)
  PROVE  After(f, <<>>, g) /\ ~g.open
  <1>1. f.open \in BOOLEAN
    BY FileFacts
  <1>2. CASE f.open
    BY <1>2, ClosedAfter, ClosedPartlyAfter DEF DestroyedFile
  <1>3. CASE ~f.open
    BY <1>3, SameAfter DEF DestroyedFile
  <1>4. QED
    BY <1>1, <1>2, <1>3

\* A new file and one that was never opened are empty.
LEMMA NewFileFacts ==
  /\ IsFile(NewFile) /\ IsFile(NoFile) /\ NewFile.open /\ ~NoFile.open
  /\ NewFile.stream = <<>> /\ NoFile.stream = <<>>
  /\ NewFile.disk = 0 /\ NoFile.disk = 0
  <1>1. <<>> \in Seq(Byte) /\ 0 \in 0..Len(<<>>)
    BY EmptySeq
  <1>2. QED
    BY <1>1, MakeFile DEF NewFile, NoFile

\* A new file in the place of one that nothing was written to.
LEMMA NewAfter ==
  ASSUME NEW f, IsFile(f), f.stream = <<>>
  PROVE  After(f, <<>>, NewFile) /\ f.disk = 0
  <1>1. f.disk = 0
    BY FileFacts, EmptySeq
  <1>2. QED
    BY <1>1, NewFileFacts, EmptySeq DEF After

-----------------------------------------------------------------------------
(* Type correctness *)

\* The bytes of a record, one by one.
LEMMA RecordBytesFacts ==
  ASSUME NEW k \in Nat, NEW size \in Nat
  PROVE  /\ RecordBytes(k, size) \in Seq(Byte) /\ Len(RecordBytes(k, size)) = size
         /\ \A j \in 1..size : RecordBytes(k, size)[j] = RecordByte(k, j)
  <1>1. \A j \in 1..size : RecordByte(k, j) \in Byte
    BY DEF RecordByte, Byte
  <1>2. RecordBytes(k, size) = [j \in 1..size |-> RecordByte(k, j)]
    BY DEF RecordBytes, RecordByte
  <1> HIDE DEF Byte, RecordByte
  <1>3. RecordBytes(k, size) \in [1..size -> Byte]
    BY <1>1, <1>2
  <1>4. QED
    BY <1>2, <1>3

\* The bytes of a limit, one by one.
LEMMA WordFacts ==
  ASSUME NEW v \in Nat
  PROVE  /\ Word(v) \in Seq(Byte) /\ Len(Word(v)) = WordSize
         /\ \A j \in 1..WordSize : Word(v)[j] = LimitByte(v, j)
  <1>1. WordSize \in Nat
    BY WordSizeAssumption
  <1>2. \A j \in 1..WordSize : LimitByte(v, j) \in Byte
    BY <1>1 DEF LimitByte, Byte
  <1>3. Word(v) = [j \in 1..WordSize |-> LimitByte(v, j)]
    BY DEF Word, LimitByte
  <1> HIDE DEF Byte, LimitByte
  <1>4. Word(v) \in [1..WordSize -> Byte]
    BY <1>2, <1>3
  <1>5. QED
    BY <1>1, <1>3, <1>4

\* TypeOK without the files.
Scalars ==
  /\ limits_placement \in {"tail", "separate"}
  /\ limits_name \in BOOLEAN
  /\ records_size_ \in Nat
  /\ pc \in {"open_records", "open_limits", "idle", "write_limit",
             "flush_records", "read_limits", "append", "close_records",
             "delete", "reset", "reset_records"} \cup Ended
  /\ record_size \in Nat
  /\ offset \in Nat
  /\ status \in {"ok", "error"}
  /\ attempts \in 0..MaxWrites
  /\ written \in Seq([n : 1..MaxWrites, size : RecordSizes])
  /\ acknowledged \in 0..Len(written)
  /\ intact \in BOOLEAN

\* TypeOK in parts: the two files, and everything else.
LEMMA TypeParts ==
  /\ TypeOK <=> /\ IsFile(records_file) /\ IsFile(limits_file) /\ Scalars
                /\ pc \in Ended => ~records_file.open /\ ~limits_file.open
  /\ TypeOK' <=> /\ IsFile(records_file') /\ IsFile(limits_file') /\ Scalars'
                 /\ pc' \in Ended => ~records_file'.open /\ ~limits_file'.open
  BY DEF TypeOK, Scalars, IsFile

\* The writer begins with its types, with nothing written and no limits file.
LEMMA TypeInit == Init => TypeOK /\ Files /\ Names
  <1> SUFFICES ASSUME Init PROVE TypeOK /\ Files /\ Names
    OBVIOUS
  <1>1. /\ records_file = NoFile /\ limits_file = NoFile /\ pc = "open_records"
        /\ written = <<>> /\ attempts = 0 /\ records_size_ = 0 /\ acknowledged = 0
        /\ record_size = 0 /\ offset = 0 /\ status = "ok" /\ intact = TRUE
        /\ limits_placement \in {"tail", "separate"} /\ limits_name = FALSE
    BY DEF Init
  <1>2. IsFile(records_file) /\ IsFile(limits_file) /\ ~records_file.open
        /\ ~limits_file.open /\ records_file.stream = <<>> /\ limits_file.stream = <<>>
    BY <1>1, NewFileFacts
  <1>3. Scalars
    <2>1. written \in Seq([n : 1..MaxWrites, size : RecordSizes]) /\ Len(written) = 0
      BY <1>1, EmptySeq
    <2>2. acknowledged \in 0..Len(written) /\ attempts \in 0..MaxWrites
      BY <1>1, <2>1, MaxWritesAssumption
    <2>3. /\ intact \in BOOLEAN /\ limits_name \in BOOLEAN
          /\ records_size_ \in Nat /\ record_size \in Nat /\ offset \in Nat
      BY <1>1
    <2> HIDE <1>1
    <2>4. QED
      BY <1>1, <2>1, <2>2, <2>3 DEF Scalars
  <1>4. QED
    BY <1>1, <1>2, <1>3, TypeParts DEF Files, Names, Opening

\* What every step does to the two files: bytes are added behind the others,
\* and only bytes that are not on the disk are ever dropped.
FilesGo ==
  /\ \E data \in Seq(Byte) : After(records_file, data, records_file')
  /\ \E data \in Seq(Byte) : After(limits_file, data, limits_file')

\* Opening the two files keeps the types and what is open when.
LEMMA OpeningStep ==
  ASSUME TypeOK, Files, Names, OpenRecords \/ OpenLimits
  PROVE  TypeOK' /\ Files' /\ Names' /\ FilesGo
  <1>1. /\ IsFile(records_file) /\ IsFile(limits_file) /\ Scalars
        /\ records_file.stream = <<>> /\ limits_file.stream = <<>>
        /\ written = <<>> /\ attempts = 0 /\ records_size_ = 0 /\ ~limits_file.open
    BY TypeParts DEF Files, Opening, OpenRecords, OpenLimits
  <1>2. After(records_file, <<>>, records_file) /\ After(limits_file, <<>>, limits_file)
    BY <1>1, SameAfter
  <1>3. After(records_file, <<>>, NewFile) /\ After(limits_file, <<>>, NewFile)
    BY <1>1, NewAfter
  <1>4. /\ After(records_file, <<>>, Closed(records_file))
        /\ Closed(records_file).stream = <<>> /\ ~Closed(records_file).open
    BY <1>1, ClosedAfter
  <1>5. <<>> \in Seq(Byte)
    BY EmptySeq
  <1>6. CASE OpenRecords
    <2>1. CASE records_file' = NewFile /\ pc' = "open_limits" /\ UNCHANGED status
      <3>1. Scalars'
        BY <1>1, <1>6, <2>1 DEF Scalars, OpenRecords, local, history
      <3>2. IsFile(records_file') /\ IsFile(limits_file')
        BY <1>1, <1>6, <2>1, NewFileFacts DEF OpenRecords
      <3>3. FilesGo
        BY <1>2, <1>3, <1>5, <1>6, <2>1 DEF FilesGo, OpenRecords
      <3>4. Files' /\ Names'
        BY <1>1, <1>6, <2>1, NewFileFacts
           DEF Files, Names, Opening, OpenRecords, history
      <3>5. QED
        BY <2>1, <3>1, <3>2, <3>3, <3>4, TypeParts DEF Ended
    <2>2. CASE MayFail("open") /\ pc' = "destroyed" /\ UNCHANGED records_file
      <3>1. Scalars'
        BY <1>1, <1>6, <2>2 DEF Scalars, OpenRecords, local, history, MayFail, Ended
      <3>2. IsFile(records_file') /\ IsFile(limits_file')
            /\ ~records_file'.open /\ ~limits_file'.open
        BY <1>1, <1>6, <2>2 DEF OpenRecords, Files
      <3>3. FilesGo
        BY <1>2, <1>5, <1>6, <2>2 DEF FilesGo, OpenRecords
      <3>4. Files' /\ Names'
        BY <1>1, <1>6, <2>2
           DEF Files, Names, Opening, OpenRecords, history
      <3>5. QED
        BY <2>2, <3>1, <3>2, <3>3, <3>4, TypeParts DEF Ended
    <2>3. QED
      BY <1>6, <2>1, <2>2 DEF OpenRecords
  <1>7. CASE OpenLimits
    <2>1. CASE /\ limits_file' = NewFile /\ limits_name' = TRUE /\ pc' = "idle"
               /\ UNCHANGED <<records_file, status>>
      <3>1. Scalars'
        BY <1>1, <1>7, <2>1 DEF Scalars, OpenLimits, local, history
      <3>2. IsFile(records_file') /\ IsFile(limits_file')
        BY <1>1, <1>7, <2>1, NewFileFacts DEF OpenLimits
      <3>3. FilesGo
        BY <1>2, <1>3, <1>5, <1>7, <2>1 DEF FilesGo, OpenLimits
      <3>4. Files' /\ Names'
        BY <1>1, <1>7, <2>1, NewFileFacts
           DEF Files, Names, Opening, OpenLimits, history
      <3>5. QED
        BY <2>1, <3>1, <3>2, <3>3, <3>4, TypeParts DEF Ended
    <2>2. CASE /\ MayFail("open") /\ pc' = "destroyed"
               /\ records_file' = Closed(records_file)
               /\ UNCHANGED <<limits_file, limits_name>>
      <3>1. Scalars'
        BY <1>1, <1>7, <2>2 DEF Scalars, OpenLimits, local, history, MayFail, Ended
      <3>2. IsFile(records_file') /\ IsFile(limits_file')
            /\ ~records_file'.open /\ ~limits_file'.open
        BY <1>1, <1>4, <1>7, <2>2 DEF After
      <3>3. FilesGo
        BY <1>2, <1>4, <1>5, <1>7, <2>2 DEF FilesGo, OpenLimits
      <3>4. Files' /\ Names'
        BY <1>1, <1>7, <2>2
           DEF Files, Names, Opening, OpenLimits, history
      <3>5. QED
        BY <2>2, <3>1, <3>2, <3>3, <3>4, TypeParts DEF Ended
    <2>3. QED
      BY <1>7, <2>1, <2>2 DEF OpenLimits
  <1>8. QED
    BY <1>6, <1>7

\* Each half of Write, and its failures, keep the types and what is open when.
LEMMA WritingStep ==
  ASSUME TypeOK, Files, Names, Writing
  PROVE  TypeOK' /\ Files' /\ Names' /\ FilesGo
  <1>1. /\ IsFile(records_file) /\ IsFile(limits_file) /\ Scalars
        /\ pc \in {"idle", "write_limit"} /\ limits_name
    BY TypeParts DEF Writing, CompressFails, WriteRecord, WriteLimit, Names, Opening
  <1>2. After(records_file, <<>>, records_file) /\ After(limits_file, <<>>, limits_file)
    BY <1>1, SameAfter
  <1>3. <<>> \in Seq(Byte)
    BY EmptySeq
  <1>4. CASE CompressFails
    <2>1. Scalars'
      <3>1. attempts' \in 0..MaxWrites
        BY <1>1, <1>4, MaxWritesAssumption DEF Scalars, CompressFails
      <3>2. QED
        BY <1>1, <1>4, <3>1 DEF Scalars, CompressFails, MayFail, local, files
    <2>2. FilesGo
      BY <1>2, <1>3, <1>4 DEF FilesGo, CompressFails, files
    <2>3. Files' /\ Names'
      BY <1>1, <1>4 DEF Files, Names, Opening, CompressFails, files, local
    <2>4. IsFile(records_file') /\ IsFile(limits_file') /\ pc' \notin Ended
      BY <1>1, <1>4 DEF CompressFails, files, Ended
    <2>5. QED
      BY <2>1, <2>2, <2>3, <2>4, TypeParts
  <1>5. CASE WriteRecord
    <2>1. PICK size \in RecordSizes :
            LET data == RecordBytes(attempts + 1, size)
            IN  \/ /\ Written(records_file, data, records_file')
                   /\ record_size' = size
                   /\ records_size_' = RecordsSizeAfter(size)
                   /\ pc' = "write_limit"
                   /\ status' = "ok"
                \/ /\ Failed(records_file, data, records_file')
                   /\ MayFail("write")
                   /\ UNCHANGED <<record_size, records_size_, pc>>
      BY <1>5 DEF WriteRecord
    <2>2. /\ attempts' = attempts + 1 /\ attempts + 1 \in Nat /\ attempts' \in 0..MaxWrites
          /\ attempts' >= 1 /\ size \in Nat /\ pc = "idle"
      BY <1>1, <1>5, MaxWritesAssumption, RecordSizesAssumption DEF WriteRecord, Scalars
    <2> DEFINE data == RecordBytes(attempts + 1, size)
    <2>3. data \in Seq(Byte)
      BY <2>2, RecordBytesFacts
    <2>4. After(records_file, data, records_file')
      <3>1. Written(records_file, data, records_file')
            \/ Failed(records_file, data, records_file')
        BY <2>1
      <3> HIDE DEF data
      <3>2. QED
        BY <1>1, <2>3, <3>1, WrittenAfter, FailedAfter
    <2>5. FilesGo
      BY <1>2, <1>3, <1>5, <2>3, <2>4 DEF FilesGo, WriteRecord
    <2>6. Scalars' /\ pc' \in {"idle", "write_limit"}
          /\ (pc' = "write_limit" => record_size' \in RecordSizes)
      BY <1>1, <1>5, <2>1, <2>2
         DEF Scalars, WriteRecord, MayFail, RecordsSizeAfter, StaysIntact
    <2>7. Files' /\ Names'
      BY <1>1, <1>5, <2>2, <2>6 DEF Files, Names, Opening, WriteRecord
    <2>8. IsFile(records_file') /\ IsFile(limits_file') /\ pc' \notin Ended
      BY <1>1, <1>5, <2>4, <2>6 DEF After, WriteRecord, Ended
    <2>9. QED
      BY <2>5, <2>6, <2>7, <2>8, TypeParts
  <1>6. CASE WriteLimit
    <2> DEFINE data == Word(records_size_)
    <2>1. data \in Seq(Byte)
      BY <1>1, WordFacts DEF Scalars
    <2>2. After(limits_file, data, limits_file')
      <3>1. Written(limits_file, data, limits_file')
            \/ Failed(limits_file, data, limits_file')
        BY <1>6 DEF WriteLimit
      <3> HIDE DEF data
      <3>2. QED
        BY <1>1, <2>1, <3>1, WrittenAfter, FailedAfter
    <2>3. FilesGo
      BY <1>2, <1>3, <1>6, <2>1, <2>2 DEF FilesGo, WriteLimit
    <2>4. /\ written' \in Seq([n : 1..MaxWrites, size : RecordSizes])
          /\ acknowledged' \in 0..Len(written')
      <3>1. CASE written' = written
        BY <1>1, <1>6, <3>1 DEF WriteLimit, Scalars
      <3>2. CASE written' = Append(written, [n |-> attempts, size |-> record_size])
        <4>1. [n |-> attempts, size |-> record_size] \in [n : 1..MaxWrites, size : RecordSizes]
          BY <1>1, <1>6 DEF WriteLimit, Scalars, Files
        <4>2. written \in Seq([n : 1..MaxWrites, size : RecordSizes])
              /\ acknowledged' = acknowledged /\ acknowledged \in 0..Len(written)
          BY <1>1, <1>6 DEF WriteLimit, Scalars
        <4>3. /\ written' \in Seq([n : 1..MaxWrites, size : RecordSizes])
              /\ Len(written') = Len(written) + 1
          BY <3>2, <4>1, <4>2, AppendProperties
        <4>4. QED
          BY <4>2, <4>3, LenProperties
      <3>3. QED
        BY <1>6, <3>1, <3>2 DEF WriteLimit
    <2>5. Scalars' /\ pc' = "idle"
      <3>1. status' \in {"ok", "error"} /\ intact' \in BOOLEAN /\ pc' = "idle"
        BY <1>1, <1>6 DEF Scalars, WriteLimit, MayFail, StaysIntact
      <3>2. QED
        BY <1>1, <1>6, <2>4, <3>1 DEF Scalars, WriteLimit, local
    <2>6. Files' /\ Names'
      BY <1>1, <1>6, <2>5 DEF Files, Names, Opening, WriteLimit
    <2>7. IsFile(records_file') /\ IsFile(limits_file') /\ pc' \notin Ended
      BY <1>1, <1>6, <2>2, <2>5 DEF After, WriteLimit, Ended
    <2>8. QED
      BY <2>3, <2>5, <2>6, <2>7, TypeParts
  <1>7. QED
    BY <1>4, <1>5, <1>6 DEF Writing

\* Each half of Flush keeps the types and what is open when.
LEMMA FlushingStep ==
  ASSUME TypeOK, Files, Names, Flushing
  PROVE  TypeOK' /\ Files' /\ Names' /\ FilesGo
  <1>1. /\ IsFile(records_file) /\ IsFile(limits_file) /\ Scalars
        /\ pc \in {"idle", "flush_records"} /\ limits_name
    BY TypeParts DEF Flushing, FlushLimits, FlushRecords, Names, Opening
  <1>2. After(records_file, <<>>, records_file) /\ After(limits_file, <<>>, limits_file)
    BY <1>1, SameAfter
  <1>3. <<>> \in Seq(Byte)
    BY EmptySeq
  <1>4. CASE FlushLimits
    <2>1. Scalars' /\ pc' = "flush_records"
      BY <1>1, <1>4 DEF Scalars, FlushLimits, MayFail, StaysIntact, local
    <2>2. After(limits_file, <<>>, limits_file')
      BY <1>1, <1>3, <1>4, FlushedAfter, FailedAfter DEF FlushLimits
    <2>3. FilesGo
      BY <1>2, <1>3, <1>4, <2>2 DEF FilesGo, FlushLimits
    <2>4. Files' /\ Names'
      BY <1>1, <1>4, <2>1 DEF Files, Names, Opening, FlushLimits
    <2>5. IsFile(records_file') /\ IsFile(limits_file') /\ pc' \notin Ended
      BY <1>1, <1>4, <2>1, <2>2 DEF After, FlushLimits, Ended
    <2>6. QED
      BY <2>1, <2>3, <2>4, <2>5, TypeParts
  <1>5. CASE FlushRecords
    <2>1. Scalars' /\ pc' = "idle"
      <3>1. status' \in {"ok", "error"} /\ intact' \in BOOLEAN /\ pc' = "idle"
        BY <1>1, <1>5 DEF Scalars, FlushRecords, MayFail, StaysIntact
      <3>2. acknowledged' \in 0..Len(written)
        <4>1. Len(written) \in Nat /\ acknowledged \in 0..Len(written)
          BY <1>1, LenProperties DEF Scalars
        <4>2. acknowledged' = acknowledged \/ acknowledged' = Len(written)
          BY <1>5 DEF FlushRecords
        <4>3. QED
          BY <4>1, <4>2
      <3>3. QED
        BY <1>1, <1>5, <3>1, <3>2 DEF Scalars, FlushRecords, local
    <2>2. After(records_file, <<>>, records_file')
      BY <1>1, <1>3, <1>5, FlushedAfter, FailedAfter DEF FlushRecords
    <2>3. FilesGo
      BY <1>2, <1>3, <1>5, <2>2 DEF FilesGo, FlushRecords
    <2>4. Files' /\ Names'
      BY <1>1, <1>5, <2>1 DEF Files, Names, Opening, FlushRecords
    <2>5. IsFile(records_file') /\ IsFile(limits_file') /\ pc' \notin Ended
      BY <1>1, <1>5, <2>1, <2>2 DEF After, FlushRecords, Ended
    <2>6. QED
      BY <2>1, <2>3, <2>4, <2>5, TypeParts
  <1>6. QED
    BY <1>4, <1>5 DEF Flushing

\* What is on the disk is a prefix of what was written.
LEMMA OnDiskFacts ==
  ASSUME NEW f, IsFile(f)
  PROVE  /\ OnDisk(f) \in Seq(Byte) /\ Len(OnDisk(f)) = f.disk
         /\ \A i \in 1..f.disk : OnDisk(f)[i] = f.stream[i]
  <1>1. f.stream \in Seq(Byte) /\ Len(f.stream) \in Nat /\ f.disk \in Nat
        /\ f.disk <= Len(f.stream)
    BY FileFacts
  <1>2. \A i \in 1..f.disk : f.stream[i] \in Byte
    BY <1>1, ElementOfSeq
  <1>3. /\ OnDisk(f) \in Seq(Byte)
        /\ Len(OnDisk(f)) = IF 1 <= f.disk THEN f.disk - 1 + 1 ELSE 0
        /\ \A i \in 1..(f.disk - 1 + 1) : OnDisk(f)[i] = f.stream[1 + i - 1]
    BY <1>1, <1>2, SubSeqProperties DEF OnDisk
  <1>4. QED
    BY <1>1, <1>3

\* A piece of a sequence.
LEMMA Piece ==
  ASSUME NEW s \in Seq(Byte), NEW first \in Nat, NEW last \in Nat,
         first <= last, last <= Len(s)
  PROVE  /\ SubSeq(s, first + 1, last) \in Seq(Byte)
         /\ Len(SubSeq(s, first + 1, last)) = last - first
         /\ \A i \in 1..(last - first) : SubSeq(s, first + 1, last)[i] = s[first + i]
  <1>1. Len(s) \in Nat
    BY LenProperties
  <1>2. \A i \in (first + 1)..last : s[i] \in Byte
    BY <1>1, ElementOfSeq
  <1>3. /\ SubSeq(s, first + 1, last) \in Seq(Byte)
        /\ Len(SubSeq(s, first + 1, last))
             = IF first + 1 <= last THEN last - (first + 1) + 1 ELSE 0
        /\ \A i \in 1..(last - (first + 1) + 1) :
             SubSeq(s, first + 1, last)[i] = s[first + 1 + i - 1]
    BY <1>2, SubSeqProperties
  <1>4. last - (first + 1) + 1 = last - first
    BY <1>1
  <1>5. \A i \in 1..(last - first) : first + 1 + i - 1 = first + i
    BY <1>1
  <1>6. QED
    BY <1>3, <1>4, <1>5

\* The bytes that a turn of AppendSourceToDest copies.
TurnLength == AtMost(AppendBufferSize, limits_file.disk - offset)
Turn == SubSeq(OnDisk(limits_file), offset + 1, offset + TurnLength)

\* One turn of AppendSourceToDest takes the next bytes of the limits file.
LEMMA TurnFacts ==
  ASSUME IsFile(limits_file), offset \in Nat, offset < limits_file.disk
  PROVE  /\ Turn \in Seq(Byte) /\ Len(Turn) = TurnLength
         /\ TurnLength \in Nat /\ offset + TurnLength <= limits_file.disk
         /\ offset + TurnLength = AtMost(offset + AppendBufferSize, limits_file.disk)
         /\ \A i \in 1..TurnLength : Turn[i] = limits_file.stream[offset + i]
  <1>1. /\ OnDisk(limits_file) \in Seq(Byte) /\ limits_file.disk \in Nat
        /\ Len(OnDisk(limits_file)) = limits_file.disk
        /\ \A i \in 1..limits_file.disk : OnDisk(limits_file)[i] = limits_file.stream[i]
    BY OnDiskFacts, FileFacts
  <1>2. /\ TurnLength \in Nat /\ offset + TurnLength <= limits_file.disk
        /\ offset + TurnLength = AtMost(offset + AppendBufferSize, limits_file.disk)
    BY <1>1, AppendBufferSizeAssumption DEF TurnLength, AtMost
  <1> DEFINE last == offset + TurnLength
  <1>3. /\ last \in Nat /\ offset <= last /\ last <= Len(OnDisk(limits_file))
        /\ last - offset = TurnLength
        /\ \A i \in 1..TurnLength : offset + i \in 1..limits_file.disk
    BY <1>1, <1>2
  <1>4. Turn = SubSeq(OnDisk(limits_file), offset + 1, last)
    BY DEF Turn
  <1> HIDE DEF last
  <1>5. /\ Turn \in Seq(Byte) /\ Len(Turn) = last - offset
        /\ \A i \in 1..(last - offset) : Turn[i] = OnDisk(limits_file)[offset + i]
    BY <1>1, <1>3, <1>4, Piece
  <1>6. QED
    BY <1>1, <1>2, <1>3, <1>5

\* Each step of Close, of the destructor and a crash keep the types and what is
\* open when.
LEMMA ClosingStep ==
  ASSUME TypeOK, Files, Names, CloseLimits \/ Destroy \/ Closing \/ Crash
  PROVE  TypeOK' /\ Files' /\ Names' /\ FilesGo
  <1>1. /\ IsFile(records_file) /\ IsFile(limits_file) /\ Scalars
        /\ Len(written) \in Nat
    <2>1. Scalars /\ IsFile(records_file) /\ IsFile(limits_file)
      BY TypeParts
    <2>2. QED
      BY <2>1, LenProperties DEF Scalars
  <1>2. After(records_file, <<>>, records_file) /\ After(limits_file, <<>>, limits_file)
    BY <1>1, SameAfter
  <1>3. <<>> \in Seq(Byte)
    BY EmptySeq
  <1>4. CASE CloseLimits
    <2>1. Scalars' /\ pc' \in {"read_limits", "close_records", "reset"}
          /\ (pc' = "read_limits" => limits_placement = "tail")
      BY <1>1, <1>4 DEF Scalars, CloseLimits, FailClose, MayFail, local, history
    <2>2. After(limits_file, <<>>, limits_file') /\ ~limits_file'.open
      BY <1>1, <1>4, ClosedAfter, ClosedPartlyAfter DEF CloseLimits
    <2>3. FilesGo
      BY <1>2, <1>3, <1>4, <2>2 DEF FilesGo, CloseLimits
    <2>4. Files' /\ Names'
      BY <1>1, <1>4, <2>1, <2>2
         DEF Files, Names, Opening, CloseLimits, history, local
    <2>5. IsFile(records_file') /\ IsFile(limits_file') /\ pc' \notin Ended
      BY <1>1, <1>4, <2>1, <2>2 DEF After, CloseLimits, Ended
    <2>6. QED
      BY <2>1, <2>3, <2>4, <2>5, TypeParts
  <1>5. CASE Destroy
    <2>1. Scalars' /\ pc' = "reset" /\ pc = "idle"
      BY <1>1, <1>5 DEF Scalars, Destroy, local, history, files
    <2>2. UNCHANGED <<records_file, limits_file>>
      BY <1>5 DEF Destroy, files
    <2>3. FilesGo
      BY <1>2, <1>3, <2>2 DEF FilesGo
    <2>4. Files' /\ Names'
      BY <1>1, <1>5, <2>1, <2>2 DEF Files, Names, Opening, Destroy, files, history
    <2>5. IsFile(records_file') /\ IsFile(limits_file') /\ pc' \notin Ended
      BY <1>1, <2>1, <2>2 DEF Ended
    <2>6. QED
      BY <2>1, <2>3, <2>4, <2>5, TypeParts
  <1>6. CASE OpenLimitsToRead
    <2>1. Scalars' /\ pc' \in {"append", "reset"} /\ pc = "read_limits"
      BY <1>1, <1>6 DEF Scalars, OpenLimitsToRead, FailClose, MayFail, files, history
    <2>2. UNCHANGED <<records_file, limits_file>>
      BY <1>6 DEF OpenLimitsToRead, files
    <2>3. FilesGo
      BY <1>2, <1>3, <2>2 DEF FilesGo
    <2>4. Files' /\ Names'
      BY <1>1, <1>6, <2>1, <2>2
         DEF Files, Names, Opening, OpenLimitsToRead, files, history
    <2>5. IsFile(records_file') /\ IsFile(limits_file') /\ pc' \notin Ended
      BY <1>1, <2>1, <2>2 DEF Ended
    <2>6. QED
      BY <2>1, <2>3, <2>4, <2>5, TypeParts
  <1>7. CASE AppendLimits
    <2>1. Scalars' /\ pc' \in {"append", "reset"} /\ pc = "append"
      BY <1>1, <1>7, AppendBufferSizeAssumption
         DEF Scalars, AppendLimits, FailClose, MayFail, history
    <2>2. Turn \in Seq(Byte)
      BY <1>1, <1>7, TurnFacts DEF AppendLimits, Scalars
    <2>3. After(records_file, Turn, records_file')
      <3>1. Written(records_file, Turn, records_file')
            \/ Failed(records_file, Turn, records_file')
        BY <1>7 DEF AppendLimits, Turn, TurnLength
      <3>2. QED
        BY <1>1, <2>2, <3>1, WrittenAfter, FailedAfter
    <2>4. FilesGo
      BY <1>2, <1>3, <1>7, <2>2, <2>3 DEF FilesGo, AppendLimits
    <2>5. Files' /\ Names'
      BY <1>1, <1>7, <2>1 DEF Files, Names, Opening, AppendLimits, history
    <2>6. IsFile(records_file') /\ IsFile(limits_file') /\ pc' \notin Ended
      BY <1>1, <1>7, <2>1, <2>3 DEF After, AppendLimits, Ended
    <2>7. QED
      BY <2>1, <2>4, <2>5, <2>6, TypeParts
  <1>8. CASE AppendEnds
    <2>1. Scalars' /\ pc' = "close_records" /\ pc = "append"
      BY <1>1, <1>8 DEF Scalars, AppendEnds, files, history, local
    <2>2. UNCHANGED <<records_file, limits_file>>
      BY <1>8 DEF AppendEnds, files
    <2>3. FilesGo
      BY <1>2, <1>3, <2>2 DEF FilesGo
    <2>4. Files' /\ Names'
      BY <1>1, <1>8, <2>1, <2>2 DEF Files, Names, Opening, AppendEnds, files, history
    <2>5. IsFile(records_file') /\ IsFile(limits_file') /\ pc' \notin Ended
      BY <1>1, <2>1, <2>2 DEF Ended
    <2>6. QED
      BY <2>1, <2>3, <2>4, <2>5, TypeParts
  <1>9. CASE CloseRecords
    <2>1. /\ pc = "close_records" /\ pc' \in {"delete", "closed", "reset"}
          /\ (pc' = "delete" => limits_placement = "tail")
          /\ (pc' = "closed" => limits_placement # "tail")
          /\ status' \in {"ok", "error"} /\ acknowledged' \in 0..Len(written)
      BY <1>1, <1>9 DEF Scalars, CloseRecords, FailClose, MayFail
    <2>2. Scalars'
      BY <1>1, <1>9, <2>1 DEF Scalars, CloseRecords, Ended, local
    <2>3. After(records_file, <<>>, records_file') /\ ~records_file'.open
      BY <1>1, <1>9, ClosedAfter, ClosedPartlyAfter DEF CloseRecords
    <2>4. FilesGo
      BY <1>2, <1>3, <1>9, <2>3 DEF FilesGo, CloseRecords
    <2>5. Files' /\ Names'
      BY <1>1, <1>9, <2>1, <2>3 DEF Files, Names, Opening, CloseRecords, local
    <2>6. IsFile(records_file') /\ IsFile(limits_file') /\ ~limits_file'.open
      BY <1>1, <1>9, <2>1, <2>3 DEF After, CloseRecords, Files
    <2>7. QED
      BY <2>2, <2>3, <2>4, <2>5, <2>6, TypeParts
  <1>10. CASE DeleteLimits
    <2>1. /\ pc = "delete" /\ pc' \in {"closed", "reset"}
          /\ (pc' = "closed" => ~limits_name')
          /\ (pc' = "reset" => UNCHANGED limits_name)
          /\ status' \in {"ok", "error"} /\ acknowledged' \in 0..Len(written)
          /\ limits_name' \in BOOLEAN
      <3>1. CASE /\ limits_name' = FALSE /\ pc' = "closed"
                 /\ acknowledged' = Len(written) /\ UNCHANGED status
        <4>1. pc = "delete" /\ status' \in {"ok", "error"}
          BY <1>1, <1>10, <3>1 DEF Scalars, DeleteLimits
        <4>2. acknowledged' \in 0..Len(written)
          BY <1>1, <3>1
        <4>3. QED
          BY <3>1, <4>1, <4>2
      <3>2. CASE FailClose("delete") /\ UNCHANGED <<limits_name, acknowledged>>
        BY <1>1, <1>10, <3>2 DEF Scalars, DeleteLimits, FailClose, MayFail
      <3>3. QED
        BY <1>10, <3>1, <3>2 DEF DeleteLimits
    <2>2. Scalars'
      BY <1>1, <1>10, <2>1 DEF Scalars, DeleteLimits, Ended, local
    <2>3. UNCHANGED <<records_file, limits_file>>
      BY <1>10 DEF DeleteLimits
    <2>4. FilesGo
      BY <1>2, <1>3, <2>3 DEF FilesGo
    <2>5. Files' /\ Names'
      BY <1>1, <1>10, <2>1, <2>3 DEF Files, Names, Opening, DeleteLimits, local
    <2>6. IsFile(records_file') /\ IsFile(limits_file')
          /\ ~limits_file'.open /\ ~records_file'.open
      BY <1>1, <2>1, <2>3 DEF Files
    <2>7. QED
      BY <2>2, <2>4, <2>5, <2>6, TypeParts
  <1>11. CASE ResetLimits
    <2>1. Scalars' /\ pc' = "reset_records" /\ pc = "reset"
      BY <1>1, <1>11 DEF Scalars, ResetLimits, history, local
    <2>2. After(limits_file, <<>>, limits_file') /\ ~limits_file'.open
      BY <1>1, <1>11, DestroyedAfter DEF ResetLimits
    <2>3. FilesGo
      BY <1>2, <1>3, <1>11, <2>2 DEF FilesGo, ResetLimits
    <2>4. Files' /\ Names'
      BY <1>1, <1>11, <2>1, <2>2 DEF Files, Names, Opening, ResetLimits, history
    <2>5. IsFile(records_file') /\ IsFile(limits_file') /\ pc' \notin Ended
      BY <1>1, <1>11, <2>1, <2>2 DEF After, ResetLimits, Ended
    <2>6. QED
      BY <2>1, <2>3, <2>4, <2>5, TypeParts
  <1>12. CASE ResetRecords
    <2>1. Scalars' /\ pc' = "destroyed" /\ pc = "reset_records"
      BY <1>1, <1>12 DEF Scalars, ResetRecords, history, local, Ended
    <2>2. After(records_file, <<>>, records_file') /\ ~records_file'.open
      BY <1>1, <1>12, DestroyedAfter DEF ResetRecords
    <2>3. FilesGo
      BY <1>2, <1>3, <1>12, <2>2 DEF FilesGo, ResetRecords
    <2>4. Files' /\ Names'
      BY <1>1, <1>12, <2>1, <2>2 DEF Files, Names, Opening, ResetRecords, history
    <2>5. IsFile(records_file') /\ IsFile(limits_file') /\ ~limits_file'.open
      BY <1>1, <1>12, <2>1, <2>2 DEF After, ResetRecords, Files
    <2>6. QED
      BY <2>1, <2>2, <2>3, <2>4, <2>5, TypeParts
  <1>13. CASE Crash
    <2>1. Scalars' /\ pc' = "crashed" /\ pc \notin Ended
      BY <1>1, <1>13 DEF Scalars, Crash, history, local, Ended
    <2>2. /\ After(records_file, <<>>, records_file') /\ ~records_file'.open
          /\ After(limits_file, <<>>, limits_file') /\ ~limits_file'.open
      BY <1>1, <1>13, LostAfter DEF Crash
    <2>3. FilesGo
      BY <1>3, <2>2 DEF FilesGo
    <2>4. Files' /\ Names'
      BY <1>1, <1>13, <2>1, <2>2 DEF Files, Names, Opening, Crash, history, Ended
    <2>5. IsFile(records_file') /\ IsFile(limits_file')
      BY <2>2 DEF After
    <2>6. QED
      BY <2>1, <2>2, <2>3, <2>4, <2>5, TypeParts
  <1>14. QED
    BY <1>4, <1>5, <1>6, <1>7, <1>8, <1>9, <1>10, <1>11, <1>12, <1>13 DEF Closing

\* Each step keeps the types, adds to files or cuts them, and never touches what
\* is on the disk.
LEMMA TypeStep ==
  ASSUME TypeOK, Files, Names, [Next]_vars
  PROVE  TypeOK' /\ Files' /\ Names' /\ FilesGo
  <1>1. CASE UNCHANGED vars
    <2>1. IsFile(records_file) /\ IsFile(limits_file) /\ <<>> \in Seq(Byte)
      BY TypeParts, EmptySeq
    <2>2. FilesGo
      BY <1>1, <2>1, SameAfter DEF FilesGo, vars, files
    <2>3. TypeOK' /\ Files' /\ Names'
      BY <1>1 DEF TypeOK, Files, Names, vars, files, local, history, Opening, Ended
    <2>4. QED
      BY <2>2, <2>3
  <1>2. QED
    BY <1>1, OpeningStep, WritingStep, FlushingStep, ClosingStep DEF Next, Over

\* The files, the program counter and the counters keep their types, and both
\* files are closed when the writer is gone.
THEOREM TypeCorrect == Spec => []TypeOK
  <1>1. Init => TypeOK /\ Files /\ Names
    BY TypeInit
  <1>2. TypeOK /\ Files /\ Names /\ [Next]_vars => (TypeOK /\ Files /\ Names)'
    BY TypeStep
  <1>3. QED
    BY <1>1, <1>2, PTL DEF Spec

-----------------------------------------------------------------------------
(* The inductive invariant: what does not change, or goes with a file *)

\* The laws of the places of limits.
LEMMA WordsFacts ==
  /\ Words(0) = 0
  /\ \A k \in Nat : Words(k) \in Nat /\ Words(k + 1) = Words(k) + WordSize
  /\ \A i, j \in Nat : i <= j => Words(i) <= Words(j)
  <1>1. WordSize \in Nat
    BY WordSizeAssumption
  <1>2. Words(0) = 0
    BY <1>1 DEF Words
  <1>3. ASSUME NEW k \in Nat
        PROVE  Words(k) \in Nat /\ Words(k + 1) = Words(k) + WordSize
    BY <1>1 DEF Words
  <1>4. ASSUME NEW i \in Nat, NEW j \in Nat, i <= j
        PROVE  Words(i) <= Words(j)
    <2>1. PICK d \in Nat : j = i + d
      <3>1. j - i \in Nat /\ j = i + (j - i)
        BY <1>4
      <3>2. QED
        BY <3>1
    <2>2. j * WordSize = i * WordSize + d * WordSize /\ d * WordSize \in Nat
          /\ i * WordSize \in Nat
      BY <1>1, <2>1
    <2>3. QED
      BY <2>2 DEF Words
  <1>5. QED
    BY <1>2, <1>3, <1>4

\* Limit k lies within the first n.
LEMMA WordsWithin ==
  ASSUME NEW n \in Nat, NEW k \in 1..n
  PROVE  /\ k - 1 \in Nat /\ Words(k - 1) \in Nat /\ Words(k) = Words(k - 1) + WordSize
         /\ Words(k) \in Nat /\ Words(n) \in Nat /\ Words(k) <= Words(n)
  <1>1. k - 1 \in Nat /\ k \in Nat /\ k <= n /\ k = (k - 1) + 1
    OBVIOUS
  <1>2. Words((k - 1) + 1) = Words(k - 1) + WordSize
    BY <1>1, WordsFacts
  <1>3. QED
    BY <1>1, <1>2, WordsFacts

\* Numbers of the state in use below.
LEMMA Sizes ==
  ASSUME TypeOK
  PROVE  /\ IsFile(records_file) /\ IsFile(limits_file) /\ Len(written) \in Nat
         /\ Len(records_file.stream) \in Nat /\ Len(limits_file.stream) \in Nat
         /\ records_file.disk \in Nat /\ records_file.disk <= Len(records_file.stream)
         /\ limits_file.disk \in Nat /\ limits_file.disk <= Len(limits_file.stream)
         /\ acknowledged \in 0..Len(written) /\ acknowledged \in Nat
         /\ Words(Len(written)) \in Nat /\ Words(acknowledged) \in Nat
         /\ Words(acknowledged) <= Words(Len(written))
         /\ \A k \in 1..Len(written) : written[k].size \in Nat /\ written[k].n \in Nat
  <1>1. IsFile(records_file) /\ IsFile(limits_file) /\ Scalars
    BY TypeParts
  <1>2. Len(written) \in Nat
        /\ written \in Seq([n : 1..MaxWrites, size : RecordSizes])
    BY <1>1, LenProperties DEF Scalars
  <1>3. acknowledged \in 0..Len(written)
    BY <1>1 DEF Scalars
  <1>4. \A k \in 1..Len(written) : written[k] \in [n : 1..MaxWrites, size : RecordSizes]
    BY <1>2, ElementOfSeq
  <1>5. ASSUME NEW k \in 1..Len(written)
        PROVE  written[k].size \in Nat /\ written[k].n \in Nat
    <2>1. written[k].size \in RecordSizes /\ written[k].n \in 1..MaxWrites
      BY <1>4
    <2>2. written[k].size \in Nat
      BY <2>1, RecordSizesAssumption
    <2>3. written[k].n \in Nat
      BY <2>1, MaxWritesAssumption
    <2>4. QED
      BY <2>2, <2>3
  <1>6. acknowledged \in Nat /\ Words(Len(written)) \in Nat /\ Words(acknowledged) \in Nat
        /\ Words(acknowledged) <= Words(Len(written))
    BY <1>2, <1>3, WordsFacts
  <1>7. /\ Len(records_file.stream) \in Nat /\ Len(limits_file.stream) \in Nat
        /\ records_file.disk \in Nat /\ records_file.disk <= Len(records_file.stream)
        /\ limits_file.disk \in Nat /\ limits_file.disk <= Len(limits_file.stream)
    BY <1>1, FileFacts
  <1>8. QED
    BY <1>1, <1>2, <1>3, <1>5, <1>6, <1>7

\* The ends of records are numbers that do not decrease.
LEMMA EndsFacts ==
  ASSUME NEW ends, TypeOK, IsEnds(ends)
  PROVE  /\ RecordsEndAt(ends) \in Nat /\ ends[acknowledged] \in Nat
         /\ ends[acknowledged] <= RecordsEndAt(ends)
         /\ \A k \in 1..Len(written) :
              /\ k - 1 \in 0..Len(written) /\ k \in 0..Len(written)
              /\ ends[k - 1] \in Nat /\ ends[k] \in Nat
              /\ ends[k] = ends[k - 1] + written[k].size
              /\ ends[k] <= RecordsEndAt(ends)
  <1>1. Len(written) \in Nat /\ acknowledged \in 0..Len(written)
    BY Sizes
  <1>2. \A k \in 1..Len(written) : k - 1 \in 0..Len(written) /\ k \in 0..Len(written)
                                   /\ k <= Len(written)
    BY <1>1
  <1>3. Len(written) \in 0..Len(written) /\ acknowledged <= Len(written)
    BY <1>1
  <1>4. QED
    BY <1>1, <1>2, <1>3 DEF IsEnds, RecordsEndAt

\* A call that writes no limit keeps the limits file a prefix of the limits.
LEMMA LimitsKept ==
  ASSUME NEW ends, TypeOK, LimitsFit(ends), UNCHANGED written,
         After(limits_file, <<>>, limits_file')
  PROVE  /\ LimitsFit(ends)'
         /\ Len(limits_file'.stream) <= Len(limits_file.stream)
         /\ limits_file.disk <= limits_file'.disk
         /\ limits_file'.disk <= Len(limits_file'.stream)
         /\ Len(limits_file'.stream) \in Nat /\ limits_file'.disk \in Nat
         /\ \A i \in 1..Len(limits_file'.stream) :
              limits_file'.stream[i] = limits_file.stream[i]
  <1>1. Len(<<>>) = 0 /\ IsFile(limits_file')
    BY EmptySeq DEF After
  <1>2. /\ Len(limits_file'.stream) \in Nat /\ limits_file'.disk \in Nat
        /\ limits_file'.disk <= Len(limits_file'.stream)
    BY <1>1, FileFacts
  <1>3. Len(limits_file'.stream) <= Len(limits_file.stream) + 0
        /\ limits_file.disk <= limits_file'.disk
    BY <1>1 DEF After
  <1>4. Len(limits_file'.stream) <= Len(limits_file.stream)
    BY <1>3, Sizes
  <1>5. \A i \in 1..Len(limits_file'.stream) :
          limits_file'.stream[i] = limits_file.stream[i]
    BY <1>2, <1>4, Sizes DEF After
  <1>6. Len(limits_file'.stream) <= Words(Len(written'))
    BY <1>2, <1>4, Sizes DEF LimitsFit
  <1>7. ASSUME NEW k \in 1..Len(written'), NEW j \in 1..WordSize,
               Words(k - 1) + j <= Len(limits_file'.stream)
        PROVE  limits_file'.stream[Words(k - 1) + j] = LimitByte(ends[k], j)
    <2>1. k \in 1..Len(written) /\ Words(k - 1) \in Nat /\ j \in Nat /\ j >= 1
      <3>1. k \in 1..Len(written) /\ Len(written) \in Nat
        BY <1>7, Sizes
      <3>2. Words(k - 1) \in Nat
        BY <3>1, WordsWithin
      <3>3. j \in Nat /\ j >= 1
        BY WordSizeAssumption
      <3>4. QED
        BY <3>1, <3>2, <3>3
    <2> DEFINE p == Words(k - 1) + j
    <2>2. p \in 1..Len(limits_file'.stream) /\ p <= Len(limits_file.stream)
      <3>1. p \in Nat /\ p >= 1 /\ p <= Len(limits_file'.stream)
        BY <1>7, <2>1
      <3>2. Len(limits_file.stream) \in Nat
        BY Sizes
      <3> HIDE DEF p
      <3>3. QED
        BY <1>2, <1>4, <3>1, <3>2
    <2>3. QED
      BY <2>1, <2>2, <1>5 DEF LimitsFit
  <1>8. LimitsFit(ends)'
    BY <1>6, <1>7 DEF LimitsFit
  <1>9. QED
    BY <1>2, <1>3, <1>4, <1>5, <1>8

\* Data behind the records, or none, keep the records file a prefix of the records.
LEMMA RecordsKept ==
  ASSUME NEW ends, TypeOK, IsEnds(ends), RecordsFit(ends), UNCHANGED written,
         NEW data \in Seq(Byte), After(records_file, data, records_file'),
         data = <<>> \/ RecordsEndAt(ends) <= Len(records_file.stream)
  PROVE  /\ RecordsFit(ends)'
         /\ Len(records_file'.stream) <= Len(records_file.stream) + Len(data)
         /\ records_file.disk <= records_file'.disk
         /\ records_file'.disk <= Len(records_file'.stream)
         /\ Len(records_file'.stream) \in Nat /\ records_file'.disk \in Nat
         /\ \A i \in 1..Len(records_file'.stream) :
              i <= Len(records_file.stream) =>
                records_file'.stream[i] = records_file.stream[i]
  <1>1. IsFile(records_file') /\ Len(data) \in Nat
    BY LenProperties DEF After
  <1>2. /\ Len(records_file'.stream) \in Nat /\ records_file'.disk \in Nat
        /\ records_file'.disk <= Len(records_file'.stream)
    BY <1>1, FileFacts
  <1>3. /\ Len(records_file'.stream) <= Len(records_file.stream) + Len(data)
        /\ records_file.disk <= records_file'.disk
        /\ \A i \in 1..Len(records_file'.stream) :
             i <= Len(records_file.stream) =>
               records_file'.stream[i] = records_file.stream[i]
    BY DEF After
  <1>4. ASSUME NEW k \in 1..Len(written'), NEW j \in 1..written'[k].size,
               ends[k - 1] + j <= Len(records_file'.stream)
        PROVE  records_file'.stream[ends[k - 1] + j] = RecordByte(written'[k].n, j)
    <2>1. /\ k \in 1..Len(written) /\ written[k].size \in Nat /\ j \in 1..written[k].size
          /\ ends[k - 1] \in Nat /\ ends[k] = ends[k - 1] + written[k].size
          /\ ends[k] <= RecordsEndAt(ends) /\ RecordsEndAt(ends) \in Nat
      BY <1>4, Sizes, EndsFacts
    <2>2. /\ ends[k - 1] + j \in 1..Len(records_file'.stream)
          /\ ends[k - 1] + j <= RecordsEndAt(ends)
      BY <1>2, <1>4, <2>1
    <2>3. ends[k - 1] + j <= Len(records_file.stream)
      <3> DEFINE p == ends[k - 1] + j
      <3>1. /\ p \in Nat /\ p <= Len(records_file'.stream) /\ p <= RecordsEndAt(ends)
            /\ Len(records_file.stream) \in Nat
        BY <2>2, Sizes
      <3> HIDE DEF p
      <3>2. CASE data = <<>>
        <4>1. Len(data) = 0
          BY <3>2, EmptySeq
        <4>2. p <= Len(records_file.stream)
          BY <1>2, <1>3, <3>1, <4>1
        <4>3. QED
          BY <4>2 DEF p
      <3>3. CASE RecordsEndAt(ends) <= Len(records_file.stream)
        <4>1. p <= Len(records_file.stream)
          BY <2>1, <3>1, <3>3
        <4>2. QED
          BY <4>1 DEF p
      <3>4. QED
        BY <3>2, <3>3
    <2>4. QED
      BY <1>3, <2>1, <2>2, <2>3 DEF RecordsFit
  <1>5. RecordsFit(ends)'
    BY <1>4 DEF RecordsFit
  <1>6. QED
    BY <1>2, <1>3, <1>5

\* A step that writes no record, no limit and no tail.
Quiet == /\ UNCHANGED written
         /\ After(records_file, <<>>, records_file')
         /\ After(limits_file, <<>>, limits_file')
         /\ pc # "crashed" \/ pc' = "crashed"
         /\ pc = "write_limit" => pc' = "crashed"
         /\ pc' # "write_limit"

\* A step that writes nothing keeps what follows the records.
LEMMA TailKept ==
  ASSUME NEW ends, TypeOK, IsEnds(ends), LimitsFit(ends), RecordsFit(ends),
         TailFits(ends), Quiet
  PROVE  TailFits(ends)'
  <1> DEFINE e == RecordsEndAt(ends)
             r == Len(records_file.stream)
             q == Len(records_file'.stream)
  <1>1. e \in Nat /\ r \in Nat /\ RecordsEndAt(ends)' = e
    BY EndsFacts, Sizes DEF Quiet, RecordsEndAt
  <1>2. /\ q \in Nat /\ q <= r
        /\ \A i \in 1..q : records_file'.stream[i] = records_file.stream[i]
    <2>1. <<>> \in Seq(Byte) /\ Len(<<>>) = 0
      BY EmptySeq
    <2>2. /\ q \in Nat /\ q <= r + 0
          /\ \A i \in 1..q : i <= r => records_file'.stream[i] = records_file.stream[i]
      BY <2>1, RecordsKept DEF Quiet
    <2> HIDE DEF q, r
    <2>3. QED
      BY <1>1, <2>2
  <1>3. SUFFICES ASSUME q - e > 0, pc' # "crashed"
                 PROVE  /\ pc' # "write_limit" /\ LimitsComplete'
                        /\ q - e <= Words(Len(written'))
                        /\ \A p \in 1..(q - e) : records_file'.stream[e + p]
                                                   = limits_file'.stream[p]
    BY <1>1 DEF TailFits
  <1>4. /\ r - e > 0 /\ pc # "crashed" /\ pc # "write_limit"
    <2>1. pc # "crashed" /\ pc # "write_limit"
      BY <1>3 DEF Quiet
    <2> HIDE DEF q, r, e
    <2>2. QED
      BY <1>1, <1>2, <1>3, <2>1
  <1>5. /\ LimitsComplete
        /\ r - e <= Words(Len(written))
        /\ \A p \in 1..(r - e) : records_file.stream[e + p] = limits_file.stream[p]
    BY <1>4 DEF TailFits
  <1>6. /\ Len(limits_file'.stream) \in Nat /\ limits_file'.disk \in Nat
        /\ Len(limits_file'.stream) <= Len(limits_file.stream)
        /\ limits_file.disk <= limits_file'.disk
        /\ limits_file'.disk <= Len(limits_file'.stream)
        /\ \A i \in 1..Len(limits_file'.stream) :
             limits_file'.stream[i] = limits_file.stream[i]
    BY LimitsKept DEF Quiet
  <1>7. LimitsComplete' /\ Len(limits_file'.stream) = Words(Len(written))
    <2>1. Len(limits_file.stream) \in Nat /\ Len(limits_file.stream) = Words(Len(written))
          /\ limits_file.disk = Len(limits_file.stream) /\ written' = written
      BY <1>5, Sizes DEF LimitsComplete, Quiet
    <2> DEFINE m == Len(limits_file'.stream)
               d == limits_file'.disk
    <2>2. m \in Nat /\ d \in Nat /\ m <= Len(limits_file.stream)
          /\ Len(limits_file.stream) <= d /\ d <= m
      BY <1>6, <2>1
    <2> HIDE DEF m, d
    <2>3. d = m /\ m = Len(limits_file.stream)
      BY <2>1, <2>2
    <2>4. QED
      BY <2>1, <2>3 DEF LimitsComplete, m, d
  <1>8. q - e <= Words(Len(written)) /\ written' = written /\ Words(Len(written)) \in Nat
    <2>1. Words(Len(written)) \in Nat /\ written' = written
      BY Sizes DEF Quiet
    <2> HIDE DEF q, r, e
    <2>2. QED
      BY <1>1, <1>2, <1>5, <2>1
  <1>9. ASSUME NEW p \in 1..(q - e)
        PROVE  records_file'.stream[e + p] = limits_file'.stream[p]
    <2> HIDE DEF q, r, e
    <2>1. e + p \in 1..q /\ p \in 1..(r - e) /\ p \in 1..Len(limits_file'.stream)
      BY <1>1, <1>2, <1>7, <1>8, <1>9
    <2>2. QED
      BY <1>2, <1>5, <1>6, <2>1
  <1>10. QED
    BY <1>7, <1>8, <1>9 DEF Quiet

\* What is acknowledged stays on the disk, and more is only when it is there.
MoreAcknowledged(ends) ==
  \/ UNCHANGED acknowledged
  \/ /\ acknowledged' = Len(written)
     /\ limits_file'.disk >= Words(Len(written))
     /\ records_file'.disk >= RecordsEndAt(ends)

\* A step that writes nothing keeps what the files hold.
LEMMA QuietFits ==
  ASSUME NEW ends, TypeOK, IsEnds(ends), LimitsFit(ends), RecordsFit(ends),
         TailFits(ends), AcknowledgedFits(ends), Quiet, MoreAcknowledged(ends)
  PROVE  /\ IsEnds(ends)' /\ LimitsFit(ends)' /\ RecordsFit(ends)' /\ TailFits(ends)'
         /\ AcknowledgedFits(ends)' /\ RecordsEndAt(ends)' = RecordsEndAt(ends)
  <1>1. IsEnds(ends)' /\ RecordsEndAt(ends)' = RecordsEndAt(ends)
    BY DEF Quiet, IsEnds, RecordsEndAt
  <1>2. LimitsFit(ends)' /\ limits_file.disk <= limits_file'.disk
        /\ limits_file'.disk \in Nat
    BY LimitsKept DEF Quiet
  <1>3. RecordsFit(ends)' /\ records_file.disk <= records_file'.disk
        /\ records_file'.disk \in Nat
    BY RecordsKept, EmptySeq DEF Quiet
  <1>4. TailFits(ends)'
    BY TailKept
  <1>5. AcknowledgedFits(ends)'
    <2>1. CASE UNCHANGED acknowledged
      <3>1. /\ limits_file.disk >= Words(acknowledged)
            /\ records_file.disk >= ends[acknowledged]
            /\ Words(acknowledged) \in Nat /\ ends[acknowledged] \in Nat
            /\ limits_file.disk \in Nat /\ records_file.disk \in Nat
        BY Sizes, EndsFacts DEF AcknowledgedFits
      <3>2. limits_file'.disk >= Words(acknowledged)
            /\ records_file'.disk >= ends[acknowledged]
        BY <1>2, <1>3, <3>1
      <3>3. QED
        BY <2>1, <3>2 DEF AcknowledgedFits
    <2>2. CASE ~UNCHANGED acknowledged
      BY <2>2 DEF MoreAcknowledged, AcknowledgedFits, RecordsEndAt
    <2>3. QED
      BY <2>1, <2>2
  <1>6. QED
    BY <1>1, <1>2, <1>3, <1>4, <1>5

\* A step that writes nothing keeps the invariant, if the call has got so far.
LEMMA QuietSome ==
  ASSUME NEW ends \in [0..Len(written) -> Nat], TypeOK, Fits(ends), Quiet,
         MoreAcknowledged(ends), ProgressFits(ends)'
  PROVE  SomeFit'
  <1>1. Fits(ends)'
    BY QuietFits DEF Fits
  <1>2. ends \in [0..Len(written') -> Nat]
    BY DEF Quiet
  <1>3. QED
    BY <1>1, <1>2 DEF SomeFit

-----------------------------------------------------------------------------
(* The inductive invariant, action by action *)

\* No record has been written yet.
LEMMA InitFits == Init => SomeFit
  <1> SUFFICES ASSUME Init PROVE SomeFit
    OBVIOUS
  <1> DEFINE ends == [k \in 0..0 |-> 0]
  <1>1. /\ written = <<>> /\ acknowledged = 0 /\ pc = "open_records" /\ records_size_ = 0
        /\ records_file.stream = <<>> /\ limits_file.stream = <<>>
        /\ records_file.disk = 0 /\ limits_file.disk = 0
    BY NewFileFacts DEF Init
  <1>2. Len(written) = 0 /\ Len(records_file.stream) = 0 /\ Len(limits_file.stream) = 0
    BY <1>1, EmptySeq
  <1>3. ends \in [0..Len(written) -> Nat] /\ ends[0] = 0 /\ RecordsEndAt(ends) = 0
    BY <1>2 DEF RecordsEndAt
  <1>4. IsEnds(ends)
    BY <1>2, <1>3 DEF IsEnds
  <1> HIDE DEF ends
  <1>5. Words(0) = 0
    BY WordsFacts
  <1>6. LimitsFit(ends) /\ RecordsFit(ends) /\ TailFits(ends) /\ AcknowledgedFits(ends)
    BY <1>1, <1>2, <1>3, <1>5 DEF LimitsFit, RecordsFit, TailFits, AcknowledgedFits
  <1>7. ProgressFits(ends)
    BY <1>1, <1>2, <1>3, <1>5 DEF ProgressFits
  <1>8. QED
    BY <1>3, <1>4, <1>6, <1>7 DEF SomeFit, Fits

\* Opening keeps what the files hold.
LEMMA OpeningFits ==
  ASSUME TypeOK, Files, NEW ends \in [0..Len(written) -> Nat], Fits(ends),
         OpenRecords \/ OpenLimits
  PROVE  SomeFit'
  <1>1. /\ IsFile(records_file) /\ IsFile(limits_file) /\ pc \in Opening
        /\ records_file.stream = <<>> /\ limits_file.stream = <<>>
        /\ UNCHANGED <<written, acknowledged, records_size_>>
    BY Sizes DEF Files, Opening, OpenRecords, OpenLimits, history
  <1>2. /\ After(records_file, <<>>, records_file) /\ After(limits_file, <<>>, limits_file)
        /\ After(records_file, <<>>, NewFile) /\ After(limits_file, <<>>, NewFile)
        /\ After(records_file, <<>>, Closed(records_file))
        /\ Closed(records_file).stream = records_file.stream
    BY <1>1, SameAfter, NewAfter, ClosedAfter
  <1>3. /\ After(records_file, <<>>, records_file') /\ records_file'.stream = <<>>
        /\ After(limits_file, <<>>, limits_file') /\ limits_file'.stream = <<>>
        /\ pc' \in {"open_limits", "idle", "destroyed"}
    BY <1>1, <1>2, NewFileFacts DEF OpenRecords, OpenLimits
  <1>4. Quiet /\ MoreAcknowledged(ends)
    BY <1>1, <1>3 DEF Quiet, MoreAcknowledged, Opening
  <1>5. RecordsEndAt(ends)' = RecordsEndAt(ends)
    BY <1>1 DEF RecordsEndAt
  <1>6. ProgressFits(ends)'
    BY <1>1, <1>3, <1>5 DEF Fits, ProgressFits, Opening
  <1>7. QED
    BY <1>4, <1>6, QuietSome

\* A flush that succeeds keeps what the files hold and may acknowledge it.
LEMMA FlushingFits ==
  ASSUME TypeOK, NEW ends \in [0..Len(written) -> Nat], Fits(ends), intact', Flushing
  PROVE  SomeFit'
  <1>1. /\ IsFile(records_file) /\ IsFile(limits_file)
        /\ UNCHANGED <<written, records_size_>>
    BY Sizes DEF Flushing, FlushLimits, FlushRecords
  <1>2. /\ After(records_file, <<>>, records_file) /\ After(limits_file, <<>>, limits_file)
        /\ After(records_file, <<>>, Flushed(records_file))
        /\ Flushed(records_file).stream = records_file.stream
        /\ Flushed(records_file).disk = Len(records_file.stream)
        /\ After(limits_file, <<>>, Flushed(limits_file))
        /\ Flushed(limits_file).stream = limits_file.stream
        /\ Flushed(limits_file).disk = Len(limits_file.stream)
    BY <1>1, SameAfter, FlushedAfter
  <1>3. status' = "ok"
    BY DEF Flushing, FlushLimits, FlushRecords, StaysIntact
  <1>4. RecordsEndAt(ends)' = RecordsEndAt(ends) /\ ProgressFits(ends)
    BY <1>1 DEF RecordsEndAt, Fits
  <1>5. /\ RecordsEndAt(ends) \in Nat /\ records_file.disk \in Nat
        /\ Words(Len(written)) \in Nat
    BY Sizes, EndsFacts DEF Fits
  <1>6. CASE FlushLimits
    <2>1. limits_file' = Flushed(limits_file) /\ pc = "idle" /\ pc' = "flush_records"
          /\ UNCHANGED <<records_file, acknowledged>>
      BY <1>3, <1>6 DEF FlushLimits, MayFail
    <2>2. Quiet /\ MoreAcknowledged(ends)
      BY <1>1, <1>2, <2>1 DEF Quiet, MoreAcknowledged
    <2>3. ProgressFits(ends)'
      BY <1>1, <1>2, <1>4, <2>1 DEF ProgressFits, Opening
    <2>4. QED
      BY <2>2, <2>3, QuietSome
  <1>7. CASE FlushRecords
    <2>1. records_file' = Flushed(records_file) /\ pc = "flush_records" /\ pc' = "idle"
          /\ UNCHANGED limits_file /\ acknowledged' \in {acknowledged, Len(written)}
      BY <1>3, <1>7 DEF FlushRecords, MayFail
    <2>2. /\ Len(limits_file.stream) = Words(Len(written))
          /\ limits_file.disk = Words(Len(written))
          /\ Len(records_file.stream) = RecordsEndAt(ends)
          /\ records_size_ = RecordsEndAt(ends)
      BY <1>4, <2>1 DEF ProgressFits
    <2>3. Quiet
      BY <1>1, <1>2, <2>1 DEF Quiet
    <2>4. MoreAcknowledged(ends)
      BY <1>2, <1>5, <2>1, <2>2 DEF MoreAcknowledged
    <2>5. ProgressFits(ends)'
      BY <1>1, <1>2, <1>4, <2>1, <2>2 DEF ProgressFits, Opening
    <2>6. QED
      BY <2>3, <2>4, <2>5, QuietSome
  <1>8. QED
    BY <1>6, <1>7 DEF Flushing

\* The steps of Close that write nothing, failed ones included, keep what the files
\* hold.
LEMMA ClosingFits ==
  ASSUME TypeOK, Names, NEW ends \in [0..Len(written) -> Nat], Fits(ends),
         \/ CompressFails \/ CloseLimits \/ Destroy \/ OpenLimitsToRead \/ AppendEnds
         \/ CloseRecords \/ DeleteLimits
  PROVE  SomeFit'
  <1>1. /\ IsFile(records_file) /\ IsFile(limits_file)
        /\ UNCHANGED <<written, records_size_, limits_placement>>
        /\ limits_placement \in {"tail", "separate"}
    BY Sizes
       DEF TypeOK, CompressFails, CloseLimits, Destroy, OpenLimitsToRead, AppendEnds,
           CloseRecords, DeleteLimits, history, files, local
  <1>2. /\ After(records_file, <<>>, records_file) /\ After(limits_file, <<>>, limits_file)
    BY <1>1, SameAfter
  <1>3. /\ RecordsEndAt(ends)' = RecordsEndAt(ends) /\ ProgressFits(ends)
        /\ RecordsEndAt(ends) \in Nat /\ records_file.disk \in Nat
        /\ Words(Len(written)) \in Nat
    BY <1>1, Sizes, EndsFacts DEF RecordsEndAt, Fits
  <1>4. CASE CompressFails
    <2>1. UNCHANGED <<records_file, limits_file, acknowledged, pc>> /\ pc = "idle"
      BY <1>4 DEF CompressFails, files
    <2>2. Quiet /\ MoreAcknowledged(ends)
      BY <1>1, <1>2, <2>1 DEF Quiet, MoreAcknowledged
    <2>3. ProgressFits(ends)'
      BY <1>1, <1>3, <2>1 DEF ProgressFits, Opening
    <2>4. QED
      BY <2>2, <2>3, QuietSome
  <1>5. CASE CloseLimits
    <2>1. /\ UNCHANGED <<records_file, acknowledged>> /\ pc = "idle"
          /\ \/ /\ limits_file' = Closed(limits_file)
                /\ pc' = IF limits_placement = "tail" THEN "read_limits"
                                                      ELSE "close_records"
             \/ ClosedPartly(limits_file, limits_file') /\ pc' = "reset"
      BY <1>5 DEF CloseLimits, FailClose, history
    <2>2. After(limits_file, <<>>, limits_file')
      BY <1>1, <2>1, ClosedAfter, ClosedPartlyAfter
    <2>3. Quiet /\ MoreAcknowledged(ends)
      BY <1>1, <1>2, <2>1, <2>2 DEF Quiet, MoreAcknowledged
    <2>4. CASE pc' = "reset"
      <3>1. ProgressFits(ends)'
        BY <2>4 DEF ProgressFits, Opening
      <3>2. QED
        BY <2>3, <3>1, QuietSome
    <2>5. CASE pc' # "reset"
      <3>1. /\ limits_file'.stream = limits_file.stream
            /\ limits_file'.disk = Len(limits_file.stream)
            /\ pc' = IF limits_placement = "tail" THEN "read_limits"
                                                  ELSE "close_records"
        BY <1>1, <2>1, <2>5, ClosedAfter
      <3>2. /\ Len(limits_file.stream) = Words(Len(written))
            /\ Len(records_file.stream) = RecordsEndAt(ends)
        BY <1>3, <2>1 DEF ProgressFits
      <3>3. ProgressFits(ends)'
        BY <1>1, <1>3, <2>1, <3>1, <3>2 DEF ProgressFits, LimitsComplete, Opening
      <3>4. QED
        BY <2>3, <3>3, QuietSome
    <2>6. QED
      BY <2>4, <2>5
  <1>6. CASE Destroy
    <2>1. UNCHANGED <<records_file, limits_file, acknowledged>> /\ pc' = "reset"
          /\ pc = "idle"
      BY <1>6 DEF Destroy, files, history
    <2>2. Quiet /\ MoreAcknowledged(ends) /\ ProgressFits(ends)'
      BY <1>1, <1>2, <2>1 DEF Quiet, MoreAcknowledged, ProgressFits, Opening
    <2>3. QED
      BY <2>2, QuietSome
  <1>7. CASE OpenLimitsToRead
    <2>1. /\ UNCHANGED <<records_file, limits_file, acknowledged>> /\ pc = "read_limits"
          /\ (pc' = "append" /\ offset' = 0) \/ pc' = "reset"
      BY <1>7 DEF OpenLimitsToRead, FailClose, files, history
    <2>2. Quiet /\ MoreAcknowledged(ends)
      BY <1>1, <1>2, <2>1 DEF Quiet, MoreAcknowledged
    <2>3. CASE pc' = "append" /\ offset' = 0
      <3>1. AtMost(offset', Words(Len(written))) = 0
        BY <1>3, <2>3 DEF AtMost
      <3>2. LimitsComplete /\ Len(records_file.stream) = RecordsEndAt(ends)
        BY <1>3, <2>1 DEF ProgressFits
      <3>3. LimitsComplete'
        BY <1>1, <2>1, <3>2 DEF LimitsComplete
      <3>4. ProgressFits(ends)'
        BY <1>1, <1>3, <2>1, <2>3, <3>1, <3>2, <3>3 DEF ProgressFits, Opening
      <3>5. QED
        BY <2>2, <3>4, QuietSome
    <2>4. CASE pc' = "reset"
      <3>1. ProgressFits(ends)'
        BY <2>4 DEF ProgressFits, Opening
      <3>2. QED
        BY <2>2, <3>1, QuietSome
    <2>5. QED
      BY <2>1, <2>3, <2>4
  <1>8. CASE AppendEnds
    <2>1. /\ UNCHANGED <<records_file, limits_file, acknowledged>> /\ pc = "append"
          /\ pc' = "close_records" /\ offset >= limits_file.disk
          /\ limits_placement = "tail" /\ offset \in Nat
      BY <1>8 DEF AppendEnds, files, history, Names, TypeOK
    <2>2. LimitsComplete /\ limits_file.disk = Words(Len(written))
      BY <1>3, <2>1 DEF ProgressFits, LimitsComplete
    <2>3. AtMost(offset, Words(Len(written))) = Words(Len(written))
      BY <1>3, <2>1, <2>2 DEF AtMost
    <2>4. Len(records_file.stream) = RecordsEndAt(ends) + Words(Len(written))
      BY <1>3, <2>1, <2>3 DEF ProgressFits
    <2>5. LimitsComplete'
      BY <1>1, <2>1, <2>2 DEF LimitsComplete
    <2>6. ProgressFits(ends)'
      BY <1>1, <1>3, <2>1, <2>4, <2>5 DEF ProgressFits, Opening
    <2>7. Quiet /\ MoreAcknowledged(ends)
      BY <1>1, <1>2, <2>1 DEF Quiet, MoreAcknowledged
    <2>8. QED
      BY <2>6, <2>7, QuietSome
  <1>9. CASE CloseRecords
    <2>1. /\ UNCHANGED limits_file /\ pc = "close_records"
          /\ \/ /\ records_file' = Closed(records_file)
                /\ IF limits_placement = "tail"
                     THEN pc' = "delete" /\ UNCHANGED acknowledged
                     ELSE pc' = "closed" /\ acknowledged' = Len(written)
             \/ /\ ClosedPartly(records_file, records_file')
                /\ pc' = "reset" /\ UNCHANGED acknowledged
      BY <1>9 DEF CloseRecords, FailClose
    <2>2. After(records_file, <<>>, records_file')
      BY <1>1, <2>1, ClosedAfter, ClosedPartlyAfter
    <2>3. Quiet
      BY <1>1, <1>2, <2>1, <2>2 DEF Quiet
    <2>4. CASE pc' = "reset"
      <3>1. ProgressFits(ends)' /\ MoreAcknowledged(ends)
        BY <2>1, <2>4 DEF ProgressFits, Opening, MoreAcknowledged
      <3>2. QED
        BY <2>3, <3>1, QuietSome
    <2>5. CASE pc' # "reset"
      <3>1. /\ records_file'.stream = records_file.stream
            /\ records_file'.disk = Len(records_file.stream)
            /\ IF limits_placement = "tail"
                 THEN pc' = "delete" /\ UNCHANGED acknowledged
                 ELSE pc' = "closed" /\ acknowledged' = Len(written)
        BY <1>1, <2>1, <2>5, ClosedAfter
      <3>2. /\ LimitsComplete /\ limits_file.disk = Words(Len(written))
            /\ limits_placement = "tail" =>
                 Len(records_file.stream) = RecordsEndAt(ends) + Words(Len(written))
            /\ limits_placement = "separate" =>
                 Len(records_file.stream) = RecordsEndAt(ends)
        BY <1>3, <2>1 DEF ProgressFits, LimitsComplete
      <3>3. LimitsComplete'
        BY <1>1, <2>1, <3>2 DEF LimitsComplete
      <3>4. ProgressFits(ends)'
        BY <1>1, <1>3, <3>1, <3>2, <3>3 DEF ProgressFits, Opening
      <3>5. MoreAcknowledged(ends)
        BY <1>1, <1>3, <2>1, <3>1, <3>2 DEF MoreAcknowledged
      <3>6. QED
        BY <2>3, <3>4, <3>5, QuietSome
    <2>6. QED
      BY <2>4, <2>5
  <1>10. CASE DeleteLimits
    <2>1. /\ UNCHANGED <<records_file, limits_file>> /\ pc = "delete"
          /\ \/ pc' = "closed" /\ acknowledged' = Len(written)
             \/ pc' = "reset" /\ UNCHANGED acknowledged
          /\ limits_placement = "tail"
      BY <1>10 DEF DeleteLimits, FailClose, Names
    <2>2. Quiet
      BY <1>1, <1>2, <2>1 DEF Quiet
    <2>3. /\ LimitsComplete /\ limits_file.disk = Words(Len(written))
          /\ Len(records_file.stream) = RecordsEndAt(ends) + Words(Len(written))
          /\ records_file.disk = Len(records_file.stream)
      BY <1>3, <2>1 DEF ProgressFits, LimitsComplete
    <2>4. LimitsComplete'
      BY <1>1, <2>1, <2>3 DEF LimitsComplete
    <2>5. ProgressFits(ends)'
      BY <1>1, <1>3, <2>1, <2>3, <2>4 DEF ProgressFits, Opening
    <2>6. MoreAcknowledged(ends)
      BY <1>1, <1>3, <2>1, <2>3 DEF MoreAcknowledged
    <2>7. QED
      BY <2>2, <2>5, <2>6, QuietSome
  <1>11. QED
    BY <1>4, <1>5, <1>6, <1>7, <1>8, <1>9, <1>10

\* The State that goes, with or without the process.
LEMMA ResetFits ==
  ASSUME TypeOK, NEW ends \in [0..Len(written) -> Nat], Fits(ends),
         ResetLimits \/ ResetRecords \/ Crash
  PROVE  SomeFit'
  <1>1. /\ IsFile(records_file) /\ IsFile(limits_file)
        /\ UNCHANGED <<written, acknowledged>>
        /\ \/ pc' = "reset_records" /\ pc = "reset"
           \/ pc' = "destroyed" /\ pc = "reset_records"
           \/ pc' = "crashed"
    BY Sizes DEF ResetLimits, ResetRecords, Crash, history
  <1>2. /\ After(records_file, <<>>, records_file) /\ After(limits_file, <<>>, limits_file)
        /\ After(records_file, <<>>, Lost(records_file))
        /\ After(limits_file, <<>>, Lost(limits_file))
    BY <1>1, SameAfter, LostAfter
  <1>3. After(records_file, <<>>, records_file')
    BY <1>1, <1>2, DestroyedAfter DEF ResetLimits, ResetRecords, Crash
  <1>4. After(limits_file, <<>>, limits_file')
    BY <1>1, <1>2, DestroyedAfter DEF ResetLimits, ResetRecords, Crash
  <1>5. Quiet /\ MoreAcknowledged(ends) /\ ProgressFits(ends)'
    BY <1>1, <1>3, <1>4 DEF Quiet, MoreAcknowledged, ProgressFits, Opening
  <1>6. QED
    BY <1>5, QuietSome

\* Every turn of AppendSourceToDest copies the next bytes of the limits.
LEMMA AppendFits ==
  ASSUME TypeOK, NEW ends \in [0..Len(written) -> Nat], Fits(ends), AppendLimits
  PROVE  SomeFit'
  <1> DEFINE e == RecordsEndAt(ends)
             r == Len(records_file.stream)
             q == Len(records_file'.stream)
             all == Words(Len(written))
  <1>1. /\ IsFile(records_file) /\ IsFile(limits_file) /\ pc = "append"
        /\ UNCHANGED <<written, acknowledged, limits_file>> /\ offset \in Nat
        /\ offset < limits_file.disk
    BY Sizes DEF AppendLimits, history, TypeOK
  <1>2. /\ IsEnds(ends) /\ LimitsFit(ends) /\ RecordsFit(ends) /\ TailFits(ends)
        /\ AcknowledgedFits(ends) /\ ProgressFits(ends)
    BY DEF Fits
  <1>3. /\ e \in Nat /\ r \in Nat /\ all \in Nat /\ RecordsEndAt(ends)' = e
        /\ Words(Len(written')) = all
    BY <1>1, <1>2, Sizes, EndsFacts DEF RecordsEndAt
  <1>4. /\ LimitsComplete /\ limits_file.disk = all /\ Len(limits_file.stream) = all
        /\ r = e + AtMost(offset, all)
    BY <1>1, <1>2 DEF ProgressFits, LimitsComplete
  <1>5. offset < all /\ r = e + offset /\ e <= r
    <2>1. offset < all
      BY <1>1, <1>4
    <2> HIDE DEF e, r, all
    <2>2. AtMost(offset, all) = offset
      BY <1>1, <1>3, <2>1 DEF AtMost
    <2>3. QED
      BY <1>1, <1>3, <1>4, <2>1, <2>2
  <1>6. /\ Turn \in Seq(Byte) /\ Len(Turn) = TurnLength
        /\ TurnLength \in Nat /\ offset + TurnLength <= all
        /\ offset + TurnLength = AtMost(offset + AppendBufferSize, all)
        /\ \A i \in 1..TurnLength : Turn[i] = limits_file.stream[offset + i]
    BY <1>1, <1>4, TurnFacts
  <1>7. \/ /\ Written(records_file, Turn, records_file')
           /\ offset' = offset + AppendBufferSize /\ UNCHANGED pc
        \/ Failed(records_file, Turn, records_file') /\ pc' = "reset"
    BY DEF AppendLimits, Turn, TurnLength, FailClose
  <1>8. After(records_file, Turn, records_file')
    BY <1>1, <1>6, <1>7, WrittenAfter, FailedAfter
  <1>9. /\ RecordsFit(ends)' /\ q \in Nat /\ q <= r + TurnLength
        /\ records_file.disk <= records_file'.disk /\ records_file'.disk \in Nat
        /\ \A i \in 1..q : i <= r => records_file'.stream[i] = records_file.stream[i]
    BY <1>1, <1>2, <1>5, <1>6, <1>8, RecordsKept
  <1>10. \A i \in 1..q : i > r => records_file'.stream[i] = Turn[i - r]
    BY <1>3, <1>8 DEF After
  <1>11. IsEnds(ends)'
    BY <1>1, <1>2 DEF IsEnds
  <1>12. LimitsFit(ends)'
    BY <1>1, <1>2 DEF LimitsFit
  <1>13. AcknowledgedFits(ends)'
    <2>1. records_file.disk >= ends[acknowledged] /\ ends[acknowledged] \in Nat
          /\ records_file.disk \in Nat /\ limits_file.disk >= Words(acknowledged)
      BY <1>2, EndsFacts, Sizes DEF AcknowledgedFits
    <2>2. records_file'.disk >= ends[acknowledged]
      BY <1>9, <2>1
    <2>3. QED
      BY <1>1, <2>1, <2>2 DEF AcknowledgedFits
  <1>14. TailFits(ends)'
    <2>1. LimitsComplete'
      BY <1>1, <1>4 DEF LimitsComplete
    <2>2. q - e <= all
      <3> HIDE DEF e, r, q, all
      <3>1. QED
        BY <1>1, <1>3, <1>5, <1>6, <1>9
    <2>3. ASSUME NEW p \in 1..(q - e)
          PROVE  records_file'.stream[e + p] = limits_file.stream[p]
      <3> HIDE DEF e, r, q, all
      <3>1. e + p \in 1..q /\ p \in Nat /\ p >= 1
        BY <1>3, <1>9, <2>3
      <3>2. CASE p <= offset
        <4>1. /\ e + p <= r /\ p \in 1..(r - e) /\ r - e > 0
          BY <1>1, <1>3, <1>5, <3>1, <3>2
        <4>2. records_file.stream[e + p] = limits_file.stream[p]
          BY <1>1, <1>2, <4>1 DEF TailFits, e, r
        <4>3. QED
          BY <1>9, <3>1, <4>1, <4>2
      <3>3. CASE p > offset
        <4>1. /\ e + p > r /\ p - offset \in 1..TurnLength
              /\ (e + p) - r = p - offset /\ offset + (p - offset) = p
          BY <1>1, <1>3, <1>5, <1>6, <1>9, <3>1, <3>3
        <4>2. records_file'.stream[e + p] = Turn[p - offset]
          BY <1>10, <3>1, <4>1
        <4>3. Turn[p - offset] = limits_file.stream[offset + (p - offset)]
          BY <1>6, <4>1
        <4>4. QED
          BY <4>1, <4>2, <4>3
      <3>4. QED
        BY <1>1, <3>1, <3>2, <3>3
    <2>4. QED
      BY <1>1, <1>3, <1>7, <2>1, <2>2, <2>3 DEF TailFits
  <1>15. ProgressFits(ends)'
    <2>1. CASE pc' = "reset"
      BY <2>1 DEF ProgressFits, Opening
    <2>2. CASE /\ Written(records_file, Turn, records_file')
               /\ offset' = offset + AppendBufferSize /\ UNCHANGED pc
      <3>1. q = r + TurnLength
        BY <1>1, <1>6, <2>2, WrittenAfter
      <3>2. q = e + AtMost(offset', all)
        <4> HIDE DEF e, r, q, all
        <4>1. QED
          BY <1>1, <1>3, <1>5, <1>6, <2>2, <3>1
      <3>3. LimitsComplete'
        BY <1>1, <1>4 DEF LimitsComplete
      <3>4. pc' = "append"
        BY <1>1, <2>2
      <3>5. QED
        BY <1>3, <3>2, <3>3, <3>4 DEF ProgressFits, Opening
    <2>3. QED
      BY <1>7, <2>1, <2>2
  <1>16. Fits(ends)'
    BY <1>9, <1>11, <1>12, <1>13, <1>14, <1>15 DEF Fits
  <1>17. QED
    BY <1>1, <1>16 DEF SomeFit

\* The record in full, or intact is lost; its limit is not written yet.
LEMMA WriteRecordFits ==
  ASSUME TypeOK, NEW ends \in [0..Len(written) -> Nat], Fits(ends), intact', WriteRecord
  PROVE  SomeFit'
  <1> DEFINE e == RecordsEndAt(ends)
             r == Len(records_file.stream)
             q == Len(records_file'.stream)
             all == Words(Len(written))
  <1>1. /\ IsFile(records_file) /\ IsFile(limits_file) /\ pc = "idle"
        /\ UNCHANGED <<written, acknowledged, limits_file>>
        /\ attempts' = attempts + 1 /\ attempts + 1 \in Nat
    BY Sizes, MaxWritesAssumption DEF WriteRecord, TypeOK
  <1>2. PICK size \in RecordSizes :
          /\ Written(records_file, RecordBytes(attempts + 1, size), records_file')
          /\ record_size' = size /\ records_size_' = records_size_ + size
          /\ pc' = "write_limit"
    BY DEF WriteRecord, StaysIntact, MayFail, RecordsSizeAfter
  <1> DEFINE data == RecordBytes(attempts + 1, size)
  <1>3. /\ size \in Nat /\ data \in Seq(Byte) /\ Len(data) = size
        /\ \A j \in 1..size : data[j] = RecordByte(attempts + 1, j)
    <2>1. size \in Nat
      BY RecordSizesAssumption
    <2>2. QED
      BY <1>1, <2>1, RecordBytesFacts
  <1>4. After(records_file, data, records_file') /\ q = r + size
    <2> HIDE DEF data
    <2>1. QED
      BY <1>1, <1>2, <1>3, WrittenAfter DEF data
  <1>5. /\ IsEnds(ends) /\ LimitsFit(ends) /\ RecordsFit(ends)
        /\ AcknowledgedFits(ends) /\ ProgressFits(ends)
    BY DEF Fits
  <1>6. /\ e \in Nat /\ r \in Nat /\ all \in Nat /\ RecordsEndAt(ends)' = e
        /\ Words(Len(written')) = all
    BY <1>1, <1>5, Sizes, EndsFacts DEF RecordsEndAt
  <1>7. Len(limits_file.stream) = all /\ r = e /\ records_size_ = e
    BY <1>1, <1>5 DEF ProgressFits
  <1>8. /\ RecordsFit(ends)'
        /\ records_file.disk <= records_file'.disk /\ records_file'.disk \in Nat
    <2>1. RecordsEndAt(ends) <= Len(records_file.stream)
      BY <1>6, <1>7
    <2> HIDE DEF data, e, r, q
    <2>2. QED
      BY <1>1, <1>3, <1>4, <1>5, <2>1, RecordsKept
  <1>9. IsEnds(ends)' /\ LimitsFit(ends)'
    BY <1>1, <1>5 DEF IsEnds, LimitsFit
  <1>10. AcknowledgedFits(ends)'
    <2>1. records_file.disk >= ends[acknowledged] /\ ends[acknowledged] \in Nat
          /\ records_file.disk \in Nat /\ limits_file.disk >= Words(acknowledged)
      BY <1>5, EndsFacts, Sizes DEF AcknowledgedFits
    <2>2. records_file'.disk >= ends[acknowledged]
      BY <1>8, <2>1
    <2>3. QED
      BY <1>1, <2>1, <2>2 DEF AcknowledgedFits
  <1>11. TailFits(ends)'
    <2>0. \A i \in 1..q : i > r => records_file'.stream[i] = data[i - r]
      BY <1>4, <1>6 DEF After
    <2>1. ASSUME NEW p \in 1..(q - e)
          PROVE  records_file'.stream[e + p] = RecordByte(attempts', p)
      <3> HIDE DEF data, e, r, q
      <3>1. /\ e + p \in 1..q /\ e + p > r /\ (e + p) - r = p /\ p \in 1..size
        BY <1>3, <1>4, <1>6, <1>7, <2>1
      <3>2. records_file'.stream[e + p] = data[(e + p) - r]
        BY <2>0, <3>1
      <3>3. data[p] = RecordByte(attempts + 1, p)
        BY <1>3, <3>1
      <3>4. QED
        BY <1>1, <3>1, <3>2, <3>3
    <2>2. QED
      BY <1>2, <1>6, <2>1 DEF TailFits
  <1>12. ProgressFits(ends)'
    <2>1. q = e + size /\ records_size_' = e + size
      BY <1>2, <1>4, <1>7
    <2>2. QED
      BY <1>1, <1>2, <1>6, <1>7, <2>1 DEF ProgressFits, Opening
  <1>13. Fits(ends)'
    BY <1>8, <1>9, <1>10, <1>11, <1>12 DEF Fits
  <1>14. QED
    BY <1>1, <1>13 DEF SomeFit

\* The limit in full: one more record is written.
LEMMA WriteLimitFits ==
  ASSUME TypeOK, Files, NEW ends \in [0..Len(written) -> Nat], Fits(ends), intact',
         WriteLimit
  PROVE  SomeFit'
  <1> DEFINE n == Len(written)
             e == RecordsEndAt(ends)
             r == Len(records_file.stream)
             l == Len(limits_file.stream)
  <1>1. /\ IsFile(records_file) /\ IsFile(limits_file) /\ pc = "write_limit"
        /\ UNCHANGED <<acknowledged, records_file, records_size_, attempts>>
        /\ pc' = "idle" /\ records_size_ \in Nat /\ record_size \in Nat
        /\ attempts \in 1..MaxWrites /\ record_size \in RecordSizes
    BY Sizes, MaxWritesAssumption DEF WriteLimit, TypeOK, local, Files
  <1>2. /\ Written(limits_file, Word(records_size_), limits_file')
        /\ written' = Append(written, [n |-> attempts, size |-> record_size])
    BY DEF WriteLimit, StaysIntact, MayFail
  <1>3. /\ n \in Nat /\ Len(written') = n + 1
        /\ \A k \in 1..n : written'[k] = written[k]
        /\ written'[n + 1].n = attempts /\ written'[n + 1].size = record_size
    <2> DEFINE new == [n |-> attempts, size |-> record_size]
    <2>1. new \in [n : 1..MaxWrites, size : RecordSizes] /\ new.n = attempts
          /\ new.size = record_size
      BY <1>1
    <2>2. written \in Seq([n : 1..MaxWrites, size : RecordSizes])
      BY DEF TypeOK
    <2>3. written' = Append(written, new)
      BY <1>2
    <2> HIDE DEF new
    <2>4. /\ Len(written') = n + 1 /\ n \in Nat
          /\ \A k \in 1..n : written'[k] = written[k] /\ written'[n + 1] = new
      BY <2>1, <2>2, <2>3, AppendProperties, LenProperties
    <2>5. written'[n + 1] = new
      BY <2>1, <2>2, <2>3, AppendProperties
    <2>6. QED
      BY <2>1, <2>4, <2>5
  <1>4. /\ IsEnds(ends) /\ LimitsFit(ends) /\ RecordsFit(ends) /\ TailFits(ends)
        /\ AcknowledgedFits(ends) /\ ProgressFits(ends)
    BY DEF Fits
  <1>5. /\ e \in Nat /\ r \in Nat /\ l \in Nat /\ Words(n) \in Nat /\ e = ends[n]
        /\ l = Words(n) /\ r = e + record_size /\ records_size_ = e + record_size
    BY <1>1, <1>4, Sizes, EndsFacts DEF ProgressFits, RecordsEndAt
  <1>6. Words(n + 1) = Words(n) + WordSize /\ WordSize \in Nat
    BY <1>3, WordsFacts, WordSizeAssumption
  <1>7. PICK more \in [0..(n + 1) -> Nat] :
          /\ more[n + 1] = records_size_
          /\ \A k \in 0..n : more[k] = ends[k] /\ ends[k] \in Nat /\ ends[k] <= e
    <2> DEFINE f == [k \in 0..(n + 1) |-> IF k = n + 1 THEN records_size_ ELSE ends[k]]
    <2>1. \A k \in 0..n : ends[k] \in Nat /\ ends[k] <= e
      BY <1>3, <1>4, <1>5 DEF IsEnds
    <2>2. \A k \in 0..n : k # n + 1 /\ k \in 0..(n + 1)
      BY <1>3
    <2>3. n + 1 \in 0..(n + 1) /\ \A k \in 0..(n + 1) : k # n + 1 => k \in 0..n
      BY <1>3
    <2>4. f \in [0..(n + 1) -> Nat] /\ f[n + 1] = records_size_
      BY <1>1, <2>1, <2>3
    <2>5. \A k \in 0..n : f[k] = ends[k]
      BY <2>2
    <2>6. QED
      BY <2>1, <2>4, <2>5
  <1>8. IsEnds(more)'
    <2> HIDE DEF e, r, l
    <2>1. more[0] = 0
      BY <1>3, <1>4, <1>7 DEF IsEnds
    <2>2. ASSUME NEW k \in 1..(n + 1)
          PROVE  more[k] = more[k - 1] + written'[k].size
      <3>1. CASE k = n + 1
        <4>1. k - 1 = n /\ n \in 0..n
          BY <1>3, <3>1
        <4>2. QED
          BY <1>3, <1>5, <1>7, <3>1, <4>1
      <3>2. CASE k # n + 1
        <4>1. k \in 1..n /\ k \in 0..n /\ k - 1 \in 0..n
          BY <1>3, <2>2, <3>2
        <4>2. QED
          BY <1>3, <1>4, <1>7, <4>1 DEF IsEnds
      <3>3. QED
        BY <3>1, <3>2
    <2>3. ASSUME NEW i \in 0..(n + 1), NEW j \in 0..(n + 1), i <= j
          PROVE  more[i] <= more[j]
      <3>1. e <= records_size_ /\ records_size_ \in Nat
        BY <1>1, <1>5
      <3>2. CASE j # n + 1
        <4>1. i \in 0..n /\ j \in 0..n
          BY <1>3, <2>3, <3>2
        <4>2. QED
          BY <1>4, <1>7, <2>3, <4>1 DEF IsEnds
      <3>3. CASE j = n + 1 /\ i # n + 1
        <4>1. i \in 0..n
          BY <1>3, <2>3, <3>3
        <4>2. QED
          BY <1>5, <1>7, <3>1, <3>3, <4>1
      <3>4. CASE j = n + 1 /\ i = n + 1
        BY <1>7, <3>1, <3>4
      <3>5. QED
        BY <3>2, <3>3, <3>4
    <2>4. QED
      BY <1>3, <1>7, <2>1, <2>2, <2>3 DEF IsEnds
  <1> DEFINE data == Word(records_size_)
             m == Len(limits_file'.stream)
  <1>9. /\ data \in Seq(Byte) /\ Len(data) = WordSize
        /\ \A j \in 1..WordSize : data[j] = LimitByte(records_size_, j)
    BY <1>1, WordFacts
  <1>10. /\ After(limits_file, data, limits_file') /\ m = l + WordSize
    <2> HIDE DEF data
    <2>1. QED
      BY <1>1, <1>2, <1>9, WrittenAfter DEF data
  <1>11. /\ m = Words(n + 1)
         /\ \A i \in 1..m : limits_file'.stream[i] = IF i <= l THEN limits_file.stream[i]
                                                              ELSE data[i - l]
    BY <1>5, <1>6, <1>10 DEF After
  <1>12. LimitsFit(more)'
    <2> HIDE DEF e, r, l, m, data
    <2>1. ASSUME NEW k \in 1..(n + 1), NEW j \in 1..WordSize, Words(k - 1) + j <= m
          PROVE  limits_file'.stream[Words(k - 1) + j] = LimitByte(more[k], j)
      <3>1. CASE k = n + 1
        <4>1. k - 1 = n
          <5> HIDE DEF n
          <5>1. QED
            BY <1>3, <3>1
        <4>2. /\ l + j \in 1..m /\ ~(l + j <= l) /\ (l + j) - l = j
          <5>1. l \in Nat /\ WordSize \in Nat /\ m = l + WordSize /\ j \in 1..WordSize
            BY <1>5, <1>6, <1>10, <2>1
          <5>2. QED
            BY <5>1
        <4>3. limits_file'.stream[l + j] = data[j]
          BY <1>11, <4>2
        <4>4. QED
          BY <1>5, <1>7, <1>9, <3>1, <4>1, <4>3
      <3>2. CASE k # n + 1
        <4>1. k \in 1..n
          BY <1>3, <2>1, <3>2
        <4>2. /\ Words(k - 1) \in Nat /\ Words(k) = Words(k - 1) + WordSize
              /\ Words(k) <= Words(n) /\ Words(k) \in Nat
          BY <1>3, <4>1, WordsWithin
        <4> DEFINE p == Words(k - 1) + j
                   w == Words(k - 1)
        <4>3. p \in 1..m /\ p <= l
          <5>1. /\ p = w + j /\ w \in Nat /\ w + WordSize <= l /\ j \in 1..WordSize
                /\ l \in Nat /\ WordSize \in Nat /\ m = l + WordSize
            BY <1>5, <1>6, <1>10, <2>1, <4>2
          <5> HIDE DEF p, w
          <5>2. QED
            BY <5>1
        <4>4. limits_file'.stream[p] = limits_file.stream[p]
          BY <1>11, <4>3
        <4>5. limits_file.stream[p] = LimitByte(ends[k], j)
          BY <1>4, <4>1, <4>3 DEF LimitsFit, l, n
        <4>6. more[k] = ends[k]
          BY <1>3, <1>7, <4>1
        <4>7. QED
          BY <4>4, <4>5, <4>6
      <3>3. QED
        BY <3>1, <3>2
    <2>2. m <= Words(n + 1)
      BY <1>5, <1>6, <1>11
    <2>3. QED
      BY <1>3, <2>1, <2>2 DEF LimitsFit, m
  <1>13. RecordsFit(more)'
    <2> HIDE DEF l, m, data
    <2>1. ASSUME NEW k \in 1..(n + 1), NEW j \in 1..written'[k].size, more[k - 1] + j <= r
          PROVE  records_file.stream[more[k - 1] + j] = RecordByte(written'[k].n, j)
      <3>1. CASE k = n + 1
        <4>1. k - 1 = n /\ n \in 0..n
          BY <1>3, <3>1
        <4>2. j \in 1..record_size /\ more[k - 1] = e /\ written'[k].n = attempts
          BY <1>3, <1>5, <1>7, <2>1, <3>1, <4>1
        <4>3. j \in 1..(r - e) /\ r - e > 0
          <5> HIDE DEF r, e
          <5>1. QED
            BY <1>1, <1>5, <4>2
        <4>5. \A p \in 1..(r - e) : records_file.stream[e + p] = RecordByte(attempts, p)
          BY <1>1, <1>4, <4>3 DEF TailFits
        <4>6. QED
          BY <4>2, <4>3, <4>5
      <3>2. CASE k # n + 1
        <4>1. k \in 1..n /\ k - 1 \in 0..n
          BY <1>3, <2>1, <3>2
        <4>2. written'[k] = written[k] /\ more[k - 1] = ends[k - 1]
          BY <1>3, <1>7, <4>1
        <4>3. QED
          BY <1>4, <2>1, <4>1, <4>2 DEF RecordsFit
      <3>3. QED
        BY <3>1, <3>2
    <2>2. QED
      BY <1>1, <1>3, <2>1 DEF RecordsFit
  <1>14. RecordsEndAt(more)' = records_size_
    <2>1. QED
      BY <1>3, <1>7 DEF RecordsEndAt
  <1>15. TailFits(more)'
    <2>1. ~(Len(records_file'.stream) - RecordsEndAt(more)' > 0)
      BY <1>1, <1>5, <1>14
    <2>2. QED
      BY <2>1 DEF TailFits
  <1>16. AcknowledgedFits(more)'
    <2>1. /\ limits_file.disk >= Words(acknowledged) /\ limits_file.disk \in Nat
          /\ records_file.disk >= ends[acknowledged] /\ Words(acknowledged) \in Nat
          /\ acknowledged \in 0..n
      BY <1>4, Sizes DEF AcknowledgedFits
    <2>2. IsFile(limits_file') /\ limits_file.disk <= limits_file'.disk
      BY <1>10 DEF After
    <2>3. limits_file'.disk \in Nat
      BY <2>2, FileFacts
    <2>4. limits_file'.disk >= Words(acknowledged)
      BY <2>1, <2>2, <2>3
    <2>5. QED
      BY <1>1, <1>7, <2>1, <2>4 DEF AcknowledgedFits
  <1>17. ProgressFits(more)'
    <2>1. /\ Len(limits_file'.stream) = Words(Len(written'))
          /\ Len(records_file'.stream) = RecordsEndAt(more)'
          /\ records_size_' = RecordsEndAt(more)'
      BY <1>1, <1>3, <1>5, <1>11, <1>14
    <2>2. QED
      BY <1>1, <2>1 DEF ProgressFits, Opening
  <1>18. Fits(more)'
    BY <1>8, <1>12, <1>13, <1>15, <1>16, <1>17 DEF Fits
  <1>19. more \in [0..Len(written') -> Nat]
    BY <1>3, <1>7
  <1>20. QED
    <2>1. QED
      BY <1>18, <1>19 DEF SomeFit

\* A step that changes nothing keeps what the files hold.
LEMMA UnchangedFits ==
  ASSUME SomeFit, UNCHANGED vars
  PROVE  SomeFit'
  <1>1. PICK ends \in [0..Len(written) -> Nat] : Fits(ends)
    BY DEF SomeFit
  <1>2. UNCHANGED <<records_file, limits_file, written, pc, attempts, acknowledged,
                    records_size_, record_size, offset, limits_placement>>
    BY DEF vars, files, local, history
  <1>3. IsEnds(ends)' /\ LimitsFit(ends)' /\ RecordsFit(ends)'
    BY <1>1, <1>2 DEF Fits, IsEnds, LimitsFit, RecordsFit
  <1>4. TailFits(ends)' /\ AcknowledgedFits(ends)'
    BY <1>1, <1>2 DEF Fits, TailFits, AcknowledgedFits, RecordsEndAt, LimitsComplete
  <1>5. ProgressFits(ends)'
    BY <1>1, <1>2 DEF Fits, ProgressFits, RecordsEndAt, LimitsComplete
  <1>6. QED
    BY <1>1, <1>2, <1>3, <1>4, <1>5 DEF SomeFit, Fits

\* Once a call has failed the writer is never intact again.
LEMMA IntactBefore ==
  ASSUME [Next]_vars, intact'
  PROVE  intact
  BY DEF Next, OpenRecords, OpenLimits, Writing, CompressFails, WriteRecord, WriteLimit,
         Flushing, FlushLimits, FlushRecords, CloseLimits, Destroy, Closing,
         OpenLimitsToRead, AppendLimits, AppendEnds, CloseRecords, DeleteLimits,
         ResetLimits, ResetRecords, Crash, Over, StaysIntact, history, vars

\* The invariant is inductive.
LEMMA InvariantStep == IInv /\ [Next]_vars => IInv'
  <1> SUFFICES ASSUME IInv, [Next]_vars
               PROVE  IInv'
    OBVIOUS
  <1>1. TypeOK /\ Files /\ Names /\ TypeOK' /\ Files' /\ Names'
    BY TypeStep DEF IInv
  <1>2. ASSUME intact' PROVE SomeFit'
    <2>1. SomeFit
      BY <1>2, IntactBefore DEF IInv
    <2>2. PICK ends \in [0..Len(written) -> Nat] : Fits(ends)
      BY <2>1 DEF SomeFit
    <2>3. CASE OpenRecords \/ OpenLimits
      BY <1>1, <2>2, <2>3, OpeningFits
    <2>4. CASE WriteRecord
      BY <1>1, <1>2, <2>2, <2>4, WriteRecordFits
    <2>5. CASE WriteLimit
      BY <1>1, <1>2, <2>2, <2>5, WriteLimitFits
    <2>6. CASE Flushing
      BY <1>1, <1>2, <2>2, <2>6, FlushingFits
    <2>7. CASE CompressFails \/ CloseLimits \/ Destroy \/ OpenLimitsToRead \/ AppendEnds
               \/ CloseRecords \/ DeleteLimits
      BY <1>1, <2>2, <2>7, ClosingFits
    <2>8. CASE AppendLimits
      BY <1>1, <2>2, <2>8, AppendFits
    <2>9. CASE ResetLimits \/ ResetRecords \/ Crash
      BY <1>1, <2>2, <2>9, ResetFits
    <2>10. CASE UNCHANGED vars
      BY <2>1, <2>10, UnchangedFits
    <2>11. QED
      BY <2>3, <2>4, <2>5, <2>6, <2>7, <2>8, <2>9, <2>10 DEF Next, Writing, Closing, Over
  <1>3. QED
    BY <1>1, <1>2 DEF IInv

\* What the files hold at every moment of the writer's life.
THEOREM Invariant == Spec => []IInv
  <1>1. Init => IInv
    BY TypeInit, InitFits DEF IInv
  <1>2. QED
    BY <1>1, InvariantStep, PTL DEF Spec

-----------------------------------------------------------------------------
(* What a reader finds *)

\* The division of ShardSize counts the limits that are there in full.
LEMMA DivFacts ==
  ASSUME NEW x \in Nat, NEW k \in Nat
  PROVE  /\ x \div WordSize \in Nat
         /\ k <= x \div WordSize <=> Words(k) <= x
  <1> DEFINE q == x \div WordSize
  <1>1. WordSize \in Nat /\ WordSize > 0
    BY WordSizeAssumption
  <1>2. q \in Nat /\ q * WordSize <= x /\ x < q * WordSize + WordSize
    BY <1>1
  <1>3. Words(q) <= x /\ x < Words(q + 1) /\ Words(q) \in Nat /\ Words(q + 1) \in Nat
    BY <1>1, <1>2, WordsFacts DEF Words
  <1> HIDE DEF q
  <1>4. Words(k) \in Nat
    BY WordsFacts
  <1>5. CASE k <= q
    <2>1. Words(k) <= Words(q)
      BY <1>2, <1>5, WordsFacts
    <2>2. QED
      BY <1>2, <1>3, <1>4, <1>5, <2>1 DEF q
  <1>6. CASE ~(k <= q)
    <2>1. q + 1 <= k /\ q + 1 \in Nat
      BY <1>2, <1>6
    <2>2. Words(q + 1) <= Words(k)
      BY <2>1, WordsFacts
    <2>3. ~(Words(k) <= x)
      BY <1>3, <1>4, <2>2
    <2>4. QED
      BY <1>2, <1>6, <2>3 DEF q
  <1>7. QED
    BY <1>5, <1>6

\* A limit decodes to itself.
LEMMA DecodeWord ==
  ASSUME NEW v \in Nat
  PROVE  Decode(Word(v)) = v
  <1>1. 1 \in 1..WordSize
    BY WordSizeAssumption
  <1>2. Word(v)[1] = LimitByte(v, 1)
    BY <1>1, WordFacts
  <1>3. Word(v)[1].n = v
    BY <1>2 DEF LimitByte
  <1>4. QED
    BY <1>3 DEF Decode

IsPart(s, t) ==
  /\ s \in Seq(Byte) /\ Len(s) <= Len(t)
  /\ \A i \in 1..Len(s) : s[i] = t[i]

\* What a reader finds is a prefix of what was written.
LEMMA OnDiskIsPart ==
  ASSUME NEW f, IsFile(f)
  PROVE  IsPart(OnDisk(f), f.stream)
  BY OnDiskFacts, FileFacts DEF IsPart

\* A limit that is there in full is the end of its record.
LEMMA LimitIs ==
  ASSUME TypeOK, NEW ends, IsEnds(ends), LimitsFit(ends),
         NEW limits, IsPart(limits, limits_file.stream),
         NEW k \in 0..Len(written), Words(k) <= Len(limits)
  PROVE  Limit(limits, k) = ends[k]
  <1>1. CASE k = 0
    BY <1>1 DEF Limit, IsEnds
  <1>2. CASE k # 0
    <2>1. k \in 1..Len(written) /\ Len(written) \in Nat
      BY <1>2, Sizes
    <2> DEFINE w == Words(k - 1)
               v == ends[k]
    <2>2. /\ w \in Nat /\ Words(k) = w + WordSize /\ WordSize \in Nat /\ WordSize > 0
          /\ (k - 1) * WordSize = w /\ k * WordSize = w + WordSize
      <3>1. w \in Nat /\ Words(k) = w + WordSize
        BY <2>1, WordsWithin
      <3>2. QED
        BY <3>1, WordSizeAssumption DEF Words
    <2>3. v \in Nat /\ limits \in Seq(Byte) /\ Len(limits) \in Nat
          /\ Len(limits_file.stream) \in Nat
      BY <2>1, EndsFacts, Sizes, LenProperties DEF IsPart
    <2> DEFINE word == SubSeq(limits, w + 1, w + WordSize)
    <2>4. /\ word \in Seq(Byte) /\ Len(word) = WordSize
          /\ \A j \in 1..WordSize : word[j] = limits[w + j]
      <3> HIDE DEF w
      <3> DEFINE last == w + WordSize
      <3>1. last \in Nat /\ w <= last /\ last <= Len(limits) /\ last - w = WordSize
        BY <2>2, <2>3
      <3> HIDE DEF last
      <3>2. /\ SubSeq(limits, w + 1, last) \in Seq(Byte)
            /\ Len(SubSeq(limits, w + 1, last)) = last - w
            /\ \A i \in 1..(last - w) : SubSeq(limits, w + 1, last)[i] = limits[w + i]
        BY <2>2, <2>3, <3>1, Piece
      <3>3. QED
        BY <3>1, <3>2 DEF last
    <2>5. ASSUME NEW j \in 1..WordSize
          PROVE  word[j] = LimitByte(v, j)
      <3>1. w + j \in 1..Len(limits) /\ w + j <= Len(limits_file.stream)
        <4>1. /\ w \in Nat /\ w + WordSize <= Len(limits) /\ WordSize \in Nat
              /\ Len(limits) <= Len(limits_file.stream)
          BY <2>2 DEF IsPart
        <4> HIDE DEF w
        <4>2. QED
          BY <2>3, <2>5, <4>1
      <3>2. limits[w + j] = limits_file.stream[w + j]
        BY <3>1 DEF IsPart
      <3>3. limits_file.stream[w + j] = LimitByte(v, j)
        BY <2>1, <3>1 DEF LimitsFit
      <3>4. QED
        <4> HIDE DEF w, v, word
        <4>1. QED
          BY <2>4, <2>5, <3>2, <3>3
    <2>6. word = Word(v)
      <3> HIDE DEF word, v
      <3>1. Word(v) \in Seq(Byte) /\ Len(Word(v)) = WordSize
            /\ \A j \in 1..WordSize : Word(v)[j] = LimitByte(v, j)
        BY <2>3, WordFacts
      <3>2. QED
        BY <2>4, <2>5, <3>1, SeqEqual
    <2>7. Limit(limits, k) = Decode(word)
      BY <1>2, <2>2 DEF Limit
    <2>8. QED
      <3> HIDE DEF word, v
      <3>1. Decode(word) = v
        BY <2>3, <2>6, DecodeWord
      <3>2. QED
        BY <2>7, <3>1 DEF v
  <1>3. QED
    BY <1>1, <1>2

\* The bytes between the ends of two records.
LEMMA ContentIs ==
  ASSUME TypeOK, NEW ends, IsEnds(ends), RecordsFit(ends),
         NEW records, IsPart(records, records_file.stream),
         NEW k \in 1..Len(written), ends[k] <= Len(records)
  PROVE  SubSeq(records, ends[k - 1] + 1, ends[k]) = Content(k)
  <1> DEFINE first == ends[k - 1]
             last == ends[k]
             size == written[k].size
             piece == SubSeq(records, first + 1, last)
  <1>1. /\ first \in Nat /\ last \in Nat /\ size \in Nat /\ last = first + size
        /\ written[k].n \in Nat
    BY EndsFacts, Sizes
  <1>2. records \in Seq(Byte) /\ Len(records) \in Nat
        /\ Len(records) <= Len(records_file.stream) /\ Len(records_file.stream) \in Nat
    BY LenProperties, Sizes DEF IsPart
  <1>3. first <= last /\ last - first = size
    <2> HIDE DEF first, last, size
    <2>1. QED
      BY <1>1
  <1>4. /\ piece \in Seq(Byte) /\ Len(piece) = size
        /\ \A i \in 1..size : piece[i] = records[first + i]
    <2> HIDE DEF first, last, size
    <2>1. last <= Len(records)
      BY DEF last
    <2>2. QED
      BY <1>1, <1>2, <1>3, <2>1, Piece
  <1>5. ASSUME NEW i \in 1..size
        PROVE  piece[i] = RecordByte(written[k].n, i)
    <2>1. first + i \in 1..Len(records) /\ first + i <= Len(records_file.stream)
      <3>1. last <= Len(records)
        OBVIOUS
      <3> HIDE DEF first, last, size
      <3>2. QED
        BY <1>1, <1>2, <1>5, <3>1
    <2>2. records[first + i] = records_file.stream[first + i]
      BY <2>1 DEF IsPart
    <2>3. records_file.stream[first + i] = RecordByte(written[k].n, i)
      BY <2>1 DEF RecordsFit
    <2>4. QED
      <3> HIDE DEF first, last, size, piece
      <3>1. QED
        BY <1>4, <1>5, <2>2, <2>3
  <1>6. /\ Content(k) \in Seq(Byte) /\ Len(Content(k)) = size
        /\ \A i \in 1..size : Content(k)[i] = RecordByte(written[k].n, i)
    BY <1>1, RecordBytesFacts DEF Content
  <1>7. QED
    <2> HIDE DEF piece, size
    <2>1. piece = Content(k)
      BY <1>4, <1>5, <1>6, SeqEqual
    <2>2. QED
      BY <2>1 DEF piece

\* A record whose limit is there in full is shown when it is there in full,
\* and nothing else is shown for it.
LEMMA ShowsContent ==
  ASSUME TypeOK, NEW ends, IsEnds(ends), LimitsFit(ends), RecordsFit(ends),
         NEW records, IsPart(records, records_file.stream),
         NEW limits, IsPart(limits, limits_file.stream),
         NEW k \in 1..Len(written), Words(k) <= Len(limits)
  PROVE  /\ k \in 1..ShardSize(limits)
         /\ ends[k] <= Len(records) => Shows(records, limits, k, Content(k))
         /\ \A data : Shows(records, limits, k, data) /\ records # <<>> =>
              ends[k] <= Len(records) /\ data = Content(k)
  <1>1. /\ ends[k - 1] \in Nat /\ ends[k] \in Nat /\ k - 1 \in 0..Len(written)
        /\ k \in 0..Len(written) /\ ends[k] = ends[k - 1] + written[k].size
        /\ written[k].size \in Nat
    BY EndsFacts, Sizes
  <1>2. Len(limits) \in Nat /\ Len(records) \in Nat
    BY LenProperties DEF IsPart
  <1>3. Words(k - 1) <= Len(limits)
    <2>1. Words(k - 1) \in Nat /\ Words(k) = Words(k - 1) + WordSize /\ WordSize \in Nat
      BY WordsWithin, WordSizeAssumption, Sizes
    <2>2. QED
      BY <1>2, <2>1
  <1>4. Limit(limits, k) = ends[k] /\ Limit(limits, k - 1) = ends[k - 1]
    BY <1>1, <1>3, LimitIs
  <1>5. k \in 1..ShardSize(limits)
    <2>1. k \in Nat /\ k >= 1
      BY Sizes
    <2>2. ShardSize(limits) \in Nat /\ k <= ShardSize(limits)
      BY <1>2, <2>1, DivFacts DEF ShardSize
    <2>3. QED
      BY <2>1, <2>2
  <1>6. 0 <= ends[k - 1] /\ ends[k - 1] <= ends[k]
    BY <1>1
  <1>7. ASSUME ends[k] <= Len(records)
        PROVE  Shows(records, limits, k, Content(k))
    <2>1. CASE records = <<>>
      <3>1. Len(records) = 0
        BY <2>1, EmptySeq
      <3>2. written[k].size = 0
        BY <1>1, <1>7, <3>1
      <3>3. Content(k) \in Seq(Byte) /\ Len(Content(k)) = 0
        BY <1>1, <3>2, Sizes, RecordBytesFacts DEF Content
      <3>4. Content(k) = <<>>
        BY <3>3, EmptySeq
      <3>5. QED
        BY <1>5, <2>1, <3>4 DEF Shows
    <2>2. CASE records # <<>>
      <3>1. SubSeq(records, ends[k - 1] + 1, ends[k]) = Content(k)
        BY <1>7, ContentIs
      <3>2. QED
        BY <1>4, <1>5, <1>6, <1>7, <2>2, <3>1 DEF Shows
    <2>3. QED
      BY <2>1, <2>2
  <1>8. ASSUME NEW data, Shows(records, limits, k, data), records # <<>>
        PROVE  ends[k] <= Len(records) /\ data = Content(k)
    <2>1. /\ ends[k] <= Len(records)
          /\ data = SubSeq(records, ends[k - 1] + 1, ends[k])
      BY <1>4, <1>8 DEF Shows
    <2>2. QED
      BY <2>1, ContentIs
  <1>9. QED
    BY <1>5, <1>7, <1>8

\* The number of limits in a file that ends where one of them does.
LEMMA SizeIs ==
  ASSUME NEW n \in Nat
  PROVE  Words(n) \div WordSize = n /\ Words(n) % WordSize = 0
  <1> DEFINE x == Words(n)
             q == x \div WordSize
  <1>0. WordSize \in Nat /\ WordSize > 0
    BY WordSizeAssumption
  <1>1. x \in Nat /\ Words(n + 1) = x + WordSize
    BY WordsFacts
  <1>2. q \in Nat /\ (n <= q <=> x <= x) /\ (n + 1 <= q <=> Words(n + 1) <= x)
    <2> HIDE DEF x
    <2>1. n + 1 \in Nat
      OBVIOUS
    <2>2. QED
      BY <1>1, <2>1, DivFacts DEF x
  <1>3. q = n
    <2> HIDE DEF q, x
    <2>1. QED
      BY <1>0, <1>1, <1>2
  <1>4. x = q * WordSize + (x % WordSize) /\ x % WordSize \in Int
    <2> HIDE DEF x
    <2>1. QED
      BY <1>0, <1>1
  <1>5. x = q * WordSize
    <2>1. x = n * WordSize
      BY DEF Words
    <2> HIDE DEF x, q
    <2>2. QED
      BY <1>3, <2>1
  <1>6. x % WordSize = 0
    <2> DEFINE y == q * WordSize
               m == x % WordSize
    <2>1. x = y + m /\ x = y /\ m \in Int
      BY <1>4, <1>5
    <2> HIDE DEF y, m, x
    <2>2. m = 0
      BY <1>1, <2>1
    <2>3. QED
      BY <2>2 DEF m
  <1>7. QED
    BY <1>3, <1>6

\* A part of a file is shown like the file.
LEMMA SeparateWritten ==
  ASSUME TypeOK, NEW ends, Fits(ends), limits_name, NEW k \in 1..Len(written),
         Words(k) <= limits_file.disk, ends[k] <= records_file.disk
  PROVE  SeparateShows(k, Content(k))
  <1>1. /\ IsFile(records_file) /\ IsFile(limits_file)
        /\ IsPart(OnDisk(records_file), records_file.stream)
        /\ IsPart(OnDisk(limits_file), limits_file.stream)
        /\ Len(OnDisk(records_file)) = records_file.disk
        /\ Len(OnDisk(limits_file)) = limits_file.disk
    BY Sizes, OnDiskIsPart, OnDiskFacts
  <1>2. IsEnds(ends) /\ LimitsFit(ends) /\ RecordsFit(ends)
    BY DEF Fits
  <1>3. Shows(OnDisk(records_file), OnDisk(limits_file), k, Content(k))
    BY <1>1, <1>2, ShowsContent
  <1>4. QED
    BY <1>3 DEF SeparateShows

\* A tail that is there in full is as good as the limits file.
LEMMA CompleteTail ==
  ASSUME TypeOK, NEW ends, Fits(ends), pc \in {"delete", "closed"},
         limits_placement = "tail"
  PROVE  LET bag == OnDisk(records_file)
         IN  /\ Splits(bag)
             /\ ShardSize(LimitsOf(bag)) = Len(written)
             /\ \A k \in 1..Len(written) : TailShows(k, Content(k))
  <1> DEFINE bag == OnDisk(records_file)
             n == Len(written)
             e == RecordsEndAt(ends)
             all == Words(n)
             size == Len(bag)
  <1>1. /\ IsFile(records_file) /\ IsFile(limits_file) /\ n \in Nat /\ all \in Nat
        /\ IsEnds(ends) /\ LimitsFit(ends) /\ RecordsFit(ends) /\ TailFits(ends)
        /\ e \in Nat /\ e = ends[n] /\ ends[0] = 0
    BY Sizes, EndsFacts DEF Fits, RecordsEndAt, IsEnds
  <1>2. /\ Len(records_file.stream) = e + all /\ records_file.disk = e + all
        /\ LimitsComplete /\ Len(limits_file.stream) = all
    BY DEF Fits, ProgressFits, LimitsComplete
  <1>3. /\ bag \in Seq(Byte) /\ size = e + all
        /\ \A i \in 1..size : bag[i] = records_file.stream[i]
    BY <1>1, <1>2, OnDiskFacts
  <1>4. CASE n = 0
    <2>1. all = 0 /\ e = 0
      BY <1>1, <1>4, WordsFacts
    <2>2. bag = <<>>
      <3> HIDE DEF bag, e, all
      <3>1. Len(bag) = 0
        BY <1>3, <2>1
      <3>2. QED
        BY <1>3, <3>1, EmptySeq
    <2>3. Splits(bag) /\ LimitsOf(bag) = <<>>
      BY <2>2 DEF Splits, LimitsOf
    <2>4. ShardSize(LimitsOf(bag)) = n
      <3>1. Words(0) = 0 /\ Words(0) \div WordSize = 0
        BY SizeIs, WordsFacts
      <3>2. QED
        BY <1>4, <2>3, <3>1, EmptySeq DEF ShardSize
    <2>5. QED
      BY <1>4, <2>3, <2>4
  <1>5. CASE n # 0
    <2> DEFINE w == Words(n - 1)
    <2>1. /\ n \in 1..n /\ w \in Nat /\ all = w + WordSize /\ WordSize \in Nat
          /\ WordSize > 0
      <3>1. n \in 1..n
        BY <1>1, <1>5
      <3>2. QED
        BY <1>1, <3>1, WordsWithin, WordSizeAssumption
    <2>2. \A p \in 1..all : bag[e + p] = limits_file.stream[p]
      <3> HIDE DEF all, e, bag
      <3>1. (e + all) - e = all /\ all > 0
        BY <1>1, <2>1
      <3>2. \A p \in 1..all : records_file.stream[e + p] = limits_file.stream[p]
        <4>1. Len(records_file.stream) - e = all
          BY <1>2, <3>1
        <4>2. QED
          BY <1>1, <3>1, <4>1 DEF TailFits, e
      <3>3. \A p \in 1..all : e + p \in 1..size
        BY <1>1, <1>3
      <3>4. QED
        BY <1>3, <3>2, <3>3
    <2> DEFINE word == SubSeq(bag, size - WordSize + 1, size)
               from == size - WordSize
    <2>3. /\ from \in Nat /\ from = e + w /\ size - from = WordSize /\ size \in Nat
          /\ from <= size
      <3>1. /\ e \in Nat /\ w \in Nat /\ WordSize \in Nat
            /\ size = e + (w + WordSize)
        BY <1>1, <1>3, <2>1
      <3> HIDE DEF e, size, w
      <3>2. QED
        BY <3>1
    <2>4. /\ word \in Seq(Byte) /\ Len(word) = WordSize
          /\ \A j \in 1..WordSize : word[j] = bag[from + j]
      <3>1. size <= Len(bag) /\ word = SubSeq(bag, from + 1, size)
        BY <2>3
      <3> HIDE DEF from, size, word
      <3>2. QED
        BY <1>3, <2>3, <3>1, Piece
    <2>5. ASSUME NEW j \in 1..WordSize
          PROVE  word[j] = LimitByte(e, j)
      <3> HIDE DEF e, from, word, bag, w, all
      <3>1. from + j = e + (w + j) /\ w + j \in 1..all
        BY <1>1, <2>1, <2>3, <2>5
      <3>2. limits_file.stream[w + j] = LimitByte(ends[n], j)
        <4>1. w + j <= Len(limits_file.stream)
          BY <1>1, <1>2, <2>1, <3>1
        <4>2. QED
          BY <1>1, <2>1, <2>5, <4>1 DEF LimitsFit, w
      <3>3. QED
        BY <1>1, <2>2, <2>4, <2>5, <3>1, <3>2
    <2>6. RecordsEnd(bag) = e
      <3> HIDE DEF e, word, bag
      <3>1. Word(e) \in Seq(Byte) /\ Len(Word(e)) = WordSize
            /\ \A j \in 1..WordSize : Word(e)[j] = LimitByte(e, j)
        BY <1>1, WordFacts
      <3>2. word = Word(e)
        BY <2>4, <2>5, <3>1, SeqEqual
      <3>3. Decode(word) = e
        BY <1>1, <3>2, DecodeWord
      <3>4. QED
        BY <3>3 DEF RecordsEnd, word
    <2>7. Splits(bag) /\ bag # <<>>
      <3>1. size >= WordSize /\ e \in 0..(size - WordSize) /\ size - e = all /\ size > 0
        <4> HIDE DEF e, bag, w, all
        <4>1. QED
          BY <1>1, <1>3, <2>1
      <3>2. (size - e) % WordSize = 0
        BY <1>1, <3>1, SizeIs
      <3>3. bag # <<>>
        BY <3>1, EmptySeq
      <3>4. QED
        BY <2>6, <3>1, <3>2, <3>3 DEF Splits
    <2> DEFINE records == SubSeq(bag, 1, e)
               limits == SubSeq(bag, e + 1, size)
    <2>8. RecordsOf(bag) = records /\ LimitsOf(bag) = limits
      BY <2>6, <2>7 DEF RecordsOf, LimitsOf
    <2>9. IsPart(records, records_file.stream) /\ Len(records) = e
      <3>1. /\ 0 \in Nat /\ 0 <= e /\ e <= Len(bag) /\ e - 0 = e /\ 0 + 1 = 1
            /\ e <= Len(records_file.stream)
            /\ \A i \in 1..e : i \in 1..size /\ 0 + i = i
        <4> HIDE DEF e, bag, all
        <4>1. QED
          BY <1>1, <1>2, <1>3
      <3> HIDE DEF e, bag
      <3>2. /\ SubSeq(bag, 0 + 1, e) \in Seq(Byte) /\ Len(SubSeq(bag, 0 + 1, e)) = e - 0
            /\ \A i \in 1..(e - 0) : SubSeq(bag, 0 + 1, e)[i] = bag[0 + i]
        BY <1>1, <1>3, <3>1, Piece
      <3>3. /\ records \in Seq(Byte) /\ Len(records) = e
            /\ \A i \in 1..e : records[i] = bag[i]
        BY <3>1, <3>2
      <3>4. QED
        BY <1>3, <3>1, <3>3 DEF IsPart
    <2>10. IsPart(limits, limits_file.stream) /\ Len(limits) = all
      <3>1. e <= size /\ size - e = all /\ size \in Nat
        <4> HIDE DEF e, bag, all
        <4>1. QED
          BY <1>1, <1>3
      <3>2. /\ limits \in Seq(Byte) /\ Len(limits) = size - e
            /\ \A i \in 1..(size - e) : limits[i] = bag[e + i]
        <4>1. /\ size <= Len(bag) /\ size \in Nat /\ e \in Nat /\ e <= size
              /\ bag \in Seq(Byte)
          BY <1>1, <1>3, <3>1
        <4> HIDE DEF e, bag, size
        <4>2. QED
          BY <4>1, Piece
      <3> HIDE DEF e, bag, all, limits, size
      <3>3. Len(limits) = all /\ \A i \in 1..all : limits[i] = bag[e + i]
        BY <3>1, <3>2
      <3>4. QED
        BY <1>1, <1>2, <2>2, <3>2, <3>3 DEF IsPart
    <2>11. ShardSize(LimitsOf(bag)) = n
      BY <1>1, <2>8, <2>10, SizeIs DEF ShardSize
    <2>12. ASSUME NEW k \in 1..n
           PROVE  TailShows(k, Content(k))
      <3>1. Words(k) <= Len(limits) /\ ends[k] <= Len(records)
        BY <1>1, <2>9, <2>10, WordsWithin, EndsFacts
      <3>2. Shows(records, limits, k, Content(k))
        <4> HIDE DEF records, limits
        <4>1. QED
          BY <1>1, <2>9, <2>10, <3>1, ShowsContent
      <3>3. QED
        BY <2>7, <2>8, <3>2 DEF TailShows
    <2>13. QED
      BY <2>7, <2>11, <2>12
  <1>6. QED
    BY <1>4, <1>5

-----------------------------------------------------------------------------
(* The properties of a state *)

\* The invariant makes acknowledged records readable: they are on the disk, in the
\* two files until the limits file is deleted and in the tail from then on.
LEMMA FitsReadable == IInv => AcknowledgedIsReadable
  <1> SUFFICES ASSUME IInv, intact, NEW k \in 1..acknowledged
               PROVE  Readable(k)
    BY DEF AcknowledgedIsReadable
  <1>1. TypeOK /\ Names /\ SomeFit
    BY DEF IInv
  <1>2. PICK ends \in [0..Len(written) -> Nat] : Fits(ends)
    BY <1>1 DEF SomeFit
  <1>3. /\ Len(written) \in Nat /\ acknowledged \in 0..Len(written)
        /\ limits_file.disk \in Nat /\ records_file.disk \in Nat
        /\ k \in 1..Len(written) /\ k \in 0..Len(written) /\ k <= acknowledged
    BY <1>1, Sizes
  <1>4. CASE limits_name
    <2>1. /\ limits_file.disk >= Words(acknowledged)
          /\ records_file.disk >= ends[acknowledged]
      BY <1>2 DEF Fits, AcknowledgedFits
    <2>2. /\ Words(k) \in Nat /\ Words(acknowledged) \in Nat
          /\ Words(k) <= Words(acknowledged)
      BY <1>3, WordsFacts
    <2>3. ends[k] \in Nat /\ ends[acknowledged] \in Nat /\ ends[k] <= ends[acknowledged]
      BY <1>2, <1>3 DEF Fits, IsEnds
    <2>4. Words(k) <= limits_file.disk /\ ends[k] <= records_file.disk
      BY <1>3, <2>1, <2>2, <2>3
    <2>5. QED
      BY <1>1, <1>2, <1>3, <1>4, <2>4, SeparateWritten DEF Readable
  <1>5. CASE ~limits_name
    <2>1. written # <<>>
      BY <1>3, EmptySeq
    <2>2. pc = "closed" /\ limits_placement = "tail"
      BY <1>1, <1>5, <2>1 DEF Names
    <2>3. QED
      BY <1>1, <1>2, <1>3, <2>2, CompleteTail DEF Readable
  <1>6. QED
    BY <1>4, <1>5

\* The invariant makes a closed bag exact.
LEMMA FitsExact == IInv => ClosedBagIsExact
  <1> SUFFICES ASSUME IInv, intact, pc = "closed"
               PROVE  LET bag == OnDisk(records_file)
                      IN  IF limits_placement = "tail"
                            THEN /\ Splits(bag)
                                 /\ ShardSize(LimitsOf(bag)) = Len(written)
                                 /\ \A k \in 1..Len(written) : TailShows(k, Content(k))
                                 /\ ~limits_name
                            ELSE /\ ShardSize(OnDisk(limits_file)) = Len(written)
                                 /\ \A k \in 1..Len(written) : SeparateShows(k, Content(k))
    BY DEF ClosedBagIsExact
  <1>1. TypeOK /\ Names /\ SomeFit
    BY DEF IInv
  <1>2. PICK ends \in [0..Len(written) -> Nat] : Fits(ends)
    BY <1>1 DEF SomeFit
  <1>3. CASE limits_placement = "tail"
    BY <1>1, <1>2, <1>3, CompleteTail DEF Names
  <1>4. CASE limits_placement # "tail"
    <2>1. limits_placement = "separate" /\ limits_name
      BY <1>1, <1>4 DEF TypeOK, Names, Opening
    <2>2. /\ LimitsComplete /\ records_file.disk = RecordsEndAt(ends)
          /\ limits_file.disk = Words(Len(written))
      BY <1>2, <2>1 DEF Fits, ProgressFits, LimitsComplete
    <2>3. ShardSize(OnDisk(limits_file)) = Len(written)
      <3>1. Len(OnDisk(limits_file)) = Words(Len(written)) /\ Len(written) \in Nat
        BY <1>1, <2>2, Sizes, OnDiskFacts
      <3>2. QED
        BY <3>1, SizeIs DEF ShardSize
    <2>4. ASSUME NEW k \in 1..Len(written)
          PROVE  SeparateShows(k, Content(k))
      <3>1. Words(k) <= limits_file.disk /\ ends[k] <= records_file.disk
        BY <1>1, <1>2, <2>2, <2>4, Sizes, WordsWithin, EndsFacts DEF Fits
      <3>2. QED
        BY <1>1, <1>2, <2>1, <3>1, SeparateWritten
    <2>5. QED
      BY <1>4, <2>3, <2>4
  <1>5. QED
    BY <1>3, <1>4

\* The invariant lets a reader of the two files see written records only.
LEMMA FitsNothingInvented == IInv => NothingInvented
  <1> SUFFICES ASSUME IInv, intact, OnDisk(records_file) # <<>>,
                      NEW k \in 1..ShardSize(OnDisk(limits_file)),
                      NEW data, SeparateShows(k, data)
               PROVE  k <= Len(written) /\ data = Content(k)
    BY DEF NothingInvented
  <1>1. TypeOK /\ SomeFit
    BY DEF IInv
  <1>2. PICK ends \in [0..Len(written) -> Nat] : Fits(ends)
    BY <1>1 DEF SomeFit
  <1>3. /\ IsFile(records_file) /\ IsFile(limits_file) /\ Len(written) \in Nat
        /\ limits_file.disk \in Nat /\ limits_file.disk <= Len(limits_file.stream)
        /\ Len(limits_file.stream) \in Nat
    BY <1>1, Sizes
  <1>4. /\ IsPart(OnDisk(records_file), records_file.stream)
        /\ IsPart(OnDisk(limits_file), limits_file.stream)
        /\ Len(OnDisk(limits_file)) = limits_file.disk
    BY <1>3, OnDiskIsPart, OnDiskFacts
  <1>5. k \in Nat /\ k >= 1 /\ Words(k) <= limits_file.disk /\ Words(k) \in Nat
    <2>1. limits_file.disk \div WordSize \in Nat
      BY <1>3, DivFacts
    <2>2. k \in Nat /\ k >= 1 /\ k <= limits_file.disk \div WordSize
      BY <1>4, <2>1 DEF ShardSize
    <2>3. QED
      BY <1>3, <2>2, DivFacts, WordsFacts
  <1>6. k <= Len(written)
    <2> DEFINE n == Len(written)
    <2>1. SUFFICES ASSUME ~(k <= n) PROVE FALSE
      OBVIOUS
    <2>2. n + 1 \in Nat /\ n + 1 <= k
      BY <1>3, <1>5, <2>1
    <2>3. /\ Words(n + 1) = Words(n) + WordSize /\ Words(n) \in Nat
          /\ Words(n + 1) <= Words(k)
      BY <1>3, <1>5, <2>2, WordsFacts
    <2>4. Len(limits_file.stream) <= Words(n)
      BY <1>2 DEF Fits, LimitsFit
    <2>5. WordSize \in Nat /\ WordSize > 0
      BY WordSizeAssumption
    <2> HIDE DEF n
    <2>6. QED
      BY <1>3, <1>5, <2>3, <2>4, <2>5
  <1>7. k \in 1..Len(written)
    BY <1>3, <1>5, <1>6
  <1>8. Shows(OnDisk(records_file), OnDisk(limits_file), k, data)
    BY DEF SeparateShows
  <1>9. QED
    BY <1>1, <1>2, <1>4, <1>5, <1>6, <1>7, <1>8, ShowsContent DEF Fits

\* What an OK Flush or Close covers can be read from then on.
THEOREM AcknowledgedRecordsAreReadable == Spec => []AcknowledgedIsReadable
  BY Invariant, FitsReadable, PTL

\* After an OK Close the bag holds the written records and no other.
THEOREM ClosedBagsAreExact == Spec => []ClosedBagIsExact
  BY Invariant, FitsExact, PTL

\* A reader of the files is shown a written record or an error.
THEOREM NothingIsInvented == Spec => []NothingInvented
  BY Invariant, FitsNothingInvented, PTL

-----------------------------------------------------------------------------
(* What can be read stays so *)

\* What every step leaves on the disk.
LEMMA DiskGrows ==
  ASSUME NEW f, IsFile(f), NEW g, NEW data, After(f, data, g)
  PROVE  IsPart(OnDisk(f), OnDisk(g)) /\ OnDisk(g) \in Seq(Byte)
  <1>1. IsFile(g) /\ f.disk <= g.disk
    BY DEF After
  <1>2. /\ f.disk \in Nat /\ g.disk \in Nat /\ f.disk <= Len(f.stream)
        /\ g.disk <= Len(g.stream) /\ Len(f.stream) \in Nat /\ Len(g.stream) \in Nat
    BY <1>1, FileFacts
  <1>3. /\ OnDisk(f) \in Seq(Byte) /\ Len(OnDisk(f)) = f.disk
        /\ OnDisk(g) \in Seq(Byte) /\ Len(OnDisk(g)) = g.disk
        /\ \A i \in 1..f.disk : OnDisk(f)[i] = f.stream[i]
        /\ \A i \in 1..g.disk : OnDisk(g)[i] = g.stream[i]
    BY <1>1, OnDiskFacts
  <1>4. \A i \in 1..f.disk : g.stream[i] = f.stream[i]
    BY <1>1, <1>2 DEF After
  <1>5. \A i \in 1..f.disk : i \in 1..g.disk
    BY <1>1, <1>2
  <1>6. QED
    BY <1>1, <1>3, <1>4, <1>5 DEF IsPart

\* A piece of a sequence is the same piece of what continues the sequence.
LEMMA SamePiece ==
  ASSUME NEW s, NEW t \in Seq(Byte), IsPart(s, t),
         NEW first \in Nat, NEW last \in Nat, first <= last, last <= Len(s)
  PROVE  SubSeq(s, first + 1, last) = SubSeq(t, first + 1, last)
  <1>1. s \in Seq(Byte) /\ Len(s) <= Len(t) /\ Len(s) \in Nat /\ Len(t) \in Nat
    BY LenProperties DEF IsPart
  <1>2. last <= Len(t)
    BY <1>1
  <1>3. /\ SubSeq(s, first + 1, last) \in Seq(Byte)
        /\ Len(SubSeq(s, first + 1, last)) = last - first
        /\ \A i \in 1..(last - first) : SubSeq(s, first + 1, last)[i] = s[first + i]
    BY <1>1, Piece
  <1>4. /\ SubSeq(t, first + 1, last) \in Seq(Byte)
        /\ Len(SubSeq(t, first + 1, last)) = last - first
        /\ \A i \in 1..(last - first) : SubSeq(t, first + 1, last)[i] = t[first + i]
    BY <1>2, Piece
  <1>5. \A i \in 1..(last - first) : s[first + i] = t[first + i]
    <2>1. \A i \in 1..(last - first) : first + i \in 1..Len(s)
      BY <1>1
    <2>2. QED
      BY <2>1 DEF IsPart
  <1>6. QED
    BY <1>3, <1>4, <1>5, SeqEqual

\* A limit that is there in full decodes to a number, the same in a longer file.
LEMMA LimitStays ==
  ASSUME NEW s, NEW t \in Seq(Byte), IsPart(s, t), NEW k \in Nat, Words(k) <= Len(s)
  PROVE  Limit(t, k) = Limit(s, k) /\ Limit(s, k) \in Int
  <1>1. CASE k = 0
    BY <1>1 DEF Limit
  <1>2. CASE k # 0
    <2> DEFINE w == Words(k - 1)
               last == Words(k)
               word == SubSeq(s, w + 1, last)
    <2>1. k \in 1..k
      BY <1>2
    <2>2. /\ w \in Nat /\ last \in Nat /\ last = w + WordSize /\ WordSize \in Nat
          /\ WordSize > 0
      BY <2>1, WordsWithin, WordSizeAssumption
    <2>3. w <= last /\ last - w = WordSize
      <3> HIDE DEF w, last
      <3>1. QED
        BY <2>2
    <2>4. s \in Seq(Byte) /\ last <= Len(s)
      BY DEF IsPart
    <2>5. word = SubSeq(t, w + 1, last)
      <3>1. w \in Nat /\ last \in Nat /\ w <= last /\ last <= Len(s)
        BY <2>2, <2>3, <2>4
      <3> HIDE DEF w, last
      <3>2. SubSeq(s, w + 1, last) = SubSeq(t, w + 1, last)
        BY <3>1, SamePiece
      <3>3. QED
        BY <3>2
    <2>6. Limit(s, k) = Decode(word) /\ Limit(t, k) = Decode(SubSeq(t, w + 1, last))
      BY <1>2 DEF Limit, Words
    <2>7. word[1] \in Byte
      <3> HIDE DEF w, last
      <3>1. word \in Seq(Byte) /\ Len(word) = WordSize
        BY <2>2, <2>3, <2>4, Piece
      <3> HIDE DEF word
      <3>2. 1 \in 1..Len(word)
        BY <2>2, <3>1
      <3>3. QED
        BY <3>1, <3>2, ElementOfSeq
    <2>8. Decode(word) \in Int
      <3> HIDE DEF word
      <3>1. word[1].n \in Int
        BY <2>7 DEF Byte
      <3>2. QED
        BY <3>1 DEF Decode
    <2>9. QED
      <3> HIDE DEF word
      <3>1. QED
        BY <2>5, <2>6, <2>8
  <1>3. QED
    BY <1>1, <1>2

\* What is shown of two files is shown of longer ones.
LEMMA ShowsStays ==
  ASSUME NEW records, NEW records2 \in Seq(Byte), IsPart(records, records2),
         NEW limits, NEW limits2 \in Seq(Byte), IsPart(limits, limits2),
         records # <<>>, NEW k, NEW data, Shows(records, limits, k, data)
  PROVE  Shows(records2, limits2, k, data)
  <1>1. /\ limits \in Seq(Byte) /\ Len(limits) \in Nat /\ Len(limits2) \in Nat
        /\ Len(limits) <= Len(limits2)
        /\ records \in Seq(Byte) /\ Len(records) \in Nat /\ Len(records2) \in Nat
        /\ Len(records) <= Len(records2)
    BY LenProperties DEF IsPart
  <1>2. k \in Nat /\ k >= 1 /\ Words(k) <= Len(limits)
    <2>1. ShardSize(limits) \in Nat
      BY <1>1, DivFacts DEF ShardSize
    <2>2. k \in Nat /\ k >= 1 /\ k <= ShardSize(limits)
      BY <2>1 DEF Shows
    <2>3. QED
      BY <1>1, <2>2, DivFacts DEF ShardSize
  <1>3. k - 1 \in Nat /\ Words(k - 1) <= Len(limits) /\ Words(k) <= Len(limits2)
    <2>1. k \in 1..k
      BY <1>2
    <2>2. /\ k - 1 \in Nat /\ Words(k - 1) \in Nat /\ Words(k) \in Nat
          /\ Words(k) = Words(k - 1) + WordSize /\ WordSize \in Nat
      BY <1>2, <2>1, WordsWithin, WordSizeAssumption
    <2>3. QED
      BY <1>1, <1>2, <2>2
  <1>4. k \in 1..ShardSize(limits2)
    <2>1. ShardSize(limits2) \in Nat /\ k <= ShardSize(limits2)
      BY <1>1, <1>2, <1>3, DivFacts DEF ShardSize
    <2>2. QED
      BY <1>2, <2>1
  <1> DEFINE first == Limit(limits, k - 1)
             last == Limit(limits, k)
  <1>5. /\ Limit(limits2, k - 1) = first /\ Limit(limits2, k) = last
        /\ first \in Int /\ last \in Int
    BY <1>2, <1>3, LimitStays
  <1>6. /\ 0 <= first /\ first <= last /\ last <= Len(records)
        /\ data = SubSeq(records, first + 1, last)
    BY DEF Shows
  <1> HIDE DEF first, last
  <1>7. first \in Nat /\ last \in Nat /\ last <= Len(records2)
    BY <1>1, <1>5, <1>6
  <1>8. data = SubSeq(records2, first + 1, last)
    BY <1>6, <1>7, SamePiece
  <1>9. records2 # <<>>
    <2>1. Len(records) # 0
      BY <1>1, EmptySeq
    <2>2. Len(records2) # 0
      BY <1>1, <2>1
    <2>3. QED
      BY <2>2, EmptySeq
  <1>10. QED
    BY <1>4, <1>5, <1>6, <1>7, <1>8, <1>9 DEF Shows

\* Every non-empty set of naturals has a least element.
LEMMA LeastNatural ==
  ASSUME NEW T \in SUBSET Nat, T # {}
  PROVE  \E n \in T : \A m \in T : n <= m
<1> DEFINE R == StrictSubsetOrdering(Nat)
           X == {0..n : n \in T}
<1>1. X \subseteq FiniteSubsetsOf(Nat)
  <2>1. \A n \in T : IsFiniteSet(0..n)
    BY FS_Interval
  <2> QED BY <2>1 DEF FiniteSubsetsOf
<1>2. X # {}
  OBVIOUS
<1>3. IsWellFoundedOn(R, FiniteSubsetsOf(Nat))
  BY FS_StrictSubsetOrderingWellFounded
<1> HIDE DEF R
<1>4. PICK x \in X : \A y \in X : ~ (<<y, x>> \in R)
  <2> HIDE DEF X
  <2> QED BY <1>1, <1>2, <1>3, WFMin
<1>5. PICK n \in T : x = 0..n
  BY <1>4
<1>6. ASSUME NEW m \in T, m < n
      PROVE  FALSE
  <2>1. 0..m \in X /\ 0..m \subseteq Nat /\ 0..n \subseteq Nat
    OBVIOUS
  <2>2. 0..m \subseteq 0..n
    BY <1>6
  <2>3. n \in 0..n /\ n \notin 0..m
    BY <1>6
  <2>4. <<0..m, 0..n>> \in R
    BY <2>1, <2>2, <2>3 DEF R, StrictSubsetOrdering
  <2> QED BY <2>1, <2>4, <1>4, <1>5
<1> QED BY <1>6

\* Of a byte within the records something is known: it is one of a record.
LEMMA RecordsAreRecords ==
  ASSUME TypeOK, NEW ends, IsEnds(ends), RecordsFit(ends),
         NEW p \in 1..Len(records_file.stream), p <= RecordsEndAt(ends)
  PROVE  records_file.stream[p].of = "record"
  <1> DEFINE T == {k \in 0..Len(written) : p <= ends[k]}
  <1>1. Len(written) \in Nat /\ p \in Nat /\ p >= 1
    BY Sizes
  <1>2. Len(written) \in T /\ T \in SUBSET Nat
    BY <1>1 DEF RecordsEndAt
  <1>3. PICK k \in T : \A m \in T : k <= m
    BY <1>2, LeastNatural
  <1>4. k # 0
    BY <1>1, <1>3 DEF IsEnds
  <1>5. k \in 1..Len(written) /\ p <= ends[k]
    BY <1>3, <1>4
  <1>6. /\ k - 1 \in 0..Len(written) /\ ends[k - 1] \in Nat /\ ends[k] \in Nat
        /\ ends[k] = ends[k - 1] + written[k].size /\ written[k].size \in Nat
    BY <1>5, EndsFacts, Sizes
  <1>7. ~(p <= ends[k - 1])
    <2>1. k - 1 \notin T
      BY <1>1, <1>3, <1>5
    <2>2. QED
      BY <1>6, <2>1
  <1> DEFINE j == p - ends[k - 1]
  <1>8. j \in 1..written[k].size /\ ends[k - 1] + j = p
    BY <1>1, <1>5, <1>6, <1>7
  <1>9. records_file.stream[ends[k - 1] + j] = RecordByte(written[k].n, j)
    BY <1>1, <1>5, <1>8 DEF RecordsFit
  <1>10. QED
    BY <1>8, <1>9 DEF RecordByte

\* A records file that a reader can split ends with a limit.
LEMMA SplitsEnd ==
  ASSUME NEW bag \in Seq(Byte), bag # <<>>, Splits(bag)
  PROVE  Len(bag) \in Nat \ {0} /\ bag[Len(bag)].of = "limit"
  <1> DEFINE size == Len(bag)
             from == size - WordSize
             word == SubSeq(bag, size - WordSize + 1, size)
  <1>1. size \in Nat /\ WordSize \in Nat /\ WordSize > 0
    BY LenProperties, WordSizeAssumption
  <1>2. size >= WordSize /\ Decode(word) \in 0..(size - WordSize)
    BY DEF Splits, RecordsEnd
  <1>3. from \in Nat /\ from <= size /\ size - from = WordSize
        /\ from + WordSize = size
    <2> HIDE DEF size
    <2>1. QED
      BY <1>1, <1>2
  <1>4. word \in Seq(Byte) /\ Len(word) = WordSize
        /\ \A j \in 1..WordSize : word[j] = bag[from + j]
    <2>1. size <= Len(bag) /\ word = SubSeq(bag, from + 1, size)
      BY <1>1
    <2> HIDE DEF from, size, word
    <2>2. QED
      BY <1>1, <1>3, <2>1, Piece
  <1> HIDE DEF word
  <1>5. 1 \in 1..WordSize /\ WordSize \in 1..WordSize
    BY <1>1
  <1>6. word[1].n \in Nat
    <2>1. word[1] \in Byte
      BY <1>4, <1>5, ElementOfSeq
    <2>2. QED
      BY <2>1 DEF Byte
  <1>7. word = Word(word[1].n)
    BY <1>1, <1>2 DEF Decode
  <1>8. word[WordSize] = LimitByte(word[1].n, WordSize)
    BY <1>5, <1>6, <1>7, WordFacts
  <1>9. word[WordSize].of = "limit"
    BY <1>8 DEF LimitByte
  <1>10. QED
    BY <1>1, <1>2, <1>3, <1>4, <1>5, <1>9

\* A reader that looks for the limits behind the records finds them there only
\* when they are complete in their own file.
LEMMA TailMeansComplete ==
  ASSUME TypeOK, NEW ends, Fits(ends), pc # "crashed", OnDisk(records_file) # <<>>,
         Splits(OnDisk(records_file))
  PROVE  /\ limits_file.disk = Words(Len(written))
         /\ RecordsEndAt(ends) <= records_file.disk
  <1> DEFINE bag == OnDisk(records_file)
             d == records_file.disk
             e == RecordsEndAt(ends)
             r == Len(records_file.stream)
  <1>1. /\ IsFile(records_file) /\ d \in Nat /\ r \in Nat /\ d <= r
        /\ IsEnds(ends) /\ RecordsFit(ends) /\ TailFits(ends) /\ e \in Nat
    BY Sizes, EndsFacts DEF Fits
  <1>2. /\ bag \in Seq(Byte) /\ Len(bag) = d
        /\ \A i \in 1..d : bag[i] = records_file.stream[i]
    BY <1>1, OnDiskFacts
  <1>3. d \in Nat \ {0} /\ bag[d].of = "limit"
    BY <1>2, SplitsEnd
  <1>4. d \in 1..d /\ d \in 1..r
    <2> HIDE DEF d, r
    <2>1. QED
      BY <1>1, <1>3
  <1>5. records_file.stream[d].of = "limit"
    BY <1>2, <1>3, <1>4
  <1>6. ~(d <= e)
    BY <1>1, <1>4, <1>5, RecordsAreRecords
  <1>7. d - e \in 1..(r - e) /\ e + (d - e) = d /\ r - e > 0 /\ e <= d
    <2> HIDE DEF d, r, e
    <2>1. QED
      BY <1>1, <1>6
  <1>8. pc # "write_limit"
    <2>1. SUFFICES ASSUME pc = "write_limit" PROVE FALSE
      OBVIOUS
    <2>2. \A p \in 1..(r - e) : records_file.stream[e + p] = RecordByte(attempts, p)
      BY <1>1, <1>7, <2>1 DEF TailFits
    <2>3. records_file.stream[d] = RecordByte(attempts, d - e)
      <3> HIDE DEF d, r, e
      <3>1. records_file.stream[e + (d - e)] = RecordByte(attempts, d - e)
        BY <1>7, <2>2
      <3>2. QED
        BY <1>7, <3>1
    <2>4. QED
      BY <1>5, <2>3 DEF RecordByte
  <1>9. LimitsComplete
    BY <1>1, <1>7, <1>8 DEF TailFits
  <1>10. QED
    BY <1>7, <1>9 DEF LimitsComplete

\* After the end nothing happens.
LEMMA NothingAfterTheEnd ==
  ASSUME pc \in Ended, [Next]_vars
  PROVE  UNCHANGED vars
  BY DEF Next, OpenRecords, OpenLimits, Writing, CompressFails, WriteRecord, WriteLimit,
         Flushing, FlushLimits, FlushRecords, CloseLimits, Destroy, Closing,
         OpenLimitsToRead, AppendLimits, AppendEnds, CloseRecords, DeleteLimits,
         ResetLimits, ResetRecords, Crash, Over, Ended

\* A record once written is not written again.
LEMMA WrittenStays ==
  ASSUME TypeOK, Files, [Next]_vars, NEW k \in 1..Len(written)
  PROVE  written'[k] = written[k] /\ k \in 1..Len(written') /\ Content(k)' = Content(k)
  <1>1. CASE UNCHANGED written
    BY <1>1 DEF Content
  <1>2. CASE ~UNCHANGED written
    <2>1. WriteLimit /\ written' = Append(written, [n |-> attempts, size |-> record_size])
      BY <1>2 DEF Next, OpenRecords, OpenLimits, Writing, CompressFails, WriteRecord,
         WriteLimit, Flushing, FlushLimits, FlushRecords, CloseLimits, Destroy, Closing,
         OpenLimitsToRead, AppendLimits, AppendEnds, CloseRecords, DeleteLimits,
         ResetLimits, ResetRecords, Crash, Over, history, vars
    <2> DEFINE new == [n |-> attempts, size |-> record_size]
    <2>2. Len(written) \in Nat /\ written \in Seq([n : 1..MaxWrites, size : RecordSizes])
      BY Sizes DEF TypeOK
    <2>3. new \in [n : 1..MaxWrites, size : RecordSizes]
      <3>1. pc = "write_limit"
        BY <2>1 DEF WriteLimit
      <3>2. attempts \in 1..MaxWrites /\ record_size \in RecordSizes
        BY <3>1, MaxWritesAssumption DEF TypeOK, Files, Opening
      <3>3. QED
        BY <3>2
    <2> HIDE DEF new
    <2>4. written' = Append(written, new)
      BY <2>1 DEF new
    <2>5. /\ Len(written') = Len(written) + 1
          /\ \A i \in 1..Len(written) : written'[i] = written[i]
      BY <2>2, <2>3, <2>4, AppendProperties
    <2>6. QED
      BY <2>2, <2>5 DEF Content
  <1>3. QED
    BY <1>1, <1>2

\* A record that the two files show is shown after any step that leaves the limits
\* file its name.
LEMMA SeparateStays ==
  ASSUME TypeOK, Files, Names, [Next]_vars, NEW k \in 1..Len(written),
         OnDisk(records_file) # <<>>, limits_name', SeparateShows(k, Content(k))
  PROVE  SeparateShows(k, Content(k))'
  <1>1. IsFile(records_file) /\ IsFile(limits_file) /\ FilesGo
    BY Sizes, TypeStep
  <1>2. /\ IsPart(OnDisk(records_file), OnDisk(records_file'))
        /\ OnDisk(records_file') \in Seq(Byte)
        /\ IsPart(OnDisk(limits_file), OnDisk(limits_file'))
        /\ OnDisk(limits_file') \in Seq(Byte)
    BY <1>1, DiskGrows DEF FilesGo
  <1>3. Shows(OnDisk(records_file'), OnDisk(limits_file'), k, Content(k))
    BY <1>2, ShowsStays DEF SeparateShows
  <1>4. Content(k)' = Content(k)
    BY WrittenStays
  <1>5. Shows(OnDisk(records_file'), OnDisk(limits_file'), k, Content(k)')
    BY <1>3, <1>4
  <1>6. QED
    BY <1>5 DEF SeparateShows

\* A record that can be read can be read after any step that keeps the writer intact.
LEMMA ReadableStep ==
  ASSUME IInv, [Next]_vars, NEW k \in 1..Len(written), OnDisk(records_file) # <<>>,
         intact', Readable(k)
  PROVE  Readable(k)'
  <1>1. /\ TypeOK /\ Files /\ Names /\ IInv' /\ intact /\ SomeFit /\ SomeFit'
        /\ TypeOK' /\ Names'
    BY InvariantStep, IntactBefore DEF IInv
  <1>2. k \in 1..Len(written') /\ written # <<>> /\ written' # <<>>
    BY <1>1, WrittenStays, EmptySeq
  <1>3. CASE UNCHANGED vars
    BY <1>3 DEF Readable, SeparateShows, TailShows, Shows, OnDisk, Splits, RecordsOf,
                LimitsOf, Content, vars, files, history
  <1>4. CASE ~UNCHANGED vars /\ ~limits_name'
    <2>1. pc \notin Ended
      BY <1>4, NothingAfterTheEnd
    <2>2. limits_name
      BY <1>1, <1>2, <2>1 DEF Names, Files, Ended
    <2>3. /\ pc = "delete" /\ limits_placement = "tail"
          /\ records_file' = records_file /\ written' = written
      <3>1. DeleteLimits
        BY <1>4, <2>2 DEF Next, OpenRecords, OpenLimits, Writing, CompressFails,
           WriteRecord, WriteLimit, Flushing, FlushLimits, FlushRecords, CloseLimits,
           Destroy, Closing, OpenLimitsToRead, AppendLimits, AppendEnds, CloseRecords,
           ResetLimits, ResetRecords, Crash, Over, files
      <3>2. QED
        BY <1>1, <3>1 DEF DeleteLimits, Names
    <2>4. PICK ends \in [0..Len(written) -> Nat] : Fits(ends)
      BY <1>1 DEF SomeFit
    <2>5. TailShows(k, Content(k))
      BY <1>1, <2>3, <2>4, CompleteTail
    <2>6. TailShows(k, Content(k))'
      BY <2>3, <2>5 DEF TailShows, Content
    <2>7. QED
      BY <2>6 DEF Readable
  <1>5. CASE ~UNCHANGED vars /\ limits_name'
    <2>1. pc \notin Ended
      BY <1>5, NothingAfterTheEnd
    <2>2. limits_name
      BY <1>1, <1>2, <1>5, <2>1 DEF Names, Files, Ended
    <2>3. SeparateShows(k, Content(k))
      <3>1. CASE SeparateShows(k, Content(k))
        BY <3>1
      <3>2. CASE TailShows(k, Content(k))
        <4>1. PICK ends \in [0..Len(written) -> Nat] : Fits(ends)
          BY <1>1 DEF SomeFit
        <4>2. Splits(OnDisk(records_file)) /\ pc # "crashed"
          BY <2>1, <3>2 DEF TailShows, Ended
        <4>3. /\ limits_file.disk = Words(Len(written))
              /\ RecordsEndAt(ends) <= records_file.disk
          BY <1>1, <4>1, <4>2, TailMeansComplete
        <4>4. /\ Words(k) <= Words(Len(written)) /\ Len(written) \in Nat
              /\ ends[k] <= RecordsEndAt(ends) /\ ends[k] \in Nat
              /\ RecordsEndAt(ends) \in Nat /\ records_file.disk \in Nat
          BY <1>1, <4>1, Sizes, WordsWithin, EndsFacts DEF Fits
        <4>5. Words(k) <= limits_file.disk /\ ends[k] <= records_file.disk
          BY <4>3, <4>4
        <4>6. QED
          BY <1>1, <2>2, <4>1, <4>5, SeparateWritten
      <3>3. QED
        BY <3>1, <3>2 DEF Readable
    <2>4. SeparateShows(k, Content(k))'
      BY <1>1, <1>5, <2>3, SeparateStays
    <2>5. QED
      BY <2>4 DEF Readable
  <1>6. QED
    BY <1>3, <1>4, <1>5

ReadableStaysStep ==
  \A k \in 1..Len(written) : OnDisk(records_file) # <<>> =>
    /\ intact' /\ Readable(k) => Readable(k)'
    /\ limits_name' /\ SeparateShows(k, Content(k)) => SeparateShows(k, Content(k))'

\* What can be read stays readable, whatever step follows.
THEOREM ReadableRecordsStay == Spec => ReadableStays
  <1>1. IInv /\ [Next]_vars => ReadableStaysStep
    BY ReadableStep, SeparateStays DEF ReadableStaysStep, IInv
  <1>2. IInv /\ IInv' /\ [Next]_vars => [ReadableStaysStep]_vars
    BY <1>1
  <1>3. Spec => [][ReadableStaysStep]_vars
    BY <1>2, Invariant, PTL DEF Spec
  <1>4. QED
    BY <1>3 DEF ReadableStays, ReadableStaysStep

=============================================================================
