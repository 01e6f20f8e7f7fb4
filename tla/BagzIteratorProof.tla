-------------------------- MODULE BagzIteratorProof --------------------------
(***************************************************************************)
(* Proofs about BagzIterator for every number of callers, every size and   *)
(* every read_ahead.  One invariant, IInv, ties the two buffers, the       *)
(* worker's offset and the delivered records together; safety and the      *)
(* refinement of RecordStream follow from it.                              *)
(***************************************************************************)
EXTENDS BagzIterator, SequenceTheorems, TLAPS

Running == worker \in {"check", "read", "publish", "waiting"}

\* The delivered records are the first ones of the stream.
InOrder == \A i \in 1..Len(delivered) : delivered[i] = i - 1

\* What the worker knows: the batch it has read, if it has read it completely,
\* is the next one, and it has done no more than that.
BatchInv ==
  /\ worker \in {"none", "check", "read", "done"} => batch = <<>>
  /\ worker \in {"none", "check", "read"} => batch_status = "ok"
  /\ worker \in {"publish", "waiting"} /\ batch_status = "ok" =>
       /\ Len(batch) = BatchSize
       /\ \A k \in 1..Len(batch) :
            /\ batch[k] \in 0..length-1
            /\ batch[k] = offset + Len(batch) - k
  /\ Len(batch) <= num_ahead
  /\ Running => offset <= length

\* What the flags say about the worker.
FlagInv ==
  /\ worker = "none" => /\ length = 0
                        /\ ~more_to_read_
                        /\ buffer_ = <<>>
                        /\ status_ = "ok"
                        /\ offset = 0
  /\ worker = "none" <=> num_ahead = 0
  /\ Running => more_to_read_ /\ status_ = "ok"
  /\ worker = "none" => ~cancelled
  /\ cancelled => destructor # "alive"
  /\ destructor # "alive" => \A c \in Consumers : consumer[c] = "idle"

\* The worker has stopped by itself: everything is handed over, or the read of
\* the batch at offset failed.
DoneInv ==
  worker = "done" /\ destructor = "alive" =>
    \/ /\ status_ = "ok"
       /\ ~more_to_read_
       /\ Len(delivered) + Len(buffer_) = length
       /\ offset <= length
    \/ /\ status_ = "error"
       /\ buffer_ = <<>>
       /\ Len(delivered) = offset

\* The two buffers hold the next records.
BufferInv ==
  destructor = "alive" =>
    /\ \A k \in 1..Len(buffer_) : buffer_[k] = Len(delivered) + Len(buffer_) - k
    /\ Len(buffer_) <= num_ahead
    /\ Running => Len(delivered) + Len(buffer_) = offset

\* What has been answered stays true.
OutcomeInv ==
  /\ outcome = "end" => /\ worker \in {"none", "done"}
                        /\ status_ = "ok"
                        /\ ~more_to_read_
                        /\ buffer_ = <<>>
                        /\ Len(delivered) = length
  /\ outcome = "error" => status_ = "error" /\ worker = "done"

IInv ==
  TypeOK /\ InOrder /\ BatchInv /\ FlagInv /\ DoneInv /\ BufferInv /\ OutcomeInv
-----------------------------------------------------------------------------
(* Sequences *)

\* What pop_back leaves of a buffer.
LEMMA PopBack ==
  ASSUME NEW S, NEW s \in Seq(S), s # <<>>
  PROVE  /\ Len(s) \in Nat \ {0}
         /\ s[Len(s)] \in S
         /\ SubSeq(s, 1, Len(s) - 1) \in Seq(S)
         /\ Len(SubSeq(s, 1, Len(s) - 1)) = Len(s) - 1
         /\ \A k \in 1..Len(s) - 1 : SubSeq(s, 1, Len(s) - 1)[k] = s[k]
<1>1. Len(s) \in Nat \ {0}
  BY EmptySeq
<1>2. \A i \in 1..Len(s) - 1 : s[i] \in S
  BY <1>1, ElementOfSeq
<1>3. s[Len(s)] \in S
  BY <1>1, ElementOfSeq
<1>. DEFINE n == Len(s) - 1
<1>4. n \in Nat
  BY <1>1
<1>. HIDE DEF n
<1>5. /\ SubSeq(s, 1, n) \in Seq(S)
      /\ Len(SubSeq(s, 1, n)) = IF 1 <= n THEN n - 1 + 1 ELSE 0
      /\ \A i \in 1..n - 1 + 1 : SubSeq(s, 1, n)[i] = s[1 + i - 1]
  <2>1. \A i \in 1..n : s[i] \in S
    BY <1>2 DEF n
  <2>. QED
    BY <1>4, <2>1, SubSeqProperties
<1>6. n - 1 + 1 = n /\ (IF 1 <= n THEN n - 1 + 1 ELSE 0) = n
        /\ \A i \in 1..n : 1 + i - 1 = i
  BY <1>4
<1>7. /\ SubSeq(s, 1, n) \in Seq(S)
      /\ Len(SubSeq(s, 1, n)) = n
      /\ \A i \in 1..n : SubSeq(s, 1, n)[i] = s[i]
  BY <1>4, <1>5, <1>6
<1>. QED
  BY <1>1, <1>3, <1>7 DEF n

\* A batch read completely: the records from offset on, the first one last.
LEMMA FilledBatch ==
  ASSUME NEW first \in Nat, NEW n \in Nat, NEW m \in Nat, first + n <= m \/ n = 0
  PROVE  /\ ReverseFilled(first, n) \in Seq(-1..m-1)
         /\ Len(ReverseFilled(first, n)) = n
         /\ \A k \in 1..n : /\ ReverseFilled(first, n)[k] = first + n - k
                             /\ ReverseFilled(first, n)[k] \in 0..m-1
<1>. DEFINE b == ReverseFilled(first, n)
<1>1. \A k \in 1..n : first + n - k \in -1..m-1 /\ first + n - k \in 0..m-1
  OBVIOUS
<1>2. b \in [1..n -> -1..m-1]
  BY <1>1 DEF ReverseFilled
<1>3. b \in Seq(-1..m-1)
  BY <1>2, SeqDef
<1>4. Len(b) = n
  BY <1>2, <1>3, LenProperties
<1>. QED
  BY <1>1, <1>3, <1>4 DEF ReverseFilled

\* A batch whose read failed.
LEMMA UnfilledBatch ==
  ASSUME NEW n \in Nat, NEW m \in Nat
  PROVE  /\ [slot \in 1..n |-> Unfilled] \in Seq(-1..m-1)
         /\ Len([slot \in 1..n |-> Unfilled]) = n
<1>. DEFINE b == [slot \in 1..n |-> Unfilled]
<1>1. b \in [1..n -> -1..m-1]
  BY DEF Unfilled
<1>2. b \in Seq(-1..m-1)
  BY <1>1, SeqDef
<1>. QED
  BY <1>1, <1>2, LenProperties

\* A batch never exceeds num_ahead, nor the end of the stream, and is shorter
\* than num_ahead only at the end.
LEMMA BatchSizeFacts ==
  ASSUME TypeOK
  PROVE  /\ BatchSize \in Nat
         /\ BatchSize <= num_ahead
         /\ offset <= length => offset + BatchSize <= length
         /\ offset + BatchSize <= length \/ BatchSize = 0
         /\ offset <= length /\ BatchSize < num_ahead => offset + BatchSize = length
BY DEF TypeOK, BatchSize, AtMost

-----------------------------------------------------------------------------
(* IInv is inductive, unless read_ahead may be 0. *)

LEMMA InitIInv ==
  ASSUME 0 \notin ReadAheads
  PROVE  Init => IInv
<1>. SUFFICES ASSUME Init
              PROVE  IInv
  OBVIOUS
<1>1. PICK size \in Sizes, read_ahead \in ReadAheads :
        \/ /\ mode = "range"
           /\ length = size
           /\ num_ahead = NumAhead("range", read_ahead, size)
        \/ /\ mode = "indices"
           /\ length \in Sizes
           /\ num_ahead = NumAhead("indices", read_ahead, size)
  BY DEF Init
<1>2. /\ size \in Nat /\ length \in Nat
      /\ read_ahead \in Nat \ {0}
  BY <1>1, SizesAssumption, ReadAheadsAssumption
<1>3. /\ num_ahead \in Nat
      /\ num_ahead = 0 => length = 0
      /\ mode \in {"range", "indices"}
  BY <1>1, <1>2 DEF NumAhead, AtMost
<1>4. TypeOK
  <2>1. buffer_ \in Seq(0..length-1) /\ batch \in Seq(-1..length-1)
        /\ delivered \in Seq(0..length-1)
    BY EmptySeq DEF Init
  <2>. QED
    BY <1>2, <1>3, <2>1 DEF Init, TypeOK
<1>5. Len(buffer_) = 0 /\ Len(batch) = 0 /\ Len(delivered) = 0
  BY DEF Init
<1>6. InOrder /\ BatchInv
  BY <1>2, <1>3, <1>5 DEF Init, InOrder, BatchInv, Running
<1>7. FlagInv
  <2>1. more_to_read_ <=> num_ahead # 0
    BY DEF Init
  <2>. QED
    BY <1>2, <1>3, <2>1 DEF Init, FlagInv, Running
<1>8. DoneInv /\ BufferInv /\ OutcomeInv
  BY <1>2, <1>3, <1>5 DEF Init, DoneInv, BufferInv, OutcomeInv, Running
<1>. QED
  BY <1>4, <1>6, <1>7, <1>8 DEF IInv
\* Steps that leave records and offsets where they are.

LEMMA CheckCancelledIInv ==
  ASSUME IInv, CheckCancelled
  PROVE  IInv'
<1>. USE DEF IInv, args, shared, local, cancel, history
<1>1. TypeOK'
  BY DEF TypeOK, CheckCancelled
<1>2. worker' = "done" => destructor # "alive"
  <2>1. PICK seen \in CancelledLoads : worker' = IF seen THEN "done" ELSE "read"
    BY DEF CheckCancelled
  <2>2. seen => cancelled
    BY DEF CancelledLoads
  <2>. QED
    BY <2>1, <2>2 DEF FlagInv
<1>3. InOrder' /\ BatchInv' /\ DoneInv'
  BY <1>2 DEF TypeOK, InOrder, BatchInv, BatchSize, DoneInv, Running,
              CheckCancelled
<1>4. FlagInv' /\ BufferInv' /\ OutcomeInv'
  BY DEF TypeOK, FlagInv, BufferInv, OutcomeInv, Running, CheckCancelled
<1>. QED
  BY <1>1, <1>3, <1>4

LEMMA PublishWaitIInv ==
  ASSUME IInv, PublishWait
  PROVE  IInv'
<1>1. TypeOK'
  BY DEF IInv, TypeOK, PublishWait, args, shared, local, cancel, history, WorkerMustWait
<1>2. InOrder' /\ BatchInv' /\ DoneInv'
  BY DEF IInv, TypeOK, InOrder, BatchInv, BatchSize, DoneInv, Running, PublishWait,
         args, shared, local, cancel, history, WorkerMustWait
<1>3. FlagInv' /\ BufferInv' /\ OutcomeInv'
  BY DEF IInv, TypeOK, FlagInv, BufferInv, OutcomeInv, Running, PublishWait,
         args, shared, local, cancel, history, WorkerMustWait
<1>. QED
  BY <1>1, <1>2, <1>3 DEF IInv

LEMMA CallIInv ==
  ASSUME IInv, NEW c \in Consumers, Call(c)
  PROVE  IInv'
<1>1. TypeOK'
  BY DEF IInv, TypeOK, Call, args, shared, local, cancel, history
<1>2. InOrder' /\ BatchInv' /\ DoneInv'
  BY DEF IInv, TypeOK, InOrder, BatchInv, BatchSize, DoneInv, Running, Call,
         args, shared, local, cancel, history
<1>3. FlagInv' /\ BufferInv' /\ OutcomeInv'
  BY DEF IInv, TypeOK, FlagInv, BufferInv, OutcomeInv, Running, Call,
         args, shared, local, cancel, history
<1>. QED
  BY <1>1, <1>2, <1>3 DEF IInv

LEMMA NextWaitIInv ==
  ASSUME IInv, NEW c \in Consumers, NextWait(c)
  PROVE  IInv'
<1>1. TypeOK'
  BY DEF IInv, TypeOK, NextWait, args, shared, local, cancel, history, NextMustWait
<1>2. InOrder' /\ BatchInv' /\ DoneInv'
  BY DEF IInv, TypeOK, InOrder, BatchInv, BatchSize, DoneInv, Running, NextWait,
         args, shared, local, cancel, history, NextMustWait
<1>3. FlagInv' /\ BufferInv' /\ OutcomeInv'
  BY DEF IInv, TypeOK, FlagInv, BufferInv, OutcomeInv, Running, NextWait,
         args, shared, local, cancel, history, NextMustWait
<1>. QED
  BY <1>1, <1>2, <1>3 DEF IInv

LEMMA NextEndIInv ==
  ASSUME IInv, NEW c \in Consumers, NextEnd(c)
  PROVE  IInv'
<1>1. TypeOK'
  BY DEF IInv, TypeOK, NextEnd, args, shared, local, cancel, history
<1>2. InOrder' /\ BatchInv' /\ FlagInv' /\ DoneInv' /\ BufferInv'
  BY DEF IInv, TypeOK, InOrder, BatchInv, BatchSize, FlagInv, DoneInv,
         BufferInv, Running, NextEnd, args, shared, local, cancel, history
<1>3. destructor = "alive" /\ worker \in {"none", "done"}
  BY DEF IInv, TypeOK, FlagInv, Running, NextEnd
<1>4. Len(delivered) = length
  <2>1. CASE worker = "none"
    BY <2>1, LenProperties DEF IInv, TypeOK, FlagInv, BufferInv, NextEnd
  <2>2. CASE worker = "done"
    <3>1. Len(buffer_) = 0 /\ Len(delivered) \in Nat
      BY DEF NextEnd, IInv, TypeOK
    <3>. QED
      BY <1>3, <2>2, <3>1 DEF IInv, TypeOK, DoneInv, NextEnd
  <2>. QED
    BY <1>3, <2>1, <2>2
<1>5. OutcomeInv'
  BY <1>3, <1>4 DEF NextEnd, OutcomeInv, shared, args, local
<1>. QED
  BY <1>1, <1>2, <1>5 DEF IInv

LEMMA NextErrorIInv ==
  ASSUME IInv, NEW c \in Consumers, NextError(c)
  PROVE  IInv'
<1>1. TypeOK'
  BY DEF IInv, TypeOK, NextError, args, shared, local, cancel, history, AfterUnlock
<1>2. InOrder' /\ BatchInv' /\ DoneInv'
  BY DEF IInv, TypeOK, InOrder, BatchInv, BatchSize, DoneInv, Running, NextError,
         args, shared, local, cancel, history, AfterUnlock
<1>3. FlagInv' /\ BufferInv' /\ OutcomeInv'
  BY DEF IInv, TypeOK, FlagInv, BufferInv, OutcomeInv, Running, NextError,
         args, shared, local, cancel, history, AfterUnlock
<1>. QED
  BY <1>1, <1>2, <1>3 DEF IInv

LEMMA SignalBufferAvailableIInv ==
  ASSUME IInv, NEW c \in Consumers, SignalBufferAvailable(c)
  PROVE  IInv'
<1>1. TypeOK'
  BY DEF IInv, TypeOK, SignalBufferAvailable, args, shared, local, cancel, history
<1>2. InOrder' /\ BatchInv' /\ DoneInv'
  BY DEF IInv, TypeOK, InOrder, BatchInv, BatchSize, DoneInv, Running, SignalBufferAvailable,
         args, shared, local, cancel, history
<1>3. FlagInv' /\ BufferInv' /\ OutcomeInv'
  BY DEF IInv, TypeOK, FlagInv, BufferInv, OutcomeInv, Running, SignalBufferAvailable,
         args, shared, local, cancel, history
<1>. QED
  BY <1>1, <1>2, <1>3 DEF IInv

LEMMA CancelIInv ==
  ASSUME IInv, Cancel
  PROVE  IInv'
<1>1. TypeOK'
  BY DEF IInv, TypeOK, Cancel, args, shared, local, cancel, history
<1>2. InOrder' /\ BatchInv' /\ DoneInv'
  BY DEF IInv, TypeOK, InOrder, BatchInv, BatchSize, DoneInv, Running, Cancel,
         args, shared, local, cancel, history
<1>3. FlagInv' /\ BufferInv' /\ OutcomeInv'
  BY DEF IInv, TypeOK, FlagInv, BufferInv, OutcomeInv, Running, Cancel,
         args, shared, local, cancel, history
<1>. QED
  BY <1>1, <1>2, <1>3 DEF IInv

LEMMA ClearBufferIInv ==
  ASSUME IInv, ClearBuffer
  PROVE  IInv'
<1>1. TypeOK'
  BY DEF IInv, TypeOK, ClearBuffer, args, shared, local, cancel, history
<1>2. InOrder' /\ BatchInv' /\ DoneInv'
  BY DEF IInv, TypeOK, InOrder, BatchInv, BatchSize, DoneInv, Running, ClearBuffer,
         args, shared, local, cancel, history
<1>3. FlagInv' /\ BufferInv' /\ OutcomeInv'
  BY DEF IInv, TypeOK, FlagInv, BufferInv, OutcomeInv, Running, ClearBuffer,
         args, shared, local, cancel, history
<1>. QED
  BY <1>1, <1>2, <1>3 DEF IInv

LEMMA SignalAllIInv ==
  ASSUME IInv, SignalAll
  PROVE  IInv'
<1>1. TypeOK'
  BY DEF IInv, TypeOK, SignalAll, args, shared, local, cancel, history
<1>2. InOrder' /\ BatchInv' /\ DoneInv'
  BY DEF IInv, TypeOK, InOrder, BatchInv, BatchSize, DoneInv, Running, SignalAll,
         args, shared, local, cancel, history
<1>3. FlagInv' /\ BufferInv' /\ OutcomeInv'
  BY DEF IInv, TypeOK, FlagInv, BufferInv, OutcomeInv, Running, SignalAll,
         args, shared, local, cancel, history
<1>. QED
  BY <1>1, <1>2, <1>3 DEF IInv

LEMMA JoinIInv ==
  ASSUME IInv, Join
  PROVE  IInv'
<1>1. TypeOK'
  BY DEF IInv, TypeOK, Join, args, shared, local, cancel, history
<1>2. InOrder' /\ BatchInv' /\ DoneInv'
  BY DEF IInv, TypeOK, InOrder, BatchInv, BatchSize, DoneInv, Running, Join,
         args, shared, local, cancel, history
<1>3. FlagInv' /\ BufferInv' /\ OutcomeInv'
  BY DEF IInv, TypeOK, FlagInv, BufferInv, OutcomeInv, Running, Join,
         args, shared, local, cancel, history
<1>. QED
  BY <1>1, <1>2, <1>3 DEF IInv

LEMMA SpuriousWakeupIInv ==
  ASSUME IInv, SpuriousWakeup
  PROVE  IInv'
<1>. USE DEF IInv, args, shared, local, cancel, history
<1>1. CASE worker = "waiting" /\ worker' = "publish" /\ UNCHANGED consumer
  <2>1. TypeOK'
    BY <1>1 DEF TypeOK, SpuriousWakeup
  <2>2. InOrder' /\ BatchInv' /\ FlagInv' /\ DoneInv' /\ BufferInv' /\ OutcomeInv'
    BY <1>1 DEF TypeOK, InOrder, BatchInv, BatchSize, FlagInv, DoneInv,
                BufferInv, OutcomeInv, Running, SpuriousWakeup
  <2>. QED
    BY <2>1, <2>2
<1>2. ASSUME NEW c \in Waiting,
             consumer' = [consumer EXCEPT ![c] = "locking"],
             UNCHANGED worker
      PROVE  IInv'
  <2>1. c \in Consumers /\ consumer[c] = "waiting"
    BY DEF Waiting
  <2>2. TypeOK'
    BY <1>2, <2>1 DEF TypeOK, SpuriousWakeup
  <2>3. InOrder' /\ BatchInv' /\ FlagInv' /\ DoneInv' /\ BufferInv' /\ OutcomeInv'
    BY <1>2, <2>1 DEF TypeOK, InOrder, BatchInv, BatchSize, FlagInv, DoneInv,
                      BufferInv, OutcomeInv, Running, SpuriousWakeup
  <2>. QED
    BY <2>2, <2>3
<1>. QED
  BY <1>1, <1>2 DEF SpuriousWakeup
\* Reading a batch: complete, failed, or refused by read_batch.
LEMMA ReadBatchIInv ==
  ASSUME IInv, ReadBatch
  PROVE  IInv'
<1>. USE DEF args, shared, local, cancel, history
<1>1. TypeOK
  BY DEF IInv
<1>2. worker = "read" /\ worker' = "publish" /\ batch = <<>> /\ offset <= length
  BY <1>1 DEF ReadBatch, IInv, BatchInv, Running
<1>3. /\ batch' \in Seq(-1..length-1)
      /\ Len(batch') <= num_ahead
      /\ batch_status' \in {"ok", "error"}
      /\ batch_status' = "ok" =>
           /\ Len(batch') = BatchSize
           /\ \A k \in 1..Len(batch') : /\ batch'[k] \in 0..length-1
                                        /\ batch'[k] = offset + Len(batch') - k
  <2>1. CASE batch' = ReverseFilled(offset, BatchSize) /\ batch_status' = "ok"
    <3>. DEFINE n == BatchSize
    <3>1. /\ n \in Nat /\ offset \in Nat /\ length \in Nat
          /\ n <= num_ahead
          /\ offset + n <= length \/ n = 0
      BY <1>1, BatchSizeFacts DEF TypeOK
    <3>. HIDE DEF n
    <3>2. /\ ReverseFilled(offset, n) \in Seq(-1..length-1)
          /\ Len(ReverseFilled(offset, n)) = n
          /\ \A k \in 1..n : /\ ReverseFilled(offset, n)[k] = offset + n - k
                              /\ ReverseFilled(offset, n)[k] \in 0..length-1
      BY <3>1, FilledBatch
    <3>. QED
      BY <2>1, <3>1, <3>2 DEF n
  <2>2. CASE /\ batch' = [slot \in 1..BatchSize |-> Unfilled]
             /\ batch_status' = "error"
    BY <1>1, <2>2, BatchSizeFacts, UnfilledBatch DEF TypeOK
  <2>3. CASE UNCHANGED batch /\ batch_status' = "error"
    <3>1. Len(batch) \in Nat /\ Len(batch) <= num_ahead
      BY <1>1 DEF TypeOK, IInv, BatchInv
    <3>. QED
      BY <1>1, <2>3, <3>1 DEF TypeOK
  <2>. QED
    BY <2>1, <2>2, <2>3 DEF ReadBatch
<1>4. TypeOK'
  BY <1>1, <1>3 DEF ReadBatch, TypeOK
<1>5. InOrder' /\ DoneInv'
  BY <1>2 DEF ReadBatch, IInv, InOrder, DoneInv
<1>6. BatchInv'
  BY <1>1, <1>2, <1>3 DEF ReadBatch, IInv, BatchInv, BatchSize, Running
<1>7. FlagInv' /\ BufferInv' /\ OutcomeInv'
  BY <1>1, <1>2 DEF ReadBatch, IInv, FlagInv, BufferInv, OutcomeInv, Running
<1>. QED
  BY <1>4, <1>5, <1>6, <1>7 DEF IInv
\* Handing a batch over.
LEMMA PublishIInv ==
  ASSUME IInv, Publish
  PROVE  IInv'
<1>. USE DEF args, shared, local, cancel, history
<1>1. TypeOK
  BY DEF IInv
<1>2. /\ worker = "publish" /\ buffer_ = <<>>
      /\ status_ = "ok" /\ more_to_read_
      /\ offset <= length
      /\ num_ahead \in Nat /\ num_ahead # 0
      /\ UNCHANGED <<args, batch_status, cancelled, destructor, history>>
  BY <1>1 DEF Publish, WorkerMustWait, TypeOK, IInv, BatchInv, FlagInv, Running
<1>3. /\ batch' = <<>> /\ Len(batch') = 0
      /\ worker' \in {"done", "check"}
  BY DEF Publish
<1>4. /\ consumer' \in [Consumers -> {"idle", "locking", "waiting", "signalling"}]
      /\ destructor # "alive" => consumer' = consumer
  BY <1>1 DEF Publish, SignalNextAvailable, Waiting, TypeOK, IInv, FlagInv
<1>5. CASE batch_status = "ok"
  <2>1. /\ buffer_' = batch /\ status_' = "ok"
        /\ Len(batch) = BatchSize /\ Len(batch) \in Nat
        /\ Len(batch) <= num_ahead
        /\ \A k \in 1..Len(batch) : /\ batch[k] \in 0..length-1
                                     /\ batch[k] = offset + Len(batch) - k
    BY <1>1, <1>2, <1>5 DEF Publish, IInv, BatchInv, TypeOK
  <2>2. batch \in Seq(0..length-1)
    <3>1. batch \in [1..Len(batch) -> -1..length-1]
      BY <1>1, LenProperties DEF TypeOK
    <3>2. batch \in [1..Len(batch) -> 0..length-1]
      BY <2>1, <3>1
    <3>. QED
      BY <2>1, <3>2, SeqDef
  <2>3. TypeOK'
    BY <1>1, <1>2, <1>3, <1>4, <2>1, <2>2 DEF Publish, TypeOK
  <2>4. InOrder'
    BY <1>2 DEF IInv, InOrder
  <2>5. CASE LastBatch
    <3>1. worker' = "done" /\ offset' = offset /\ ~more_to_read_'
      BY <2>5 DEF Publish
    <3>2. offset + Len(batch) = length
      BY <1>1, <1>2, <2>1, <2>5, BatchSizeFacts DEF LastBatch
    <3>3. BatchInv' /\ FlagInv'
      BY <1>1, <1>2, <1>3, <1>4, <3>1 DEF IInv, BatchInv, FlagInv, Running, TypeOK
    <3>4. destructor = "alive" => Len(delivered) = offset
      BY <1>1, <1>2 DEF IInv, BufferInv, Running, TypeOK
    <3>5. DoneInv' /\ BufferInv'
      BY <1>1, <1>2, <2>1, <3>1, <3>2, <3>4 DEF DoneInv, BufferInv, Running, TypeOK
    <3>6. OutcomeInv'
      BY <1>2 DEF IInv, OutcomeInv
    <3>. QED
      BY <2>3, <2>4, <3>3, <3>5, <3>6 DEF IInv
  <2>6. CASE ~LastBatch
    <3>1. /\ worker' = "check" /\ offset' = offset + num_ahead
          /\ more_to_read_' = more_to_read_
      BY <1>1, <1>2, <1>5, <2>6 DEF Publish, TypeOK
    <3>2. Len(batch) = num_ahead /\ offset' <= length /\ offset' \in Nat
      BY <1>1, <1>2, <2>1, <2>6, <3>1, BatchSizeFacts DEF LastBatch, TypeOK
    <3>3. BatchInv' /\ FlagInv'
      BY <1>1, <1>2, <1>3, <1>4, <1>5, <2>1, <3>1, <3>2
         DEF IInv, BatchInv, FlagInv, Running, TypeOK
    <3>4. destructor = "alive" => Len(delivered) = offset
      BY <1>1, <1>2 DEF IInv, BufferInv, Running, TypeOK
    <3>5. DoneInv' /\ BufferInv'
      BY <1>1, <1>2, <2>1, <3>1, <3>2, <3>4 DEF DoneInv, BufferInv, Running, TypeOK
    <3>6. OutcomeInv'
      BY <1>2 DEF IInv, OutcomeInv
    <3>. QED
      BY <2>3, <2>4, <3>3, <3>5, <3>6 DEF IInv
  <2>. QED
    BY <2>5, <2>6
<1>6. CASE batch_status # "ok"
  <2>1. /\ buffer_' = buffer_ /\ status_' = "error"
        /\ worker' = "done" /\ offset' = offset
    BY <1>1, <1>6 DEF Publish, TypeOK
  <2>2. TypeOK'
    BY <1>1, <1>2, <1>3, <1>4, <2>1 DEF Publish, TypeOK
  <2>3. InOrder' /\ OutcomeInv'
    BY <1>2 DEF IInv, InOrder, OutcomeInv
  <2>4. BatchInv' /\ FlagInv'
    BY <1>1, <1>2, <1>3, <1>4, <2>1 DEF IInv, BatchInv, FlagInv, Running, TypeOK
  <2>5. DoneInv' /\ BufferInv'
    BY <1>1, <1>2, <2>1 DEF IInv, DoneInv, BufferInv, Running, TypeOK
  <2>. QED
    BY <2>2, <2>3, <2>4, <2>5 DEF IInv
<1>. QED
  BY <1>5, <1>6

\* Handing a record out.
LEMMA NextRecordIInv ==
  ASSUME IInv, NEW c \in Consumers, NextRecord(c)
  PROVE  IInv'
<1>. USE DEF args, shared, local, cancel, history
<1>1. TypeOK
  BY DEF IInv
<1>2. /\ buffer_ # <<>> /\ status_ = "ok" /\ consumer[c] = "locking"
      /\ destructor = "alive"
      /\ delivered' = Append(delivered, buffer_[Len(buffer_)])
      /\ buffer_' = SubSeq(buffer_, 1, Len(buffer_) - 1)
      /\ UNCHANGED <<args, status_, more_to_read_, worker, local, cancel,
                     destructor, outcome>>
  BY <1>1 DEF NextRecord, IInv, FlagInv, TypeOK
<1>3. /\ Len(buffer_) \in Nat \ {0}
      /\ buffer_[Len(buffer_)] \in 0..length-1
      /\ buffer_' \in Seq(0..length-1)
      /\ Len(buffer_') = Len(buffer_) - 1
      /\ \A k \in 1..Len(buffer_') : buffer_'[k] = buffer_[k]
  BY <1>1, <1>2, PopBack DEF TypeOK
<1>4. /\ Len(delivered) \in Nat
      /\ delivered' \in Seq(0..length-1)
      /\ Len(delivered') = Len(delivered) + 1
      /\ \A i \in 1..Len(delivered) : delivered'[i] = delivered[i]
      /\ delivered'[Len(delivered) + 1] = buffer_[Len(buffer_)]
  BY <1>1, <1>2, <1>3, AppendProperties, LenProperties DEF TypeOK
<1>5. TypeOK'
  BY <1>1, <1>2, <1>3, <1>4 DEF NextRecord, AfterUnlock, TypeOK
<1>6. buffer_[Len(buffer_)] = Len(delivered)
  BY <1>2, <1>3, <1>4 DEF IInv, BufferInv
<1>7. InOrder'
  BY <1>4, <1>6 DEF IInv, InOrder
<1>8. BatchInv'
  BY <1>2 DEF IInv, BatchInv, BatchSize, Running
<1>9. FlagInv' /\ OutcomeInv'
  BY <1>1, <1>2 DEF IInv, FlagInv, OutcomeInv, Running, TypeOK
<1>10. Len(delivered') + Len(buffer_') = Len(delivered) + Len(buffer_)
  BY <1>3, <1>4
<1>11. DoneInv'
  BY <1>1, <1>2, <1>10 DEF IInv, DoneInv, TypeOK
<1>12. BufferInv'
  <2>1. \A k \in 1..Len(buffer_') :
          buffer_'[k] = Len(delivered') + Len(buffer_') - k
    <3>. TAKE k \in 1..Len(buffer_')
    <3>1. k \in 1..Len(buffer_)
      BY <1>3
    <3>2. buffer_[k] = Len(delivered) + Len(buffer_) - k
      BY <1>2, <3>1 DEF IInv, BufferInv
    <3>. QED
      BY <1>3, <1>4, <1>10, <3>2
  <2>2. Len(buffer_') <= num_ahead
    BY <1>1, <1>2, <1>3 DEF IInv, BufferInv, TypeOK
  <2>. QED
    BY <1>2, <1>10, <2>1, <2>2 DEF IInv, BufferInv, Running
<1>. QED
  BY <1>5, <1>7, <1>8, <1>9, <1>11, <1>12 DEF IInv

LEMMA StepIInv == IInv /\ [Next]_vars => IInv'
<1>. SUFFICES ASSUME IInv, [Next]_vars
              PROVE  IInv'
  OBVIOUS
<1>1. CASE Worker
  BY <1>1, CheckCancelledIInv, ReadBatchIInv, PublishWaitIInv, PublishIInv
     DEF Worker
<1>2. ASSUME NEW c \in Consumers, Consumer(c)
      PROVE  IInv'
  BY <1>2, CallIInv, NextWaitIInv, NextRecordIInv, NextEndIInv, NextErrorIInv,
     SignalBufferAvailableIInv
     DEF Consumer, NextLocked
<1>3. CASE Destructor
  BY <1>3, CancelIInv, ClearBufferIInv, SignalAllIInv, JoinIInv DEF Destructor
<1>4. CASE SpuriousWakeup
  BY <1>4, SpuriousWakeupIInv
<1>5. CASE UNCHANGED vars
  BY <1>5 DEF vars, args, shared, local, cancel, history, IInv, TypeOK, InOrder,
              BatchInv, BatchSize, FlagInv, DoneInv, BufferInv, OutcomeInv, Running
<1>. QED
  BY <1>1, <1>2, <1>3, <1>4, <1>5 DEF Next, Destroyed

\* The invariant from which the rest follows: the two buffers, the worker's
\* offset, the flags and the records returned agree in every state, for any
\* number of callers and unless read_ahead can be 0.
THEOREM Invariance ==
  ASSUME 0 \notin ReadAheads
  PROVE  Spec => []IInv
<1>1. Init => IInv
  BY InitIInv
<1>. QED
  BY <1>1, StepIInv, PTL DEF Spec

\* The types of all variables, in particular that every record in buffer_ and
\* every record returned is one of the stream, never an unfilled slot.
THEOREM TypeCorrect ==
  ASSUME 0 \notin ReadAheads
  PROVE  Spec => []TypeOK
<1>1. IInv => TypeOK
  BY DEF IInv
<1>. QED
  BY <1>1, Invariance, PTL

\* Nothing is lost or repeated between the two threads: until the destructor
\* runs, buffer_ holds exactly the records after the delivered ones, and a
\* running worker is reading the batch after those (swap, lines 143-150).
HandOver ==
  destructor = "alive" =>
    /\ \A k \in 1..Len(buffer_) :
         buffer_[k] = Len(delivered) + Len(buffer_) - k
    /\ worker \in {"check", "read", "publish", "waiting"} =>
         Len(delivered) + Len(buffer_) = offset

\* No record is lost or repeated between the worker and the callers.
THEOREM HandOverCorrect ==
  ASSUME 0 \notin ReadAheads
  PROVE  Spec => []HandOver
<1>1. IInv => HandOver
  BY DEF IInv, BufferInv, HandOver, Running
<1>. QED
  BY <1>1, Invariance, PTL

\* At most two batches are read ahead of the callers.
THEOREM ReadAheadBounded ==
  ASSUME 0 \notin ReadAheads
  PROVE  Spec => []ReadAheadBound
<1>1. IInv => ReadAheadBound
  <2>. SUFFICES ASSUME IInv, destructor = "alive"
                PROVE  offset + Len(batch) <= Len(delivered) + 2 * num_ahead
    BY DEF ReadAheadBound
  <2>1. /\ Len(batch) \in Nat /\ Len(delivered) \in Nat /\ Len(buffer_) \in Nat
        /\ offset \in Nat /\ num_ahead \in Nat
        /\ Len(batch) <= num_ahead /\ Len(buffer_) <= num_ahead
    BY LenProperties DEF IInv, TypeOK, BatchInv, BufferInv
  <2>2. CASE Running
    BY <2>1, <2>2 DEF IInv, BufferInv
  <2>3. CASE worker = "none"
    BY <2>1, <2>3 DEF IInv, FlagInv, BatchInv
  <2>4. CASE worker = "done"
    <3>1. Len(batch) = 0
      BY <2>4 DEF IInv, BatchInv
    <3>2. offset <= Len(delivered) + Len(buffer_)
      BY <2>1, <2>4, EmptySeq DEF IInv, DoneInv
    <3>. QED
      BY <2>1, <3>1, <3>2
  <2>. QED
    BY <2>2, <2>3, <2>4 DEF IInv, TypeOK, Running
<1>. QED
  BY <1>1, Invariance, PTL

\* An error is reported after all records read before it.
THEOREM ErrorComesLast ==
  ASSUME 0 \notin ReadAheads
  PROVE  Spec => []ErrorIsLast
<1>1. IInv => ErrorIsLast
  BY DEF IInv, TypeOK, FlagInv, DoneInv, ErrorIsLast, Running
<1>. QED
  BY <1>1, Invariance, PTL

\* The end is reported only when every record of the stream was returned.
THEOREM EndComplete ==
  ASSUME 0 \notin ReadAheads
  PROVE  Spec => []EndIsComplete
<1>1. IInv => EndIsComplete
  BY DEF IInv, OutcomeInv, EndIsComplete
<1>. QED
  BY <1>1, Invariance, PTL
-----------------------------------------------------------------------------
(* Refinement *)

\* Every step is a step of the abstract stream, or leaves it alone.
LEMMA StepRefines == IInv /\ [Next]_vars => [Stream!Next]_(Stream!vars)
<1>. SUFFICES ASSUME IInv, [Next]_vars, ~ UNCHANGED Stream!vars
              PROVE  Stream!Next
  OBVIOUS
<1>. USE DEF args, shared, local, cancel, history, Stream!vars
<1>1. TypeOK
  BY DEF IInv
<1>2. ~ Worker /\ ~ Destructor /\ ~ SpuriousWakeup /\ ~ UNCHANGED vars
  BY DEF Worker, CheckCancelled, ReadBatch, PublishWait, Publish, Destructor,
         Cancel, ClearBuffer, SignalAll, Join, SpuriousWakeup, vars
<1>3. PICK c \in Consumers : Consumer(c)
  BY <1>2 DEF Next, Destroyed
<1>4. NextRecord(c) \/ NextEnd(c) \/ NextError(c)
  BY <1>3 DEF Consumer, Call, NextLocked, NextWait, SignalBufferAvailable
<1>5. CASE NextRecord(c)
  <2>1. /\ buffer_ # <<>> /\ status_ = "ok" /\ destructor = "alive"
        /\ UNCHANGED <<length, outcome>>
    BY <1>1, <1>5 DEF NextRecord, IInv, FlagInv, TypeOK
  <2>2. outcome = "open"
    BY <1>1, <2>1 DEF IInv, OutcomeInv, TypeOK
  <2>3. /\ Len(buffer_) \in Nat \ {0} /\ Len(delivered) \in Nat
        /\ buffer_[Len(buffer_)] \in 0..length-1
    BY <1>1, <2>1, PopBack, LenProperties DEF TypeOK
  <2>4. buffer_[Len(buffer_)] = Len(delivered)
    <3> DEFINE n == Len(buffer_)
               d == Len(delivered)
    <3>1. n \in Nat \ {0} /\ d \in Nat
      BY <2>3
    <3>2. \A k \in 1..n : buffer_[k] = d + n - k
      BY <2>1 DEF IInv, BufferInv
    <3> HIDE DEF n, d
    <3>3. n \in 1..n /\ d + n - n = d
      BY <3>1
    <3>4. buffer_[n] = d
      BY <3>2, <3>3
    <3>5. QED
      BY <3>4 DEF n, d
  <2>5. Len(delivered) < length
    BY <1>1, <2>3, <2>4 DEF TypeOK
  <2>. QED
    BY <1>5, <2>1, <2>2, <2>4, <2>5 DEF NextRecord, Stream!Next, Stream!Deliver
<1>6. CASE NextEnd(c)
  <2>1. OutcomeInv'
    BY <1>6, NextEndIInv DEF IInv
  <2>2. outcome' = "end" /\ UNCHANGED <<length, delivered>> /\ status_ = "ok"
    BY <1>6 DEF NextEnd
  <2>3. Len(delivered) = length
    BY <2>1, <2>2 DEF OutcomeInv
  <2>4. outcome = "open"
    BY <1>1, <2>2 DEF IInv, OutcomeInv, TypeOK
  <2>. QED
    BY <2>2, <2>3, <2>4 DEF Stream!Next, Stream!End
<1>7. CASE NextError(c)
  <2>1. outcome' = "error" /\ UNCHANGED <<length, delivered>> /\ status_ # "ok"
    BY <1>7 DEF NextError
  <2>2. outcome = "open"
    BY <1>1, <2>1 DEF IInv, OutcomeInv, TypeOK
  <2>. QED
    BY <2>1, <2>2 DEF Stream!Next, Stream!Fail
<1>. QED
  BY <1>4, <1>5, <1>6, <1>7

\* The double-buffered iterator implements the stream of records: in order,
\* once each, and then the end or an error for good, whatever the callers, the
\* worker and the destructor do.
THEOREM Refinement ==
  ASSUME 0 \notin ReadAheads
  PROVE  Spec => ImplementsRecordStream
<1>1. Init => Stream!Init
  <2>. SUFFICES ASSUME Init
                PROVE  Stream!Init
    OBVIOUS
  <2>1. length \in Nat
    BY InitIInv DEF IInv, TypeOK
  <2>. QED
    BY <2>1 DEF Init, Stream!Init
<1>. QED
  BY <1>1, StepRefines, Invariance, PTL DEF Spec, ImplementsRecordStream, Stream!Spec

-----------------------------------------------------------------------------
(* Wakeups *)

\* While the worker waits somebody has a reason to wake it: the signal that
\* next() sends after unlocking is never missed.
THEOREM NoLostWorkerWakeup ==
  ASSUME 0 \notin ReadAheads
  PROVE  Spec => []WorkerWakeupPending
<1>. USE DEF args, shared, local, cancel, history
<1>1. Init => WorkerWakeupPending
  BY DEF Init, WorkerWakeupPending
<1>2. IInv /\ WorkerWakeupPending /\ [Next]_vars => WorkerWakeupPending'
  <2>. SUFFICES ASSUME TypeOK, FlagInv, WorkerWakeupPending, [Next]_vars,
                       worker' = "waiting"
                PROVE  \/ buffer_' # <<>>
                       \/ \E c \in Consumers : consumer'[c] = "signalling"
                       \/ destructor' = "cleared"
    BY DEF IInv, WorkerWakeupPending
  <2>1. CASE Worker
    BY <2>1 DEF Worker, CheckCancelled, ReadBatch, PublishWait, Publish,
                WorkerMustWait
  <2>2. ASSUME NEW c \in Consumers, Consumer(c)
        PROVE  \/ buffer_' # <<>>
               \/ \E d \in Consumers : consumer'[d] = "signalling"
               \/ destructor' = "cleared"
    <3>1. worker = "waiting" /\ ~ SignalBufferAvailable(c)
      BY <2>2 DEF Consumer, Call, NextLocked, NextWait, NextRecord, NextEnd,
                  NextError, SignalBufferAvailable
    <3>2. CASE NextRecord(c)
      BY <3>2 DEF NextRecord, AfterUnlock, TypeOK
    <3>3. CASE Call(c) \/ NextWait(c) \/ NextEnd(c) \/ NextError(c)
      <4>1. consumer[c] # "signalling" /\ buffer_' = buffer_
            /\ destructor' = destructor
        BY <3>3 DEF Call, NextWait, NextEnd, NextError
      <4>2. \A d \in Consumers : d # c => consumer'[d] = consumer[d]
        BY <3>3 DEF Call, NextWait, NextEnd, NextError, TypeOK
      <4>. QED
        BY <3>1, <4>1, <4>2 DEF WorkerWakeupPending
    <3>. QED
      BY <2>2, <3>1, <3>2, <3>3 DEF Consumer, NextLocked
  <2>3. CASE Destructor
    BY <2>3 DEF Destructor, Cancel, ClearBuffer, SignalAll, Join, FlagInv,
                WorkerWakeupPending
  <2>4. CASE SpuriousWakeup
    <3>1. worker = "waiting" /\ buffer_' = buffer_ /\ destructor' = destructor
      BY <2>4 DEF SpuriousWakeup
    <3>2. \A d \in Consumers :
            consumer[d] = "signalling" => consumer'[d] = "signalling"
      BY <2>4 DEF SpuriousWakeup, Waiting, TypeOK
    <3>. QED
      BY <3>1, <3>2 DEF WorkerWakeupPending
  <2>5. CASE UNCHANGED vars
    BY <2>5 DEF vars, WorkerWakeupPending
  <2>. QED
    BY <2>1, <2>2, <2>3, <2>4, <2>5 DEF Next, Destroyed
<1>. QED
  BY <1>1, <1>2, Invariance, PTL DEF Spec
\* A single caller sleeps only while there is nothing for it: the one Signal per
\* batch, sent under the mutex, is enough.  (With two callers it is not, which
\* is why the number of callers is an assumption.)
THEOREM NoLostCallerWakeup ==
  ASSUME 0 \notin ReadAheads, NEW only, Consumers = {only}
  PROVE  Spec => []CallerSleepsOnlyForNothing
<1>. USE DEF args, shared, local, cancel, history
<1>. DEFINE Sleeps == consumer[only] = "waiting" => NextMustWait
<1>1. Init => Sleeps
  BY DEF Init
<1>2. IInv /\ Sleeps /\ [Next]_vars => Sleeps'
  <2>. SUFFICES ASSUME TypeOK, FlagInv, Sleeps, [Next]_vars,
                       consumer'[only] = "waiting"
                PROVE  NextMustWait'
    BY DEF IInv
  <2>1. CASE Worker
    <3>1. ~ Publish
      BY <2>1 DEF Publish, SignalNextAvailable, Waiting, TypeOK
    <3>. QED
      BY <2>1, <3>1 DEF Worker, CheckCancelled, ReadBatch, PublishWait,
                        NextMustWait
  <2>2. CASE Consumer(only)
    <3>1. NextWait(only)
      BY <2>2 DEF Consumer, Call, NextLocked, NextRecord, NextEnd, NextError,
                  SignalBufferAvailable, AfterUnlock, TypeOK
    <3>. QED
      BY <3>1 DEF NextWait, NextMustWait
  <2>3. CASE Destructor
    <3>1. destructor # "alive" \/ consumer[only] = "idle"
      BY <2>3 DEF Destructor, Cancel, ClearBuffer, SignalAll, Join
    <3>2. consumer[only] = "idle" /\ consumer' = consumer
      BY <2>3, <3>1 DEF Destructor, Cancel, ClearBuffer, SignalAll, Join, FlagInv
    <3>. QED
      BY <3>2
  <2>4. CASE SpuriousWakeup
    BY <2>4 DEF SpuriousWakeup, Waiting, NextMustWait, TypeOK
  <2>5. CASE UNCHANGED vars
    BY <2>5 DEF vars, NextMustWait
  <2>. QED
    BY <2>1, <2>2, <2>3, <2>4, <2>5 DEF Next, Destroyed
<1>3. Sleeps => CallerSleepsOnlyForNothing
  BY DEF CallerSleepsOnlyForNothing, Waiting
<1>. QED
  BY <1>1, <1>2, <1>3, Invariance, PTL DEF Spec

\* After the destructor no thread uses the iterator and no record is held.
THEOREM DestructorJoins ==
  ASSUME 0 \notin ReadAheads
  PROVE  Spec => []NothingOutlivesDestructor
<1>. USE DEF args, shared, local, cancel, history
<1>. DEFINE Gone == destructor = "done" => worker \in {"none", "done"}
<1>1. Init => Gone
  BY DEF Init
<1>2. IInv /\ Gone /\ [Next]_vars => Gone'
  <2>. SUFFICES ASSUME Gone, [Next]_vars, destructor' = "done"
                PROVE  worker' \in {"none", "done"}
    OBVIOUS
  <2>1. CASE destructor = "done"
    BY <2>1 DEF Next, vars, Destroyed, Worker, CheckCancelled, ReadBatch,
                PublishWait, Publish, Consumer, Call, NextLocked, NextWait,
                NextRecord, NextEnd, NextError, SignalBufferAvailable,
                Destructor, Cancel, ClearBuffer, SignalAll, Join, SpuriousWakeup
  <2>2. CASE destructor # "done"
    BY <2>2 DEF Next, vars, Destroyed, Worker, CheckCancelled, ReadBatch,
                PublishWait, Publish, Consumer, Call, NextLocked, NextWait,
                NextRecord, NextEnd, NextError, SignalBufferAvailable,
                Destructor, Cancel, ClearBuffer, SignalAll, Join, SpuriousWakeup
  <2>. QED
    BY <2>1, <2>2
<1>3. IInv /\ Gone => NothingOutlivesDestructor
  BY DEF IInv, BatchInv, NothingOutlivesDestructor
<1>. QED
  BY <1>1, <1>2, <1>3, Invariance, PTL DEF Spec
=============================================================================
