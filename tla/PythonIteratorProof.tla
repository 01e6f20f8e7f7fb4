------------------------ MODULE PythonIteratorProof ------------------------
(***************************************************************************)
(* Proofs about PythonIterator for any threads, numbers of records and     *)
(* batch sizes.  Where the records are (CountInv) says when the end is     *)
(* reached, where the exception is (ExceptionInv) that it is found there,  *)
(* and AnswerInv that neither changes between an answer of next() under    *)
(* the mutex and its return under the GIL.                                 *)
(***************************************************************************)
EXTENDS PythonIterator, TLAPS

\* The worker's batch is being filled; is full, and waits to be handed over.
Filling == worker \in {"resize", "read"}
HandingOver == worker \in {"publish", "waiting"}
Stopped == worker \in {"clean_up", "done"}

Alive == destructor = "alive"

\* The destructor runs when nobody calls next(), and cancels first.
LifeInv ==
  /\ cancelled => ~Alive
  /\ ~Alive => \A c \in callers : caller[c] = "idle"

\* A batch is cut only where the indices end.
BatchInv ==
  /\ mode = "range" => ~raises
  /\ Filling => batch = BatchSize /\ batch_status = "ok"
  /\ HandingOver /\ batch_status = "ok" =>
       batch <= taken /\ (batch < num_ahead => taken = length)
  /\ HandingOver /\ batch_status = "aborted" =>
       raises /\ taken = length /\ batch = 0

\* What has been taken has been delivered, or is in one of the buffers, until
\* the destructor clears them.
CountInv ==
  /\ delivered + buffer_ <= taken
  /\ HandingOver /\ batch_status = "ok" => delivered + buffer_ + batch <= taken
  /\ Alive =>
       /\ worker \in {"check", "take_indices"} \/ Filling =>
            delivered + buffer_ = taken
       /\ HandingOver /\ batch_status = "ok" =>
            delivered + buffer_ + batch = taken
       /\ HandingOver /\ batch_status = "aborted" => delivered + buffer_ = taken

\* What the callers see of a worker that has stopped.
EndInv ==
  /\ ~Stopped => more_to_read_ /\ status_ = "ok"
  /\ Alive /\ status_ = "ok" /\ ~more_to_read_ => delivered + buffer_ = length
  /\ Alive /\ status_ = "aborted" => raises /\ buffer_ = 0 /\ delivered = length

\* The exception is stored before the callers can see the end, and by the last
\* batch only.
ExceptionInv ==
  /\ raised <= 1
  /\ exception_store_ \/ raised = 1 => raises
  /\ exception_store_ => raised = 0
  /\ raised = 1 => outcome # "open"
  /\ \/ worker \in {"check", "take_indices"}
     \/ (Filling \/ HandingOver) /\ batch = num_ahead
     => ~exception_store_ /\ raised = 0
  /\ Alive /\ raises =>
       /\ Filling \/ HandingOver =>
            batch = num_ahead \/ batch_status = "error"
              \/ exception_store_ \/ raised = 1
       /\ status_ = "ok" /\ ~more_to_read_ => exception_store_ \/ raised = 1

\* An answer that has not been returned yet is still true.
AnswerInv ==
  \A c \in callers :
    /\ caller[c] \in {"answer", "restore"} =>
         /\ answer[c] = "none" =>
              status_ = "ok" /\ ~more_to_read_ /\ buffer_ = 0
         /\ answer[c] = "aborted" => status_ = "aborted"
    /\ caller[c] = "restore" => MayHold(c)

IInv ==
  /\ TypeOK /\ LifeInv /\ BatchInv /\ CountInv /\ EndInv
  /\ ExceptionInv /\ AnswerInv /\ ExceptionIsDelivered

-----------------------------------------------------------------------------
(* Numbers, and the beginning *)

LEMMA Facts ==
  ASSUME TypeOK
  PROVE  /\ length \in Nat /\ num_ahead \in Nat /\ num_ahead > 0
         /\ BatchSize \in 0..num_ahead /\ BatchSize <= length - taken
         /\ BatchSize = num_ahead \/ BatchSize = length - taken
<1>1. length \in Nat /\ num_ahead \in Nat \ {0}
  BY LengthsAssumption, ReadAheadsAssumption DEF TypeOK
<1>2. QED
  BY <1>1 DEF TypeOK, BatchSize, AtMost

LEMMA InitIInv == Init => IInv
<1> SUFFICES ASSUME Init PROVE IInv
  OBVIOUS
<1> USE DEF Init, Filling, HandingOver, Stopped, Alive
<1>1. length \in Nat /\ num_ahead \in Nat \ {0}
  BY LengthsAssumption, ReadAheadsAssumption
<1>2. TypeOK
  <2>1. buffer_ \in 0..num_ahead /\ batch \in 0..num_ahead
        /\ taken \in 0..length /\ delivered \in 0..length
    BY <1>1
  <2>2. QED
    BY <2>1 DEF TypeOK
<1>3. LifeInv /\ BatchInv /\ CountInv /\ EndInv
  BY <1>1 DEF LifeInv, BatchInv, CountInv, EndInv
<1>4. ExceptionInv /\ AnswerInv /\ ExceptionIsDelivered
  BY <1>1 DEF ExceptionInv, AnswerInv, MayHold, ExceptionIsDelivered
<1>5. QED
  BY <1>2, <1>3, <1>4 DEF IInv

-----------------------------------------------------------------------------
(* The worker *)

LEMMA CheckCancelledStep ==
  ASSUME IInv, CheckCancelled
  PROVE  IInv'
<1> USE Facts DEF IInv, args, locks, shared, local, cancel, calling, history
<1>1. LifeInv' /\ CountInv' /\ EndInv' /\ AnswerInv' /\ ExceptionIsDelivered'
  BY DEF CheckCancelled, BatchSize, AtMost, LifeInv, Alive, CountInv, Filling,
         HandingOver, EndInv, Stopped, AnswerInv, MayHold, ExceptionIsDelivered
<1>2. BatchInv'
  BY DEF CheckCancelled, BatchSize, TypeOK, BatchInv, Filling, HandingOver
<1>3. ExceptionInv'
  BY DEF CheckCancelled, TypeOK, BatchInv, ExceptionInv, Alive, Filling,
         HandingOver
<1>4. TypeOK'
  BY DEF CheckCancelled, TypeOK, ExceptionInv
<1>5. QED
  BY <1>1, <1>2, <1>3, <1>4

LEMMA TakeIndicesStep ==
  ASSUME IInv, TakeIndices
  PROVE  IInv'
<1> USE Facts DEF IInv, args, locks, shared, local, cancel, calling, history
<1>1. TypeOK' /\ LifeInv' /\ EndInv' /\ AnswerInv' /\ ExceptionIsDelivered'
  BY DEF TakeIndices, Free, BatchSize, AtMost, StatusOfIndices, TypeOK,
         LifeInv, Alive, EndInv, Stopped, AnswerInv, MayHold,
         ExceptionIsDelivered
<1>2. BatchInv'
  BY DEF TakeIndices, StatusOfIndices, TypeOK, BatchInv, EndInv, Filling,
         HandingOver, Stopped, BatchSize, AtMost
<1>3. CountInv'
  BY DEF TakeIndices, BatchSize, AtMost, TypeOK, CountInv, Alive, HandingOver
<1>4. ExceptionInv'
  BY DEF TakeIndices, StatusOfIndices, TypeOK, ExceptionInv, Alive
<1>5. QED
  BY <1>1, <1>2, <1>3, <1>4

LEMMA ResizeStep ==
  ASSUME IInv, Resize
  PROVE  IInv'
<1> USE Facts DEF IInv, args, locks, shared, local, cancel, calling, history
<1>1. TypeOK' /\ LifeInv' /\ EndInv' /\ ExceptionInv' /\ AnswerInv'
      /\ ExceptionIsDelivered'
  BY DEF Resize, BatchSize, AtMost, Free, Cleared, TypeOK, LifeInv, Alive,
         EndInv, Stopped, ExceptionInv, Filling, HandingOver, AnswerInv,
         MayHold, ExceptionIsDelivered
<1>2. BatchInv'
  BY DEF Resize, BatchSize, AtMost, TypeOK, BatchInv, Filling, HandingOver
<1>3. CountInv'
  BY DEF Resize, TypeOK, CountInv, Alive, Filling, HandingOver
<1>4. QED
  BY <1>1, <1>2, <1>3

LEMMA ReadBatchStep ==
  ASSUME IInv, ReadBatch
  PROVE  IInv'
<1> USE Facts DEF IInv, args, locks, shared, local, cancel, calling, history
<1>1. LifeInv' /\ EndInv' /\ ExceptionInv' /\ AnswerInv'
      /\ ExceptionIsDelivered'
  BY DEF ReadBatch, BatchSize, AtMost, Free, LifeInv, Alive, EndInv, Stopped,
         ExceptionInv, Filling, HandingOver, AnswerInv, MayHold,
         ExceptionIsDelivered
<1>2. BatchInv'
  BY DEF ReadBatch, TypeOK, BatchInv, Filling
<1>3. CountInv'
  BY DEF ReadBatch, TypeOK, BatchInv, CountInv, Alive, Filling
<1>4. TypeOK'
  BY DEF ReadBatch, TypeOK, BatchInv, Filling
<1>5. QED
  BY <1>1, <1>2, <1>3, <1>4

LEMMA PublishWaitStep ==
  ASSUME IInv, PublishWait
  PROVE  IInv'
<1> USE Facts DEF IInv, args, locks, shared, local, cancel, calling, history
<1>1. TypeOK' /\ LifeInv' /\ BatchInv' /\ CountInv' /\ EndInv' /\ ExceptionInv'
      /\ AnswerInv' /\ ExceptionIsDelivered'
  BY DEF PublishWait, Free, Cleared, TypeOK, LifeInv, Alive, BatchInv, Filling,
         HandingOver, BatchSize, AtMost, CountInv, EndInv, Stopped,
         ExceptionInv, AnswerInv, MayHold, ExceptionIsDelivered
<1>2. QED
  BY <1>1

LEMMA PublishStep ==
  ASSUME IInv, Publish
  PROVE  IInv'
<1> USE Facts DEF IInv, args, locks, shared, local, cancel, calling, history
<1>1. TypeOK' /\ LifeInv' /\ BatchInv' /\ ExceptionIsDelivered'
  BY DEF Publish, Free, Cleared, SignalNextAvailable, Waiting, TypeOK, LifeInv,
         Alive, BatchInv, Filling, HandingOver, BatchSize, AtMost,
         ExceptionIsDelivered
<1>2. AnswerInv'
  BY DEF Publish, SignalNextAvailable, TypeOK, EndInv, AnswerInv, Stopped,
         MayHold
<1>3. CountInv'
  BY DEF Publish, TypeOK, CountInv, Alive, Filling, HandingOver
<1>4. EndInv'
  <2>1. CASE batch_status = "ok"
    <3>1. buffer_' = batch /\ status_' = "ok" /\ delivered' = delivered
      BY <2>1 DEF Publish, EndInv, Stopped
    <3>2. batch < num_ahead => delivered + batch = length \/ ~Alive
      BY <2>1 DEF Publish, TypeOK, BatchInv, CountInv, HandingOver
    <3>3. QED
      BY <2>1, <3>1, <3>2 DEF Publish, EndInv, Stopped, Alive, TypeOK
  <2>2. CASE batch_status # "ok"
    BY <2>2 DEF Publish, TypeOK, EndInv, Stopped, Alive, BatchInv, CountInv,
                HandingOver
  <2>3. QED
    BY <2>1, <2>2
<1>5. ExceptionInv'
  BY DEF Publish, TypeOK, ExceptionInv, Alive, Filling, HandingOver
<1>6. QED
  BY <1>1, <1>2, <1>3, <1>4, <1>5

LEMMA CleanUpStep ==
  ASSUME IInv, CleanUp
  PROVE  IInv'
<1> USE Facts DEF IInv, args, locks, shared, local, cancel, calling, history
<1>1. TypeOK' /\ LifeInv' /\ BatchInv' /\ CountInv' /\ EndInv' /\ ExceptionInv'
      /\ AnswerInv' /\ ExceptionIsDelivered'
  BY DEF CleanUp, Free, TypeOK, LifeInv, Alive, BatchInv, Filling, HandingOver,
         BatchSize, AtMost, CountInv, EndInv, Stopped, ExceptionInv, AnswerInv,
         MayHold, ExceptionIsDelivered
<1>2. QED
  BY <1>1

-----------------------------------------------------------------------------
(* next() *)

LEMMA CallStep ==
  ASSUME IInv, NEW c \in callers, Call(c)
  PROVE  IInv'
<1> USE Facts DEF IInv, args, locks, shared, local, cancel, calling, history
<1>1. TypeOK' /\ LifeInv' /\ BatchInv' /\ CountInv' /\ EndInv' /\ ExceptionInv'
      /\ AnswerInv' /\ ExceptionIsDelivered'
  BY DEF Call, Free, TypeOK, LifeInv, Alive, BatchInv, Filling, HandingOver,
         BatchSize, AtMost, CountInv, EndInv, Stopped, ExceptionInv, AnswerInv,
         MayHold, ExceptionIsDelivered
<1>2. QED
  BY <1>1

LEMMA ReleaseStep ==
  ASSUME IInv, NEW c \in callers, Release(c)
  PROVE  IInv'
<1> USE Facts DEF IInv, args, locks, shared, local, cancel, calling, history
<1>1. TypeOK' /\ LifeInv' /\ BatchInv' /\ CountInv' /\ EndInv' /\ ExceptionInv'
      /\ AnswerInv' /\ ExceptionIsDelivered'
  BY DEF Release, TypeOK, LifeInv, Alive, BatchInv, Filling, HandingOver,
         BatchSize, AtMost, CountInv, EndInv, Stopped, ExceptionInv, AnswerInv,
         MayHold, ExceptionIsDelivered
<1>2. QED
  BY <1>1

LEMMA NextWaitStep ==
  ASSUME IInv, NEW c \in callers, NextWait(c)
  PROVE  IInv'
<1> USE Facts DEF IInv, args, locks, shared, local, cancel, calling, history
<1>1. TypeOK' /\ LifeInv' /\ BatchInv' /\ CountInv' /\ EndInv' /\ ExceptionInv'
      /\ AnswerInv' /\ ExceptionIsDelivered'
  BY DEF NextWait, Free, NextMustWait, TypeOK, LifeInv, Alive, BatchInv,
         Filling, HandingOver, BatchSize, AtMost, CountInv, EndInv, Stopped,
         ExceptionInv, AnswerInv, MayHold, ExceptionIsDelivered
<1>2. QED
  BY <1>1

LEMMA BaseNextStep ==
  ASSUME IInv, NEW c \in callers, BaseNext(c)
  PROVE  IInv'
<1> USE Facts DEF IInv, args, locks, shared, local, cancel, calling, history
<1>1. LifeInv' /\ BatchInv' /\ ExceptionInv'
  BY DEF BaseNext, Free, NextMustWait, LifeInv, Alive, BatchInv, Filling,
         HandingOver, BatchSize, AtMost, ExceptionInv
<1>2. AnswerInv'
  BY DEF BaseNext, NextMustWait, TypeOK, AnswerInv, MayHold
<1>3. CountInv'
  BY DEF BaseNext, TypeOK, LifeInv, CountInv, ExceptionInv, Filling,
         HandingOver
<1>4. EndInv'
  BY DEF BaseNext, TypeOK, LifeInv, EndInv, Stopped
<1>5. ExceptionIsDelivered'
  BY DEF BaseNext, TypeOK, CountInv, ExceptionIsDelivered
<1>6. TypeOK'
  BY DEF BaseNext, TypeOK, CountInv
<1>7. QED
  BY <1>1, <1>2, <1>3, <1>4, <1>5, <1>6

LEMMA AnswerRecordStep ==
  ASSUME IInv, NEW c \in callers, AnswerRecord(c)
  PROVE  IInv'
<1> USE Facts DEF IInv, args, locks, shared, local, cancel, calling, history
<1>1. TypeOK' /\ LifeInv' /\ BatchInv' /\ CountInv' /\ EndInv' /\ ExceptionInv'
      /\ AnswerInv' /\ ExceptionIsDelivered'
  BY DEF AnswerRecord, Return, Free, TypeOK, LifeInv, Alive, BatchInv, Filling,
         HandingOver, BatchSize, AtMost, CountInv, EndInv, Stopped,
         ExceptionInv, AnswerInv, MayHold, ExceptionIsDelivered
<1>2. QED
  BY <1>1

LEMMA AnswerEndStep ==
  ASSUME IInv, NEW c \in callers, AnswerEnd(c)
  PROVE  IInv'
<1> USE Facts DEF IInv, args, locks, shared, local, cancel, calling, history
<1>1. TypeOK' /\ LifeInv' /\ BatchInv' /\ CountInv' /\ EndInv' /\ ExceptionInv'
      /\ AnswerInv'
  BY DEF AnswerEnd, MayHold, Return, First, Free, TypeOK, LifeInv, Alive,
         BatchInv, Filling, HandingOver, BatchSize, AtMost, CountInv, EndInv,
         Stopped, ExceptionInv, AnswerInv
<1>2. ExceptionIsDelivered'
  BY DEF AnswerEnd, MayHold, First, TypeOK, LifeInv, EndInv, ExceptionInv,
         AnswerInv, ExceptionIsDelivered
<1>3. QED
  BY <1>1, <1>2

LEMMA FindExceptionStep ==
  ASSUME IInv, NEW c \in callers, FindException(c)
  PROVE  IInv'
<1> USE Facts DEF IInv, args, locks, shared, local, cancel, calling, history
<1>1. TypeOK' /\ LifeInv' /\ BatchInv' /\ CountInv' /\ EndInv' /\ ExceptionInv'
      /\ AnswerInv' /\ ExceptionIsDelivered'
  BY DEF FindException, MayHold, TypeOK, LifeInv, Alive, BatchInv, Filling,
         HandingOver, BatchSize, AtMost, CountInv, EndInv, Stopped,
         ExceptionInv, AnswerInv, ExceptionIsDelivered
<1>2. QED
  BY <1>1

LEMMA RestoreStep ==
  ASSUME IInv, NEW c \in callers, Restore(c)
  PROVE  IInv'
<1> USE Facts DEF IInv, args, locks, shared, local, cancel, calling, history
<1>1. LifeInv' /\ BatchInv' /\ CountInv' /\ EndInv' /\ ExceptionInv'
      /\ AnswerInv'
  BY DEF Restore, MayHold, Return, First, Free, LifeInv, Alive, BatchInv,
         Filling, HandingOver, BatchSize, AtMost, CountInv, EndInv, Stopped,
         ExceptionInv, AnswerInv
<1>2. ExceptionIsDelivered'
  BY DEF Restore, MayHold, First, TypeOK, LifeInv, EndInv, ExceptionInv,
         AnswerInv, ExceptionIsDelivered
<1>3. TypeOK'
  <2>1. caller' \in [callers -> {"idle", "call", "lock", "waiting", "answer",
                               "restore", "ended"}]
    BY DEF Restore, Return, TypeOK
  <2>2. raised' \in Nat
    <3>1. raised \in Nat
      BY DEF TypeOK
    <3>2. raised' = raised + 1
      BY DEF Restore
    <3>3. QED
      BY <3>1, <3>2
  <2>3. outcome' \in {"open", "stop", "exception", "error"}
    BY DEF Restore, First, TypeOK
  <2>4. exception_store_' = FALSE
    BY DEF Restore
  <2>5. exception_store_' \in BOOLEAN /\ ~exception_store_'
    BY <2>4
  <2>6. UNCHANGED <<callers, mode, length, raises, num_ahead, gil,
                    buffer_mutex_, buffer_, status_, more_to_read_, worker,
                    taken, batch, batch_status, cancelled, synced, answer,
                    destructor, delivered>>
    BY DEF Restore
  <2>7. QED
    BY <2>1, <2>2, <2>3, <2>5, <2>6 DEF TypeOK
<1>4. QED
  BY <1>1, <1>2, <1>3

LEMMA NothingToRestoreStep ==
  ASSUME IInv, NEW c \in callers, NothingToRestore(c)
  PROVE  IInv'
<1> USE Facts DEF IInv, args, locks, shared, local, cancel, calling, history
<1>1. TypeOK' /\ LifeInv' /\ BatchInv' /\ CountInv' /\ EndInv' /\ ExceptionInv'
      /\ ExceptionIsDelivered'
  BY DEF NothingToRestore, Free, Return, First, MayHold, TypeOK, LifeInv,
         Alive, BatchInv, Filling, HandingOver, BatchSize, AtMost, CountInv,
         EndInv, Stopped, ExceptionInv, ExceptionIsDelivered
<1>2. AnswerInv'
  BY DEF NothingToRestore, Return, MayHold, TypeOK, AnswerInv
<1>3. QED
  BY <1>1, <1>2

-----------------------------------------------------------------------------
(* The destructor *)

LEMMA DestroyStep ==
  ASSUME IInv, Destroy
  PROVE  IInv'
<1> USE Facts DEF IInv, args, locks, shared, local, cancel, calling, history
<1>1. TypeOK' /\ LifeInv' /\ BatchInv' /\ CountInv' /\ EndInv' /\ ExceptionInv'
      /\ AnswerInv' /\ ExceptionIsDelivered'
  BY DEF Destroy, Free, TypeOK, LifeInv, Alive, BatchInv, Filling, HandingOver,
         BatchSize, AtMost, CountInv, EndInv, Stopped, ExceptionInv, AnswerInv,
         MayHold, ExceptionIsDelivered
<1>2. QED
  BY <1>1

LEMMA CancelStep ==
  ASSUME IInv, Cancel
  PROVE  IInv'
<1> USE Facts DEF IInv, args, locks, shared, local, cancel, calling, history
<1>1. TypeOK' /\ LifeInv' /\ BatchInv' /\ CountInv' /\ EndInv' /\ ExceptionInv'
      /\ AnswerInv' /\ ExceptionIsDelivered'
  BY DEF Cancel, TypeOK, LifeInv, Alive, BatchInv, Filling, HandingOver,
         BatchSize, AtMost, CountInv, EndInv, Stopped, ExceptionInv, AnswerInv,
         MayHold, ExceptionIsDelivered
<1>2. QED
  BY <1>1

LEMMA LockBufferStep ==
  ASSUME IInv, LockBuffer
  PROVE  IInv'
<1> USE Facts DEF IInv, args, locks, shared, local, cancel, calling, history
<1>1. TypeOK' /\ LifeInv' /\ BatchInv' /\ CountInv' /\ EndInv' /\ ExceptionInv'
      /\ AnswerInv' /\ ExceptionIsDelivered'
  BY DEF LockBuffer, Free, TypeOK, LifeInv, Alive, BatchInv, Filling,
         HandingOver, BatchSize, AtMost, CountInv, EndInv, Stopped,
         ExceptionInv, AnswerInv, MayHold, ExceptionIsDelivered
<1>2. QED
  BY <1>1

LEMMA ClearBufferStep ==
  ASSUME IInv, ClearBuffer
  PROVE  IInv'
<1> USE Facts DEF IInv, args, locks, shared, local, cancel, calling, history
<1>1. TypeOK' /\ LifeInv' /\ BatchInv' /\ EndInv' /\ ExceptionInv'
      /\ AnswerInv' /\ ExceptionIsDelivered'
  BY DEF ClearBuffer, Free, TypeOK, LifeInv, Alive, BatchInv, Filling,
         HandingOver, BatchSize, AtMost, EndInv, Stopped, ExceptionInv,
         AnswerInv, MayHold, ExceptionIsDelivered
<1>2. CountInv'
  BY DEF ClearBuffer, TypeOK, CountInv, Alive, HandingOver
<1>3. QED
  BY <1>1, <1>2

LEMMA WakeStep ==
  ASSUME IInv, Wake
  PROVE  IInv'
<1> USE Facts DEF IInv, args, locks, shared, local, cancel, calling, history
<1>1. TypeOK' /\ LifeInv' /\ BatchInv' /\ CountInv' /\ EndInv' /\ ExceptionInv'
      /\ AnswerInv' /\ ExceptionIsDelivered'
  BY DEF Wake, SignalAll, TypeOK, LifeInv, Alive, BatchInv, Filling,
         HandingOver, BatchSize, AtMost, CountInv, EndInv, Stopped,
         ExceptionInv, AnswerInv, MayHold, ExceptionIsDelivered
<1>2. QED
  BY <1>1

LEMMA JoinStep ==
  ASSUME IInv, Join
  PROVE  IInv'
<1> USE Facts DEF IInv, args, locks, shared, local, cancel, calling, history
<1>1. TypeOK' /\ LifeInv' /\ BatchInv' /\ CountInv' /\ EndInv' /\ ExceptionInv'
      /\ AnswerInv' /\ ExceptionIsDelivered'
  BY DEF Join, TypeOK, LifeInv, Alive, BatchInv, Filling, HandingOver,
         BatchSize, AtMost, CountInv, EndInv, Stopped, ExceptionInv, AnswerInv,
         MayHold, ExceptionIsDelivered
<1>2. QED
  BY <1>1

LEMMA ReturnDestroyedStep ==
  ASSUME IInv, ReturnDestroyed
  PROVE  IInv'
<1> USE Facts DEF IInv, args, locks, shared, local, cancel, calling, history
<1>1. LifeInv' /\ BatchInv' /\ CountInv' /\ EndInv' /\ ExceptionInv'
      /\ AnswerInv' /\ ExceptionIsDelivered'
  BY DEF ReturnDestroyed, Free, LifeInv, Alive, BatchInv, Filling, HandingOver,
         BatchSize, AtMost, CountInv, EndInv, Stopped, ExceptionInv, AnswerInv,
         MayHold, ExceptionIsDelivered
<1>2. TypeOK'
  <2>1. exception_store_' \in BOOLEAN /\ destructor' = "done"
    BY DEF ReturnDestroyed
  <2>2. QED
    BY <2>1 DEF ReturnDestroyed, TypeOK
<1>3. QED
  BY <1>1, <1>2

-----------------------------------------------------------------------------
(* All steps, and the theorems *)

LEMMA SpuriousWakeupStep ==
  ASSUME IInv, SpuriousWakeup
  PROVE  IInv'
<1> USE Facts DEF IInv, args, locks, shared, local, cancel, calling, history
<1>1. TypeOK' /\ LifeInv' /\ BatchInv' /\ CountInv' /\ EndInv' /\ ExceptionInv'
      /\ ExceptionIsDelivered'
  BY DEF SpuriousWakeup, Waiting, TypeOK, LifeInv, Alive, BatchInv, Filling,
         HandingOver, BatchSize, AtMost, CountInv, EndInv, Stopped,
         ExceptionInv, ExceptionIsDelivered
<1>2. AnswerInv'
  BY DEF SpuriousWakeup, TypeOK, AnswerInv, MayHold
<1>3. QED
  BY <1>1, <1>2

LEMMA UnchangedStep ==
  ASSUME IInv, UNCHANGED vars
  PROVE  IInv'
<1> USE DEF vars, args, locks, shared, local, cancel, calling, history
<1>1. TypeOK' /\ LifeInv' /\ BatchInv' /\ CountInv'
  BY DEF IInv, TypeOK, LifeInv, BatchInv, BatchSize, AtMost, CountInv, Filling,
         HandingOver, Alive
<1>2. EndInv' /\ ExceptionInv' /\ AnswerInv' /\ ExceptionIsDelivered'
  BY DEF IInv, EndInv, ExceptionInv, AnswerInv, MayHold, ExceptionIsDelivered,
         Filling, HandingOver, Stopped, Alive
<1>3. QED
  BY <1>1, <1>2 DEF IInv

LEMMA NextStep == IInv /\ [Next]_vars => IInv'
<1> SUFFICES ASSUME IInv, [Next]_vars PROVE IInv'
  OBVIOUS
<1>1. CASE Worker
  BY <1>1, CheckCancelledStep, TakeIndicesStep, ResizeStep, ReadBatchStep,
     PublishWaitStep, PublishStep, CleanUpStep
     DEF Worker
<1>2. ASSUME NEW c \in callers, Call(c) \/ Caller(c)
      PROVE  IInv'
  BY <1>2, CallStep, ReleaseStep, NextWaitStep, BaseNextStep, AnswerRecordStep,
     AnswerEndStep, FindExceptionStep, RestoreStep, NothingToRestoreStep
     DEF Caller, Returning
<1>3. CASE Destroy \/ Destructor
  BY <1>3, DestroyStep, CancelStep, LockBufferStep, ClearBufferStep, WakeStep,
     JoinStep, ReturnDestroyedStep
     DEF Destructor
<1>4. CASE SpuriousWakeup
  BY <1>4, SpuriousWakeupStep
<1>5. CASE UNCHANGED vars
  BY <1>5, UnchangedStep
<1>6. QED
  BY <1>1, <1>2, <1>3, <1>4, <1>5 DEF Next, Over

LEMMA SpecIInv == Spec => []IInv
<1>1. Init => IInv
  BY InitIInv
<1>2. IInv /\ [Next]_vars => IInv'
  BY NextStep
<1>3. QED
  BY <1>1, <1>2, PTL DEF Spec

\* The types: neither buffer ever holds more than a batch, and the Python
\* iterator of indices is not called again after it has raised.
THEOREM TypeCorrect == Spec => []TypeOK
<1>1. IInv => TypeOK
  BY DEF IInv
<1>2. QED
  BY <1>1, SpecIInv, PTL

\* An exception of the index iterator is raised again at most once, and only
\* after every record before it; iteration ends silently only if there was
\* none.  For any number of threads, records and batch sizes.
THEOREM ExceptionDelivered == Spec => []ExceptionIsDelivered
<1>1. IInv => ExceptionIsDelivered
  BY DEF IInv
<1>2. QED
  BY <1>1, SpecIInv, PTL
=============================================================================
