---------------------------- MODULE BagzIterator ----------------------------
(***************************************************************************)
(* The double-buffered iterator of src/bagz_iterator.h: a worker thread    *)
(* reads batches of records ahead into a buffer of its own, swaps it with  *)
(* buffer_ whenever the callers of next() have emptied that, and is        *)
(* cancelled and joined by the destructor.                                 *)
(*                                                                         *)
(* A record is the position it has in the stream (0, 1, 2, ...): either    *)
(* the records of the reader in order ("range") or those at the indices    *)
(* that read_batch produces ("indices").  A critical section of            *)
(* buffer_mutex_ is one step; a condition variable is the set of threads   *)
(* in state "waiting", and waits may return spuriously.                    *)
(***************************************************************************)
EXTENDS Integers, Sequences

CONSTANTS
  Consumers,   \* threads that call next() on the same iterator
  Sizes,       \* sizes of readers, and lengths of index sequences
  ReadAheads   \* values of read_ahead (given, or estimated: then positive)

ASSUME SizesAssumption == Sizes \subseteq Nat
ASSUME ReadAheadsAssumption == ReadAheads \subseteq Nat

VARIABLES
  mode,          \* "range" or "indices": whether read_batch is set
  length,        \* number of records of the stream
  num_ahead,     \* batch size; 0: the constructor started no worker
  buffer_,       \* guarded by buffer_mutex_: records, the next one last
  status_,       \* guarded by buffer_mutex_: "ok" or "error"
  more_to_read_,
  worker,        \* control state of the worker thread
  offset,        \* local to the worker: first record of the batch
  batch,         \* local to the worker: its buffer
  batch_status,  \* local to the worker: status of the last read
  cancelled,     \* the relaxed atomic flag of ParallelOperation
  synced,        \* the worker has locked the mutex after ClearBuffer
  consumer,      \* control state of each caller of next()
  destructor,    \* control state of ~BagzIterator
  delivered,     \* history: records returned by next(), in order
  outcome        \* history: "open", or the first answer without a record

args == <<mode, length, num_ahead>>
shared == <<buffer_, status_, more_to_read_>>
local == <<offset, batch, batch_status>>
cancel == <<cancelled, synced>>
history == <<delivered, outcome>>
vars == <<args, shared, worker, local, cancel, consumer, destructor, history>>

-----------------------------------------------------------------------------
(* Construction *)

AtMost(a, b) == IF a <= b THEN a ELSE b

\* num_ahead is capped by the size of the reader; with read_batch it is at
\* least 1, without it 0 means that there is no worker at all.
NumAhead(m, read_ahead, size) ==
  LET capped == AtMost(read_ahead, size)
  IN  IF capped = 0 /\ m = "indices" THEN 1 ELSE capped

Init ==
  /\ \E size \in Sizes, read_ahead \in ReadAheads :
       \/ /\ mode = "range"
          /\ length = size
          /\ num_ahead = NumAhead("range", read_ahead, size)
       \/ /\ mode = "indices"
          /\ length \in Sizes
          /\ num_ahead = NumAhead("indices", read_ahead, size)
  /\ buffer_ = <<>>
  /\ status_ = "ok"
  /\ more_to_read_ = (num_ahead # 0)
  /\ worker = IF num_ahead = 0 THEN "none" ELSE "check"
  /\ offset = 0
  /\ batch = <<>>
  /\ batch_status = "ok"
  /\ cancelled = FALSE
  /\ synced = FALSE
  /\ consumer = [c \in Consumers |-> "idle"]
  /\ destructor = "alive"
  /\ delivered = <<>>
  /\ outcome = "open"

-----------------------------------------------------------------------------
(* The worker thread *)

\* A relaxed load may miss a store that nothing has ordered before it.
CancelledLoads == IF synced THEN {cancelled} ELSE {FALSE, cancelled}

CheckCancelled ==
  /\ worker = "check"
  /\ \E seen \in CancelledLoads : worker' = IF seen THEN "done" ELSE "read"
  /\ UNCHANGED <<args, shared, local, cancel, consumer, destructor, history>>

\* Slots of a buffer resized with nullopt that no read has filled.
Unfilled == -1

\* Mutant: the last batch is not cut at the end of the reader.
BatchSize_Uncut == num_ahead

BatchSize == IF offset >= length THEN 0 ELSE AtMost(num_ahead, length - offset)

\* Mutant: slots filled in reading order.
ReverseFilled_Forward(first, n) == [slot \in 1..n |-> first + slot - 1]

\* AllocateForIndex stores result r of n in slot n - 1 - r.
ReverseFilled(first, n) == [slot \in 1..n |-> first + n - slot]

\* The destructor has run ClearBuffer and so ordered Cancel before whatever
\* locks buffer_mutex_ from now on.
Cleared == destructor \in {"cleared", "joining"}

ReadBatch ==
  /\ worker = "read"
  /\ worker' = "publish"
  /\ \/ /\ batch' = ReverseFilled(offset, BatchSize)
        /\ batch_status' = "ok"
     \/ /\ BatchSize > 0                        \* the read failed midway
        /\ batch' = [slot \in 1..BatchSize |-> Unfilled]
        /\ batch_status' = "error"
     \/ /\ mode = "indices"                     \* read_batch returned false
        /\ batch_status' = "error"
        /\ UNCHANGED batch
  /\ synced' = (synced \/ (Cleared /\ batch' # <<>>))  \* resize takes the lock
  /\ UNCHANGED <<args, shared, offset, cancelled, consumer, destructor, history>>

\* Mutant: the worker overwrites what is left.
WorkerMustWait_Never == FALSE

WorkerMustWait == buffer_ # <<>>

PublishWait ==
  /\ worker = "publish"
  /\ WorkerMustWait
  /\ worker' = "waiting"
  /\ synced' = (synced \/ Cleared)
  /\ UNCHANGED <<args, shared, local, cancelled, consumer, destructor, history>>

LastBatch == Len(batch) < num_ahead

Waiting == {c \in Consumers : consumer[c] = "waiting"}

\* Mutant: the empty last batch wakes nobody.
SignalNextAvailable_IfRecords ==
  IF Waiting = {} \/ batch = <<>> THEN UNCHANGED consumer
  ELSE \E c \in Waiting : consumer' = [consumer EXCEPT ![c] = "locking"]

\* next_available_.Signal() wakes one waiting caller, if there is one.
SignalNextAvailable ==
  IF Waiting = {} THEN UNCHANGED consumer
  ELSE \E c \in Waiting : consumer' = [consumer EXCEPT ![c] = "locking"]

Publish ==
  /\ worker = "publish"
  /\ ~WorkerMustWait
  /\ IF batch_status = "ok"
     THEN buffer_' = batch /\ UNCHANGED status_
     ELSE status_' = batch_status /\ UNCHANGED buffer_
  /\ more_to_read_' = (more_to_read_ /\ ~LastBatch)
  /\ SignalNextAvailable
  /\ IF LastBatch \/ batch_status # "ok"
     THEN worker' = "done" /\ UNCHANGED offset
     ELSE worker' = "check" /\ offset' = offset + num_ahead
  /\ batch' = <<>>           \* swapped with the empty buffer_, or cleaned up
  /\ synced' = (synced \/ Cleared)
  /\ UNCHANGED <<args, batch_status, cancelled, destructor, history>>

Worker == CheckCancelled \/ ReadBatch \/ PublishWait \/ Publish

-----------------------------------------------------------------------------
(* next() *)

Call(c) ==
  /\ consumer[c] = "idle"
  /\ destructor = "alive"
  /\ consumer' = [consumer EXCEPT ![c] = "locking"]
  /\ UNCHANGED <<args, shared, worker, local, cancel, destructor, history>>

NextMustWait == buffer_ = <<>> /\ status_ = "ok" /\ more_to_read_

NextWait(c) ==
  /\ consumer[c] = "locking"
  /\ NextMustWait
  /\ consumer' = [consumer EXCEPT ![c] = "waiting"]
  /\ UNCHANGED <<args, shared, worker, local, cancel, destructor, history>>

\* Mutant: the signal is forgotten.
AfterUnlock_NoSignal(buffer) == "idle"

\* buffer_empty is decided under the lock, the signal is sent after it.
AfterUnlock(buffer) == IF buffer = <<>> THEN "signalling" ELSE "idle"

NextRecord(c) ==
  /\ consumer[c] = "locking"
  /\ status_ = "ok"
  /\ buffer_ # <<>>
  /\ delivered' = Append(delivered, buffer_[Len(buffer_)])
  /\ buffer_' = SubSeq(buffer_, 1, Len(buffer_) - 1)
  /\ consumer' = [consumer EXCEPT ![c] = AfterUnlock(buffer_')]
  /\ UNCHANGED <<args, status_, more_to_read_, worker, local, cancel,
                 destructor, outcome>>

NextEnd(c) ==
  /\ consumer[c] = "locking"
  /\ status_ = "ok"
  /\ buffer_ = <<>>
  /\ ~more_to_read_
  /\ outcome' = "end"
  /\ consumer' = [consumer EXCEPT ![c] = "idle"]
  /\ UNCHANGED <<args, shared, worker, local, cancel, destructor, delivered>>

NextError(c) ==
  /\ consumer[c] = "locking"
  /\ status_ # "ok"
  /\ outcome' = "error"
  /\ consumer' = [consumer EXCEPT ![c] = AfterUnlock(buffer_)]
  /\ UNCHANGED <<args, shared, worker, local, cancel, destructor, delivered>>

\* buffer_available_.Signal(), with the mutex no longer held.
SignalBufferAvailable(c) ==
  /\ consumer[c] = "signalling"
  /\ consumer' = [consumer EXCEPT ![c] = "idle"]
  /\ worker' = IF worker = "waiting" THEN "publish" ELSE worker
  /\ UNCHANGED <<args, shared, local, cancel, destructor, history>>

NextLocked(c) == NextWait(c) \/ NextRecord(c) \/ NextEnd(c) \/ NextError(c)

Consumer(c) == Call(c) \/ NextLocked(c) \/ SignalBufferAvailable(c)

-----------------------------------------------------------------------------
(* ~BagzIterator, which its owner runs when no call of next() is active *)

Cancel ==
  /\ destructor = "alive"
  /\ \A c \in Consumers : consumer[c] = "idle"
  /\ IF worker = "none"
     THEN destructor' = "done" /\ UNCHANGED cancelled
     ELSE destructor' = "cancelled" /\ cancelled' = TRUE
  /\ UNCHANGED <<args, shared, worker, local, synced, consumer, history>>

ClearBuffer ==
  /\ destructor = "cancelled"
  /\ destructor' = "cleared"
  /\ buffer_' = <<>>
  /\ UNCHANGED <<args, status_, more_to_read_, worker, local, cancel,
                 consumer, history>>

\* Mutant: nobody is woken.
SignalAll_NoWakeup ==
  /\ destructor = "cleared"
  /\ destructor' = "joining"
  /\ UNCHANGED <<args, shared, worker, local, cancel, consumer, history>>

SignalAll ==
  /\ destructor = "cleared"
  /\ destructor' = "joining"
  /\ worker' = IF worker = "waiting" THEN "publish" ELSE worker
  /\ UNCHANGED <<args, shared, local, cancel, consumer, history>>

\* Join returns when the thread has ended; then the buffer is cleared again.
Join ==
  /\ destructor = "joining"
  /\ worker = "done"
  /\ destructor' = "done"
  /\ buffer_' = <<>>
  /\ UNCHANGED <<args, status_, more_to_read_, worker, local, cancel,
                 consumer, history>>

Destructor == Cancel \/ ClearBuffer \/ SignalAll \/ Join

-----------------------------------------------------------------------------
(* absl::CondVar::Wait may return without a signal. *)

SpuriousWakeup ==
  /\ \/ /\ worker = "waiting"
        /\ worker' = "publish"
        /\ UNCHANGED consumer
     \/ \E c \in Waiting :
          /\ consumer' = [consumer EXCEPT ![c] = "locking"]
          /\ UNCHANGED worker
  /\ UNCHANGED <<args, shared, local, cancel, destructor, history>>

Destroyed ==
  /\ destructor = "done"
  /\ UNCHANGED vars

Next ==
  \/ Worker
  \/ \E c \in Consumers : Consumer(c)
  \/ Destructor
  \/ SpuriousWakeup
  \/ Destroyed

Spec == Init /\ [][Next]_vars

\* Running threads make progress and a free mutex is granted to whoever asks
\* for it.  Nobody is obliged to call next(), to destroy the iterator, or to
\* be woken without a signal.
Fairness ==
  /\ WF_vars(Worker)
  /\ \A c \in Consumers :
       WF_vars(NextLocked(c)) /\ WF_vars(SignalBufferAvailable(c))
  /\ WF_vars(ClearBuffer \/ SignalAll \/ Join)

FairSpec == Spec /\ Fairness
-----------------------------------------------------------------------------
(* Properties *)

\* The type invariant: records are positions of the stream, and only the
\* worker's own buffer may hold slots that no read has filled.
TypeOK ==
  /\ mode \in {"range", "indices"}
  /\ length \in Nat
  /\ num_ahead \in Nat
  /\ buffer_ \in Seq(0..length-1)
  /\ status_ \in {"ok", "error"}
  /\ more_to_read_ \in BOOLEAN
  /\ worker \in {"none", "check", "read", "publish", "waiting", "done"}
  /\ offset \in Nat
  /\ batch \in Seq(-1..length-1)
  /\ batch_status \in {"ok", "error"}
  /\ cancelled \in BOOLEAN
  /\ synced \in BOOLEAN
  /\ consumer \in [Consumers -> {"idle", "locking", "waiting", "signalling"}]
  /\ destructor \in {"alive", "cancelled", "cleared", "joining", "done"}
  /\ delivered \in Seq(0..length-1)
  /\ outcome \in {"open", "end", "error"}

Stream == INSTANCE RecordStream WITH
  length <- length, delivered <- delivered, outcome <- outcome

\* next() implements RecordStream: every record once and in order, then the
\* end, only after the last record, or an error, which is final.  This is what
\* swap, pop_back and the two flags of next() (lines 182-205) amount to.
ImplementsRecordStream == Stream!Spec

\* The double buffer bounds memory: no more than two batches have been read
\* that next() has not returned (worker loop, lines 107-161).
ReadAheadBound ==
  destructor = "alive" => offset + Len(batch) <= Len(delivered) + 2 * num_ahead

\* A failed read is reported only when every record read before it has been
\* returned, and leaves nothing behind (lines 145-152).
ErrorIsLast ==
  destructor = "alive" /\ status_ = "error" =>
    buffer_ = <<>> /\ Len(delivered) = offset

\* No lost wakeup for the worker, although next() signals after unlocking:
\* while it waits, either there are records to take first or somebody is about
\* to signal (lines 145-147, 201-203, 171).
WorkerWakeupPending ==
  worker = "waiting" =>
    \/ buffer_ # <<>>
    \/ \E c \in Consumers : consumer[c] = "signalling"
    \/ destructor = "cleared"

\* No lost wakeup for a single caller: it sleeps only while there is nothing
\* to return (lines 187-189 and the Signal at 156).
CallerSleepsOnlyForNothing == Waiting # {} => NextMustWait

\* When the destructor has returned, the thread that uses the members is gone
\* and holds no record any more (lines 165-178 and the cleanup at 102).
NothingOutlivesDestructor ==
  destructor = "done" => worker \in {"none", "done"} /\ batch = <<>>

\* The end is reported only when all records have been returned: the records
\* of the bag are what iterating over the reader yields (bagz_iterator.h:44).
EndIsComplete == outcome = "end" => Len(delivered) = length

\* The calls of next() return, if only one thread makes them.
OnlyCaller(c) == \A d \in Consumers \ {c} : consumer[d] = "idle"

NextReturns ==
  \A c \in Consumers :
    []OnlyCaller(c) => (consumer[c] = "locking" ~> consumer[c] = "idle")

\* With several callers, they never all sleep for ever.
SomeCallerWakes == (Waiting = Consumers) ~> (Waiting # Consumers)

\* The destructor returns: the worker, waiting or reading, notices Cancel.
DestructorReturns == (destructor = "cancelled") ~> (destructor = "done")
=============================================================================
