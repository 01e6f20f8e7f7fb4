--------------------------- MODULE PythonIterator ---------------------------
(***************************************************************************)
(* The iterator of the Python bindings (src/python/bagz_reader.cc): a      *)
(* BagzIterator whose records are Python objects and whose indices come    *)
(* from a Python iterator, so that its worker and its callers need the     *)
(* global interpreter lock beside buffer_mutex_, and exceptions raised in  *)
(* the worker have to reach a caller.                                      *)
(*                                                                         *)
(* Which records are handed out is the subject of BagzIterator; here they  *)
(* are counted.  A section that takes one lock only, and waits for nothing *)
(* while it holds it, is one step; the lock is held across steps where     *)
(* something is waited for.                                                *)
(***************************************************************************)
EXTENDS Integers, FiniteSets

CONSTANTS
  Callers,     \* sets of Python threads, one of which shares the iterator
  Lengths,     \* numbers of records, or of indices
  ReadAheads   \* batch sizes

ASSUME LengthsAssumption == Lengths \subseteq Nat
ASSUME ReadAheadsAssumption == ReadAheads \subseteq Nat \ {0}

VARIABLES
  callers,           \* the threads that share the iterator
  mode,              \* "range" or "indices"
  length,            \* records, or indices before the Python iterator stops
  raises,            \* whether it stops by raising an exception
  num_ahead,
  gil,               \* who holds it, or "free"
  buffer_mutex_,     \* likewise
  buffer_,           \* number of records in buffer_
  status_,           \* "ok", "aborted" (by an exception) or "error"
  more_to_read_,
  worker,            \* control state of the worker thread
  taken,             \* records or indices that the worker has taken so far
  batch,             \* number of records in the worker's own buffer
  batch_status,
  cancelled,         \* the relaxed flag
  synced,            \* the worker has locked the mutex after ClearBuffer
  exception_store_,  \* whether it holds an exception
  caller,            \* control state of each caller
  answer,            \* local to next(): "record", "none" or a status
  destructor,        \* control state of the thread that destroys the iterator
  delivered,         \* history: records handed out
  raised,            \* history: how often the exception was raised again
  outcome            \* history: "open", or the first answer without a record

args == <<callers, mode, length, raises, num_ahead>>
locks == <<gil, buffer_mutex_>>
shared == <<buffer_, status_, more_to_read_>>
local == <<taken, batch, batch_status>>
cancel == <<cancelled, synced>>
calling == <<caller, answer>>
history == <<delivered, raised, outcome>>
vars == <<args, locks, shared, worker, local, cancel, exception_store_, calling,
          destructor, history>>

AtMost(a, b) == IF a <= b THEN a ELSE b

\* A range of no records starts no worker, and read_ahead is cut to a range.
Init ==
  /\ callers \in Callers
  /\ length \in Lengths
  /\ num_ahead \in ReadAheads
  /\ \/ mode = "range" /\ raises = FALSE /\ num_ahead <= length
     \/ mode = "indices" /\ raises \in BOOLEAN
  /\ gil = "free" /\ buffer_mutex_ = "free"
  /\ buffer_ = 0 /\ status_ = "ok" /\ more_to_read_ = TRUE
  /\ worker = "check" /\ taken = 0 /\ batch = 0 /\ batch_status = "ok"
  /\ cancelled = FALSE /\ synced = FALSE
  /\ exception_store_ = FALSE
  /\ caller = [c \in callers |-> "idle"]
  /\ answer = [c \in callers |-> "none"]
  /\ destructor = "alive"
  /\ delivered = 0 /\ raised = 0 /\ outcome = "open"

Free(lock) == lock = "free"

-----------------------------------------------------------------------------
(* The worker *)

\* The destructor has cleared the buffer once.
Cleared == destructor \in {"wake", "join"}

\* Mutant: not cut at the end.
BatchSize_Uncut == num_ahead

BatchSize == AtMost(num_ahead, length - taken)

CheckCancelled ==
  /\ worker = "check"
  /\ \E seen \in (IF synced THEN {cancelled} ELSE {FALSE, cancelled}) :
       worker' = IF seen THEN "clean_up"
                 ELSE IF mode = "indices" THEN "take_indices" ELSE "resize"
  /\ batch' = IF mode = "range" THEN BatchSize ELSE 0
  /\ batch_status' = "ok"
  /\ UNCHANGED <<args, locks, shared, taken, cancel, exception_store_, calling,
                 destructor, history>>

\* Mutant: an exception loses the indices before it.
StatusOfIndices_Strict(n, raising) == IF raising THEN "aborted" ELSE "ok"

\* What the batch iterator returns for n indices.
StatusOfIndices(n, raising) == IF raising /\ n = 0 THEN "aborted" ELSE "ok"

\* PythonBatchIterator takes up to num_ahead indices, holding the GIL.  There is
\* no exception yet (TypeOK): the batch that meets one is the last.
TakeIndices ==
  /\ worker = "take_indices"
  /\ Free(gil)
  /\ LET n == BatchSize
         raising == raises /\ n < num_ahead
         s == StatusOfIndices(n, raising)
     IN  /\ exception_store_' = raising
         /\ batch_status' = s
         /\ batch' = IF s = "ok" THEN n ELSE 0
         /\ worker' = IF batch' > 0 THEN "resize" ELSE "publish"
  /\ UNCHANGED <<args, locks, shared, taken, cancel, calling, destructor,
                 history>>

\* The worker's buffer is resized under the mutex; for no records it is not.
Resize ==
  /\ worker = "resize"
  /\ batch > 0 => Free(buffer_mutex_)
  /\ synced' = (synced \/ (Cleared /\ batch > 0))
  /\ worker' = IF batch > 0 THEN "read" ELSE "publish"
  /\ UNCHANGED <<args, locks, shared, local, cancelled, exception_store_, calling,
                 destructor, history>>

\* Each record is made, and each duplicate copied, holding the GIL; of a read
\* that fails some records may have been made, or none.
ReadBatch ==
  /\ worker = "read"
  /\ \/ Free(gil) /\ UNCHANGED batch_status
     \/ batch_status' = "error"
  /\ worker' = "publish"
  /\ taken' = taken + batch
  /\ UNCHANGED <<args, locks, shared, batch, cancel, exception_store_, calling,
                 destructor, history>>

PublishWait ==
  /\ worker = "publish"
  /\ Free(buffer_mutex_)
  /\ buffer_ > 0
  /\ worker' = "waiting"
  /\ synced' = (synced \/ Cleared)
  /\ UNCHANGED <<args, locks, shared, local, cancelled, exception_store_, calling,
                 destructor, history>>

Waiting == {c \in callers : caller[c] = "waiting"}

\* Mutant: the empty last batch wakes nobody.
SignalNextAvailable_IfRecords ==
  IF Waiting = {} \/ batch = 0 THEN UNCHANGED caller
  ELSE \E c \in Waiting : caller' = [caller EXCEPT ![c] = "lock"]

SignalNextAvailable ==
  IF Waiting = {} THEN UNCHANGED caller
  ELSE \E c \in Waiting : caller' = [caller EXCEPT ![c] = "lock"]

Publish ==
  /\ worker = "publish"
  /\ Free(buffer_mutex_)
  /\ buffer_ = 0
  /\ LET last_batch == batch < num_ahead
     IN  /\ IF batch_status = "ok"
              THEN buffer_' = batch /\ UNCHANGED status_
              ELSE status_' = batch_status /\ UNCHANGED buffer_
         /\ more_to_read_' = (more_to_read_ /\ ~last_batch)
         /\ worker' = IF last_batch \/ batch_status # "ok" THEN "clean_up"
                                                          ELSE "check"
  /\ SignalNextAvailable
  /\ batch' = IF batch_status = "ok" THEN 0 ELSE batch
  /\ synced' = (synced \/ Cleared)
  /\ UNCHANGED <<args, locks, taken, batch_status, cancelled, exception_store_,
                 answer, destructor, history>>

\* The records that are left over are dropped holding the GIL.
CleanUp ==
  /\ worker = "clean_up"
  /\ Free(gil)
  /\ batch' = 0
  /\ worker' = "done"
  /\ UNCHANGED <<args, locks, shared, taken, batch_status, cancel,
                 exception_store_, calling, destructor, history>>

Worker == CheckCancelled \/ TakeIndices \/ Resize \/ ReadBatch
          \/ PublishWait \/ Publish \/ CleanUp

-----------------------------------------------------------------------------
(* next(), called by Python code, which holds the GIL *)

Call(c) ==
  /\ caller[c] = "idle"
  /\ destructor = "alive"
  /\ Free(gil)
  /\ gil' = c
  /\ caller' = [caller EXCEPT ![c] = "call"]
  /\ UNCHANGED <<args, buffer_mutex_, shared, worker, local, cancel,
                 exception_store_, answer, destructor, history>>

Release(c) ==
  /\ caller[c] = "call"
  /\ gil' = "free"
  /\ caller' = [caller EXCEPT ![c] = "lock"]
  /\ UNCHANGED <<args, buffer_mutex_, shared, worker, local, cancel,
                 exception_store_, answer, destructor, history>>

NextMustWait == buffer_ = 0 /\ status_ = "ok" /\ more_to_read_

NextWait(c) ==
  /\ caller[c] = "lock"
  /\ Free(buffer_mutex_)
  /\ NextMustWait
  /\ caller' = [caller EXCEPT ![c] = "waiting"]
  /\ UNCHANGED <<args, locks, shared, worker, local, cancel, exception_store_,
                 answer, destructor, history>>

\* BagzIterator::next().  The signal to the worker is sent in the same step:
\* that it comes after unlocking is the subject of BagzIterator.
BaseNext(c) ==
  /\ caller[c] = "lock"
  /\ Free(buffer_mutex_)
  /\ ~NextMustWait
  /\ LET a == IF status_ # "ok" THEN status_
              ELSE IF buffer_ > 0 THEN "record" ELSE "none"
     IN  /\ answer' = [answer EXCEPT ![c] = a]
         /\ IF a = "record"
              THEN buffer_' = buffer_ - 1 /\ delivered' = delivered + 1
              ELSE UNCHANGED <<buffer_, delivered>>
         /\ worker' = IF a # "none" /\ buffer_' = 0 /\ worker = "waiting"
                        THEN "publish" ELSE worker
  /\ caller' = [caller EXCEPT ![c] = "answer"]
  /\ UNCHANGED <<args, locks, status_, more_to_read_, local, cancel,
                 exception_store_, destructor, raised, outcome>>

First(o) == outcome' = IF outcome = "open" THEN o ELSE outcome

Return(c) == caller' = [caller EXCEPT ![c] = "idle"]

\* The GIL is taken again when next() returns or throws.
AnswerRecord(c) ==
  /\ caller[c] = "answer"
  /\ answer[c] = "record"
  /\ Free(gil)
  /\ Return(c)
  /\ UNCHANGED <<args, locks, shared, worker, local, cancel, exception_store_,
                 answer, destructor, history>>

\* The answers that may have an exception behind them.
MayHold(c) == answer[c] \in {"none", "aborted"}

\* StopIteration, or the status as an exception.
AnswerEnd(c) ==
  /\ caller[c] = "answer"
  /\ answer[c] # "record"
  /\ ~(MayHold(c) /\ exception_store_)
  /\ Free(gil)
  /\ Return(c)
  /\ First(IF answer[c] = "none" THEN "stop" ELSE "error")
  /\ UNCHANGED <<args, locks, shared, worker, local, cancel, exception_store_,
                 answer, destructor, delivered, raised>>

\* The exception is looked for without the GIL ...
FindException(c) ==
  /\ caller[c] = "answer"
  /\ MayHold(c) /\ exception_store_
  /\ caller' = [caller EXCEPT ![c] = "restore"]
  /\ UNCHANGED <<args, locks, shared, worker, local, cancel, exception_store_,
                 answer, destructor, history>>

\* ... and raised with it.
Restore(c) ==
  /\ caller[c] = "restore"
  /\ Free(gil)
  /\ exception_store_
  /\ exception_store_' = FALSE
  /\ raised' = raised + 1
  /\ First("exception")
  /\ Return(c)
  /\ UNCHANGED <<args, locks, shared, worker, local, cancel, answer, destructor,
                 delivered>>

\* Another thread has taken the exception in between.  After an abort next()
\* looks whether there is one; at the end it does not, and raises no exception:
\* nanobind ends the process.
NothingToRestore(c) ==
  /\ caller[c] = "restore"
  /\ Free(gil)
  /\ ~exception_store_
  /\ IF answer[c] = "aborted"
       THEN Return(c) /\ First("error")
       ELSE /\ caller' = [other \in callers |-> "ended"]
            /\ UNCHANGED outcome
  /\ UNCHANGED <<args, locks, shared, worker, local, cancel, exception_store_,
                 answer, destructor, delivered, raised>>

Returning(c) == AnswerRecord(c) \/ AnswerEnd(c) \/ FindException(c)
                \/ Restore(c) \/ NothingToRestore(c)
Caller(c) == Release(c) \/ NextWait(c) \/ BaseNext(c) \/ Returning(c)

-----------------------------------------------------------------------------
(* ~PythonIterator and ~BagzIterator, in a Python thread *)

Destroy ==
  /\ destructor = "alive"
  /\ \A c \in callers : caller[c] = "idle"
  /\ Free(gil)
  /\ gil' = "destructor"
  /\ destructor' = "call"
  /\ UNCHANGED <<args, buffer_mutex_, shared, worker, local, cancel,
                 exception_store_, calling, history>>

Cancel ==
  /\ destructor = "call"
  /\ gil' = "free"
  /\ cancelled' = TRUE
  /\ destructor' = "lock"
  /\ UNCHANGED <<args, buffer_mutex_, shared, worker, local, synced,
                 exception_store_, calling, history>>

\* ClearBuffer holds the mutex while it waits for the GIL.
LockBuffer ==
  /\ destructor \in {"lock", "lock_again"}
  /\ Free(buffer_mutex_)
  /\ buffer_mutex_' = "destructor"
  /\ destructor' = IF destructor = "lock" THEN "clear" ELSE "clear_again"
  /\ UNCHANGED <<args, gil, shared, worker, local, cancel, exception_store_,
                 calling, history>>

ClearBuffer ==
  /\ destructor \in {"clear", "clear_again"}
  /\ Free(gil)
  /\ buffer_' = 0
  /\ buffer_mutex_' = "free"
  /\ destructor' = IF destructor = "clear" THEN "wake" ELSE "return"
  /\ UNCHANGED <<args, gil, status_, more_to_read_, worker, local, cancel,
                 exception_store_, calling, history>>

\* Mutant: the worker is not woken.
SignalAll_Not == UNCHANGED worker

SignalAll == worker' = IF worker = "waiting" THEN "publish" ELSE worker

Wake ==
  /\ destructor = "wake"
  /\ SignalAll
  /\ destructor' = "join"
  /\ UNCHANGED <<args, locks, shared, local, cancel, exception_store_, calling,
                 history>>

Join ==
  /\ destructor = "join"
  /\ worker = "done"
  /\ destructor' = "lock_again"
  /\ UNCHANGED <<args, locks, shared, worker, local, cancel, exception_store_,
                 calling, history>>

\* With the GIL again, the stored exception, if any, is dropped.
ReturnDestroyed ==
  /\ destructor = "return"
  /\ Free(gil)
  /\ exception_store_' = FALSE
  /\ destructor' = "done"
  /\ UNCHANGED <<args, locks, shared, worker, local, cancel, calling, history>>

Destructor == Cancel \/ LockBuffer \/ ClearBuffer \/ Wake \/ Join
              \/ ReturnDestroyed

-----------------------------------------------------------------------------
\* absl::CondVar::Wait may return without a signal.
SpuriousWakeup ==
  /\ \/ /\ worker = "waiting"
        /\ worker' = "publish"
        /\ UNCHANGED caller
     \/ \E c \in Waiting :
          /\ caller' = [caller EXCEPT ![c] = "lock"]
          /\ UNCHANGED worker
  /\ UNCHANGED <<args, locks, shared, local, cancel, exception_store_, answer,
                 destructor, history>>

Over ==
  /\ destructor = "done" \/ \A c \in callers : caller[c] = "ended"
  /\ UNCHANGED vars

Next ==
  \/ Worker
  \/ \E c \in callers : Call(c) \/ Caller(c)
  \/ Destroy
  \/ Destructor
  \/ SpuriousWakeup
  \/ Over

Spec == Init /\ [][Next]_vars

\* Threads run, and get a lock that stays free.  Nobody has to call next().
FairSpec ==
  /\ Spec
  /\ WF_vars(Worker)
  /\ \A c \in UNION Callers : WF_vars(c \in callers /\ Caller(c))
  /\ WF_vars(Destructor)

-----------------------------------------------------------------------------
(* Properties *)

\* The types; neither buffer ever holds more than a batch, and no indices are
\* asked for after an exception.
TypeOK ==
  /\ callers \in Callers
  /\ mode \in {"range", "indices"} /\ length \in Lengths
  /\ raises \in BOOLEAN /\ num_ahead \in ReadAheads
  /\ gil \in callers \cup {"free", "destructor"}
  /\ buffer_mutex_ \in {"free", "destructor"}
  /\ buffer_ \in 0..num_ahead
  /\ status_ \in {"ok", "aborted", "error"} /\ more_to_read_ \in BOOLEAN
  /\ worker \in {"check", "take_indices", "resize", "read", "publish", "waiting",
                 "clean_up", "done"}
  /\ worker = "take_indices" => ~exception_store_
  /\ taken \in 0..length /\ batch \in 0..num_ahead
  /\ batch_status \in {"ok", "aborted", "error"}
  /\ cancelled \in BOOLEAN /\ synced \in BOOLEAN /\ exception_store_ \in BOOLEAN
  /\ caller \in [callers -> {"idle", "call", "lock", "waiting", "answer",
                             "restore", "ended"}]
  /\ answer \in [callers -> {"record", "none", "aborted", "error"}]
  /\ destructor \in {"alive", "call", "lock", "clear", "wake", "join",
                     "lock_again", "clear_again", "return", "done"}
  /\ delivered \in 0..length /\ raised \in Nat
  /\ outcome \in {"open", "stop", "exception", "error"}

\* An exception of the Python iterator of indices, raised in the worker's
\* thread, is raised again by next() once, and not before all records whose
\* indices came before it have been handed out; iteration ends silently only
\* when there was none (bagz_test.py:423-437 tries one thread at a time).
ExceptionIsDelivered ==
  /\ raised <= 1
  /\ outcome = "exception" => raises /\ delivered = length
  /\ outcome = "stop" => ~raises /\ delivered = length

\* If one thread uses the iterator, each of its calls of next() returns: the
\* worker gets the GIL for its indices and records while the caller waits.
NextReturns ==
  Cardinality(callers) = 1 =>
    \A c \in UNION Callers :
      (c \in callers /\ caller[c] = "call") ~> (c \in callers /\ caller[c] = "idle")

\* The destructor returns, although it waits for the GIL holding the mutex and
\* for a worker that needs both, whatever state the worker is in.
DestructorReturns == (destructor = "call") ~> (destructor = "done")
=============================================================================
