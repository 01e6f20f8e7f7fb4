# Bagz, specified and verified in TLA+

Bagz is a format for files of byte records with constant-time random access,
and a C++ library with Python bindings that reads and writes it.  A *bag* is a
file of concatenated records (each optionally compressed on its own) and a
list of *limits*: the little-endian 64-bit end offset of every record.  The
limits are appended to the records (`tail`) or lie in a file of their own
(`separate`).  Several bags make one sharded bag, whose records are counted
shard after shard (`concatenated`) or in turns (`interleaved`).

This directory holds TLA+ modules that model the parts of the library with
behaviour worth modelling, TLC configurations that check them on small
instances, and proofs, checked by TLAPS, that hold for every instance.
`PROJECT.json` is the index: for each definition the lines of the source it
models, for each property the run that checks it and a mutation of the code
that the property rejects.

## 1. The system

| Component | Source | State | Operations | Modules |
|---|---|---|---|---|
| Iterator | `src/bagz_iterator.h` | two buffers, a status, `more_to_read_`, a mutex, two condition variables, a worker thread | construct, `next()`, destroy | `BagzIterator`, `RecordStream` |
| ParallelDo | `src/internal/parallel_do.cc` | shared counter, id of the failed thread, results per thread | `ParallelDo`, `ParallelOperation` | `ParallelDo` (the latter in `BagzIterator`) |
| Shard reader | `src/internal/bagz_shard_reader.*`, `src/file/file_system/pread_file.h` | none between calls; a call keeps limits, a partial record and counters | `Read`, `ReadRange` | `ShardReader` |
| Writer | `src/bagz_writer.cc` | two open files, `records_size_` | `OpenFile`, `Write`, `Flush`, `Close`, destroy | `BagzWriter` |
| POSIX files | `src/file/file_systems/posix/` | a `FILE*`; descriptors and maps | write, flush, close, delete, `PRead`, glob | in `BagzWriter` |
| Records/limits split | `src/internal/records_limits.cc` | none | `SplitRecordsAndLimits` | in `BagzWriter` |
| Shard indexing | `src/internal/shard_indexing.*` | accumulated sizes | `index`, `range` | `ShardIndexing` |
| Reader | `src/bagz_reader.cc` | the shards, and a slice: start, step, length | `Open`, `OpenFiles`, `Slice`, `operator[]`, `ReadRange`, `ReadIndices`, handles | `BagzReader` |
| Decompressor pool | `src/internal/recycling_pool.h` | a locked list of idle decompressors | get, return | `DecompressorPool` |
| Zstd | `src/internal/zstd_*.cc` | a context that outlives the record | compress, decompress, decompress a stream | `DecompressorPool` |
| File specs, bulk opening | `src/file/file.cc`, `file_system.cc`, `shard_spec.cc`, `limits_name.cc` | none | expand `*`, `@n`, `@*` and comma lists, name the limits, open in parallel | `FileSpecs`, `BulkOpen` |
| Registry | `src/file/registry/` | a locked map of prefixes | register, unregister, resolve | `BulkOpen` |
| GCS files | `src/file/file_systems/gcs/` | a client | as POSIX; bulk opening by listing | in `BulkOpen` |
| Index, MultiIndex | `src/bagz_index.cc`, `bagz_multi_index.cc` | a map from records to positions | build, lookup | in `PythonReader` |
| Python reader | `src/python/bagz_reader.cc` | a reader | slices, reversal, pickling, items, `read_*`, searches | `PythonReader`, `RecordSlice` |
| Python iterator | `src/python/bagz_reader.cc` | an iterator, the GIL, an exception kept for later | construct, `next()`, destroy | `PythonIterator` |
| Python writer, options | `src/python/` | a writer | one call of `BagzWriter` each | not modelled |
| Beam | `beam/bagzio.py` | a range tracker | source, sink | not modelled |
| Build, packaging | | | | not modelled |

How they interact.  `BagzReader::Open` resolves a spec through the registry,
opens the files of all shards in parallel (`ParallelDo`) and splits each into
records and limits.  A read maps positions of the slice to positions of the
bag, those to ranges of shards (`ShardIndexing`), reads these in parallel
(`ParallelDo`), each by a `BagzShardReader`, which calls back once per record;
the callback takes a decompressor from the pool.  `BagzIterator` reads batches
through a reader in a thread of its own and hands records to the callers of
`next()`.  `BagzWriter` feeds two `WriteFile`s and, at `Close`, copies one to
the end of the other.

What is hard in this code:

* **two threads and two buffers** in the iterator: wakeups by single `Signal`s,
  one of them sent after unlocking; a relaxed cancellation flag; an error that
  must not overtake records;
* **two locks** of the Python iterator: next to the buffer's mutex its threads take
  the interpreter's lock, in different orders, and an exception raised in one
  thread has to surface in another;
* **lock-free distribution** of tasks in `ParallelDo`, whose counter is reset by
  failing threads while others draw from it, and may wrap;
* **pieces**: `PRead` hands out bytes in pieces of any size, and one loop turns
  them into records, empty ones included;
* **contexts that outlive a record**: a decompressor that failed in the middle of
  a frame goes back to the pool, and another thread takes it;
* **positions in a list** decide which limits belong to which records, when some
  files of several specs and file systems are opened in parallel, and some miss;
* **crashes and failing calls** of the writer between any two operations on its
  two separately buffered files, `Close` in particular;
* **arithmetic modulo 2^64** of slices of slices with steps of both signs, and of
  shard ranges; in Python the same slices have to behave as a list's do.

What makes each component correct:

* iterator: the callers together see the records of the stream once each and in
  order and then one final answer; memory is bounded; nobody sleeps for ever;
  the destructor returns;
* Python iterator: no deadlock between the two locks; an exception of the index
  iterator is raised again once, after the records before it;
* ParallelDo: every task at most once; OK only if all ran that were asked for (but
  for the last few before 2^64, which threads leave out); an error that happened;
  nothing runs after the return, or is begun after a failure was seen;
* shard reader: each view is exactly one record of the request; OK means all;
  malformed limits select nothing;
* writer: what was acknowledged stays readable through crashes and failures, and
  a closed bag holds exactly the records written;
* reader: a slice is the view it says it is; each result is the record asked
  for, written once; nothing outside the view is shown.

## 2. Modules

| Module | What it is |
|---|---|
| `RecordStream` | abstract specification: what the callers of `next()` may observe |
| `BagzIterator` | the iterator, the worker thread, the callers, the destructor |
| `ParallelDo` | the function, its threads and its caller |
| `ShardReader` | one call of `Read` or `ReadRange` of a shard |
| `BagzWriter` | the writer, its two files, what a reader finds in them |
| `ShardIndexing` | operators: position of the bag to position in a shard, range to shard ranges |
| `RecordSlice` | operators: the slices of `BagzReader::Slice`, in arithmetic modulo 2^64 |
| `BagzReader` | opening, slices and reads; extends `ShardIndexing` and `RecordSlice` |
| `PythonReader` | the reader of the bindings beside a list; extends `RecordSlice` |
| `DecompressorPool` | the pool, the threads that read, the contexts of the decompressors |
| `FileSpecs` | operators: the files a spec stands for, the names of limits |
| `BulkOpen` | resolving, opening and pairing of files; extends `FileSpecs` |
| `PythonIterator` | the iterator of the bindings with the GIL and exceptions |
| `MC...` | constants of the instances that TLC checks |
| `...Proof` | theorems about the component of that name |
| `OpenedBagProof` | theorems about `BulkOpen` and about `PythonReader` |

### BagzIterator

A record is its position in the stream.  `mode` tells whether the constructor
was given a `read_batch` (`"indices"`) or reads the reader in order
(`"range"`).  Each critical section of `buffer_mutex_` is one step; the worker
is a control state (`check`, `read`, `publish`, `waiting`, `done`) with its
local `offset`, `batch` and `batch_status`; each caller is `idle`, `locking`,
`waiting` or `signalling`, because `next()` decides under the lock that it will
signal and signals after it.  `Signal` moves one waiting thread to where it asks
for the lock again; `SpuriousWakeup` does so without a signal.  A read of a
batch is one step that may fail and then leaves the batch's slots unfilled, as
`resize(n, nullopt)` made them.  `cancelled` is a relaxed atomic: `CheckCancelled`
may miss the store until the worker has locked the mutex after `ClearBuffer` did
(`synced`).  The destructor runs when no call of `next()` is active, which C++
demands of its owner.  `delivered` and `outcome` are history variables.

### ParallelDo

`Init` draws `num_tasks` and `max_parallelism`; `size_t` is `0..MaxSize`, so that
with `num_tasks` near `MaxSize` the counter can wrap as it would in the code.
Threads start while the caller is still creating others; `Draw` is the
`fetch_add`, `FuncReturns` the end of a task, `PublishFailure` the exchange that
names the failed thread, `StopDrawing` the store that ends the distribution.
They are separate steps, as in the code.  `StartPool` overwrites `num_tasks` with the
clamped number, as the code does; `asked` is a history variable with what the caller
passed, by which `OkMeansAll` measures completeness: `Reached` says which ids the
clamp leaves.

### ShardReader

A byte of the records file is its offset.  `Init` draws the call, the contents
of the limits file (any sequence of numbers, well-formed or not), the size of
the records file and which records do not decompress.  `Piece` lets `PRead` hand
out any non-empty piece, `PReadFails` ends it with an error.  The callback is
the one of `BagzReader::State`, which stores the status of each record in one
variable and returns whether it was OK.

### BagzWriter

A file is the sequence of bytes given to `fwrite` and the number of them that
have left the buffer; a write may spill any part of the buffer, a call that
fails leaves any prefix.  A byte says which record or limit it belongs to, so
that a reader that puts together the wrong bytes is caught.  Each call of the
file system is one step; between two of them, and inside, the process may crash
(`Crash`): what was buffered is gone.  The machine stays up, since the code
never syncs.  `intact` remembers whether an `fwrite` or `fflush` has failed.
`Shows`, `Splits` and what they use are the reading side: a reader that opens
the two files or the tail at this moment.

### ShardIndexing, RecordSlice and BagzReader

`ShardIndexing` is `shard_indexing.cc` as operators, `RecordSlice` the condition
and the result of `BagzReader::Slice`.  `BagzReader` keeps the slice as the code
does, in arithmetic modulo `SizeModulus`, and beside it `view`, a history
variable with the positions of the bag that the slice stands for by its
definition.  A read computes tasks (shard ranges) and where their records go;
`StoreRecord(t)` is one callback of task `t`, and the tasks interleave freely, as
`ParallelDo` lets them.  `ReadHandle` keeps what a handle points to, and
`ReadFromHandle` reads it after any further slices.  A record in a result is its
shard and index there; `GlobalIndexOf` counts the records before it in the
documented order, independently of `ShardIndexing`.  Sorting is `SortedSeq`, which
puts each element behind as many others as are less: an order by definition, which
the proofs can use, where `SetToSortSeq` chooses among all sequences.  The arguments of one call
are assumed to add up to less than `SizeModulus` (`ArgumentsFitAssumption`); the
code does not look for their overflow, see the end of section 3.

### PythonReader

`__getitem__` with a slice, `__reversed__` and `__setstate__` are actions, because
each makes a reader of a reader; the same operation is applied to `list`, a
history variable.  The calls that read are operators: each answers a value or the
name of an exception.  `ComputedSlice` is Python's `slice.indices`, which nanobind
calls (external).  The code has two reads of a range: `BagzReader::ReadRange`, which
the indexes use (`ReadRange`), and `ReadRangeWithAllocator`, which `read`,
`read_range`, iterators and `read_indices` of slices with step 1 use, and which
refuses a reader whose step has wrapped to 0.  Such a reader (`Unreadable`) has at
most one record; the properties say of each call what it answers there.  `Iterated`
is a `BagzIterator` over a view, whose error `index`, `in` and `count` raise.  Both
indexes are built from a range read of the whole reader,
one `Emplace` or `PushBack` per record (a function of the number of records seen, so
that proofs can follow the loop), and answer `[]`, `get`, `in` and `len`.  A bag is
taken to have a length that Python can return, a `Py_ssize_t`
(`BagsFitAssumption`).

### DecompressorPool

Any number of threads each read one record after another.  `Get` finds the pool
empty under its lock and creates a decompressor without it, so this is two steps.
A decompressor is its context: `position` is how many pieces of a streamed frame
libzstd has taken since it was last reset (external).  A record is empty, of known
size or streamed, intact or not; a streamed one may also be cut short, and then
the loop of `DecompressStreamed` ends with its input.  `unfinished` remembers that
this has happened; from then on a context may be in the middle of a frame, which
only streamed records notice, and Bagz writes none.

### FileSpecs and BulkOpen

A spec is a sequence of parts and a file is named by a part and what stands at its
`@`; the characters are left out.  `Resolve` looks one prefix up under the
registry's lock, while other threads register and unregister (`OtherThread`).
`OpenGroup` expands the parts of one file system, whose files the tasks of
`ParallelDo` then open in any order; any of them may fail.  GCS lists objects
instead, and a name without object is an empty list.  `broke` remembers whether
something has failed other than that a file was missing: `OkInOrder` says that an
error has this reason or a file that POSIX lacks, so that GCS never has one for a
missing object.  `OpenWithTails` and
`OpenWithLimits` are `BagzReader::Open` with what came back.

The properties say what a part stands for without naming the code's expansion:
`InStore` is the set of its files, `Listing` puts a set in the order of its numbers.
Three assumptions come from the environment: a store is a finite set of files whose
names have at most two numbers behind the `@` (`StoresAssumption`), nothing has been
named with `limits.` before Open does so (`SpecsAssumption`), and nobody registers a
prefix that begins with `limits.` (`PrefixesAssumption`), so that the name of limits
which `LimitsName` makes of `gs:a` resolves to no file system.

### PythonIterator

The same iterator seen from Python.  `gil` and `buffer_mutex_` say who holds each
lock from one step to the next; a section that takes one lock and waits for
nothing while it holds it is one step, whose guard is that the lock is free.
Two places wait with a lock in hand and are therefore steps of their own: a
Python thread enters `next()` or the destructor with the GIL and gives it back
(`Call`, `Release`, `Destroy`, `Cancel`), and `ClearBuffer` waits for the GIL
with the mutex (`LockBuffer`, `ClearBuffer`).  Records are counted only, since
`BagzIterator` says which they are.  `TakeIndices` is one call of
`PythonBatchIterator`; `exception_store_` tells whether it has left an
exception, `FindException` and `Restore` are the look without the GIL and the
raising with it, and `NothingToRestore` is what happens if another thread came
first: at the end of the stream the code then raises no exception where
nanobind demands one, and the process ends.  A range of no records starts no
worker and is left to `BagzIterator`.

## 3. Runs

| Run | Instance | What it shows |
|---|---|---|
| `iterator` | 3 callers, sizes 0, 1, 2, 3, 5, read-ahead 1 to 3 | the iterator implements `RecordStream`; `ReadAheadBound`; the worker never sleeps without somebody about to wake it, and of the callers one is awake if there is something to return (`SomeCallerWakes`); a caller that is alone is answered; the destructor returns |
| `parallel_do` | up to 6 tasks and 3 threads, `MaxSize` 6 | `AtMostOnce`; OK means that all tasks asked for ran except those that the clamp cuts off (`OkMeansAll`); `StopsOnFailure`; the call returns |
| `shard_reader` | well-formed and malformed limits of up to 3 records of up to 3 bytes | `ViewsAreRecords`, `OkIsComplete`, `BadLimitsShowNothing` |
| `writer` | 2 calls of `Write`, records of 0 to 2 bytes, limits of 2 bytes, copy buffer of 3 | `AcknowledgedIsReadable`, `ClosedBagIsExact`, `NothingInvented`; no step makes a readable record unreadable (`ReadableStays`), of two files not even after a failed write |
| `reader` | 8 layouts of up to 3 shards, 2 slices on top of each other, steps -2 to 2 | `SliceIsView`, `ResultsAreWanted`, `OkIsComplete`, `AnswersFitView` |
| `decompressors` | 3 threads (symmetric), streamed frames of 2 pieces | `InOnePlace`, `IntactIsRight` |
| `python_iterator` | 1 or 2 threads, up to 3 records or indices, batches of 1 or 2 | `ExceptionIsDelivered`; each `next()` of a single thread and the destructor return |
| `python_reader` | bags of up to 4 records with repeated values, 4 operations, `SizeModulus` 16, steps up to 4 | `ReaderIsList`, `ReadsLikeList`, `SearchesLikeList`, each also of readers whose step is 0 |
| `open` | 12 specs of up to 3 parts and 3 shards, 4 contents of the stores, 2 changes of the registry | OK returns the files of the spec in order, of GCS those that exist, and an error has a cause (`OkInOrder`); `OwnLimits` |
| `shard_reader_corrupt`, `writer_failed_write`, `reader_prefix_slice` | smaller instances of three of these | a document that the code does not keep, see below |

Why these bounds are enough to be interesting.  The iterator's sizes and
read-ahead give streams of no batch, a partial one, exact ones, several, and
readers shorter than the read-ahead; of three callers one may return, one sleep
and one steal the record or the wakeup.  Three threads in `ParallelDo` let one
fail, one draw and one come late, and `num_tasks` up to `MaxSize` reaches the wrap.  Limits of two
bytes can be torn, and a copy buffer of three bytes ends its turns inside a
limit; two writes give a record before and after every failure.  Shards of
sizes 0 to 3 give ranges that begin and end inside shards and skip empty ones;
`SizeModulus` is far larger than the bag, so that sums only wrap where the
code's do.  The index iterators of `python_iterator` raise at the first index,
inside a batch and at its boundary.  Three decompressing threads let one return a
context that a second takes while a third finds the pool empty, and two pieces
put a failure inside a frame.  Four operations on a bag of four records compose
slices of both directions until they are empty; with `SizeModulus` 16, two slices
`[::4]` of one record make the step 0, after which it is still sliced, reversed and
pickled (of 2^64 it takes `[::2**32]` twice).  The stores of `open` lack a
shard of records, a shard of limits, the first shard, or nothing, and hold bags of
the same name with 1, 2 and 3 shards.  `python_reader` may stop, when its four
operations are used up; every other run checks for deadlock.

Fairness.  Threads that can run do: weak fairness of the worker, of each step of
a call of `next()` in progress, of the destructor once begun, of the threads and
the caller in `ParallelDo`, and likewise in `PythonIterator`, where a lock that
stays free is got in the end.  Nobody has to call `next()` or destroy an iterator,
and no spurious wakeup has to happen.  `absl::Mutex` grants a free lock to those
who ask.  The other components have no thread that waits for another: their runs
are about safety.  `SomeCallerWakes` and `NextReturns` say less than that each
`next()` returns, because the code does not promise it: a single `Signal` at the
end of the stream wakes one caller only.

Where the code disagrees with its documents, a run shows how; `findings` of
`PROJECT.json` quotes the lines.  Of three promises TLC shows a counterexample:

* `shard_reader_corrupt`: `ReadRange` may return OK although a record of the
  range did not decompress.  The callback refuses the corrupt record, but the
  shard reader then calls it for the empty records at the end of the range,
  though `bagz_shard_reader.h:97` says it stops early, and each of these calls
  overwrites the stored failure.
* `writer_failed_write`: after a `Write` that fails, `Close` returns OK and a
  record whose `Write` succeeded cannot be recovered, because the bytes that the
  failed call left behind are not accounted for.
* `reader_prefix_slice`: `ReadIndices` of a slice `[0:n]` shows records behind
  its end.

Four others are kept except in one case.  Their properties state, in runs that
pass and in theorems, what the document says outside that case and what the code
does in it:

* `parallel_do`, `OkMeansAll`: `parallel_do.h:29` promises a call of `func` for all
  ids in `[0, num_tasks)`.  With threads, `num_tasks` is first clamped to the largest
  `size_t` less the number of threads (`Clamped`), and the ids behind that are not
  called, though OK is returned: in the run, of 6 tasks with 3 threads only three.
  `OkIsAllThatFit` proves that this is the only exception.
* `python_reader`, `SearchesLikeList`: what `bagz.Reader.index` calls `stop` is used
  as the number of records to search (`IndexOf`).  With a start behind 0 it finds what
  stands at or behind `stop`, and raises `IndexError` where the two add up to more
  than the length (unless `stop` is 0), unlike the `Sequence` that the class is registered as
  (`README.md:86`, `bagz.pyi:150`).  `IndexFindsFirst` states the answer for every
  start and stop.  (With a start behind the end it raises `IndexError`, where a list
  raises `ValueError`.)
* `python_reader`, all three properties: the step of a slice is the product of the
  steps that it was made with, in 64 bits, and of a view of at most one record nothing
  bounds it.  Sliced by `[::2**32]` twice, or by `[::2]` 64 times, such a reader has
  the step 0 (the overflow of an `int64_t` is undefined; the models let it wrap).
  Taking its item, building an index of it, and `read_indices` of a slice with another step
  than 1 still work.  `ReadRangeWithAllocator` returns an error
  (`bagz_reader.cc:472`), so that `read`, `read_range` and `read_indices` of a slice
  with step 1 raise `ValueError`, and if there is a record so do iterating, `in`,
  `count` and `index` (`bagz_iterator.h:136`); once pickled it can not be restored,
  because `Slice` refuses a step of 0 (`Restored`).
* `open`, `OkInOrder`: `file.h:79` promises an error if any file cannot be opened, and
  `shard_spec.h:34` that `path@N` is N files.  GCS leaves missing objects out: OK is
  returned with the files that exist, and with none if none does.

More oddities are in the models, or were met while writing them.  They have no run
of their own:

* With a read-ahead of 0 an iterator over a non-empty reader ends at once; the
  runs and the proofs take it to be positive.
* In `ReadRange`, `start + num_records`, and in `Slice`, `start + step * (length -
  1)`, may wrap for arguments near 2^64, and are then accepted;
  `ArgumentsFitAssumption` excludes them.
* The empty range of an interleaved reader without shards divides by zero
  (`DividesByZero`).
* The name of the limits is made from the whole spec, behind its last slash: of a
  comma list only one part gets limits, and the list is paired by halves with
  whatever it then contains (`LimitsName`, `PairUp`).  `OwnLimits` is about specs
  of one part.
* That GCS leaves missing objects out (see above) moves the border between records and
  limits; `OwnLimits` therefore asks that no file is without its partner there.
* The names of records and of limits are two parts of one spec, each of which is
  looked up in the registry on its own.  If another thread unregisters the prefix
  and registers it for another file system in between, the records come from one
  and the limits from the other (two changes of the registry).  `OwnLimits` asks
  that both were found in one file system.
* A streamed record that is cut short is answered with OK and leaves the context
  in the middle of its frame (`StreamEnds`).
* Two threads that share a Python iterator may both see its stored exception, and
  the second ends the process (`NothingToRestore`).

## 4. Proofs

`tlapm` checks the following for all values of the constants, under the named
assumptions of the modules.

**BagzIteratorProof.**  The inductive invariant `IInv` joins the types, the
relation of the two buffers to the stream (`BufferInv`: while the destructor has
not begun, `buffer_` holds the records after the delivered ones in reverse, and
a running worker's `offset` is the first record after those), the shape of the
worker's batch at each of its control states, the meaning of `status_` and
`more_to_read_`, and where signals are under way.  None of the properties is
inductive alone: that no record is lost, for instance, rests on the worker
swapping only with an empty buffer, and its wakeup on how each caller that
empties the buffer comes to signal.  From it follow `TypeCorrect`, `Refinement`
(the iterator implements `RecordStream`: each step of the code is a step of the
abstract stream or none), `HandOverCorrect`, `ReadAheadBounded`,
`ErrorComesLast`, `EndComplete`, `NoLostWorkerWakeup`, `DestructorJoins`, and,
for one caller, `NoLostCallerWakeup`.  The theorems assume that no read-ahead is
0, where the iterator ends at once.

**ParallelDoProof.**  `TypeCorrect`, `RunsAtMostOnce`, `OkIsComplete`,
`OkIsAllThatFit`, `ErrorReturnedIsReal`, `JoinsAll` and `StopsAfterFailure`, for any
number of tasks and threads.  `OkIsComplete` is about the tasks that the caller asked
for: OK means that exactly those ran which threads reach.  `OkIsAllThatFit` adds that
these are all, if the number of tasks and the parallelism asked for add up to a
`size_t`; the invariant therefore relates `asked` to `num_tasks` before and after the
clamp.  The invariant says which ids have been handed out in terms
of `next_task`, and that the counter can not pass `MaxSize` since the clamp left
room for one draw past the end per thread: that each id is drawn once is not
inductive without it.

**ShardReaderProof.**  `TypeCorrect`, `RecordsAreExact`, `OkShowsAll`,
`BadLimitsRejected` and `SingleReadReports`, for every contents of the limits
file, every size of the records and every way of cutting the bytes.  The
invariant relates `partial` and `chunk` to the limits: together they are the
bytes from the start of record `result_index` to `position`.  That limits which
do not decrease from one to the next are sorted needs an induction over their
number, for which the prover has no scheme: the least counterexample, which exists
(`LeastNatural`), takes its place.

**DecompressorPoolProof.**  `TypeCorrect`, `NeverShared` and `IntactComesOutRight`,
for any number of threads and any length of frames.  `InOnePlace` alone is not
inductive: a thread that has found the pool empty creates a decompressor later, and
it takes the count of such threads (`Room`) to see that there are never more
decompressors than threads.  `IntactIsRight` needs to know of every context that
nobody uses that it is at the beginning of a frame, and of one in use how far its
thread is (`ContextInv`, `ReadInv`); this is what the reset after an error is for.

**PythonIteratorProof.**  `TypeCorrect` and `ExceptionDelivered`, for any threads,
numbers of records and batch sizes.  The invariant counts where the taken indices
are (delivered, in either buffer: `CountInv`), says where the exception is
(`ExceptionInv`), and that what `next()` has found under the mutex is still true
when it returns under the GIL (`AnswerInv`): the two locks are taken one after the
other, and the exception is looked for in between.

**BagzReaderProof.**  `SlicesAreViews`, `AnswersAreExact`, `TypeCorrect`,
`ResultsAreRight` and `OkReadsAreComplete`, for any sizes of shards, both layouts,
any arguments and any `SizeModulus`.  Two numbers that differ by a multiple of the
modulus have one remainder (`ModSame`), so that the start and the step of a slice of
a slice may wrap freely and its positions still come out right, because they are
positions of the view it was taken of.  A range read is in the bag because each of
its positions is: if it reached behind the last record, the first one to do so would
be a position of the view outside the bag.

That each result is the record asked for is proved in two halves.  `Plan` says what
a call must have prepared: each task reads records of its shard, each group of
results is filled by exactly one record of one task, each position is in exactly one
group, and the record that fills a group has the place in the bag that its positions
stand for.  The invariant `ReadInv` keeps the plan while the tasks run in any order,
with what has been read stored where the plan says and nothing else (`ProgressInv`);
from this no result is written twice, and the copies of duplicates fill the rest
(`CopiesAreWanted`).  None of it is inductive without the plan: that two threads do
not meet in a result is a fact about the numbers in their tasks.  The other half is
that each call makes a plan.  `Position` is the place of a record by arithmetic,
`Rounds(i) + s` or `Before(s) + i`, and `PositionCounts` shows that it is the number
of records before it in the documented order.  `IndexFindsRecord` is `lower_bound` and
the division by the number of shards; `RangePlan` the division of a range among the
shards, where the rounding up of an interleaved part has to be exact and the parts
of empty shards are left out; `IndicesPlan` the sorted, deduplicated indices and the
contiguous ranges made of them.  `HandleInv` says of a handle what it takes to read
it after further slices.  An interleaved bag needs to be balanced for this, which is
what `OpenFiles` tests (`Openable`).  Assumed are `SizesFitAssumption` (a bag has
fewer than `SizeModulus` records) and `ArgumentsFitAssumption`.

**BagzWriterProof.**  `TypeCorrect`, `AcknowledgedRecordsAreReadable`,
`ClosedBagsAreExact`, `NothingIsInvented` and `ReadableRecordsStay`, for records of
any sizes, limits of any width, any copy buffer and any choice of calls that fail.
None of the properties is inductive, since all of them speak of what a reader makes
of the bytes.  `IInv` (theorem `Invariant`) says what the bytes are: `ends`, whose
k-th element is the end of the k-th written record, exists as a witness, and as long
as nothing has failed the limits file is a prefix of these ends as words
(`LimitsFit`), the records file starts with a prefix of the records one after the
other (`RecordsFit`), and behind the last record lies only the record being written
or a copy of the first bytes of a limits file that is complete and on the disk
(`TailFits`); what is acknowledged is on the disk (`AcknowledgedFits`), and at each
point of `Close` one knows how far the copy is (`ProgressFits`).  Each step is then
an addition to a file, the loss of a part of its buffer, or both (`After`), and one
lemma per kind of step shows what it keeps.  The other half of the proofs reads the
bytes: the word of a limit decodes to it (`DecodeWord`, `LimitIs`), the bytes
between two ends are the record (`ContentIs`), no byte of a record passes for one of
a limit (`RecordsAreRecords`), so that a records file splits only when the limits
are complete (`SplitsEnd`, `TailMeansComplete`), which is what lets a crash in the
middle of `Close` leave the records to the two files and never to neither.  The
second half of `ReadableStays` holds without the writer being intact and rests only
on the bytes on the disk being added to, never changed (`DiskGrows`).

**OpenedBagProof, PythonReader.**  `TypeCorrect`, `ReadersAreLists`, `ReadsAreOfTheList` and
`SearchesAreOfTheList`, for any bags, any bounds and steps, any number of readers
made of readers and any `SizeModulus`.  The invariant `ViewInv` says that the list
is what lies in the bag at `Place(view, i)`, the places of the view without any
wrapping, and that the first and the last of them are in the bag (`InBag`); then so
are all between, and nothing that is computed from them wraps.
`ComputedSliceFacts` shows that Python's arithmetic makes evenly spaced indices of
the sequence, `SliceFacts` that `BagzReader::Slice` accepts them, with negative
numbers in a `size_t`, and takes their places, and `SliceStep` that the list does
the same.  This is another invariant than that of `BagzReader`: there the arguments
are arbitrary and the places only agree modulo 2^64, here they are Python's and
nothing wraps.  The theorems assume nothing of the step.
A step of 0 is that of a reader of at most one record (theorem
`ZeroStepShowsOne`).  `StepInv` says that a reader with records keeps its step as an
`int64_t` (`CutTwice`, `SliceKeepsStep`), so that restoring makes the same reader,
and `RaisedInv` that only restoring one with step 0 can have raised an exception; so each call is
shown to answer as the list does or, where it goes through
`ReadRangeWithAllocator`, to raise `ValueError` (`WholeRead`, `RangeShown`,
`SliceShown`, `NothingSearched`).  Of the two indexes the proof
says what the loop has built after each record (`IsIndex`, `IsMultiIndex`): again a
least counterexample, first to there being such a function at all, then to what it
contains.

**OpenedBagProof, BulkOpen.**  `OpenTypeCorrect`, `OpensInOrder` and
`OpensOwnLimits`, for any specs, any stores and any number of changes of the
registry.  What is opened is decided by the parts and the stores alone, although
tasks finish in any order and objects are listed in any: files that are ordered as
the code asks can be ordered in one way (`ListedInOrder`, `ListingUnique`).  That
what has been found for the names of one part is its listing (`PartFound`) has a
case each for one file, for the shards of a number, of which GCS may lack some
(`ShardsFound`), and for "@*" on GCS.  A group of neighbouring parts is expanded by
its file system at once, and only a group of one part has its shards counted:
`GroupNames` shows that when POSIX finds every name of a group, no other part of it
had an "@*", since no file has that name.  `GroupFound` puts both together.

Neither property is inductive: `OkInOrder` speaks of calls that have returned.  The
invariant `OpenInv` adds what holds before: between two groups the result is what
the parts before stand for (`OpenedUpTo`), in a group the names are those of its
parts, and each task that has finished has found what there is for its name
(`Opening`).  Its conjuncts need each other: a group that has been opened continues
the result only because it began where the last one ended.  That an error has a cause
is `CauseInv`: a task that has failed has met a failure or asked POSIX for a file
that it lacks, and a missing GCS object is neither.  `FlattenSeq` is
a recursive function in the community modules; the proofs first show what it does
with one sequence more (`FlattenOneMore`) and with two halves (`FlattenConcat`), by
least counterexample.

`OpensOwnLimits` then needs that the limits come in the order of the records:
`LimitsFollow` shows that the listing of the limits is the listing of the records
with `limits.` in each name, from the shards on POSIX all being there and from GCS
having no orphans, and `HalvesFit` that halves of the result therefore pair them.
If the name of limits has a prefix that nobody registers, the call does not
succeed (`TwoParts`).

Only model-checked: liveness throughout, since TLAPS does not reason about
`ENABLED`.  (The properties that three of the runs refute are no theorems.)

## 5. Not modelled

* Contents of records, and compression except for whether a record decompresses and
  what that does to the context: no other property depends on the bytes.  The
  choice of a compression by the spec's ending is a comparison of names.
* The estimate of a read-ahead from bytes per record: it is some positive number.
* Limits kept in memory: `InMemoryPReadFile` reads its file once and keeps the first
  failure; afterwards it is a file that answers every read the same way.
* Opening existing files to overwrite them: the writer starts with new files.
* Loss of power: nothing in the code syncs, so nothing could be promised.
* `ParallelOperation`'s timed `Join` and opening for writing at an offset: nobody
  uses them.
* Single calls of the GCS client: they are calls of a library and keep no state.
* The Python writer: each method makes one call of `BagzWriter` and turns its status
  into an exception.  Two threads that use one writer without a lock race, for which
  nothing is promised.
* Beam: bundles and their claims are those of Beam's own range tracker.
* The build, packaging, documentation and generated files.

## 6. What is left

Done: the nine component modules, the operators they rest on and proofs about
each of them.  What would be next, in this order:

1. The writer on existing files, where opening truncates two files one after the
   other.
2. Files that change while a bag is opened: `BulkOpen` holds them fixed.
