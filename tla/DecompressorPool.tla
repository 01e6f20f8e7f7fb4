--------------------------- MODULE DecompressorPool ---------------------------
(***************************************************************************)
(* The decompressors of a BagzReader: RecyclingPool of                     *)
(* src/internal/recycling_pool.h, from which the reading threads of        *)
(* src/bagz_reader.cc take one for each record, and ZstdDecompressor of    *)
(* src/internal/zstd_decompressor.cc, whose context outlives the record.   *)
(*                                                                         *)
(* A stored record is empty, a frame that tells its size (what Bagz        *)
(* writes) or a streamed frame (what it reads, too); it is intact,         *)
(* corrupt, or streamed and cut short.  ZSTD_decompressStream takes a      *)
(* streamed frame piece by piece.                                          *)
(***************************************************************************)
EXTENDS Integers, Sequences, FiniteSets

CONSTANTS
  Threads,    \* that read, the caller's and ParallelDo's
  Pieces      \* bound: of a streamed frame

ASSUME ThreadsAssumption == IsFiniteSet(Threads)
ASSUME PiecesAssumption == Pieces \in Nat \ {0, 1}

\* A corrupt stream has the pieces up to the bad one.
Records ==
  {r \in [form: {"empty", "sized", "streamed", "cut"}, intact: BOOLEAN,
          pieces: 0..Pieces] :
     /\ r.form \in {"empty", "sized"} <=> r.pieces = 0
     /\ r.form = "empty" => r.intact
     /\ r.form = "streamed" /\ r.intact => r.pieces = Pieces
     /\ r.form = "cut" => ~r.intact /\ r.pieces < Pieces}

Empty == [form |-> "empty", intact |-> TRUE, pieces |-> 0]

\* "failed" for a reason that has nothing to do with decompressing.
Outcomes == {"right", "wrong", "invalid", "failed"}

VARIABLES
  idle,       \* recycle_pool_: decompressors that nobody uses
  created,    \* how many decompressors there are; they are 1..created
  position,   \* of each decompressor's context: the pieces of its stream so far
  pc,         \* of each thread
  record,     \* that it reads
  held,       \* its decompressor, or NoObject
  done,       \* the pieces of the record it has decompressed
  outcome,    \* of its read, or of what it has decompressed so far
  unfinished  \* history: whether a damaged stream has been taken for complete

vars == <<idle, created, position, pc, record, held, done, outcome,
          unfinished>>

NoObject == 0
Objects == 1..created

Init ==
  /\ idle = <<>>
  /\ created = 0
  /\ position = [o \in {} |-> 0]
  /\ pc = [t \in Threads |-> "idle"]
  /\ record = [t \in Threads |-> Empty]
  /\ held = [t \in Threads |-> NoObject]
  /\ done = [t \in Threads |-> 0]
  /\ outcome = [t \in Threads |-> "right"]
  /\ unfinished = FALSE

-----------------------------------------------------------------------------
(* RecyclingPool *)

\* A record is to be read: a call, or a callback of ReadRange.
Read(t, r) ==
  /\ pc[t] = "idle"
  /\ pc' = [pc EXCEPT ![t] = "get"]
  /\ record' = [record EXCEPT ![t] = r]
  /\ UNCHANGED <<idle, created, position, held, done, outcome, unfinished>>

\* Mutant: the object stays in the pool.
Taken_Kept == idle

\* The pool after its last object has been taken.
Taken == SubSeq(idle, 1, Len(idle) - 1)

\* Get, under the mutex.
Get(t) ==
  /\ pc[t] = "get"
  /\ idle # <<>>
  /\ held' = [held EXCEPT ![t] = idle[Len(idle)]]
  /\ idle' = Taken
  /\ pc' = [pc EXCEPT ![t] = "decompress"]
  /\ UNCHANGED <<created, position, record, done, outcome, unfinished>>

\* Get finds the pool empty and releases the mutex.
GetNone(t) ==
  /\ pc[t] = "get"
  /\ idle = <<>>
  /\ pc' = [pc EXCEPT ![t] = "create"]
  /\ UNCHANGED <<idle, created, position, record, held, done, outcome, unfinished>>

\* Meanwhile others may have returned theirs.
Create(t) ==
  /\ pc[t] = "create"
  /\ created' = created + 1
  /\ position' = [o \in 1..created+1 |-> IF o = created + 1 THEN 0 ELSE position[o]]
  /\ held' = [held EXCEPT ![t] = created + 1]
  /\ pc' = [pc EXCEPT ![t] = "decompress"]
  /\ UNCHANGED <<idle, record, done, outcome, unfinished>>

\* Mutant: the object is dropped.
Recycled_Not(t) == idle

Recycled(t) == Append(idle, held[t])

\* The Recycler of the unique_ptr, whatever the outcome; the read has ended.
ReturnToPool(t) ==
  /\ pc[t] = "return"
  /\ idle' = Recycled(t)
  /\ held' = [held EXCEPT ![t] = NoObject]
  /\ pc' = [pc EXCEPT ![t] = "idle"]
  /\ record' = [record EXCEPT ![t] = Empty]
  /\ done' = [done EXCEPT ![t] = 0]
  /\ outcome' = [outcome EXCEPT ![t] = "right"]
  /\ UNCHANGED <<created, position, unfinished>>

-----------------------------------------------------------------------------
(* DecompressInto and ZstdDecompressor *)

Finish(t, o) ==
  /\ pc' = [pc EXCEPT ![t] = "return"]
  /\ outcome' = [outcome EXCEPT ![t] = o]
  /\ UNCHANGED <<idle, created, record, held>>

\* Mutant: an error leaves the context as it is.
ResetSession_Not(o) == position

\* ZSTD_DCtx_reset
ResetSession(o) == [position EXCEPT ![o] = 0]

Decompressing(t) == pc[t] = "decompress"

\* A context is not made for two threads.
Alone(t) == \A u \in Threads \ {t} : held[u] # held[t]

\* The shard reader has no bytes to decompress, the frame's header is bad or the
\* buffer for a known size cannot be had.
FailsEarly(t) ==
  /\ Decompressing(t)
  /\ done[t] = 0
  /\ Finish(t, "failed")
  /\ UNCHANGED <<position, done, unfinished>>

\* An empty record is copied.
Copy(t) ==
  /\ Decompressing(t)
  /\ record[t].form = "empty"
  /\ Finish(t, "right")
  /\ UNCHANGED <<position, done, unfinished>>

\* ZSTD_decompressDCtx starts a frame of its own wherever the stream is.  Of a
\* corrupt frame without a checksum anything may come.
OneShot(t) ==
  /\ Decompressing(t)
  /\ record[t].form = "sized"
  /\ Finish(t, IF record[t].intact /\ Alone(t) THEN "right" ELSE "wrong")
  /\ UNCHANGED <<position, done, unfinished>>

OneShotFails(t) ==
  /\ Decompressing(t)
  /\ record[t].form = "sized"
  /\ ~record[t].intact \/ ~Alone(t)
  /\ Finish(t, "invalid")
  /\ position' = ResetSession(held[t])
  /\ UNCHANGED <<done, unfinished>>

\* The loop of DecompressStreamed.
Streams(t) ==
  /\ Decompressing(t)
  /\ record[t].form \in {"streamed", "cut"}
  /\ done[t] < record[t].pieces

InPlace(t) == Alone(t) /\ position[held[t]] = done[t]

\* The last piece of a corrupt record.
IsCorrupt(t) ==
  /\ record[t].form = "streamed" /\ ~record[t].intact
  /\ done[t] + 1 = record[t].pieces

\* After the last piece of a frame the context awaits the next frame.
After(n) == IF n + 1 = Pieces THEN 0 ELSE n + 1

StreamTakes(t) ==
  /\ Streams(t)
  /\ InPlace(t) /\ ~IsCorrupt(t)
  /\ position' = [position EXCEPT ![held[t]] = After(done[t])]
  /\ done' = [done EXCEPT ![t] = @ + 1]
  /\ UNCHANGED <<idle, created, pc, record, held, outcome, unfinished>>

\* The context is in the middle of another frame, or the piece is corrupt: it
\* may be noticed or not.
StreamTakesRubbish(t) ==
  /\ Streams(t)
  /\ ~InPlace(t) \/ IsCorrupt(t)
  /\ \E p \in 0..Pieces-1 : position' = [position EXCEPT ![held[t]] = p]
  /\ done' = [done EXCEPT ![t] = @ + 1]
  /\ outcome' = [outcome EXCEPT ![t] = "wrong"]
  /\ UNCHANGED <<idle, created, pc, record, held, unfinished>>

StreamFails(t) ==
  /\ Streams(t)
  /\ ~InPlace(t) \/ IsCorrupt(t)
  /\ Finish(t, "invalid")
  /\ position' = ResetSession(held[t])
  /\ UNCHANGED <<done, unfinished>>

\* The loop ends with the input, whether or not the frame has; then the buffer
\* for the result may still be refused.
StreamEnds(t) ==
  /\ Decompressing(t)
  /\ record[t].form \in {"streamed", "cut"}
  /\ done[t] = record[t].pieces
  /\ \E o \in {IF record[t].intact THEN outcome[t] ELSE "wrong", "failed"} :
       Finish(t, o)
  /\ unfinished' = (unfinished \/ ~record[t].intact)
  /\ UNCHANGED <<position, done>>

-----------------------------------------------------------------------------
Step(t) ==
  \/ \E r \in Records : Read(t, r)
  \/ Get(t) \/ GetNone(t) \/ Create(t) \/ ReturnToPool(t)
  \/ FailsEarly(t) \/ Copy(t) \/ OneShot(t) \/ OneShotFails(t)
  \/ StreamTakes(t) \/ StreamTakesRubbish(t) \/ StreamFails(t) \/ StreamEnds(t)

Next == \E t \in Threads : Step(t)

Spec == Init /\ [][Next]_vars

-----------------------------------------------------------------------------
(* Properties *)

\* The type invariant.  Decompressors are made when a thread finds none: there
\* are never more than threads that read at once.
TypeOK ==
  /\ created \in 0..Cardinality(Threads)
  /\ idle \in Seq(Objects)
  /\ position \in [Objects -> 0..Pieces-1]
  /\ pc \in [Threads -> {"idle", "get", "create", "decompress", "return"}]
  /\ record \in [Threads -> Records]
  /\ held \in [Threads -> Objects \cup {NoObject}]
  /\ done \in [Threads -> 0..Pieces]
  /\ outcome \in [Threads -> Outcomes]
  /\ unfinished \in BOOLEAN

\* RecyclingPool hands a decompressor to one thread at a time, and loses none:
\* each is once in the pool, or with one thread.
InOnePlace ==
  /\ \A i, j \in DOMAIN idle : i # j => idle[i] # idle[j]
  /\ \A t, u \in Threads : t # u /\ held[t] # NoObject => held[t] # held[u]
  /\ \A t \in Threads, i \in DOMAIN idle : held[t] # idle[i]
  /\ \A o \in Objects : \/ \E i \in DOMAIN idle : idle[i] = o
                       \/ \E t \in Threads : held[t] = o

\* Decompress: an intact record comes out right and without an error of its
\* own, whatever its decompressor was used for before and by whichever thread,
\* failed reads included.  The exception are streamed records, which Bagz does
\* not write, after one of which the end was missing: DecompressStreamed answers
\* OK for it and leaves the context in the middle of the frame.
IntactIsRight ==
  \A t \in Threads :
    /\ pc[t] = "return" /\ record[t].intact
    /\ unfinished => record[t].form # "streamed"
    => outcome[t] \in {"right", "failed"}
=============================================================================
