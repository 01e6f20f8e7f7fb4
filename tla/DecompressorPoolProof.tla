------------------------ MODULE DecompressorPoolProof ------------------------
(***************************************************************************)
(* Proofs about DecompressorPool for every finite set of threads and every *)
(* number of pieces of a stream.                                           *)
(***************************************************************************)
EXTENDS DecompressorPool, FiniteSetTheorems, TLAPS

\* The types, without the bound of the number of decompressors.
Types ==
  /\ created \in Nat
  /\ idle \in Seq(Objects)
  /\ position \in [Objects -> 0..Pieces-1]
  /\ pc \in [Threads -> {"idle", "get", "create", "decompress", "return"}]
  /\ record \in [Threads -> Records]
  /\ held \in [Threads -> Objects \cup {NoObject}]
  /\ done \in [Threads -> 0..Pieces]
  /\ outcome \in [Threads -> Outcomes]
  /\ unfinished \in BOOLEAN

HeldInv ==
  \A t \in Threads : held[t] # NoObject <=> pc[t] \in {"decompress", "return"}

Creating == {t \in Threads : pc[t] = "create"}

\* A thread that is to create a decompressor has room for it.
Room == created + Cardinality(Creating) <= Cardinality(Threads)

InStream(t) == pc[t] = "decompress" /\ done[t] > 0

\* Only a stream that is being read leaves a context in the middle of a frame.
ContextInv ==
  ~unfinished =>
    \A o \in Objects :
      position[o] = 0 \/ \E t \in Threads : held[t] = o /\ InStream(t)

\* Where a thread and its context are.
Reading(t) ==
  /\ pc[t] \in {"idle", "get", "create"} => done[t] = 0 /\ outcome[t] = "right"
  /\ pc[t] = "decompress" =>
       /\ done[t] <= record[t].pieces
       /\ record[t].intact /\ ~unfinished =>
            /\ outcome[t] = "right"
            /\ position[held[t]] = IF done[t] = Pieces THEN 0 ELSE done[t]

ReadInv == \A t \in Threads : Reading(t)

IInv ==
  /\ Types /\ InOnePlace /\ HeldInv /\ Room
  /\ ContextInv /\ ReadInv /\ IntactIsRight

-----------------------------------------------------------------------------
(* Types and places *)

LEMMA RecordFacts ==
  /\ Empty \in Records
  /\ \A r \in Records :
       /\ r.pieces \in 0..Pieces
       /\ r.form \in {"empty", "sized", "streamed", "cut"}
       /\ r.intact \in BOOLEAN
       /\ r.form \notin {"streamed", "cut"} => r.pieces = 0
       /\ r.form \in {"streamed", "cut"} => r.pieces > 0
       /\ r.form \in {"streamed", "cut"} /\ r.intact => r.pieces = Pieces
BY PiecesAssumption DEF Empty, Records

LEMMA SeqOfMore ==
  ASSUME NEW S, NEW T, S \subseteq T, NEW s \in Seq(S)
  PROVE  s \in Seq(T)
<1>1. Len(s) \in Nat /\ s \in [1..Len(s) -> S]
  OBVIOUS
<1>2. s \in [1..Len(s) -> T]
  BY <1>1
<1>3. QED
  BY <1>1, <1>2

\* The last element of a sequence, and the others.
LEMMA LastAndFront ==
  ASSUME NEW S, NEW s \in Seq(S), s # << >>
  PROVE  /\ Len(s) \in Nat /\ Len(s) > 0 /\ DOMAIN s = 1..Len(s)
         /\ s[Len(s)] \in S
         /\ SubSeq(s, 1, Len(s) - 1) \in Seq(S)
         /\ DOMAIN SubSeq(s, 1, Len(s) - 1) = 1..Len(s)-1
         /\ \A i \in 1..Len(s)-1 : SubSeq(s, 1, Len(s) - 1)[i] = s[i]
<1>1. Len(s) \in Nat /\ Len(s) > 0 /\ DOMAIN s = 1..Len(s)
  OBVIOUS
<1>2. s[Len(s)] \in S
  BY <1>1
<1>3. SubSeq(s, 1, Len(s) - 1) \in Seq(S)
  BY <1>1
<1>4. Len(SubSeq(s, 1, Len(s) - 1)) = Len(s) - 1
  BY <1>1
<1>5. \A i \in 1..Len(s)-1 : SubSeq(s, 1, Len(s) - 1)[i] = s[i]
  BY <1>1
<1>6. QED
  BY <1>1, <1>2, <1>3, <1>4, <1>5

LEMMA InitIInv == Init => IInv
<1> SUFFICES ASSUME Init PROVE IInv
  OBVIOUS
<1> USE ThreadsAssumption, PiecesAssumption
<1>1. Objects = {}
  BY SMT DEF Init, Objects
<1>2. Types
  <2>1. position \in [Objects -> 0..Pieces-1]
    BY <1>1, Zenon DEF Init
  <2>2. created \in Nat /\ unfinished \in BOOLEAN
    BY DEF Init
  <2>6. idle \in Seq(Objects)
    BY <1>1 DEF Init
  <2>3. /\ done \in [Threads -> 0..Pieces]
        /\ held \in [Threads -> Objects \cup {NoObject}]
    BY DEF Init
  <2>4. /\ pc \in [Threads -> {"idle", "get", "create", "decompress", "return"}]
        /\ outcome \in [Threads -> Outcomes]
        /\ record \in [Threads -> Records]
    BY RecordFacts DEF Init, Outcomes
  <2>5. QED
    BY <2>1, <2>2, <2>3, <2>4, <2>6 DEF Types
<1>3. InOnePlace
  BY <1>1 DEF Init, InOnePlace, NoObject
<1>4. HeldInv /\ ContextInv /\ ReadInv /\ IntactIsRight
  BY <1>1 DEF Init, HeldInv, ContextInv, ReadInv, Reading, IntactIsRight
<1>5. Room
  <2>1. Creating = {}
    BY DEF Init, Creating
  <2>2. Cardinality(Threads) \in Nat
    BY FS_CardinalityType
  <2>3. QED
    BY <2>1, <2>2, FS_EmptySet DEF Room, Init
<1>6. QED
  BY <1>2, <1>3, <1>4, <1>5 DEF IInv

\* Every step keeps the types.
LEMMA TypesStep ==
  ASSUME IInv, NEW t \in Threads, Step(t)
  PROVE  Types'
<1> USE PiecesAssumption DEF IInv, Types
<1>1. CASE \E r \in Records : Read(t, r)
  BY <1>1 DEF Read, Objects
<1>2. CASE Get(t)
  <2>1. idle[Len(idle)] \in Objects /\ Taken \in Seq(Objects)
    BY <1>2, LastAndFront DEF Get, Taken
  <2>2. QED
    BY <1>2, <2>1 DEF Get, Objects
<1>3. CASE GetNone(t)
  BY <1>3 DEF GetNone, Objects
<1>4. CASE Create(t)
  <2>1. Objects \subseteq Objects' /\ created' \in Objects' /\ created' \in Nat
    BY <1>4 DEF Create, Objects
  <2>2. idle' \in Seq(Objects')
    <3>1. idle \in Seq(Objects')
      BY <2>1, SeqOfMore
    <3>2. QED
      BY <1>4, <3>1 DEF Create
  <2>3. position' \in [Objects' -> 0..Pieces-1]
    BY <1>4, SMTT(30) DEF Create, Objects
  <2>4. held' \in [Threads -> Objects' \cup {NoObject}]
    BY <1>4, <2>1 DEF Create
  <2>5. QED
    BY <1>4, <2>1, <2>2, <2>3, <2>4 DEF Create
<1>5. CASE ReturnToPool(t)
  <2>1. held[t] \in Objects
    BY <1>5 DEF ReturnToPool, HeldInv
  <2>2. idle' \in Seq(Objects)
    BY <1>5, <2>1 DEF ReturnToPool, Recycled
  <2>3. QED
    BY <1>5, <2>2, RecordFacts DEF ReturnToPool, Outcomes, Objects
<1>6. CASE FailsEarly(t) \/ Copy(t) \/ OneShot(t)
  BY <1>6 DEF FailsEarly, Copy, OneShot, Finish, Outcomes, Objects
<1>7. CASE OneShotFails(t) \/ StreamFails(t)
  <2>1. ResetSession(held[t]) \in [Objects -> 0..Pieces-1]
    <3>1. 0 \in 0..Pieces-1
      OBVIOUS
    <3>2. QED
      BY <3>1 DEF ResetSession
  <2>2. QED
    BY <1>7, <2>1 DEF OneShotFails, StreamFails, Finish, Outcomes, Objects
<1>8. CASE StreamTakes(t) \/ StreamTakesRubbish(t)
  <2>1. done[t] + 1 \in 0..Pieces
    <3>1. record[t] \in Records /\ done[t] < record[t].pieces
      BY <1>8 DEF StreamTakes, StreamTakesRubbish, Streams
    <3>2. QED
      BY <3>1, RecordFacts
  <2>2. After(done[t]) \in 0..Pieces-1
    BY <2>1 DEF After
  <2>3. position' \in [Objects -> 0..Pieces-1]
    BY <1>8, <2>2 DEF StreamTakes, StreamTakesRubbish
  <2>4. outcome' \in [Threads -> Outcomes]
    BY <1>8 DEF StreamTakes, StreamTakesRubbish, Outcomes
  <2>5. done' \in [Threads -> 0..Pieces]
    BY <1>8, <2>1 DEF StreamTakes, StreamTakesRubbish
  <2>6. QED
    BY <1>8, <2>3, <2>4, <2>5 DEF StreamTakes, StreamTakesRubbish, Objects
<1>9. CASE StreamEnds(t)
  BY <1>9 DEF StreamEnds, Finish, Outcomes, Objects
<1>10. QED
  BY <1>1, <1>2, <1>3, <1>4, <1>5, <1>6, <1>7, <1>8, <1>9 DEF Step

\* All but taking, creating and returning leaves the pool alone.
LEMMA PoolStep ==
  ASSUME NEW t \in Threads, Step(t)
  PROVE  \/ Get(t) \/ Create(t) \/ ReturnToPool(t)
         \/ UNCHANGED <<idle, created, held>>
BY DEF Step, Read, GetNone, FailsEarly, Copy, OneShot, OneShotFails, StreamTakes,
  StreamTakesRubbish, StreamFails, StreamEnds, Finish

\* Every decompressor stays in one place.
LEMMA PlacesStep ==
  ASSUME IInv, NEW t \in Threads, Step(t)
  PROVE  InOnePlace'
<1> USE DEF IInv, Types
<1>1. CASE Get(t)
  <2> DEFINE n == Len(idle)
  <2>1. n \in Nat /\ n > 0 /\ DOMAIN idle = 1..n
    BY <1>1, LastAndFront DEF Get
  <2>2. /\ DOMAIN idle' = 1..n-1
        /\ \A i \in 1..n-1 : idle'[i] = idle[i]
    BY <1>1, LastAndFront DEF Get, Taken
  <2>7. /\ held[t] = NoObject /\ held' = [held EXCEPT ![t] = idle[n]]
        /\ Objects' = Objects
    BY <1>1 DEF Get, HeldInv, Objects
  <2> HIDE DEF n
  <2>3. /\ \A i, j \in DOMAIN idle' : i # j => idle'[i] # idle'[j]
        /\ \A u \in Threads, i \in DOMAIN idle' : held'[u] # idle'[i]
    BY <2>1, <2>2, <2>7 DEF InOnePlace
  <2>4. \A u, v \in Threads : u # v /\ held'[u] # NoObject => held'[u] # held'[v]
    <3>1. n \in DOMAIN idle
      BY <2>1
    <3>2. \A u \in Threads : held[u] # idle[n]
      BY <3>1, Zenon DEF InOnePlace
    <3>3. \A u, v \in Threads : u # v /\ held[u] # NoObject => held[u] # held[v]
      BY Zenon DEF InOnePlace
    <3>4. /\ held'[t] = idle[n]
          /\ \A u \in Threads : u # t => held'[u] = held[u]
      BY <2>7
    <3>5. QED
      BY <3>2, <3>3, <3>4, Zenon
  <2>5. ASSUME NEW o \in Objects
        PROVE  \/ \E i \in DOMAIN idle' : idle'[i] = o
               \/ \E u \in Threads : held'[u] = o
    <3>1. CASE o = idle[n]
      BY <3>1, <2>7
    <3>2. CASE \E i \in 1..n-1 : idle[i] = o
      BY <3>2, <2>2
    <3>3. CASE \E u \in Threads : held[u] = o
      BY <3>3, <2>7 DEF NoObject, Objects
    <3>4. QED
      <4>1. \A i \in 1..n : i = n \/ i \in 1..n-1
        BY <2>1
      <4>2. QED
        BY <3>1, <3>2, <3>3, <4>1, <2>1 DEF InOnePlace
  <2>6. QED
    BY <2>3, <2>4, <2>5, <2>7 DEF InOnePlace
<1>2. CASE Create(t)
  <2>1. /\ held[t] = NoObject /\ held' = [held EXCEPT ![t] = created']
        /\ idle' = idle
    BY <1>2 DEF Create, HeldInv
  <2>2. /\ created' \notin Objects /\ created' # NoObject /\ NoObject \notin Objects
        /\ \A o \in Objects' : o \in Objects \/ o = created'
    BY <1>2 DEF Create, Objects, NoObject
  <2>3. \A i \in DOMAIN idle : idle[i] \in Objects
    OBVIOUS
  <2>4. /\ \A i, j \in DOMAIN idle' : i # j => idle'[i] # idle'[j]
        /\ \A u \in Threads, i \in DOMAIN idle' : held'[u] # idle'[i]
    BY <2>1, <2>2, <2>3 DEF InOnePlace
  <2>5. \A u, v \in Threads : u # v /\ held'[u] # NoObject => held'[u] # held'[v]
    <3>1. \A u \in Threads : held[u] # created'
      BY <2>2
    <3>2. QED
      BY <2>1, <2>2, <3>1 DEF InOnePlace
  <2>6. \A o \in Objects' : \/ \E i \in DOMAIN idle' : idle'[i] = o
                            \/ \E u \in Threads : held'[u] = o
    BY <2>1, <2>2 DEF InOnePlace
  <2>7. QED
    BY <2>4, <2>5, <2>6 DEF InOnePlace
<1>3. CASE ReturnToPool(t)
  <2> DEFINE n == Len(idle)
  <2>1. /\ idle \in Seq(Objects) /\ n \in Nat /\ DOMAIN idle = 1..n
        /\ held[t] \in Objects /\ Objects' = Objects
    BY <1>3 DEF ReturnToPool, HeldInv, Objects
  <2>2. /\ held' = [held EXCEPT ![t] = NoObject]
        /\ DOMAIN idle' = 1..n+1 /\ idle'[n + 1] = held[t]
        /\ \A i \in 1..n : idle'[i] = idle[i]
    BY <1>3, <2>1 DEF ReturnToPool, Recycled
  <2>3. NoObject \notin Objects /\ \A i \in 1..n : idle[i] \in Objects
    BY <2>1 DEF NoObject, Objects
  <2> HIDE DEF n
  <2>4. \A i, j \in 1..n+1 : i # j => idle'[i] # idle'[j]
    <3>1. \A i, j \in 1..n : i # j => idle'[i] # idle'[j]
      BY <2>1, <2>2 DEF InOnePlace
    <3>2. \A i \in 1..n : idle'[i] # idle'[n + 1]
      BY <2>1, <2>2 DEF InOnePlace
    <3>3. \A i \in 1..n+1 : i = n + 1 \/ i \in 1..n
      BY <2>1
    <3>4. QED
      BY <3>1, <3>2, <3>3
  <2>5. \A u \in Threads, i \in 1..n+1 : held'[u] # idle'[i]
    <3>1. ASSUME NEW u \in Threads, NEW i \in 1..n
          PROVE  held'[u] # idle'[i]
      <4>1. held'[u] = NoObject \/ held'[u] = held[u]
        BY <2>2
      <4>2. idle'[i] \in Objects /\ held[u] # idle'[i]
        BY <2>1, <2>2, <2>3 DEF InOnePlace
      <4>3. QED
        BY <4>1, <4>2, <2>3
    <3>2. \A u \in Threads : held'[u] # idle'[n + 1]
      BY <2>1, <2>2, <2>3 DEF InOnePlace
    <3>3. \A i \in 1..n+1 : i = n + 1 \/ i \in 1..n
      BY <2>1
    <3>4. QED
      BY <3>1, <3>2, <3>3
  <2>6. \A u, v \in Threads : u # v /\ held'[u] # NoObject => held'[u] # held'[v]
    BY <2>2 DEF InOnePlace
  <2>7. ASSUME NEW o \in Objects
        PROVE  \/ \E i \in 1..n+1 : idle'[i] = o
               \/ \E u \in Threads : held'[u] = o
    <3>1. CASE o = held[t]
      BY <3>1, <2>1, <2>2
    <3>2. CASE \E i \in 1..n : idle[i] = o
      BY <3>2, <2>1, <2>2
    <3>3. CASE \E u \in Threads : held[u] = o /\ u # t
      BY <3>3, <2>2
    <3>4. QED
      BY <3>1, <3>2, <3>3, <2>1 DEF InOnePlace
  <2>8. QED
    BY <2>1, <2>2, <2>4, <2>5, <2>6, <2>7 DEF InOnePlace
<1>4. CASE UNCHANGED <<idle, created, held>>
  BY <1>4 DEF InOnePlace, Objects
<1>5. QED
  BY <1>1, <1>2, <1>3, <1>4, PoolStep

\* A thread holds a decompressor from Get or Create until it returns it.
LEMMA HeldStep ==
  ASSUME IInv, NEW t \in Threads, Step(t)
  PROVE  HeldInv'
<1> USE DEF IInv, Types, HeldInv
<1>1. CASE Get(t)
  <2>1. idle[Len(idle)] # NoObject
    BY <1>1, LastAndFront DEF Get, Objects, NoObject
  <2>2. QED
    BY <1>1, <2>1 DEF Get
<1>2. CASE Create(t)
  BY <1>2 DEF Create, NoObject
<1>3. CASE ReturnToPool(t)
  BY <1>3 DEF ReturnToPool
<1>4. CASE GetNone(t) \/ \E r \in Records : Read(t, r)
  BY <1>4 DEF GetNone, Read
<1>5. CASE StreamTakes(t) \/ StreamTakesRubbish(t)
  BY <1>5 DEF StreamTakes, StreamTakesRubbish
<1>6. CASE \/ FailsEarly(t) \/ Copy(t) \/ OneShot(t) \/ OneShotFails(t)
           \/ StreamFails(t) \/ StreamEnds(t)
  BY <1>6 DEF FailsEarly, Copy, OneShot, OneShotFails, StreamFails, StreamEnds,
    Streams, Decompressing, Finish
<1>7. QED
  BY <1>1, <1>2, <1>3, <1>4, <1>5, <1>6 DEF Step

-----------------------------------------------------------------------------
(* Never more decompressors than threads *)

\* When the pool is empty each decompressor is with a thread of its own.
LEMMA AllHeld ==
  ASSUME IInv, idle = << >>,
         NEW Others \in SUBSET Threads,
         \A t \in Threads : held[t] # NoObject => t \notin Others
  PROVE  created + Cardinality(Others) <= Cardinality(Threads)
<1> DEFINE Holders == {t \in Threads : held[t] # NoObject}
           holds == [t \in Holders |-> held[t]]
<1>1. /\ IsFiniteSet(Threads) /\ IsFiniteSet(Holders) /\ IsFiniteSet(Others)
      /\ IsFiniteSet(Holders \cup Others)
      /\ Cardinality(Holders \cup Others) <= Cardinality(Threads)
  <2>1. Holders \cup Others \in SUBSET Threads /\ Holders \in SUBSET Threads
    OBVIOUS
  <2>2. QED
    BY <2>1, ThreadsAssumption, FS_Subset
<1>2. holds \in Surjection(Holders, Objects)
  <2>1. \A t \in Holders : held[t] \in Objects
    BY DEF IInv, Types
  <2>2. \A o \in Objects : \E t \in Holders : held[t] = o
    <3>1. NoObject \notin Objects
      BY DEF NoObject, Objects
    <3>2. QED
      BY <3>1 DEF IInv, InOnePlace
  <2>3. QED
    BY <2>1, <2>2 DEF Surjection
<1>3. created <= Cardinality(Holders)
  <2>1. Cardinality(Objects) <= Cardinality(Holders)
    BY <1>1, <1>2, FS_Surjection
  <2>2. created \in Nat
    BY DEF IInv, Types
  <2>3. Cardinality(Objects) = created
    BY <2>2, FS_Interval DEF Objects
  <2>4. QED
    BY <2>1, <2>3
<1>4. Cardinality(Holders \cup Others) = Cardinality(Holders) + Cardinality(Others)
  <2>1. Holders \cap Others = {}
    OBVIOUS
  <2>2. /\ Cardinality(Holders) \in Nat /\ Cardinality(Others) \in Nat
    BY <1>1, FS_CardinalityType
  <2>3. Cardinality(Holders \cap Others) = 0
    BY <2>1, FS_EmptySet
  <2>4. Cardinality(Holders \cup Others) =
          Cardinality(Holders) + Cardinality(Others) - Cardinality(Holders \cap Others)
    BY <1>1, FS_Union
  <2> HIDE DEF Holders
  <2>5. QED
    BY <2>2, <2>3, <2>4
<1>5. /\ Cardinality(Holders) \in Nat /\ Cardinality(Others) \in Nat
      /\ Cardinality(Threads) \in Nat /\ created \in Nat
  BY <1>1, FS_CardinalityType DEF IInv, Types
<1> HIDE DEF Holders
<1>6. QED
  BY <1>1, <1>3, <1>4, <1>5

LEMMA RoomStep ==
  ASSUME IInv, NEW t \in Threads, Step(t)
  PROVE  Room'
<1> USE DEF IInv, Types
<1>1. CASE GetNone(t)
  <2>1. Creating' \in SUBSET Threads
    BY DEF Creating
  <2>2. \A u \in Threads : held[u] # NoObject => u \notin Creating'
    BY <1>1 DEF GetNone, Creating, HeldInv
  <2>3. created + Cardinality(Creating') <= Cardinality(Threads)
    BY <1>1, <2>1, <2>2, AllHeld DEF GetNone
  <2>4. QED
    BY <1>1, <2>3 DEF GetNone, Room
<1>2. CASE Create(t)
  <2>1. Creating' = Creating \ {t} /\ t \in Creating /\ created' = created + 1
    BY <1>2 DEF Create, Creating
  <2>2. IsFiniteSet(Creating)
    BY ThreadsAssumption, FS_Subset DEF Creating
  <2>3. Cardinality(Creating') = Cardinality(Creating) - 1
    BY <2>1, <2>2, FS_RemoveElement
  <2>4. Cardinality(Creating) \in Nat /\ Cardinality(Threads) \in Nat
    BY <2>2, ThreadsAssumption, FS_CardinalityType
  <2>5. QED
    BY <2>1, <2>3, <2>4 DEF Room
<1>3. CASE ~GetNone(t) /\ ~Create(t)
  <2>1. Creating' = Creating /\ created' = created
    BY <1>3 DEF Step, Read, Get, ReturnToPool, FailsEarly, Copy, OneShot,
      OneShotFails, StreamTakes, StreamTakesRubbish, StreamFails, StreamEnds,
      Streams, Decompressing, Finish, Creating
  <2>2. QED
    BY <2>1 DEF Room
<1>4. QED
  BY <1>1, <1>2, <1>3

-----------------------------------------------------------------------------
(* Contexts *)

\* The decompressor of a thread is its own.
LEMMA OwnContext ==
  ASSUME IInv, NEW t \in Threads, pc[t] \in {"decompress", "return"}
  PROVE  /\ held[t] \in Objects
         /\ \A u \in Threads : u # t => held[u] # held[t]
         /\ Alone(t)
BY DEF IInv, Types, HeldInv, InOnePlace, Alone

\* A read begins where a frame begins.
LEMMA FreshContext ==
  ASSUME IInv, NEW t \in Threads, pc[t] = "decompress", done[t] = 0, ~unfinished
  PROVE  position[held[t]] = 0
<1>1. ~InStream(t)
  BY DEF InStream
<1>2. held[t] \in Objects /\ \A u \in Threads : u # t => held[u] # held[t]
  BY OwnContext
<1>3. QED
  BY <1>1, <1>2 DEF IInv, ContextInv

\* A decompressor of the pool is not in the middle of a frame.
LEMMA IdleContext ==
  ASSUME IInv, idle # << >>, ~unfinished
  PROVE  position[idle[Len(idle)]] = 0
<1> DEFINE o == idle[Len(idle)]
<1>1. o \in Objects /\ Len(idle) \in DOMAIN idle
  BY LastAndFront DEF IInv, Types
<1>2. \A u \in Threads : held[u] # o
  BY <1>1 DEF IInv, InOnePlace
<1>3. QED
  BY <1>1, <1>2 DEF IInv, ContextInv

\* The stream of an intact record is where its thread is.
LEMMA IntactInPlace ==
  ASSUME IInv, NEW t \in Threads, Streams(t), record[t].intact, ~unfinished
  PROVE  InPlace(t) /\ ~IsCorrupt(t) /\ outcome[t] = "right"
<1>1. /\ record[t] \in Records /\ done[t] \in 0..Pieces /\ pc[t] = "decompress"
      /\ done[t] < record[t].pieces
  BY DEF IInv, Types, Streams, Decompressing
<1>2. done[t] # Pieces
  BY <1>1, PiecesAssumption, RecordFacts
<1>3. QED
  BY <1>1, <1>2, OwnContext DEF IInv, ReadInv, Reading, InPlace, IsCorrupt

LEMMA ContextStep ==
  ASSUME IInv, NEW t \in Threads, Step(t)
  PROVE  ContextInv'
<1> SUFFICES ASSUME ~unfinished', NEW o \in Objects'
             PROVE  \/ position'[o] = 0
                    \/ \E u \in Threads : held'[u] = o /\ InStream(u)'
  BY DEF ContextInv
<1>0. ~unfinished
  BY DEF Step, Read, Get, GetNone, Create, ReturnToPool, FailsEarly, Copy, OneShot,
    OneShotFails, StreamTakes, StreamTakesRubbish, StreamFails, StreamEnds, Finish
<1>1. CASE Create(t)
  <2>1. CASE o = created + 1
    BY <1>1, <2>1 DEF Create, Objects, IInv, Types
  <2>2. CASE o # created + 1
    <3>1. o \in Objects /\ position'[o] = position[o]
      BY <1>1, <2>2 DEF Create, Objects, IInv, Types
    <3>2. CASE position[o] = 0
      BY <3>1, <3>2
    <3>3. CASE \E u \in Threads : held[u] = o /\ InStream(u)
      <4>1. PICK u \in Threads : held[u] = o /\ InStream(u)
        BY <3>3
      <4>2. u # t
        BY <1>1, <4>1 DEF Create, InStream
      <4>3. held'[u] = o /\ InStream(u)'
        BY <1>1, <4>1, <4>2 DEF Create, InStream, IInv, Types
      <4>4. QED
        BY <4>3
    <3>4. QED
      BY <3>1, <3>2, <3>3, <1>0 DEF IInv, ContextInv
  <2>3. QED
    BY <2>1, <2>2
<1>2. CASE ~Create(t)
  <2>1. o \in Objects
    BY <1>2, PoolStep DEF Get, ReturnToPool, Objects
  <2>2. \A u \in Threads : u # t /\ held[u] = o /\ InStream(u) =>
                             held'[u] = o /\ InStream(u)'
    BY <1>2 DEF Step, Read, Get, GetNone, ReturnToPool, FailsEarly, Copy, OneShot,
      OneShotFails, StreamTakes, StreamTakesRubbish, StreamFails, StreamEnds, Finish,
      InStream, IInv, Types
  <2>3. CASE pc[t] = "decompress" /\ held[t] = o
    <3>1. CASE \/ FailsEarly(t) \/ Copy(t) \/ OneShot(t)
      <4>1. done[t] = 0
        <5>1. record[t] \in Records /\ done[t] \in 0..Pieces
          BY DEF IInv, Types
        <5>2. QED
          BY <3>1, <5>1, RecordFacts, <2>3 DEF FailsEarly, Copy, OneShot, IInv, ReadInv, Reading
      <4>2. QED
        BY <3>1, <4>1, <1>0, <2>3, FreshContext DEF FailsEarly, Copy, OneShot
    <3>2. CASE OneShotFails(t) \/ StreamFails(t)
      BY <3>2, <2>1, <2>3 DEF OneShotFails, StreamFails, ResetSession, IInv, Types
    <3>3. CASE StreamTakes(t) \/ StreamTakesRubbish(t)
      <4>1. held'[t] = o /\ pc'[t] = "decompress" /\ done'[t] > 0
        BY <3>3, <2>3 DEF StreamTakes, StreamTakesRubbish, IInv, Types
      <4>2. QED
        BY <4>1 DEF InStream
    <3>4. CASE StreamEnds(t)
      <4>1. record[t].intact /\ done[t] = record[t].pieces /\ record[t] \in Records
        BY <3>4, RecordFacts DEF StreamEnds, IInv, Types
      <4>2. done[t] = Pieces
        BY <3>4, <4>1, RecordFacts DEF StreamEnds
      <4>3. position[o] = 0
        BY <4>1, <4>2, <2>3, <1>0 DEF IInv, ReadInv, Reading
      <4>4. QED
        BY <3>4, <4>3 DEF StreamEnds
    <3>5. QED
      BY <3>1, <3>2, <3>3, <3>4, <2>3, <1>2 DEF Step, Read, Get, GetNone, ReturnToPool
  <2>4. CASE ~(pc[t] = "decompress" /\ held[t] = o)
    <3>1. position'[o] = position[o]
      BY <1>2, <2>1, <2>4 DEF Step, Read, Get, GetNone, ReturnToPool, FailsEarly, Copy,
        OneShot, OneShotFails, StreamTakes, StreamTakesRubbish, StreamFails,
        StreamEnds, Streams, Decompressing, ResetSession, Finish, IInv, Types
    <3>2. CASE position[o] = 0
      BY <3>1, <3>2
    <3>3. CASE \E u \in Threads : held[u] = o /\ InStream(u)
      <4>1. PICK u \in Threads : held[u] = o /\ InStream(u)
        BY <3>3
      <4>2. u # t
        BY <4>1, <2>4 DEF InStream
      <4>3. QED
        BY <4>1, <4>2, <2>2
    <3>4. QED
      BY <3>1, <3>2, <3>3, <2>1, <1>0 DEF IInv, ContextInv
  <2>5. QED
    BY <2>3, <2>4
<1>3. QED
  BY <1>1, <1>2

\* What a step of one thread leaves to another: the position of its context too,
\* for the decompressor is its own.
LEMMA OthersStay ==
  ASSUME IInv, NEW t \in Threads, Step(t), NEW u \in Threads, u # t
  PROVE  /\ pc'[u] = pc[u] /\ record'[u] = record[u] /\ done'[u] = done[u]
         /\ outcome'[u] = outcome[u] /\ held'[u] = held[u]
         /\ pc[u] = "decompress" => position'[held[u]] = position[held[u]]
         /\ unfinished => unfinished'
<1> USE DEF IInv, Types
<1>1. /\ pc'[u] = pc[u] /\ record'[u] = record[u] /\ done'[u] = done[u]
      /\ outcome'[u] = outcome[u] /\ held'[u] = held[u]
      /\ unfinished => unfinished'
  BY DEF Step, Read, Get, GetNone, Create, ReturnToPool, FailsEarly, Copy, OneShot,
    OneShotFails, StreamTakes, StreamTakesRubbish, StreamFails, StreamEnds, Finish
<1>2. ASSUME pc[u] = "decompress"
      PROVE  position'[held[u]] = position[held[u]]
  <2>1. held[u] \in Objects /\ held[t] # held[u]
    BY <1>2, OwnContext
  <2>2. CASE Create(t)
    BY <2>1, <2>2 DEF Create, Objects
  <2>3. CASE ~Create(t)
    BY <2>1, <2>3 DEF Step, Read, Get, GetNone, ReturnToPool, FailsEarly, Copy,
      OneShot, OneShotFails, StreamTakes, StreamTakesRubbish, StreamFails,
      StreamEnds, ResetSession, Finish
  <2>4. QED
    BY <2>2, <2>3
<1>3. QED
  BY <1>1, <1>2

LEMMA ReadStep ==
  ASSUME IInv, NEW t \in Threads, Step(t)
  PROVE  ReadInv'
<1> USE PiecesAssumption DEF IInv, Types
<1>1. Reading(t)'
  <2>1. Reading(t) /\ record[t] \in Records /\ record[t].pieces \in 0..Pieces
    BY RecordFacts DEF ReadInv, Reading
  <2>2. CASE (\E r \in Records : Read(t, r)) \/ GetNone(t)
    BY <2>1, <2>2 DEF Read, GetNone, Reading
  <2>3. CASE Get(t)
    <3>1. ~unfinished => position[idle[Len(idle)]] = 0
      BY <2>3, IdleContext DEF Get
    <3>2. QED
      BY <2>1, <2>3, <3>1 DEF Get, Reading
  <2>4. CASE Create(t)
    <3>1. position'[created + 1] = 0 /\ held'[t] = created + 1
      BY <2>4 DEF Create, Objects
    <3>2. QED
      BY <2>1, <2>4, <3>1 DEF Create, Reading
  <2>5. CASE ReturnToPool(t)
    BY <2>5 DEF ReturnToPool, Reading
  <2>6. CASE \/ FailsEarly(t) \/ Copy(t) \/ OneShot(t) \/ OneShotFails(t)
             \/ StreamFails(t) \/ StreamEnds(t)
    <3>1. pc'[t] = "return"
      BY <2>6 DEF FailsEarly, Copy, OneShot, OneShotFails, StreamFails, StreamEnds,
        Finish
    <3>2. QED
      BY <3>1 DEF Reading
  <2>7. CASE StreamTakes(t)
    <3>1. /\ done'[t] = done[t] + 1 /\ done[t] \in Nat /\ pc'[t] = "decompress"
          /\ position'[held'[t]] = After(done[t]) /\ outcome'[t] = outcome[t]
          /\ record'[t] = record[t] /\ unfinished' = unfinished
          /\ done[t] < record[t].pieces /\ pc[t] = "decompress"
      BY <2>7, OwnContext DEF StreamTakes, Streams, Decompressing
    <3>2. QED
      BY <2>1, <3>1 DEF Reading, After
  <2>8. CASE StreamTakesRubbish(t)
    <3>1. ~(record[t].intact /\ ~unfinished)
      BY <2>8, IntactInPlace DEF StreamTakesRubbish
    <3>2. /\ done'[t] = done[t] + 1 /\ done[t] \in Nat /\ pc'[t] = "decompress"
          /\ record'[t] = record[t] /\ unfinished' = unfinished
          /\ done[t] < record[t].pieces
      BY <2>8 DEF StreamTakesRubbish, Streams, Decompressing
    <3>3. QED
      BY <2>1, <3>1, <3>2 DEF Reading
  <2>9. QED
    BY <2>2, <2>3, <2>4, <2>5, <2>6, <2>7, <2>8 DEF Step
<1>2. ASSUME NEW u \in Threads, u # t
      PROVE  Reading(u)'
  BY <1>2, OthersStay DEF ReadInv, Reading
<1>3. QED
  BY <1>1, <1>2 DEF ReadInv, Reading

LEMMA IntactStep ==
  ASSUME IInv, NEW t \in Threads, Step(t)
  PROVE  IntactIsRight'
<1> USE PiecesAssumption DEF IInv, Types
<1> DEFINE Right(u) == /\ pc[u] = "return" /\ record[u].intact
                       /\ unfinished => record[u].form # "streamed"
                       => outcome[u] \in {"right", "failed"}
<1>1. Right(t)'
  <2>1. CASE \/ FailsEarly(t) \/ Copy(t)
    BY <2>1 DEF FailsEarly, Copy, Finish
  <2>2. CASE OneShot(t) \/ OneShotFails(t)
    <3>1. Alone(t)
      BY <2>2, OwnContext DEF OneShot, OneShotFails, Decompressing
    <3>2. QED
      BY <2>2, <3>1 DEF OneShot, OneShotFails, Finish
  <2>3. CASE StreamFails(t)
    <3>1. ~(record[t].intact /\ ~unfinished)
      BY <2>3, IntactInPlace DEF StreamFails
    <3>2. record[t].intact => record[t].form = "streamed"
      BY <2>3, RecordFacts DEF StreamFails, Streams, Records
    <3>3. QED
      BY <2>3, <3>1, <3>2 DEF StreamFails, Finish
  <2>4. CASE StreamEnds(t)
    <3>1. record[t].intact => record[t].form = "streamed"
      BY <2>4 DEF StreamEnds, Records
    <3>2. record[t].intact /\ ~unfinished => outcome[t] = "right"
      BY <2>4 DEF StreamEnds, Decompressing, ReadInv, Reading
    <3>3. QED
      BY <2>4, <3>1, <3>2 DEF StreamEnds, Finish
  <2>5. CASE pc'[t] # "return"
    BY <2>5
  <2>6. QED
    BY <2>1, <2>2, <2>3, <2>4, <2>5 DEF Step, Read, Get, GetNone, Create,
      ReturnToPool, StreamTakes, StreamTakesRubbish, Streams, Decompressing
<1>2. ASSUME NEW u \in Threads, u # t
      PROVE  Right(u)'
  BY <1>2, OthersStay DEF IntactIsRight
<1>3. QED
  BY <1>1, <1>2 DEF IntactIsRight

-----------------------------------------------------------------------------
(* Theorems *)

LEMMA NextIInv == IInv /\ [Next]_vars => IInv'
<1> SUFFICES ASSUME IInv, [Next]_vars PROVE IInv'
  OBVIOUS
<1>1. CASE Next
  <2>1. PICK t \in Threads : Step(t)
    BY <1>1 DEF Next
  <2>2. QED
    BY <2>1, TypesStep, PlacesStep, HeldStep, RoomStep, ContextStep, ReadStep,
      IntactStep DEF IInv
<1>2. CASE UNCHANGED vars
  BY <1>2 DEF vars, IInv, Types, Objects, InOnePlace, HeldInv, Room, Creating,
    ContextInv, InStream, ReadInv, Reading, IntactIsRight
<1>3. QED
  BY <1>1, <1>2

LEMMA Inductive == Spec => []IInv
BY InitIInv, NextIInv, PTL DEF Spec

\* The types, and that there are never more decompressors than threads.
THEOREM TypeCorrect == Spec => []TypeOK
<1>1. IInv => TypeOK
  <2> SUFFICES ASSUME IInv PROVE TypeOK
    OBVIOUS
  <2>1. IsFiniteSet(Creating) /\ IsFiniteSet(Threads)
    BY ThreadsAssumption, FS_Subset DEF Creating
  <2>2. Cardinality(Creating) \in Nat /\ Cardinality(Threads) \in Nat
    BY <2>1, FS_CardinalityType
  <2>3. created \in 0..Cardinality(Threads)
    BY <2>2 DEF IInv, Types, Room
  <2>4. QED
    BY <2>3 DEF IInv, Types, TypeOK
<1>2. QED
  BY <1>1, Inductive, PTL

\* RecyclingPool never lets two threads have one decompressor, and loses none.
THEOREM NeverShared == Spec => []InOnePlace
<1>1. IInv => InOnePlace
  BY DEF IInv
<1>2. QED
  BY <1>1, Inductive, PTL

\* An intact record is decompressed rightly, whatever the context was used for
\* before, as long as no damaged stream was taken for complete.
THEOREM IntactComesOutRight == Spec => []IntactIsRight
<1>1. IInv => IntactIsRight
  BY DEF IInv
<1>2. QED
  BY <1>1, Inductive, PTL
=============================================================================
