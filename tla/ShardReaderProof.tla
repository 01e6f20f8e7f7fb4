-------------------------- MODULE ShardReaderProof --------------------------
(***************************************************************************)
(* Proofs about ShardReader for every contents of the limits file, every   *)
(* size of the records file and every way in which PRead cuts the bytes    *)
(* into pieces.                                                            *)
(***************************************************************************)
EXTENDS ShardReader, FiniteSetTheorems, WellFoundedInduction, TLAPS

\* Where the first byte is that no complete record and no partial holds.
Consumed == position - Len(chunk)

AllKept == \A k \in DOMAIN views : views[k].kept

\* Where record i starts according to the limits file.
Start(i) == IF i = 0 THEN 0 ELSE limits_file[i]

Loaded ==
  /\ InRange /\ count > 0 /\ records_size > 0
  /\ Len(limits) = count + 1
  /\ \A k \in 1..(count + 1) : limits[k] = Start(index + k - 1)

PcInv ==
  /\ pc = "start" => limits = <<>>
  /\ limits # <<>> => Loaded
  /\ pc \in {"check", "pread"} => limits # <<>>
  /\ pc = "pread" => ValidLimits
  /\ pc = "empty" => /\ InRange
                     /\ IF limits = <<>> THEN records_size = 0 ELSE ValidLimits
  /\ pc \in {"start", "check"} =>
       /\ views = <<>> /\ result_index = 0 /\ chunk = <<>> /\ partial = <<>>
       /\ status = "ok"
  /\ op = "Read" => count = 1

\* Between two steps of PRead's loop over a range the partial record and the
\* piece hold the bytes from the start of record result_index.
RangeInv ==
  pc = "pread" /\ op = "ReadRange" =>
    /\ partial = Bytes(limits[result_index + 1], Consumed)
    /\ chunk = Bytes(Consumed, position)
    /\ limits[result_index + 1] <= Consumed
    /\ Consumed <= position
    /\ position <= LastLimit
    /\ limits[result_index + 1] < Consumed =>
         result_index < count /\ Consumed < limits[result_index + 2]
    /\ AllKept /\ Len(views) = result_index

ReadInv ==
  pc = "pread" /\ op = "Read" =>
    /\ Consumed <= position
    /\ position <= LastLimit
    /\ result_index = 0
    /\ \/ /\ views = <<>>
          /\ limits[1] <= Consumed
          /\ Consumed < limits[2]
          /\ partial = Bytes(limits[1], Consumed)
          /\ chunk = Bytes(Consumed, position)
          /\ num_remaining_bytes = limits[2] - Consumed
       \/ /\ Len(views) = 1
          /\ chunk = <<>>
          /\ position = LastLimit

\* When only empty records are left.
EmptyInv ==
  pc = "empty" /\ AllKept =>
    /\ Len(views) = result_index
    /\ limits # <<>> => limits[result_index + 1] = LastLimit

\* In a single read there is one call of the callback to remember.
SingleInv ==
  op = "Read" =>
    /\ Len(views) <= 1
    /\ Len(views) = 1 => /\ views[1].kept <=> compress_status = "ok"
                         /\ pc = "returned" /\ status = "ok" => views[1].kept
    /\ pc = "empty" => AllKept

BadLimits ==
  /\ InRange /\ count > 0 /\ records_size > 0
  /\ \/ limits_file[index + count] > records_size
     \/ \E i \in (index + 1)..(index + count) :
          i > 1 /\ limits_file[i - 1] > limits_file[i]

BadInv ==
  BadLimits => \/ pc \in {"start", "check"}
               \/ pc \in {"update", "returned"} /\ status = "error" /\ views = <<>>

DoneInv ==
  pc \in {"update", "returned"} /\ status = "ok" /\ AllKept => Len(views) = count

IInv == /\ TypeOK /\ PcInv /\ RangeInv /\ ReadInv /\ EmptyInv /\ SingleInv
        /\ BadInv /\ DoneInv /\ ViewsAreRecords

-----------------------------------------------------------------------------
(* Bytes *)

LEMMA BytesType ==
  ASSUME NEW a \in Nat, NEW b \in Nat
  PROVE  /\ Bytes(a, b) \in Seq(Nat)
         /\ Len(Bytes(a, b)) = IF a <= b THEN b - a ELSE 0
         /\ Bytes(a, b) = <<>> <=> b <= a
<1> DEFINE n == IF a <= b THEN b - a ELSE 0
<1>1. 1..(b - a) = 1..n /\ n \in Nat
  OBVIOUS
<1>2. Bytes(a, b) = [i \in 1..n |-> a + i - 1]
  BY <1>1 DEF Bytes
<1>3. [i \in 1..n |-> a + i - 1] \in Seq(Nat)
  <2>1. \A i \in 1..n : a + i - 1 \in Nat
    BY <1>1
  <2> QED BY <2>1, <1>1
<1>4. Len([i \in 1..n |-> a + i - 1]) = n
  BY <1>1
<1>5. [i \in 1..n |-> a + i - 1] = <<>> <=> n = 0
  BY <1>1, <1>3, <1>4
<1> QED BY <1>2, <1>3, <1>4, <1>5

LEMMA BytesElement ==
  ASSUME NEW a \in Nat, NEW b \in Nat, NEW i \in 1..(b - a)
  PROVE  Bytes(a, b)[i] = a + i - 1
BY DEF Bytes

LEMMA ConcatElement ==
  ASSUME NEW s \in Seq(Nat), NEW t \in Seq(Nat)
  PROVE  /\ s \o t \in Seq(Nat)
         /\ Len(s \o t) = Len(s) + Len(t)
         /\ \A i \in 1..(Len(s) + Len(t)) :
              (s \o t)[i] = IF i <= Len(s) THEN s[i] ELSE t[i - Len(s)]
OBVIOUS

LEMMA SubSeqElement ==
  ASSUME NEW s \in Seq(Nat), NEW m \in Nat \ {0}, NEW n \in Nat,
         m <= n + 1, n <= Len(s)
  PROVE  /\ SubSeq(s, m, n) \in Seq(Nat)
         /\ Len(SubSeq(s, m, n)) = n - m + 1
         /\ \A i \in 1..(n - m + 1) : SubSeq(s, m, n)[i] = s[i + m - 1]
OBVIOUS

LEMMA SameSequence ==
  ASSUME NEW s \in Seq(Nat), NEW t \in Seq(Nat), Len(s) = Len(t),
         \A i \in 1..Len(s) : s[i] = t[i]
  PROVE  s = t
OBVIOUS

LEMMA BytesConcat ==
  ASSUME NEW a \in Nat, NEW b \in Nat, NEW c \in Nat, a <= b, b <= c
  PROVE  Bytes(a, b) \o Bytes(b, c) = Bytes(a, c)
<1>1. Bytes(a, b) \in Seq(Nat) /\ Len(Bytes(a, b)) = b - a
  BY BytesType
<1>2. Bytes(b, c) \in Seq(Nat) /\ Len(Bytes(b, c)) = c - b
  BY BytesType
<1>3. Bytes(a, c) \in Seq(Nat) /\ Len(Bytes(a, c)) = c - a
  <2>1. a <= c
    OBVIOUS
  <2> QED BY <2>1, BytesType
<1> DEFINE s == Bytes(a, b) \o Bytes(b, c)
<1>4. /\ s \in Seq(Nat) /\ Len(s) = c - a
      /\ \A i \in 1..(c - a) :
           s[i] = IF i <= b - a THEN Bytes(a, b)[i] ELSE Bytes(b, c)[i - (b - a)]
  <2>1. /\ s \in Seq(Nat)
        /\ Len(s) = Len(Bytes(a, b)) + Len(Bytes(b, c))
        /\ \A i \in 1..(Len(Bytes(a, b)) + Len(Bytes(b, c))) :
             s[i] = IF i <= Len(Bytes(a, b)) THEN Bytes(a, b)[i]
                    ELSE Bytes(b, c)[i - Len(Bytes(a, b))]
    BY <1>1, <1>2, ConcatElement
  <2> HIDE DEF s
  <2>2. (b - a) + (c - b) = c - a
    OBVIOUS
  <2> QED BY <2>1, <2>2, <1>1, <1>2
<1> HIDE DEF s
<1>5. \A i \in 1..(c - a) : s[i] = Bytes(a, c)[i]
  <2> TAKE i \in 1..(c - a)
  <2>1. Bytes(a, c)[i] = a + i - 1
    BY BytesElement
  <2>2. CASE i <= b - a
    <3>1. Bytes(a, b)[i] = a + i - 1
      BY <2>2, BytesElement
    <3> QED BY <2>1, <2>2, <3>1, <1>4
  <2>3. CASE i > b - a
    <3>1. i - (b - a) \in 1..(c - b)
      BY <2>3
    <3>2. Bytes(b, c)[i - (b - a)] = b + (i - (b - a)) - 1
      BY <3>1, BytesElement
    <3> QED BY <2>1, <2>3, <3>2, <1>4
  <2> QED BY <2>2, <2>3
<1>6. s = Bytes(a, c)
  BY <1>3, <1>4, <1>5, SameSequence
<1> QED BY <1>6 DEF s

LEMMA BytesSplit ==
  ASSUME NEW a \in Nat, NEW b \in Nat, NEW c \in Nat, a <= b, b <= c
  PROVE  /\ SubSeq(Bytes(a, c), 1, b - a) = Bytes(a, b)
         /\ SubSeq(Bytes(a, c), b - a + 1, Len(Bytes(a, c))) = Bytes(b, c)
<1>1. Bytes(a, b) \in Seq(Nat) /\ Len(Bytes(a, b)) = b - a
  BY BytesType
<1>2. Bytes(b, c) \in Seq(Nat) /\ Len(Bytes(b, c)) = c - b
  BY BytesType
<1>3. Bytes(a, c) \in Seq(Nat) /\ Len(Bytes(a, c)) = c - a
  <2>1. a <= c
    OBVIOUS
  <2> QED BY <2>1, BytesType
<1> DEFINE s == Bytes(a, c)
           p == SubSeq(s, 1, b - a)
           q == SubSeq(s, b - a + 1, c - a)
<1>4. \A i \in 1..(c - a) : s[i] = a + i - 1
  BY BytesElement
<1> HIDE DEF s
<1>5. s \in Seq(Nat) /\ Len(s) = c - a
  BY <1>3 DEF s
<1>6. /\ p \in Seq(Nat) /\ Len(p) = b - a
      /\ \A i \in 1..(b - a) : p[i] = s[i]
  <2>1. /\ b - a \in Nat /\ 1 <= b - a + 1 /\ b - a <= Len(s) /\ 1 \in Nat \ {0}
        /\ b - a - 1 + 1 = b - a /\ \A i \in 1..(b - a) : i + 1 - 1 = i
    BY <1>5
  <2> QED BY <2>1, <1>5, SubSeqElement
<1>7. /\ q \in Seq(Nat) /\ Len(q) = c - b
      /\ \A i \in 1..(c - b) : q[i] = s[i + (b - a)]
  <2> DEFINE m == b - a + 1
             n == c - a
  <2>1. /\ m \in Nat \ {0} /\ n \in Nat /\ m <= n + 1 /\ n <= Len(s)
        /\ n - m + 1 = c - b /\ \A i \in 1..(c - b) : i + m - 1 = i + (b - a)
    BY <1>5
  <2> HIDE DEF m, n
  <2>2. /\ SubSeq(s, m, n) \in Seq(Nat) /\ Len(SubSeq(s, m, n)) = n - m + 1
        /\ \A i \in 1..(n - m + 1) : SubSeq(s, m, n)[i] = s[i + m - 1]
    BY <2>1, <1>5, SubSeqElement
  <2>3. q = SubSeq(s, m, n)
    BY DEF m, n
  <2> HIDE DEF q
  <2> QED BY <2>1, <2>2, <2>3
<1> HIDE DEF p, q
<1>8. \A i \in 1..(b - a) : p[i] = Bytes(a, b)[i]
  <2> TAKE i \in 1..(b - a)
  <2>1. p[i] = a + i - 1
    BY <1>4, <1>6
  <2> QED BY <2>1, BytesElement
<1>9. p = Bytes(a, b)
  BY <1>1, <1>6, <1>8, SameSequence
<1>10. \A i \in 1..(c - b) : q[i] = Bytes(b, c)[i]
  <2> TAKE i \in 1..(c - b)
  <2>1. i + (b - a) \in 1..(c - a)
    OBVIOUS
  <2>2. q[i] = b + i - 1
    BY <2>1, <1>4, <1>7
  <2> QED BY <2>2, BytesElement
<1>11. q = Bytes(b, c)
  BY <1>2, <1>7, <1>10, SameSequence
<1>12. Len(s) = c - a
  BY <1>5
<1> QED BY <1>9, <1>11, <1>12 DEF p, q, s

-----------------------------------------------------------------------------
(* Limits and records *)

LEMMA InSize ==
  ASSUME TypeOK, PcInv, InRange
  PROVE  index + count <= Len(limits_file)
BY DEF TypeOK, PcInv, InRange, Size

\* Every non-empty set of naturals has a least element.
LEMMA LeastNatural ==
  ASSUME NEW T \in SUBSET Nat, T # {}
  PROVE  \E n \in T : \A m \in T : n <= m
<1> DEFINE R == StrictSubsetOrdering(Nat)
           X == {0..n : n \in T}
<1>1. X \subseteq FiniteSubsetsOf(Nat)
  <2>1. \A n \in T : IsFiniteSet(0..n)
    BY FS_Interval
  <2> QED BY <2>1 DEF FiniteSubsetsOf
<1>2. X # {}
  OBVIOUS
<1>3. IsWellFoundedOn(R, FiniteSubsetsOf(Nat))
  BY FS_StrictSubsetOrderingWellFounded
<1> HIDE DEF R
<1>4. PICK x \in X : \A y \in X : ~ (<<y, x>> \in R)
  <2> HIDE DEF X
  <2> QED BY <1>1, <1>2, <1>3, WFMin
<1>5. PICK n \in T : x = 0..n
  BY <1>4
<1>6. ASSUME NEW m \in T, m < n
      PROVE  FALSE
  <2>1. 0..m \in X /\ 0..m \subseteq Nat /\ 0..n \subseteq Nat
    OBVIOUS
  <2>2. 0..m \subseteq 0..n
    BY <1>6
  <2>3. n \in 0..n /\ n \notin 0..m
    BY <1>6
  <2>4. <<0..m, 0..n>> \in R
    BY <2>1, <2>2, <2>3 DEF R, StrictSubsetOrdering
  <2> QED BY <2>1, <2>4, <1>4, <1>5
<1> QED BY <1>6

\* A sequence of naturals none of whose elements is greater than the one
\* after it is sorted.
LEMMA SortedSequence ==
  ASSUME NEW s \in Seq(Nat),
         \A i \in 1..(Len(s) - 1) : s[i] <= s[i + 1]
  PROVE  \A i, j \in 1..Len(s) : i <= j => s[i] <= s[j]
<1> SUFFICES ASSUME NEW i \in 1..Len(s)
             PROVE  \A j \in 1..Len(s) : i <= j => s[i] <= s[j]
  OBVIOUS
<1> DEFINE T == {j \in 1..Len(s) : i <= j /\ ~ (s[i] <= s[j])}
<1>1. SUFFICES ASSUME T # {} PROVE FALSE
  OBVIOUS
<1>2. PICK j \in T : \A m \in T : j <= m
  <2>1. T \in SUBSET Nat
    OBVIOUS
  <2> QED BY <2>1, <1>1, LeastNatural
<1>3. j # i
  OBVIOUS
<1>4. j - 1 \in 1..Len(s) /\ j - 1 \in 1..(Len(s) - 1) /\ i <= j - 1
  BY <1>3
<1>5. j - 1 \notin T
  BY <1>2
<1>6. s[i] <= s[j - 1]
  BY <1>4, <1>5
<1>7. s[j - 1] <= s[j]
  BY <1>4
<1>8. s[i] \in Nat /\ s[j] \in Nat /\ s[j - 1] \in Nat
  BY <1>4
<1> QED BY <1>6, <1>7, <1>8

LEMMA SortedLimits ==
  ASSUME TypeOK, Loaded, ValidLimits
  PROVE  /\ \A i, j \in 1..(count + 1) : i <= j => limits[i] <= limits[j]
         /\ LastLimit = limits[count + 1]
         /\ LastLimit \in Nat
         /\ \A i \in 1..(count + 1) : limits[i] \in Nat /\ limits[i] <= LastLimit
<1>1. limits \in Seq(Nat) /\ Len(limits) = count + 1 /\ count \in Nat
  BY DEF TypeOK, Loaded
<1>2. \A i \in 1..(Len(limits) - 1) : limits[i] <= limits[i + 1]
  BY DEF ValidLimits
<1>3. \A i, j \in 1..Len(limits) : i <= j => limits[i] <= limits[j]
  BY <1>1, <1>2, SortedSequence
<1>4. count + 1 \in 1..(count + 1)
  BY <1>1
<1> QED BY <1>1, <1>3, <1>4 DEF LastLimit

LEMMA RecordBytes ==
  ASSUME TypeOK, PcInv, Loaded, NEW k \in 1..count
  PROVE  Record(index + k - 1) = Bytes(limits[k], limits[k + 1])
<1>1. index \in Nat /\ count \in Nat /\ records_size \in Nat /\ records_size > 0
  BY DEF TypeOK, Loaded
<1>2. limits[k] = Start(index + k - 1)
  BY <1>1 DEF Loaded
<1>3. limits[k + 1] = Start(index + k)
  <2>1. k + 1 \in 1..(count + 1) /\ index + (k + 1) - 1 = index + k
    BY <1>1
  <2> QED BY <2>1 DEF Loaded
<1>4. limits[k + 1] = limits_file[index + k]
  BY <1>1, <1>3 DEF Start
<1>5. (index + k - 1) + 1 = index + k
  BY <1>1
<1>6. Record(index + k - 1) = Bytes(Start(index + k - 1), limits_file[(index + k - 1) + 1])
  BY <1>1 DEF Record, Start
<1> QED BY <1>2, <1>4, <1>5, <1>6

\* What one more call of the callback does to the history.
LEMMA OneMoreView ==
  ASSUME TypeOK, ViewsAreRecords, NEW i \in Nat, NEW bytes \in Seq(Nat),
         Callback(i, bytes), UNCHANGED <<args, files>>,
         AllKept => i = Len(views) /\ bytes = Record(index + i)
  PROVE  /\ ViewsAreRecords'
         /\ views' \in Seq(View)
         /\ Len(views') = Len(views) + 1
         /\ AllKept' <=> AllKept /\ Decompresses(i, bytes)
         /\ views'[Len(views) + 1].kept = Decompresses(i, bytes)
         /\ compress_status' \in {"ok", "error"}
         /\ compress_status' = "ok" <=> Decompresses(i, bytes)
<1> DEFINE v == [index |-> i, bytes |-> bytes, kept |-> Decompresses(i, bytes)]
<1>1. v \in View
  <2>1. Decompresses(i, bytes) \in BOOLEAN
    BY DEF Decompresses
  <2> QED BY <2>1 DEF View
<1>2. /\ v.index = i /\ v.bytes = bytes
      /\ v.kept = Decompresses(i, bytes)
  OBVIOUS
<1>3. views' = Append(views, v)
  BY DEF Callback
<1> HIDE DEF v
<1>4. /\ views' \in Seq(View)
      /\ Len(views') = Len(views) + 1
      /\ Len(views) \in Nat
      /\ DOMAIN views = 1..Len(views)
      /\ DOMAIN views' = 1..(Len(views) + 1)
      /\ views'[Len(views) + 1] = v
      /\ \A k \in 1..Len(views) : views'[k] = views[k]
  BY <1>1, <1>3 DEF TypeOK
<1>n. Len(views) \in Nat
  BY <1>4
<1>5. AllKept' <=> AllKept /\ Decompresses(i, bytes)
  <2>1. AllKept' <=> \A k \in 1..(Len(views) + 1) : views'[k].kept
    BY <1>4 DEF AllKept
  <2>2. AllKept <=> \A k \in 1..Len(views) : views[k].kept
    BY <1>4 DEF AllKept
  <2>3. (\A k \in 1..(Len(views) + 1) : views'[k].kept)
          <=> (\A k \in 1..Len(views) : views'[k].kept) /\ views'[Len(views) + 1].kept
    <3>1. 1..(Len(views) + 1) = 1..Len(views) \union {Len(views) + 1}
      BY <1>n
    <3> QED BY <3>1, Zenon
  <2>5. (\A k \in 1..Len(views) : views'[k].kept)
          <=> (\A k \in 1..Len(views) : views[k].kept)
    BY <1>4, Zenon
  <2>4. views'[Len(views) + 1].kept <=> Decompresses(i, bytes)
    BY <1>2, <1>4
  <2> QED BY <2>1, <2>2, <2>3, <2>4, <2>5
<1>6. ViewsAreRecords'
  <2> SUFFICES ASSUME NEW k \in 1..(Len(views) + 1),
                      \A j \in 1..(k - 1) : views'[j].kept
               PROVE  /\ views'[k].index = k - 1
                      /\ views'[k].bytes = Record(index + k - 1)'
    BY <1>4 DEF ViewsAreRecords
  <2>0. Record(index + k - 1)' = Record(index + k - 1)
    BY DEF Record, Bytes, args, files
  <2>1. \A j \in 1..(k - 1) : views[j].kept
    <3> TAKE j \in 1..(k - 1)
    <3>1. j \in 1..Len(views)
      BY <1>n
    <3> QED BY <3>1, <1>4, Zenon
  <2>2. CASE k \in 1..Len(views)
    <3>1. views'[k] = views[k] /\ k \in DOMAIN views
      BY <2>2, <1>4
    <3>2. /\ views[k].index = k - 1
          /\ views[k].bytes = Record(index + k - 1)
      BY <3>1, <2>1, Zenon DEF ViewsAreRecords
    <3> QED BY <2>0, <3>1, <3>2
  <2>3. CASE k = Len(views) + 1
    <3>1. AllKept
      <4> DEFINE n == Len(views)
      <4>1. k = n + 1 /\ n \in Nat
        BY <2>3, <1>n
      <4> HIDE DEF n
      <4>2. k - 1 = n
        BY <4>1
      <4>3. k - 1 = Len(views)
        BY <4>2 DEF n
      <4> QED BY <4>3, <2>1, <1>4, Zenon DEF AllKept
    <3>2. i = k - 1 /\ index + i = index + k - 1
      <4>1. i = Len(views) /\ index \in Nat
        BY <3>1 DEF TypeOK
      <4> QED BY <4>1, <2>3, <1>n
    <3>3. views'[k] = v
      BY <2>3, <1>4
    <3> QED BY <3>1, <3>2, <3>3, <2>0, <1>2
  <2> QED BY <2>2, <2>3, <1>n
<1>7. /\ compress_status' \in {"ok", "error"}
      /\ compress_status' = "ok" <=> Decompresses(i, bytes)
  BY DEF Callback
<1> QED BY <1>2, <1>4, <1>5, <1>6, <1>7

-----------------------------------------------------------------------------
(* The steps that call no callback *)

LEMMA InitIInv == Init => IInv
<1> SUFFICES ASSUME Init PROVE IInv
  OBVIOUS
<1>1. TypeOK
  <2>1. /\ op \in {"Read", "ReadRange"} /\ index \in Nat /\ count \in Nat
        /\ limits_file \in Seq(Nat) /\ records_size \in Nat
        /\ undecodable \subseteq Nat
    <3>1. undecodable \in SUBSET Nat
      BY UndecodablesAssumption DEF Init
    <3>2. op \in {"Read", "ReadRange"} /\ index \in Nat /\ count \in Nat
      <4>1. \A n \in Requests : n \in Nat
        BY RequestsAssumption
      <4>2. CASE op = "Read" /\ count = 1
        BY <4>1, <4>2 DEF Init
      <4>3. CASE op = "ReadRange" /\ count \in Requests
        BY <4>1, <4>3 DEF Init
      <4> QED BY <4>2, <4>3 DEF Init
    <3>3. limits_file \in Seq(Nat) /\ records_size \in Nat
      BY LimitsFilesAssumption, RecordsSizesAssumption DEF Init
    <3> QED BY <3>1, <3>2, <3>3
  <2>2. /\ limits \in Seq(Nat) /\ chunk \in Seq(Nat) /\ partial \in Seq(Nat)
        /\ views \in Seq(View)
    BY DEF Init
  <2>3. pc = "start"
    BY DEF Init
  <2>4. /\ position \in Nat /\ num_remaining_bytes \in Nat
        /\ result_index \in 0..count
        /\ status \in {"ok", "error"} /\ compress_status \in {"ok", "error"}
    BY <2>1 DEF Init
  <2> QED BY <2>1, <2>2, <2>3, <2>4 DEF TypeOK
<1>2. PcInv /\ RangeInv /\ ReadInv /\ EmptyInv /\ BadInv /\ DoneInv
  BY DEF Init, PcInv, RangeInv, ReadInv, EmptyInv, BadInv, DoneInv
<1>3. views = <<>> /\ DOMAIN views = {} /\ pc = "start" /\ Len(views) = 0
  BY DEF Init
<1>4. SingleInv /\ ViewsAreRecords
  BY <1>3 DEF SingleInv, ViewsAreRecords
<1> QED BY <1>1, <1>2, <1>4 DEF IInv

\* A step that leaves the request, the limits and the views alone, and does
\* not stay in PRead's loop.
LEMMA QuietStep ==
  ASSUME IInv, UNCHANGED <<args, files, limits, called>>,
         pc' # "start", pc' # "check", pc' # "pread",
         TypeOK', EmptyInv', DoneInv', BadInv',
         pc' = "empty" => /\ InRange
                          /\ op = "Read" => AllKept
                          /\ IF limits = <<>> THEN records_size = 0
                                              ELSE ValidLimits,
         op = "Read" /\ pc' = "returned" /\ status' = "ok" =>
           compress_status = "ok"
  PROVE  IInv'
<1> USE DEF args, files, called
<1>1. PcInv'
  <2>1. /\ InRange' <=> InRange
        /\ ValidLimits' <=> ValidLimits
    BY DEF InRange, Size, ValidLimits, LastLimit
  <2>2. Loaded' <=> Loaded
    BY <2>1 DEF Loaded, Start
  <2> QED BY <2>1, <2>2 DEF IInv, PcInv
<1>2. RangeInv' /\ ReadInv'
  BY DEF RangeInv, ReadInv
<1>3. AllKept' <=> AllKept
  BY DEF AllKept
<1>4. SingleInv'
  <2>1. SUFFICES ASSUME op = "Read" PROVE SingleInv'
    BY DEF SingleInv
  <2>2. /\ Len(views) <= 1
        /\ Len(views) = 1 => (views[1].kept <=> compress_status = "ok")
    BY <2>1 DEF IInv, SingleInv
  <2> QED BY <2>1, <2>2, <1>3 DEF SingleInv
<1>5. ViewsAreRecords'
  BY DEF IInv, ViewsAreRecords, Record, Bytes
<1> QED BY <1>1, <1>2, <1>4, <1>5 DEF IInv

LEMMA RejectArgumentsStep == IInv /\ RejectArguments => IInv'
<1> SUFFICES ASSUME IInv, RejectArguments PROVE IInv'
  OBVIOUS
<1> USE DEF RejectArguments, Return
<1>1. UNCHANGED <<args, files, limits, called>> /\ pc' = "update" /\ status' = "error"
  OBVIOUS
<1>2. TypeOK'
  BY DEF IInv, TypeOK, args, files, progress, called, RecordSize
<1>3. EmptyInv' /\ DoneInv'
  BY DEF EmptyInv, DoneInv
<1>4. BadInv'
  BY DEF IInv, PcInv, BadInv, called
<1> QED BY <1>1, <1>2, <1>3, <1>4, QuietStep

LEMMA ReturnNoRecordsStep == IInv /\ ReturnNoRecords => IInv'
<1> SUFFICES ASSUME IInv, ReturnNoRecords PROVE IInv'
  OBVIOUS
<1> USE DEF ReturnNoRecords, Return
<1>1. UNCHANGED <<args, files, limits, called>> /\ pc' = "update" /\ status' = "ok"
  OBVIOUS
<1>2. TypeOK'
  BY DEF IInv, TypeOK, args, files, progress, called, RecordSize
<1>3. EmptyInv' /\ DoneInv'
  BY DEF IInv, PcInv, EmptyInv, DoneInv, args, called
<1>4. BadInv'
  BY DEF BadInv, BadLimits, args
<1> QED BY <1>1, <1>2, <1>3, <1>4, QuietStep

LEMMA AllEmptyStep == IInv /\ AllEmpty => IInv'
<1> SUFFICES ASSUME IInv, AllEmpty PROVE IInv'
  OBVIOUS
<1> USE DEF AllEmpty
<1>1. UNCHANGED <<args, files, limits, called>> /\ pc' = "empty"
  OBVIOUS
<1>2. TypeOK'
  BY DEF IInv, TypeOK, args, files, progress, called, RecordSize
<1>3. limits = <<>> /\ views = <<>> /\ result_index = 0
  BY DEF IInv, PcInv
<1>4. EmptyInv' /\ DoneInv'
  BY <1>3 DEF EmptyInv, DoneInv, called, progress
<1>5. BadInv'
  BY DEF BadInv, BadLimits, files
<1>6. AllKept
  BY <1>3 DEF AllKept
<1> QED BY <1>1, <1>2, <1>3, <1>4, <1>5, <1>6, QuietStep

\* Limits that the model calls bad are rejected.
LEMMA BadAreInvalid ==
  ASSUME IInv, Loaded, BadLimits
  PROVE  ~ValidLimits
<1> SUFFICES ASSUME ValidLimits PROVE FALSE
  OBVIOUS
<1>1. /\ index \in Nat /\ count \in Nat /\ count > 0 /\ Len(limits) = count + 1
      /\ records_size \in Nat
  BY DEF IInv, TypeOK, Loaded
<1>2. \A k \in 1..(count + 1) : limits[k] = Start(index + k - 1)
  BY DEF Loaded
<1>3. CASE limits_file[index + count] > records_size
  <2>1. count + 1 \in 1..(count + 1) /\ index + (count + 1) - 1 = index + count
        /\ index + count # 0
    BY <1>1
  <2>2. LastLimit = limits_file[index + count]
    BY <2>1, <1>1, <1>2 DEF LastLimit, Start
  <2>3. LastLimit <= records_size /\ LastLimit \in Nat
    <3>1. TypeOK
      BY DEF IInv
    <3> QED BY <3>1, SortedLimits DEF ValidLimits
  <2> QED BY <2>2, <2>3, <1>1, <1>3
<1>4. ASSUME NEW i \in (index + 1)..(index + count),
             i > 1, limits_file[i - 1] > limits_file[i]
      PROVE  FALSE
  <2> DEFINE k == i - index
  <2>1. /\ k \in 1..(count + 1) /\ k + 1 \in 1..(count + 1) /\ k \in 1..count
        /\ index + k - 1 = i - 1 /\ index + (k + 1) - 1 = i
        /\ i # 0 /\ i - 1 # 0
    BY <1>1, <1>4
  <2> HIDE DEF k
  <2>2. limits[k] = limits_file[i - 1] /\ limits[k + 1] = limits_file[i]
    BY <2>1, <1>2 DEF Start
  <2>3. limits[k] <= limits[k + 1]
    BY <2>1, <1>1 DEF ValidLimits
  <2>4. limits[k] \in Nat /\ limits[k + 1] \in Nat
    BY <2>1, <1>1 DEF IInv, TypeOK
  <2> QED BY <2>2, <2>3, <2>4, <1>4
<1> QED BY <1>3, <1>4 DEF BadLimits

LEMMA RejectLimitsStep == IInv /\ RejectLimits => IInv'
<1> SUFFICES ASSUME IInv, RejectLimits PROVE IInv'
  OBVIOUS
<1> USE DEF RejectLimits, Return
<1>1. UNCHANGED <<args, files, limits, called>> /\ pc' = "update" /\ status' = "error"
  OBVIOUS
<1>2. TypeOK'
  BY DEF IInv, TypeOK, args, files, progress, called, RecordSize
<1>3. EmptyInv' /\ DoneInv'
  BY DEF EmptyInv, DoneInv
<1>4. BadInv'
  BY DEF IInv, PcInv, BadInv, called
<1> QED BY <1>1, <1>2, <1>3, <1>4, QuietStep

LEMMA NoBytesStep == IInv /\ NoBytes => IInv'
<1> SUFFICES ASSUME IInv, NoBytes PROVE IInv'
  OBVIOUS
<1> USE DEF NoBytes
<1>1. UNCHANGED <<args, files, limits, called>> /\ pc' = "empty"
  OBVIOUS
<1>2. TypeOK'
  BY DEF IInv, TypeOK, args, files, progress, called, RecordSize
<1>3. limits # <<>> /\ Loaded /\ views = <<>> /\ result_index = 0
  BY DEF IInv, PcInv
<1>4. EmptyInv' /\ DoneInv'
  BY <1>3 DEF EmptyInv, DoneInv, called, progress, FirstLimit, LastLimit
<1>5. BadInv'
  <2>1. ~BadLimits
    BY <1>3, BadAreInvalid
  <2> QED BY <2>1 DEF BadInv, BadLimits, InRange, Size, args, files
<1>6. AllKept
  BY <1>3 DEF AllKept
<1> QED BY <1>1, <1>2, <1>3, <1>4, <1>5, <1>6, QuietStep DEF Loaded

LEMMA PReadFailsStep == IInv /\ PReadFails => IInv'
<1> SUFFICES ASSUME IInv, PReadFails PROVE IInv'
  OBVIOUS
<1> USE DEF PReadFails, Return
<1>1. UNCHANGED <<args, files, limits, called>> /\ pc' = "update" /\ status' = "error"
  OBVIOUS
<1>2. TypeOK'
  BY DEF IInv, TypeOK, args, files, progress, called, RecordSize
<1>3. EmptyInv' /\ DoneInv'
  BY DEF EmptyInv, DoneInv
<1>4. BadInv'
  BY DEF IInv, BadInv, BadLimits, InRange, Size, args, files
<1> QED BY <1>1, <1>2, <1>3, <1>4, QuietStep

\* All bytes are consumed: whatever records are left are empty.
LEMMA PReadEndsStep == IInv /\ PReadEnds => IInv'
<1> SUFFICES ASSUME IInv, PReadEnds PROVE IInv'
  OBVIOUS
<1> USE DEF PReadEnds, Return
<1>1. UNCHANGED <<args, files, limits, called>>
  OBVIOUS
<1>2. TypeOK'
  BY DEF IInv, TypeOK, args, files, progress, called, RecordSize
<1>3. /\ TypeOK /\ Loaded /\ ValidLimits /\ limits # <<>>
      /\ op = "Read" => count = 1
  BY DEF IInv, PcInv
<1>4. Consumed = position /\ Consumed = LastLimit
  BY <1>2 DEF IInv, TypeOK, Consumed
<1>5. BadInv'
  BY DEF IInv, BadInv, BadLimits, InRange, Size, args, files
<1>6. CASE op = "Read"
  <2>1. pc' = "update" /\ status' = "ok"
    BY <1>6
  <2>2. LastLimit = limits[2]
    BY <1>3, <1>6, SortedLimits
  <2>3. Len(views) = 1
    <3>1. ~ (Consumed < limits[2])
      BY <1>3, <1>4, <2>2, SortedLimits
    <3> QED BY <3>1, <1>6 DEF IInv, ReadInv
  <2>4. EmptyInv' /\ DoneInv'
    BY <2>1, <2>3, <1>3, <1>6 DEF EmptyInv, DoneInv, args, called
  <2> QED BY <2>1, <2>4, <1>1, <1>2, <1>5, QuietStep
<1>7. CASE op # "Read"
  <2>1. pc' = "empty" /\ op = "ReadRange"
    BY <1>3, <1>7 DEF TypeOK
  <2>2. /\ limits[result_index + 1] <= Consumed
        /\ limits[result_index + 1] < Consumed =>
             result_index < count /\ Consumed < limits[result_index + 2]
        /\ Len(views) = result_index
    BY <2>1 DEF IInv, RangeInv
  <2>3. result_index \in Nat /\ result_index <= count /\ count \in Nat
    BY <1>3 DEF TypeOK
  <2>4. /\ LastLimit \in Nat
        /\ \A i \in 1..(count + 1) : limits[i] \in Nat /\ limits[i] <= LastLimit
    BY <1>3, SortedLimits
  <2>5. limits[result_index + 1] = LastLimit
    <3>1. limits[result_index + 1] \in Nat
      BY <2>3, <2>4
    <3>2. ASSUME limits[result_index + 1] < Consumed PROVE FALSE
      <4>1. result_index + 2 \in 1..(count + 1)
        BY <2>2, <2>3, <3>2
      <4> QED BY <4>1, <2>2, <2>4, <3>2, <1>4
    <3> QED BY <3>1, <3>2, <2>2, <2>4, <1>4
  <2>6. EmptyInv' /\ DoneInv'
    BY <2>1, <2>2, <2>5 DEF EmptyInv, DoneInv, LastLimit, progress, called
  <2> QED BY <2>1, <2>6, <1>1, <1>2, <1>3, <1>5, <1>7, QuietStep DEF Loaded
<1> QED BY <1>6, <1>7

LEMMA UpdateStatusStep == IInv /\ UpdateStatus => IInv'
<1> SUFFICES ASSUME IInv, UpdateStatus PROVE IInv'
  OBVIOUS
<1> USE DEF UpdateStatus
<1>1. /\ UNCHANGED <<args, files, limits, called>> /\ pc' = "returned"
      /\ status' = "ok" => status = "ok" /\ compress_status = "ok"
      /\ status = "error" => status' = "error"
  OBVIOUS
<1>2. TypeOK'
  BY DEF IInv, TypeOK, args, files, progress, called, RecordSize
<1>3. EmptyInv'
  BY DEF EmptyInv
<1>4. DoneInv'
  BY <1>1 DEF IInv, DoneInv, AllKept, args, called
<1>5. BadInv'
  BY <1>1 DEF IInv, BadInv, BadLimits, InRange, Size, args, files, called
<1> QED BY <1>1, <1>2, <1>3, <1>4, <1>5, QuietStep

LEMMA EmptyRecordsEndStep == IInv /\ EmptyRecordsEnd => IInv'
<1> SUFFICES ASSUME IInv, EmptyRecordsEnd PROVE IInv'
  OBVIOUS
<1> USE DEF EmptyRecordsEnd, Return
<1>1. UNCHANGED <<args, files, limits, called>> /\ pc' = "update" /\ status' = "ok"
  OBVIOUS
<1>2. TypeOK'
  BY DEF IInv, TypeOK, args, files, progress, called, RecordSize
<1>3. EmptyInv'
  BY DEF EmptyInv
<1>4. DoneInv'
  BY DEF IInv, EmptyInv, DoneInv, AllKept, args, called
<1>5. BadInv'
  BY DEF IInv, BadInv, BadLimits, InRange, Size, args, files
<1> QED BY <1>1, <1>2, <1>3, <1>4, <1>5, QuietStep

-----------------------------------------------------------------------------
(* Reading the limits, and the pieces of the records *)

\* The limits that are read are those around the requested records.
LEMMA LimitsRead ==
  ASSUME TypeOK, PcInv, InRange, count > 0,
         limits' = IF index = 0
                     THEN << 0 >> \o SubSeq(limits_file, 1, count)
                     ELSE SubSeq(limits_file, index, index + count)
  PROVE  /\ limits' \in Seq(Nat)
         /\ Len(limits') = count + 1
         /\ \A k \in 1..(count + 1) : limits'[k] = Start(index + k - 1)
<1>1. /\ index \in Nat /\ count \in Nat /\ limits_file \in Seq(Nat)
      /\ index + count <= Len(limits_file)
  BY InSize DEF TypeOK
<1> DEFINE s == SubSeq(limits_file, 1, count)
<1>2. CASE index = 0
  <2>1. /\ s \in Seq(Nat) /\ Len(s) = count
        /\ \A i \in 1..count : s[i] = limits_file[i]
    BY <1>1, <1>2
  <2>2. limits' = <<0>> \o s
    BY <1>2
  <2> HIDE DEF s
  <2>3. /\ limits' \in Seq(Nat) /\ Len(limits') = count + 1
        /\ limits'[1] = 0
        /\ \A k \in 2..(count + 1) : limits'[k] = s[k - 1]
    <3> DEFINE z == <<0>>
    <3>1. z \in Seq(Nat) /\ Len(z) = 1 /\ z[1] = 0
      OBVIOUS
    <3> HIDE DEF z
    <3>2. limits' = z \o s
      BY <2>2 DEF z
    <3> DEFINE l == z \o s
    <3>3. /\ l \in Seq(Nat) /\ Len(l) = Len(z) + Len(s)
          /\ \A k \in 1..(Len(z) + Len(s)) :
               l[k] = IF k <= Len(z) THEN z[k] ELSE s[k - Len(z)]
      BY <2>1, <3>1, ConcatElement
    <3> HIDE DEF l
    <3>4. /\ l \in Seq(Nat) /\ Len(l) = count + 1
          /\ \A k \in 1..(count + 1) : l[k] = IF k <= 1 THEN z[k] ELSE s[k - 1]
      <4>1. Len(z) = 1 /\ Len(s) = count /\ 1 + count = count + 1
        BY <1>1, <2>1, <3>1
      <4> QED BY <3>3, <4>1
    <3>5. l[1] = 0
      <4>1. 1 \in 1..(count + 1)
        BY <1>1
      <4> QED BY <3>1, <3>4, <4>1
    <3>6. \A k \in 2..(count + 1) : l[k] = s[k - 1]
      <4>1. \A k \in 2..(count + 1) : k \in 1..(count + 1) /\ ~ (k <= 1)
        BY <1>1
      <4> QED BY <3>4, <4>1
    <3>7. limits' = l
      BY <3>2 DEF l
    <3> QED BY <3>4, <3>5, <3>6, <3>7
  <2>4. ASSUME NEW k \in 1..(count + 1)
        PROVE  limits'[k] = Start(index + k - 1)
    <3>1. index + k - 1 = k - 1
      BY <1>2
    <3>2. CASE k = 1
      BY <2>3, <3>1, <3>2 DEF Start
    <3>3. CASE k # 1
      <4>1. k \in 2..(count + 1) /\ k - 1 \in 1..count /\ k - 1 # 0
        BY <1>1, <3>3
      <4> QED BY <2>1, <2>3, <3>1, <4>1 DEF Start
    <3> QED BY <3>2, <3>3
  <2> QED BY <2>3, <2>4
<1>3. CASE index # 0
  <2>1. limits' = SubSeq(limits_file, index, index + count)
    BY <1>3
  <2>2. /\ index \in Nat \ {0} /\ index + count \in Nat
        /\ index <= index + count + 1 /\ index + count - index + 1 = count + 1
    BY <1>1, <1>3
  <2>3. /\ limits' \in Seq(Nat) /\ Len(limits') = count + 1
        /\ \A k \in 1..(count + 1) : limits'[k] = limits_file[k + index - 1]
    BY <1>1, <2>1, <2>2
  <2>4. \A k \in 1..(count + 1) : k + index - 1 = index + k - 1 /\ index + k - 1 # 0
    BY <1>1, <1>3
  <2> QED BY <2>3, <2>4 DEF Start
<1> QED BY <1>2, <1>3

LEMMA ReadLimitsStep == IInv /\ ReadLimits => IInv'
<1> SUFFICES ASSUME IInv, ReadLimits PROVE IInv'
  OBVIOUS
<1>1. /\ pc = "start" /\ InRange /\ count > 0 /\ records_size > 0
      /\ UNCHANGED <<args, files, progress, called>>
  BY DEF ReadLimits
<1>2. CASE UNCHANGED limits /\ Return("error")
  <2> USE <1>2 DEF Return
  <2>1. TypeOK'
    BY <1>1 DEF IInv, TypeOK, args, files, progress, called, RecordSize
  <2>2. EmptyInv' /\ DoneInv'
    BY DEF EmptyInv, DoneInv
  <2>3. BadInv'
    BY <1>1 DEF IInv, PcInv, BadInv, called
  <2> QED BY <1>1, <2>1, <2>2, <2>3, QuietStep
<1>3. CASE /\ limits' = IF index = 0
                       THEN <<0>> \o SubSeq(limits_file, 1, count)
                       ELSE SubSeq(limits_file, index, index + count)
           /\ pc' = "check"
           /\ UNCHANGED status
  <2>1. TypeOK /\ PcInv
    BY DEF IInv
  <2>2. /\ limits' \in Seq(Nat) /\ Len(limits') = count + 1
        /\ \A k \in 1..(count + 1) : limits'[k] = Start(index + k - 1)
    BY <1>1, <1>3, <2>1, LimitsRead
  <2>3. TypeOK'
    BY <1>1, <1>3, <2>2 DEF IInv, TypeOK, args, files, progress, called, RecordSize
  <2>4. PcInv'
    <3>1. Loaded'
      BY <1>1, <2>2 DEF Loaded, InRange, Size, Start, args, files
    <3>2. limits' # <<>>
      BY <2>2, <2>1, <1>1 DEF TypeOK
    <3> QED BY <1>1, <1>3, <2>1, <3>1, <3>2 DEF PcInv, args, progress, called
  <2>5. RangeInv' /\ ReadInv' /\ EmptyInv' /\ DoneInv' /\ BadInv'
    BY <1>3 DEF RangeInv, ReadInv, EmptyInv, DoneInv, BadInv
  <2>6. views' = <<>> /\ DOMAIN views' = {} /\ Len(views') = 0
    BY <1>1, <2>1 DEF PcInv, called
  <2>7. SingleInv' /\ ViewsAreRecords'
    BY <1>3, <2>6 DEF SingleInv, ViewsAreRecords
  <2> QED BY <2>3, <2>4, <2>5, <2>7 DEF IInv
<1> QED BY <1>2, <1>3 DEF ReadLimits

LEMMA StartPReadStep == IInv /\ StartPRead => IInv'
<1> SUFFICES ASSUME IInv, StartPRead PROVE IInv'
  OBVIOUS
<1> USE DEF StartPRead, args, files, called
<1>1. /\ TypeOK /\ PcInv /\ Loaded /\ ValidLimits /\ limits # <<>>
      /\ views = <<>> /\ result_index = 0 /\ chunk = <<>> /\ partial = <<>>
      /\ index \in Nat /\ count \in Nat /\ count > 0
  BY DEF IInv, PcInv, TypeOK, Loaded
<1>2. /\ LastLimit = limits[count + 1] /\ LastLimit \in Nat
      /\ FirstLimit = limits[1] /\ FirstLimit \in Nat
  BY <1>1, SortedLimits DEF FirstLimit
<1>3. TypeOK'
  <2>1. num_remaining_bytes' \in Nat /\ position' \in Nat
    BY <1>2
  <2> QED BY <1>1, <2>1 DEF TypeOK, RecordSize
<1>4. PcInv'
  <2>1. Loaded' /\ ValidLimits' /\ InRange'
    BY <1>1 DEF Loaded, ValidLimits, LastLimit, InRange, Size, Start
  <2> QED BY <1>1, <2>1 DEF PcInv
<1>5. /\ Consumed' = FirstLimit /\ LastLimit' = LastLimit
  BY <1>1, <1>2 DEF Consumed, LastLimit
<1>6. Bytes(FirstLimit, FirstLimit) = <<>>
  <2>1. FirstLimit \in Nat /\ FirstLimit <= FirstLimit
    BY <1>2
  <2>2. \A a \in Nat : Bytes(a, a) = <<>>
    BY BytesType
  <2> QED BY <2>1, <2>2
<1>7. Bytes(limits[1], Consumed)' = <<>> /\ Bytes(Consumed, position)' = <<>>
  BY <1>2, <1>5, <1>6 DEF Bytes
<1>8. DOMAIN views = {} /\ Len(views) = 0
  BY <1>1
<1>9. RangeInv'
  <2>1. limits'[result_index' + 1] = FirstLimit
    BY <1>1, <1>2
  <2>2. Bytes(limits[result_index + 1], Consumed)' = <<>>
    BY <1>1, <1>7
  <2> QED BY <1>1, <1>2, <1>5, <1>7, <1>8, <2>1, <2>2 DEF RangeInv, AllKept
<1>10. ReadInv'
  <2>1. SUFFICES ASSUME op = "Read" PROVE ReadInv'
    BY DEF ReadInv
  <2>2. count = 1 /\ LastLimit = limits[2]
    BY <1>1, <1>2, <2>1 DEF PcInv
  <2> QED BY <1>1, <1>2, <1>5, <1>7, <2>2 DEF ReadInv
<1>11. EmptyInv' /\ DoneInv'
  BY DEF EmptyInv, DoneInv
<1>12. BadInv'
  <2>1. ~BadLimits
    BY <1>1, BadAreInvalid
  <2> QED BY <2>1 DEF BadInv, BadLimits, InRange, Size
<1>13. SingleInv' /\ ViewsAreRecords'
  BY <1>8 DEF SingleInv, ViewsAreRecords
<1> QED BY <1>3, <1>4, <1>9, <1>10, <1>11, <1>12, <1>13 DEF IInv

\* A step within PRead's loop that calls no callback.
LEMMA LoopStep ==
  ASSUME IInv, pc = "pread", UNCHANGED <<args, files, pc, limits, status, called>>,
         TypeOK', RangeInv', ReadInv'
  PROVE  IInv'
<1> USE DEF args, files, called
<1>1. PcInv'
  <2>1. /\ InRange' <=> InRange
        /\ ValidLimits' <=> ValidLimits
    BY DEF InRange, Size, ValidLimits, LastLimit
  <2>2. Loaded' <=> Loaded
    BY <2>1 DEF Loaded, Start
  <2> QED BY <2>1, <2>2 DEF IInv, PcInv
<1>2. EmptyInv' /\ DoneInv'
  BY DEF EmptyInv, DoneInv
<1>3. BadInv'
  BY DEF IInv, BadInv, BadLimits, InRange, Size
<1>4. SingleInv'
  BY DEF IInv, SingleInv
<1>5. ViewsAreRecords'
  BY DEF IInv, ViewsAreRecords, Record, Bytes
<1> QED BY <1>1, <1>2, <1>3, <1>4, <1>5 DEF IInv

\* The limits of the record that is being read, and their neighbourhood.
LEMMA Bounds ==
  ASSUME IInv, pc = "pread"
  PROVE  /\ TypeOK /\ PcInv /\ Loaded /\ ValidLimits /\ limits # <<>>
         /\ count \in Nat /\ result_index \in Nat /\ result_index <= count
         /\ LastLimit = limits[count + 1] /\ LastLimit \in Nat
         /\ \A i \in 1..(count + 1) : limits[i] \in Nat /\ limits[i] <= LastLimit
         /\ limits[result_index + 1] \in Nat
         /\ limits[result_index + 1] <= LastLimit
         /\ position \in Nat /\ chunk \in Seq(Nat) /\ Len(chunk) \in Nat
         /\ Consumed = position - Len(chunk)
         /\ \A a, b \in Nat : Bytes(a, b)' = Bytes(a, b)
<1>1. TypeOK /\ PcInv /\ Loaded /\ ValidLimits /\ limits # <<>>
  BY DEF IInv, PcInv
<1>2. /\ count \in Nat /\ result_index \in Nat /\ result_index <= count
      /\ position \in Nat /\ chunk \in Seq(Nat) /\ Len(chunk) \in Nat
  BY <1>1 DEF TypeOK
<1>3. /\ LastLimit = limits[count + 1] /\ LastLimit \in Nat
      /\ \A i \in 1..(count + 1) : limits[i] \in Nat /\ limits[i] <= LastLimit
  BY <1>1, SortedLimits
<1>4. result_index + 1 \in 1..(count + 1)
  BY <1>2
<1>5. \A a, b \in Nat : Bytes(a, b)' = Bytes(a, b)
  BY DEF Bytes
<1> QED BY <1>1, <1>2, <1>3, <1>4, <1>5 DEF Consumed

\* While there are bytes to consume, record result_index exists and misses
\* some of them.
LEMMA InRecord ==
  ASSUME IInv, pc = "pread", op = "ReadRange", Consumed < LastLimit
  PROVE  /\ result_index < count
         /\ limits[result_index + 2] \in Nat
         /\ limits[result_index + 1] <= limits[result_index + 2]
         /\ Consumed <= limits[result_index + 2]
         /\ limits[result_index + 2] <= LastLimit
         /\ Consumed \in Nat
         /\ partial = Bytes(limits[result_index + 1], Consumed)
         /\ Len(partial) = Consumed - limits[result_index + 1]
<1>1. /\ TypeOK /\ Loaded /\ ValidLimits
      /\ count \in Nat /\ result_index \in Nat /\ result_index <= count
      /\ LastLimit = limits[count + 1] /\ LastLimit \in Nat
      /\ limits[result_index + 1] \in Nat /\ position \in Nat /\ Len(chunk) \in Nat
      /\ Consumed = position - Len(chunk)
  BY Bounds
<1>2. /\ partial = Bytes(limits[result_index + 1], Consumed)
      /\ limits[result_index + 1] <= Consumed
      /\ limits[result_index + 1] < Consumed =>
           result_index < count /\ Consumed < limits[result_index + 2]
  BY DEF IInv, RangeInv
<1>3. result_index < count
  <2>1. SUFFICES ASSUME result_index = count PROVE FALSE
    BY <1>1
  <2> QED BY <1>1, <1>2, <2>1
<1>4. result_index + 1 \in 1..(count + 1) /\ result_index + 2 \in 1..(count + 1)
      /\ result_index + 1 <= result_index + 2
  BY <1>1, <1>3
<1>5. /\ limits[result_index + 2] \in Nat
      /\ limits[result_index + 1] <= limits[result_index + 2]
      /\ limits[result_index + 2] <= LastLimit
  BY <1>1, <1>4, SortedLimits
<1>6. Consumed \in Nat /\ Consumed <= limits[result_index + 2]
  BY <1>1, <1>2, <1>5
<1>7. Len(partial) = Consumed - limits[result_index + 1]
  BY <1>1, <1>2, <1>6, BytesType
<1> QED BY <1>2, <1>3, <1>5, <1>6, <1>7

LEMMA PieceStep == IInv /\ Piece => IInv'
<1> SUFFICES ASSUME IInv, Piece PROVE IInv'
  OBVIOUS
<1>1. /\ pc = "pread" /\ chunk = <<>>
      /\ UNCHANGED <<args, files, pc, limits, partial, num_remaining_bytes,
                     result_index, status, called>>
  BY DEF Piece
<1>2. PICK to \in (position + 1)..LastLimit :
        chunk' = Bytes(position, to) /\ position' = to
  BY DEF Piece
<1>3. /\ TypeOK /\ LastLimit \in Nat /\ position \in Nat /\ Len(chunk) \in Nat
      /\ Consumed = position - Len(chunk)
      /\ \A a, b \in Nat : Bytes(a, b)' = Bytes(a, b)
      /\ limits[result_index + 1] \in Nat
  BY <1>1, Bounds
<1>4. Consumed = position
  BY <1>1, <1>3
<1>5. /\ to \in Nat /\ position < to /\ to <= LastLimit
  BY <1>2, <1>3
<1>6. /\ chunk' \in Seq(Nat) /\ Len(chunk') = to - position
  <2>1. position \in Nat /\ to \in Nat /\ position <= to
    BY <1>3, <1>5
  <2>2. /\ Bytes(position, to) \in Seq(Nat)
        /\ Len(Bytes(position, to)) = to - position
    BY <2>1, BytesType
  <2> QED BY <1>2, <2>2
<1>7. Consumed' = position /\ Consumed' = Consumed
  BY <1>2, <1>3, <1>4, <1>5, <1>6 DEF Consumed
<1>8. LastLimit' = LastLimit
  BY <1>1 DEF LastLimit
<1>9. /\ \A a \in Nat : Bytes(a, Consumed)' = Bytes(a, Consumed)
      /\ Bytes(Consumed, position)' = chunk'
  BY <1>2, <1>3, <1>4, <1>5, <1>7 DEF Bytes
<1>10. TypeOK'
  <2>1. pc = "pread" /\ op = "ReadRange" => RecordSize' \in Nat
    <3>1. SUFFICES ASSUME op = "ReadRange" PROVE RecordSize' \in Nat
      OBVIOUS
    <3>2. RecordSize' = RecordSize
      BY <1>1 DEF RecordSize
    <3>3. Consumed < LastLimit
      BY <1>4, <1>5, <1>3
    <3>4. /\ limits[result_index + 2] \in Nat
          /\ Consumed <= limits[result_index + 2] /\ Consumed \in Nat
          /\ Len(partial) = Consumed - limits[result_index + 1]
      BY <1>1, <3>1, <3>3, InRecord
    <3> QED BY <1>3, <3>2, <3>4 DEF RecordSize
  <2>2. position' \in Nat
    BY <1>2, <1>5
  <2> QED BY <1>1, <1>3, <1>6, <2>1, <2>2 DEF TypeOK, args, files, called
<1>11. RangeInv'
  <2>1. SUFFICES ASSUME op = "ReadRange" PROVE RangeInv'
    BY <1>1 DEF RangeInv, args
  <2>2. /\ partial = Bytes(limits[result_index + 1], Consumed)
        /\ limits[result_index + 1] <= Consumed
        /\ limits[result_index + 1] < Consumed =>
             result_index < count /\ Consumed < limits[result_index + 2]
        /\ AllKept /\ Len(views) = result_index
    BY <1>1, <2>1 DEF IInv, RangeInv
  <2>3. AllKept'
    BY <1>1, <2>2 DEF AllKept, called
  <2>4. partial' = Bytes(limits[result_index + 1], Consumed)'
    BY <1>1, <1>3, <1>9, <2>2 DEF Bytes
  <2>5. /\ chunk' = Bytes(Consumed, position)'
        /\ limits'[result_index' + 1] <= Consumed'
        /\ Consumed' <= position' /\ position' <= LastLimit'
        /\ limits'[result_index' + 1] < Consumed' =>
             result_index' < count' /\ Consumed' < limits'[result_index' + 2]
        /\ Len(views') = result_index'
    BY <1>1, <1>2, <1>3, <1>5, <1>7, <1>8, <1>9, <2>2 DEF args, called
  <2> QED BY <2>3, <2>4, <2>5 DEF RangeInv
<1>12. ReadInv'
  <2>1. SUFFICES ASSUME op = "Read" PROVE ReadInv'
    BY <1>1 DEF ReadInv, args
  <2>2. /\ result_index = 0
        /\ views = <<>>
        /\ limits[1] <= Consumed
        /\ Consumed < limits[2]
        /\ partial = Bytes(limits[1], Consumed)
        /\ num_remaining_bytes = limits[2] - Consumed
    BY <1>1, <1>3, <1>5, <2>1 DEF IInv, ReadInv
  <2>3. partial' = Bytes(limits[1], Consumed)'
    BY <1>1, <1>3, <1>9, <2>2 DEF Bytes
  <2>4. /\ Consumed' <= position' /\ position' <= LastLimit' /\ result_index' = 0
        /\ views' = <<>> /\ limits'[1] <= Consumed' /\ Consumed' < limits'[2]
        /\ num_remaining_bytes' = limits'[2] - Consumed'
    BY <1>1, <1>2, <1>5, <1>7, <1>8, <1>3, <2>2 DEF called
  <2> QED BY <1>9, <2>3, <2>4 DEF ReadInv
<1> QED BY <1>1, <1>10, <1>11, <1>12, LoopStep

\* What is set aside together with the whole piece.
LEMMA PartialGrows ==
  ASSUME NEW a \in Nat, NEW b \in Nat, NEW c \in Nat, a <= b, b <= c,
         partial = Bytes(a, b), chunk = Bytes(b, c)
  PROVE  /\ partial \o chunk = Bytes(a, c)
         /\ partial \o chunk \in Seq(Nat)
         /\ partial = <<>> <=> a = b
         /\ Len(chunk) = c - b
<1>1. partial \o chunk = Bytes(a, c)
  BY BytesConcat
<1>2. Bytes(a, c) \in Seq(Nat)
  BY BytesType
<1>3. Len(Bytes(b, c)) = c - b
  BY BytesType
<1>4. Bytes(a, b) = <<>> <=> b <= a
  BY BytesType
<1>5. b <= a <=> a = b
  OBVIOUS
<1> QED BY <1>1, <1>2, <1>3, <1>4, <1>5

LEMMA SetAsideStep == IInv /\ SetAside => IInv'
<1> SUFFICES ASSUME IInv, SetAside PROVE IInv'
  OBVIOUS
<1>1. /\ pc = "pread" /\ op = "ReadRange" /\ chunk # <<>>
      /\ RecordSize > Len(chunk)
      /\ partial' = partial \o chunk /\ chunk' = <<>>
      /\ UNCHANGED <<args, files, pc, limits, position, num_remaining_bytes,
                     result_index, status, called>>
  BY DEF SetAside
<1> DEFINE a == limits[result_index + 1]
           b == Consumed
           c == position
           d == limits[result_index + 2]
<1>2. /\ TypeOK /\ LastLimit \in Nat /\ c \in Nat /\ chunk \in Seq(Nat)
      /\ Len(chunk) \in Nat /\ b = c - Len(chunk)
      /\ \A x, y \in Nat : Bytes(x, y)' = Bytes(x, y)
      /\ a \in Nat
  BY <1>1, Bounds
<1>3. /\ partial = Bytes(a, b) /\ chunk = Bytes(b, c) /\ a <= b /\ b <= c
      /\ c <= LastLimit /\ AllKept /\ Len(views) = result_index
  BY <1>1 DEF IInv, RangeInv
<1>4. Len(chunk) # 0
  BY <1>1, <1>2
<1>5. b < LastLimit
  BY <1>2, <1>3, <1>4
<1>6. /\ result_index < count /\ d \in Nat /\ b \in Nat
      /\ Len(partial) = b - a
  BY <1>1, <1>5, InRecord
<1>7. d - a - Len(partial) > Len(chunk)
  BY <1>1 DEF RecordSize
<1> HIDE DEF a, b, c, d
<1>8. c < d
  BY <1>2, <1>6, <1>7
<1>9. partial' = Bytes(a, c) /\ partial' \in Seq(Nat)
  BY <1>1, <1>2, <1>3, <1>6, PartialGrows
<1>10. Consumed' = c
  <2>1. chunk' = <<>> /\ position' = c /\ Len(<<>>) = 0
    BY <1>1 DEF c
  <2> QED BY <2>1, <1>2 DEF Consumed
<1>11. /\ limits'[result_index' + 1] = a /\ limits'[result_index' + 2] = d
       /\ position' = c /\ LastLimit' = LastLimit /\ result_index' = result_index
       /\ count' = count /\ pc' = "pread" /\ op' = "ReadRange"
  BY <1>1 DEF a, c, d, LastLimit, args
<1>12. TypeOK'
  BY <1>1, <1>2, <1>9 DEF TypeOK, args, files, called
<1>13. RangeInv'
  <2>1. Bytes(limits[result_index + 1], Consumed)' = Bytes(a, c)
    BY <1>10, <1>11 DEF Bytes
  <2>2. Bytes(Consumed, position)' = Bytes(c, c)
    BY <1>10, <1>11 DEF Bytes
  <2>3. Bytes(c, c) = <<>>
    <3>1. c \in Nat /\ c <= c
      BY <1>2
    <3> QED BY <3>1, BytesType
  <2>4. a <= c /\ c <= LastLimit
    BY <1>2, <1>3, <1>6
  <2>5. AllKept' /\ Len(views') = result_index'
    BY <1>1, <1>3 DEF AllKept, called
  <2>6. c <= c
    BY <1>2
  <2> QED BY <1>1, <1>6, <1>8, <1>9, <1>10, <1>11, <2>1, <2>2, <2>3, <2>4,
             <2>5, <2>6 DEF RangeInv
<1>14. ReadInv'
  BY <1>11 DEF ReadInv
<1> QED BY <1>1, <1>12, <1>13, <1>14, LoopStep

LEMMA PieceOfRecordStep == IInv /\ PieceOfRecord => IInv'
<1> SUFFICES ASSUME IInv, PieceOfRecord PROVE IInv'
  OBVIOUS
<1>1. /\ pc = "pread" /\ op = "Read" /\ chunk # <<>>
      /\ Len(chunk) # num_remaining_bytes
      /\ partial' = partial \o chunk /\ chunk' = <<>>
      /\ num_remaining_bytes' = num_remaining_bytes - Len(chunk)
      /\ UNCHANGED <<args, files, pc, limits, position, result_index, status,
                     called>>
  BY DEF PieceOfRecord
<1> DEFINE a == limits[1]
           b == Consumed
           c == position
           d == limits[2]
<1>2. /\ TypeOK /\ PcInv /\ LastLimit \in Nat /\ c \in Nat /\ chunk \in Seq(Nat)
      /\ Len(chunk) \in Nat /\ b = c - Len(chunk)
      /\ \A i \in 1..(count + 1) : limits[i] \in Nat
      /\ LastLimit = limits[count + 1]
  BY <1>1, Bounds
<1>3. count = 1
  BY <1>1, <1>2 DEF PcInv
<1>4. a \in Nat /\ d = LastLimit
  BY <1>2, <1>3
<1>5. /\ views = <<>> /\ a <= b /\ b < d /\ partial = Bytes(a, b)
      /\ chunk = Bytes(b, c) /\ num_remaining_bytes = d - b /\ b <= c
      /\ c <= LastLimit /\ result_index = 0
  BY <1>1 DEF IInv, ReadInv
<1> HIDE DEF a, b, c, d
<1>6. c < d /\ b \in Nat /\ d \in Nat
  <2>1. a \in Nat /\ c \in Nat /\ d \in Nat /\ Len(chunk) \in Nat
    BY <1>2, <1>4
  <2>2. b = c - Len(chunk) /\ a <= b /\ c <= d
    BY <1>2, <1>4, <1>5
  <2>3. Len(chunk) # d - b
    BY <1>1, <1>5
  <2> QED BY <2>1, <2>2, <2>3
<1>7. partial' = Bytes(a, c) /\ partial' \in Seq(Nat)
  BY <1>1, <1>2, <1>4, <1>5, <1>6, PartialGrows
<1>8. Consumed' = c
  <2>1. chunk' = <<>> /\ position' = c /\ Len(<<>>) = 0
    BY <1>1 DEF c
  <2> QED BY <2>1, <1>2 DEF Consumed
<1>9. /\ limits'[1] = a /\ limits'[2] = d /\ position' = c
      /\ LastLimit' = LastLimit /\ op' = "Read"
  BY <1>1 DEF a, c, d, LastLimit, args
<1>10. num_remaining_bytes' = d - c /\ num_remaining_bytes' \in Nat
  <2>1. num_remaining_bytes' = (d - b) - Len(chunk)
    BY <1>1, <1>5
  <2>2. b = c - Len(chunk) /\ c \in Nat /\ Len(chunk) \in Nat
    BY <1>2
  <2> QED BY <2>1, <2>2, <1>6
<1>11. TypeOK'
  BY <1>1, <1>2, <1>7, <1>10 DEF TypeOK, args, files, called
<1>12. ReadInv'
  <2>1. Bytes(limits[1], Consumed)' = Bytes(a, c)
    BY <1>8, <1>9 DEF Bytes
  <2>2. Bytes(Consumed, position)' = Bytes(c, c)
    BY <1>8, <1>9 DEF Bytes
  <2>3. Bytes(c, c) = <<>>
    <3>1. c \in Nat /\ c <= c
      BY <1>2
    <3> QED BY <3>1, BytesType
  <2>4. a <= c /\ c <= LastLimit /\ c <= c
    BY <1>2, <1>4, <1>5, <1>6
  <2> QED BY <1>1, <1>5, <1>6, <1>7, <1>8, <1>9, <1>10, <2>1, <2>2, <2>3, <2>4
          DEF ReadInv, called
<1>13. RangeInv'
  BY <1>9 DEF RangeInv
<1> QED BY <1>1, <1>11, <1>12, <1>13, LoopStep

-----------------------------------------------------------------------------
(* The steps that call the callback *)

\* What such a step does not touch.
LEMMA CallingStep ==
  ASSUME IInv, pc \in {"pread", "empty"}, pc' \in {"pread", "empty"},
         pc' = "pread" => pc = "pread",
         UNCHANGED <<args, files, limits>>
  PROVE  PcInv' /\ BadInv' /\ DoneInv' /\ LastLimit' = LastLimit
<1> USE DEF args, files
<1>1. /\ InRange' <=> InRange
      /\ ValidLimits' <=> ValidLimits
  BY DEF InRange, Size, ValidLimits, LastLimit
<1>2. Loaded' <=> Loaded
  BY <1>1 DEF Loaded, Start
<1>3. PcInv'
  <2>1. InRange
    BY DEF IInv, PcInv, Loaded
  <2>2. pc' = "empty" => IF limits = <<>> THEN records_size = 0 ELSE ValidLimits
    BY DEF IInv, PcInv
  <2> QED BY <1>1, <1>2, <2>1, <2>2 DEF IInv, PcInv
<1>4. BadInv'
  <2>1. ~BadLimits
    BY DEF IInv, BadInv
  <2> QED BY <2>1, <1>1 DEF BadInv, BadLimits
<1>5. DoneInv'
  BY DEF DoneInv
<1>6. LastLimit' = LastLimit
  BY DEF LastLimit
<1> QED BY <1>3, <1>4, <1>5, <1>6

LEMMA LastPieceOfRecordStep == IInv /\ LastPieceOfRecord => IInv'
<1> SUFFICES ASSUME IInv, LastPieceOfRecord PROVE IInv'
  OBVIOUS
<1> DEFINE bytes == IF partial = <<>> THEN chunk ELSE partial \o chunk
<1>1. /\ pc = "pread" /\ op = "Read" /\ chunk # <<>>
      /\ Len(chunk) = num_remaining_bytes
      /\ partial' = IF partial = <<>> THEN partial ELSE partial \o chunk
      /\ Callback(0, bytes)
      /\ chunk' = <<>>
      /\ UNCHANGED <<args, files, pc, limits, position, num_remaining_bytes,
                     result_index, status>>
  BY DEF LastPieceOfRecord
<1> DEFINE a == limits[1]
           b == Consumed
           c == position
           d == limits[2]
<1>2. /\ TypeOK /\ PcInv /\ Loaded /\ LastLimit \in Nat /\ c \in Nat
      /\ chunk \in Seq(Nat)
      /\ Len(chunk) \in Nat /\ b = c - Len(chunk)
      /\ \A i \in 1..(count + 1) : limits[i] \in Nat
      /\ LastLimit = limits[count + 1]
  BY <1>1, Bounds
<1>3. count = 1
  BY <1>1, <1>2 DEF PcInv
<1>4. a \in Nat /\ d = LastLimit /\ d \in Nat
  BY <1>2, <1>3
<1>5. /\ views = <<>> /\ a <= b /\ b < d /\ partial = Bytes(a, b)
      /\ chunk = Bytes(b, c) /\ num_remaining_bytes = d - b /\ b <= c
      /\ c <= LastLimit /\ result_index = 0
  BY <1>1 DEF IInv, ReadInv
<1>6. Record(index) = Bytes(a, d)
  <2>1. 1 \in 1..count /\ index + 1 - 1 = index /\ 1 + 1 = 2
    BY <1>2, <1>3 DEF TypeOK
  <2>2. Record(index + 1 - 1) = Bytes(limits[1], limits[1 + 1])
    BY <1>2, <2>1, RecordBytes
  <2> QED BY <2>1, <2>2
<1> HIDE DEF a, b, c, d
<1>7. c = d /\ b \in Nat
  <2>1. c - b = d - b
    BY <1>1, <1>2, <1>5
  <2>2. b \in Int /\ c \in Nat /\ d \in Nat /\ a \in Nat /\ a <= b
    BY <1>2, <1>4, <1>5
  <2> QED BY <2>1, <2>2
<1>8. /\ partial \o chunk = Bytes(a, c)
      /\ partial \o chunk \in Seq(Nat)
      /\ partial = <<>> <=> a = b
  <2>1. /\ a \in Nat /\ b \in Nat /\ c \in Nat /\ a <= b /\ b <= c
        /\ partial = Bytes(a, b) /\ chunk = Bytes(b, c)
    BY <1>2, <1>4, <1>5, <1>7
  <2> QED BY <2>1, PartialGrows
<1>9. bytes = Bytes(a, d)
  <2>1. CASE partial = <<>>
    BY <2>1, <1>5, <1>7, <1>8
  <2>2. CASE partial # <<>>
    BY <2>2, <1>7, <1>8
  <2> QED BY <2>1, <2>2
<1>10. bytes \in Seq(Nat)
  BY <1>2, <1>8
<1> HIDE DEF bytes
<1>11. /\ ViewsAreRecords'
       /\ views' \in Seq(View)
       /\ Len(views') = Len(views) + 1
       /\ views'[Len(views) + 1].kept = Decompresses(0, bytes)
       /\ compress_status' \in {"ok", "error"}
       /\ compress_status' = "ok" <=> Decompresses(0, bytes)
  <2>1. 0 = Len(views) /\ index + 0 = index
    BY <1>2, <1>5 DEF TypeOK
  <2>2. ViewsAreRecords /\ UNCHANGED <<args, files>>
    BY <1>1 DEF IInv
  <2>3. AllKept => 0 = Len(views) /\ bytes = Record(index + 0)
    BY <2>1, <1>6, <1>9
  <2> QED BY <1>1, <1>2, <1>10, <2>2, <2>3, OneMoreView
<1>12. Len(views) = 0 /\ Len(views') = 1
  BY <1>5, <1>11
<1>13. /\ PcInv' /\ BadInv' /\ DoneInv' /\ LastLimit' = LastLimit
  BY <1>1, CallingStep
<1>14. TypeOK'
  <2>1. partial' \in Seq(Nat)
    BY <1>1, <1>2, <1>8 DEF TypeOK
  <2> QED BY <1>1, <1>2, <1>11, <2>1 DEF TypeOK, args, files
<1>15. ReadInv' /\ RangeInv' /\ EmptyInv'
  <2>1. Consumed' = position'
    BY <1>1, <1>14 DEF Consumed, TypeOK
  <2>2. position' = LastLimit' /\ position' <= LastLimit' /\ Consumed' <= position'
    BY <1>1, <1>2, <1>4, <1>7, <1>13, <2>1 DEF c, d
  <2> QED BY <1>1, <1>5, <1>12, <2>2 DEF ReadInv, RangeInv, EmptyInv, args
<1>16. SingleInv'
  <2>1. views'[1].kept = Decompresses(0, bytes)
    BY <1>11, <1>12
  <2> QED BY <1>1, <1>11, <1>12, <2>1 DEF SingleInv
<1> QED BY <1>11, <1>13, <1>14, <1>15, <1>16 DEF IInv

LEMMA EmptyRecordStep == IInv /\ EmptyRecord => IInv'
<1> SUFFICES ASSUME IInv, EmptyRecord PROVE IInv'
  OBVIOUS
<1>1. /\ pc = "empty" /\ result_index < count
      /\ Callback(result_index, <<>>)
      /\ result_index' = result_index + 1
      /\ UNCHANGED <<args, files, pc, limits, position, chunk, partial,
                     num_remaining_bytes, status>>
  BY DEF EmptyRecord
<1>2. /\ TypeOK /\ PcInv /\ count \in Nat /\ result_index \in Nat /\ index \in Nat
  BY DEF IInv, TypeOK
<1>3. Decompresses(result_index, <<>>)
  BY DEF Decompresses
<1>4. \A a \in Nat : Bytes(a, a) = <<>>
  BY BytesType
<1>5. AllKept => /\ result_index = Len(views)
                 /\ <<>> = Record(index + result_index)
                 /\ limits # <<>> => limits[result_index + 2] = LastLimit
  <2> SUFFICES ASSUME AllKept
               PROVE  /\ result_index = Len(views)
                      /\ <<>> = Record(index + result_index)
                      /\ limits # <<>> => limits[result_index + 2] = LastLimit
    OBVIOUS
  <2>1. /\ Len(views) = result_index
        /\ limits # <<>> => limits[result_index + 1] = LastLimit
    BY <1>1 DEF IInv, EmptyInv
  <2>2. CASE limits = <<>>
    <3>1. records_size = 0
      BY <1>1, <2>2 DEF IInv, PcInv
    <3> QED BY <2>1, <2>2, <3>1 DEF Record
  <2>3. CASE limits # <<>>
    <3>1. Loaded /\ ValidLimits
      BY <1>1, <2>3 DEF IInv, PcInv
    <3>2. /\ result_index + 1 \in 1..(count + 1) /\ result_index + 2 \in 1..(count + 1)
          /\ result_index + 1 <= result_index + 2
          /\ result_index + 1 \in 1..count
          /\ (result_index + 1) + 1 = result_index + 2
          /\ index + (result_index + 1) - 1 = index + result_index
      BY <1>1, <1>2
    <3>3. /\ limits[result_index + 1] <= limits[result_index + 2]
          /\ limits[result_index + 2] <= LastLimit
          /\ limits[result_index + 2] \in Nat /\ LastLimit \in Nat
      BY <1>2, <3>1, <3>2, SortedLimits
    <3>4. limits[result_index + 2] = LastLimit
      BY <2>1, <2>3, <3>3
    <3>5. Record(index + (result_index + 1) - 1)
            = Bytes(limits[result_index + 1], limits[(result_index + 1) + 1])
      BY <1>2, <3>1, <3>2, RecordBytes
    <3>6. Record(index + result_index) = Bytes(LastLimit, LastLimit)
      BY <2>1, <2>3, <3>2, <3>4, <3>5
    <3> QED BY <1>4, <2>1, <3>3, <3>4, <3>6
  <2> QED BY <2>2, <2>3
<1>6. /\ ViewsAreRecords'
      /\ views' \in Seq(View)
      /\ Len(views') = Len(views) + 1
      /\ AllKept' <=> AllKept
      /\ views'[Len(views) + 1].kept
      /\ compress_status' = "ok"
  <2>1. ViewsAreRecords /\ UNCHANGED <<args, files>> /\ <<>> \in Seq(Nat)
    BY <1>1 DEF IInv
  <2>2. AllKept => result_index = Len(views) /\ <<>> = Record(index + result_index)
    BY <1>5
  <2> QED BY <1>1, <1>2, <1>3, <2>1, <2>2, OneMoreView
<1>7. PcInv' /\ BadInv' /\ DoneInv' /\ LastLimit' = LastLimit
  BY <1>1, CallingStep
<1>8. TypeOK'
  <2>1. result_index' \in 0..count'
    BY <1>1, <1>2 DEF args
  <2> QED BY <1>1, <1>2, <1>6, <2>1 DEF TypeOK, args, files
<1>9. EmptyInv'
  <2> SUFFICES ASSUME AllKept'
               PROVE  /\ Len(views') = result_index'
                      /\ limits' # <<>> => limits'[result_index' + 1] = LastLimit'
    BY DEF EmptyInv
  <2>1. AllKept
    BY <1>6
  <2>2. result_index' + 1 = result_index + 2
    BY <1>1, <1>2
  <2> QED BY <1>1, <1>5, <1>6, <1>7, <2>1, <2>2
<1>10. RangeInv' /\ ReadInv'
  BY <1>1 DEF RangeInv, ReadInv
<1>11. SingleInv'
  <2>1. SUFFICES ASSUME op = "Read" PROVE SingleInv'
    BY <1>1 DEF SingleInv, args
  <2>2. AllKept /\ count = 1
    BY <1>1, <1>2, <2>1 DEF IInv, SingleInv, PcInv
  <2>3. Len(views) = 0
    BY <1>1, <1>2, <1>5, <2>2
  <2>4. Len(views') = 1 /\ views'[1].kept
    BY <1>6, <2>3
  <2>5. AllKept' /\ compress_status' = "ok"
    BY <1>6, <2>2
  <2> QED BY <2>4, <2>5 DEF SingleInv
<1> QED BY <1>6, <1>7, <1>8, <1>9, <1>10, <1>11 DEF IInv

LEMMA CompleteStep == IInv /\ Complete => IInv'
<1> SUFFICES ASSUME IInv, Complete PROVE IInv'
  OBVIOUS
<1> DEFINE n == RecordSize
           record == partial \o SubSeq(chunk, 1, n)
           kept == Decompresses(result_index, record)
<1>1. /\ pc = "pread" /\ op = "ReadRange" /\ chunk # <<>>
      /\ n <= Len(chunk)
      /\ Callback(result_index, record)
      /\ kept => /\ partial' = <<>>
                 /\ chunk' = SubSeq(chunk, n + 1, Len(chunk))
                 /\ result_index' = result_index + 1
                 /\ UNCHANGED pc
      /\ ~kept => /\ pc' = "empty"
                  /\ partial' = IF partial = <<>> THEN partial ELSE record
                  /\ UNCHANGED <<chunk, result_index>>
      /\ UNCHANGED <<args, files, limits, position, num_remaining_bytes, status>>
  BY DEF Complete
<1> DEFINE a == limits[result_index + 1]
           b == Consumed
           c == position
           d == limits[result_index + 2]
<1>2. /\ TypeOK /\ PcInv /\ Loaded /\ ValidLimits
      /\ LastLimit \in Nat /\ c \in Nat /\ chunk \in Seq(Nat)
      /\ Len(chunk) \in Nat /\ b = c - Len(chunk)
      /\ a \in Nat /\ count \in Nat /\ result_index \in Nat
      /\ LastLimit = limits[count + 1]
  BY <1>1, Bounds
<1>3. /\ partial = Bytes(a, b) /\ chunk = Bytes(b, c) /\ a <= b /\ b <= c
      /\ c <= LastLimit /\ AllKept /\ Len(views) = result_index
  BY <1>1 DEF IInv, RangeInv
<1>4. b < LastLimit
  <2>1. Len(chunk) # 0
    BY <1>1, <1>2
  <2> QED BY <2>1, <1>2, <1>3
<1>5. /\ result_index < count /\ d \in Nat /\ a <= d /\ b <= d /\ d <= LastLimit
      /\ b \in Nat /\ Len(partial) = b - a
  BY <1>1, <1>4, InRecord
<1>6. n = d - a - Len(partial)
  BY DEF RecordSize
<1>7. Record(index + result_index) = Bytes(a, d)
  <2>1. /\ result_index + 1 \in 1..count
        /\ index + (result_index + 1) - 1 = index + result_index
        /\ (result_index + 1) + 1 = result_index + 2
    BY <1>2, <1>5 DEF TypeOK
  <2>2. Record(index + (result_index + 1) - 1)
          = Bytes(limits[result_index + 1], limits[(result_index + 1) + 1])
    BY <1>2, <2>1, RecordBytes
  <2> QED BY <2>1, <2>2
<1>8. limits' = limits /\ position' = c
  BY <1>1
\* The end of the record is within the piece: it is the boundary that the
\* next iteration starts from.
<1>9. ASSUME d < LastLimit
      PROVE  /\ result_index + 1 < count
             /\ limits[result_index + 3] \in Nat
             /\ d <= limits[result_index + 3]
  <2>1. result_index + 2 \in 1..(count + 1)
    BY <1>2, <1>5
  <2>2. result_index + 1 # count
    <3>1. SUFFICES ASSUME result_index + 1 = count PROVE FALSE
      OBVIOUS
    <3>2. result_index + 2 = count + 1
      BY <1>2, <3>1
    <3>3. d = LastLimit
      BY <1>2, <3>2
    <3> QED BY <3>3, <1>2, <1>9
  <2>3. result_index + 3 \in 1..(count + 1) /\ result_index + 2 <= result_index + 3
        /\ result_index + 1 < count
    BY <1>2, <1>5, <2>2
  <2>4. limits[result_index + 2] <= limits[result_index + 3]
    BY <1>2, <2>1, <2>3, SortedLimits
  <2>5. limits[result_index + 3] \in Nat
    BY <1>2, <2>3, SortedLimits
  <2> QED BY <2>3, <2>4, <2>5
<1> HIDE DEF a, b, c, d, n
<1>10. n = d - b /\ d <= c
  <2>1. n = d - a - (b - a)
    BY <1>5, <1>6
  <2>2. n = d - b
    BY <2>1, <1>2, <1>5
  <2>3. d - b <= c - b
    BY <2>2, <1>1, <1>2, <1>5
  <2> QED BY <2>2, <2>3, <1>2, <1>5
<1>t. /\ a \in Nat /\ b \in Nat /\ c \in Nat /\ d \in Nat
      /\ a <= b /\ b <= d /\ d <= c
  BY <1>2, <1>3, <1>5, <1>10
<1>11. /\ SubSeq(chunk, 1, n) = Bytes(b, d)
       /\ SubSeq(chunk, n + 1, Len(chunk)) = Bytes(d, c)
  <2>1. /\ SubSeq(Bytes(b, c), 1, d - b) = Bytes(b, d)
        /\ SubSeq(Bytes(b, c), d - b + 1, Len(Bytes(b, c))) = Bytes(d, c)
    BY <1>t, BytesSplit
  <2> QED BY <2>1, <1>3, <1>10
<1>12. record = Bytes(a, d) /\ record \in Seq(Nat)
  <2>1. Bytes(a, b) \o Bytes(b, d) = Bytes(a, d)
    BY <1>t, BytesConcat
  <2>2. Bytes(a, d) \in Seq(Nat)
    BY <1>2, <1>5, BytesType
  <2> QED BY <2>1, <2>2, <1>3, <1>11
<1> HIDE DEF record, kept
<1>13. /\ ViewsAreRecords'
       /\ views' \in Seq(View)
       /\ Len(views') = Len(views) + 1
       /\ AllKept' <=> AllKept /\ kept
       /\ compress_status' \in {"ok", "error"}
  <2>1. ViewsAreRecords /\ UNCHANGED <<args, files>>
    BY <1>1 DEF IInv
  <2>2. AllKept => /\ result_index = Len(views)
                   /\ record = Record(index + result_index)
    BY <1>3, <1>7, <1>12
  <2> QED BY <1>1, <1>2, <1>12, <2>1, <2>2, OneMoreView DEF kept
<1>14. op' = "ReadRange" /\ count' = count /\ op' # "Read"
  BY <1>1 DEF args
<1>15. ReadInv' /\ SingleInv'
  BY <1>14 DEF ReadInv, SingleInv
<1>16. CASE ~kept
  <2>1. pc' = "empty"
    BY <1>1, <1>16
  <2>2. PcInv' /\ BadInv' /\ DoneInv'
    BY <1>1, <2>1, CallingStep
  <2>3. partial' \in Seq(Nat)
    BY <1>1, <1>2, <1>12, <1>16 DEF TypeOK
  <2>4. TypeOK'
    BY <1>1, <1>2, <1>13, <1>16, <2>1, <2>3 DEF TypeOK, args, files
  <2>5. RangeInv' /\ EmptyInv'
    BY <1>13, <1>16, <2>1 DEF RangeInv, EmptyInv
  <2> QED BY <1>13, <1>15, <2>2, <2>4, <2>5 DEF IInv
<1>17. CASE kept
  <2>1. pc' = "pread"
    BY <1>1, <1>17
  <2>2. PcInv' /\ BadInv' /\ DoneInv' /\ LastLimit' = LastLimit
    BY <1>1, <2>1, CallingStep
  <2>3. /\ partial' = <<>> /\ chunk' = Bytes(d, c)
        /\ result_index' = result_index + 1
    BY <1>1, <1>11, <1>17
  <2>4. chunk' \in Seq(Nat) /\ Len(chunk') = c - d
    <3>1. Bytes(d, c) \in Seq(Nat) /\ Len(Bytes(d, c)) = c - d
      BY <1>2, <1>5, <1>10, BytesType
    <3> QED BY <3>1, <2>3
  <2>5. Consumed' = d
    BY <1>2, <1>5, <1>8, <2>4 DEF Consumed
  <2>6. limits'[result_index' + 1] = d
    <3>1. (result_index + 1) + 1 = result_index + 2
      BY <1>2
    <3> QED BY <3>1, <1>8, <2>3 DEF d
  <2>7. RangeInv'
    <3>1. Bytes(d, d) = <<>>
      <4>1. d <= d
        BY <1>5
      <4> QED BY <4>1, <1>5, BytesType
    <3>2. /\ Bytes(limits[result_index + 1], Consumed)' = Bytes(d, d)
          /\ Bytes(Consumed, position)' = Bytes(d, c)
      BY <1>8, <2>5, <2>6 DEF Bytes
    <3>3. AllKept' /\ Len(views') = result_index'
      BY <1>3, <1>13, <1>17, <2>3
    <3>4. d <= d /\ d <= c /\ c <= LastLimit /\ ~ (d < d)
      BY <1>3, <1>5, <1>10
    <3> QED BY <1>8, <2>2, <2>3, <2>5, <2>6, <3>1, <3>2, <3>3, <3>4 DEF RangeInv
  <2>8. TypeOK'
    <3>1. result_index' \in 0..count'
      BY <1>2, <1>5, <1>14, <2>3
    <3>2. ASSUME chunk' # <<>> PROVE RecordSize' \in Nat
      <4>1. d < LastLimit
        <5>1. Len(chunk') # 0
          BY <2>4, <3>2
        <5>2. c - d # 0 /\ c <= LastLimit /\ LastLimit \in Nat
          BY <5>1, <2>4, <1>2, <1>3
        <5> QED BY <5>2, <1>t
      <4>2. limits[result_index + 3] \in Nat /\ d <= limits[result_index + 3]
        BY <4>1, <1>9 DEF d
      <4>3. Len(partial') = 0
        BY <2>3
      <4>4. /\ result_index' + 2 = result_index + 3
            /\ result_index' + 1 = result_index + 2
        BY <1>2, <2>3
      <4>5. RecordSize' = limits[result_index + 3] - d - 0
        BY <4>3, <4>4, <1>8 DEF RecordSize, d
      <4> QED BY <4>2, <4>5, <1>5
    <3>3. partial' \in Seq(Nat)
      BY <2>3
    <3> QED BY <1>1, <1>2, <1>13, <2>1, <2>4, <3>1, <3>2, <3>3
            DEF TypeOK, args, files
  <2>9. EmptyInv'
    BY <2>1 DEF EmptyInv
  <2> QED BY <1>13, <1>15, <2>2, <2>7, <2>8, <2>9 DEF IInv
<1> QED BY <1>16, <1>17

-----------------------------------------------------------------------------
(* The theorems *)

LEMMA Invariance == Spec => []IInv
<1>1. Init => IInv
  BY InitIInv
<1>2. IInv /\ [Next]_vars => IInv'
  <2> SUFFICES ASSUME IInv, [Next]_vars PROVE IInv'
    OBVIOUS
  <2>1. CASE Call
    BY <2>1, RejectArgumentsStep, ReturnNoRecordsStep, AllEmptyStep,
       ReadLimitsStep, RejectLimitsStep, NoBytesStep, StartPReadStep DEF Call
  <2>2. CASE Pieces
    BY <2>2, PieceStep, PReadFailsStep, PReadEndsStep, LastPieceOfRecordStep,
       PieceOfRecordStep, SetAsideStep, CompleteStep DEF Pieces
  <2>3. CASE Empties
    BY <2>3, EmptyRecordStep, EmptyRecordsEndStep DEF Empties
  <2>4. CASE UpdateStatus
    BY <2>4, UpdateStatusStep
  <2>5. CASE UNCHANGED vars
    <3> USE <2>5 DEF vars, args, files, progress, called
    <3>1. TypeOK'
      BY DEF IInv, TypeOK, RecordSize
    <3>2. PcInv'
      BY DEF IInv, PcInv, Loaded, InRange, Size, Start, ValidLimits, LastLimit
    <3>3. RangeInv' /\ ReadInv'
      BY DEF IInv, RangeInv, ReadInv, Bytes, Consumed, AllKept, LastLimit
    <3>4. EmptyInv' /\ SingleInv' /\ DoneInv'
      BY DEF IInv, EmptyInv, SingleInv, DoneInv, AllKept, LastLimit
    <3>5. BadInv' /\ ViewsAreRecords'
      BY DEF IInv, BadInv, BadLimits, InRange, Size, ViewsAreRecords, Record, Bytes
    <3> QED BY <3>1, <3>2, <3>3, <3>4, <3>5 DEF IInv
  <2> QED BY <2>1, <2>2, <2>3, <2>4, <2>5 DEF Next, Step, Returned
<1> QED BY <1>1, <1>2, PTL DEF Spec

\* The state stays well-typed; in particular no size_t subtraction of the
\* read loop goes below zero, whatever the limits file contains.
THEOREM TypeCorrect == Spec => []TypeOK
<1>1. IInv => TypeOK
  BY DEF IInv
<1> QED BY <1>1, Invariance, PTL

\* Whatever the pieces, the callback is shown the requested records one by
\* one, in order and byte for byte, up to the first that it refuses.
THEOREM RecordsAreExact == Spec => []ViewsAreRecords
<1>1. IInv => ViewsAreRecords
  BY DEF IInv
<1> QED BY <1>1, Invariance, PTL

\* An OK result without a refused record means that all records were shown.
THEOREM OkShowsAll == Spec => []OkIsComplete
<1>1. IInv => OkIsComplete
  BY DEF IInv, DoneInv, OkIsComplete, AllKept
<1> QED BY <1>1, Invariance, PTL

\* Limits that decrease or lead out of the records file make the call fail
\* before it has shown any record.
THEOREM BadLimitsRejected == Spec => []BadLimitsShowNothing
<1>1. IInv => BadLimitsShowNothing
  <2> SUFFICES ASSUME IInv, BadLimits
               PROVE  views = <<>> /\ (pc = "returned" => status = "error")
    BY DEF BadLimitsShowNothing, BadLimits
  <2> QED BY DEF IInv, BadInv, PcInv
<1> QED BY <1>1, Invariance, PTL

\* A single read reports a record that does not decompress.
THEOREM SingleReadReports == Spec => []ReadReportsCorruption
<1>1. IInv => ReadReportsCorruption
  <2> SUFFICES ASSUME IInv, op = "Read", pc = "returned", status = "ok",
                      NEW k \in DOMAIN views
               PROVE  views[k].kept
    BY DEF ReadReportsCorruption
  <2>1. /\ Len(views) <= 1
        /\ Len(views) = 1 => views[1].kept
    BY DEF IInv, SingleInv
  <2>2. k \in 1..Len(views) /\ Len(views) \in Nat
    BY DEF IInv, TypeOK
  <2>3. k = 1 /\ Len(views) = 1
    <3> DEFINE n == Len(views)
    <3>1. n <= 1 /\ k \in 1..n /\ n \in Nat
      BY <2>1, <2>2
    <3> HIDE DEF n
    <3>2. k = 1 /\ n = 1
      BY <3>1
    <3> QED BY <3>2 DEF n
  <2> QED BY <2>1, <2>3
<1> QED BY <1>1, Invariance, PTL
=============================================================================
