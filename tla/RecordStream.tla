---------------------------- MODULE RecordStream ----------------------------
(***************************************************************************)
(* What the callers of BagzIterator::next() may observe, whatever threads, *)
(* buffers and batches are behind it: the records of a stream of `length'  *)
(* records, one at a time and in order, and then for ever the same final   *)
(* answer, which is the end of the stream only when every record has been  *)
(* delivered.                                                              *)
(***************************************************************************)
EXTENDS Naturals, Sequences

VARIABLES
  length,     \* records in the stream; never changes
  delivered,  \* positions of the records handed out so far
  outcome     \* "open" until next() has answered without a record

vars == <<length, delivered, outcome>>

Init ==
  /\ length \in Nat
  /\ delivered = <<>>
  /\ outcome = "open"

\* The next record of the stream, exactly once.
Deliver ==
  /\ outcome = "open"
  /\ Len(delivered) < length
  /\ delivered' = Append(delivered, Len(delivered))
  /\ UNCHANGED <<length, outcome>>

\* nullopt: only a stream that has been handed out completely ends.
End ==
  /\ outcome = "open"
  /\ Len(delivered) = length
  /\ outcome' = "end"
  /\ UNCHANGED <<length, delivered>>

\* A read of the underlying bag failed; every later call says so again.
Fail ==
  /\ outcome = "open"
  /\ outcome' = "error"
  /\ UNCHANGED <<length, delivered>>

Next == Deliver \/ End \/ Fail

Spec == Init /\ [][Next]_vars
=============================================================================
