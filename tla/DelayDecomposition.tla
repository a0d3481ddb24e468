------------------------- MODULE DelayDecomposition -------------------------
(***************************************************************************)
(* What the latency decomposition promises (spec.md, section 4.3), stated  *)
(* without the code's vectors, erasures and accumulation loops.            *)
(*                                                                         *)
(* For every (station, link) key with an ordered batch of success records, *)
(* the decomposed series drops the first record and gives, for each later  *)
(* record j, its head-of-line time max(enqueue[j], dequeue[j-1]) and the   *)
(* queuing, access and end-to-end delays measured from it.  A key is      *)
(* decomposed once, in one step, and its series never changes afterwards;  *)
(* a key without records has nothing to decompose.                         *)
(***************************************************************************)
EXTENDS Integers, Sequences, FiniteSetsExt

CONSTANTS
  Keys,     \* the (station, link) keys that own a non-empty batch
  Pending   \* series value of a key not decomposed yet

VARIABLES
  batch,    \* batch[k]: the success records of key k, in completion order
  series    \* series[k]: Pending, or the decomposition of batch[k]

vars == <<batch, series>>

(* The decomposition of one ordered batch: element i describes record i+1. *)
SpecSeries(recs) ==
  [i \in 1 .. Len(recs) - 1 |->
     LET hol == Max({recs[i + 1].enq, recs[i].deq})
     IN  [hol |-> hol,
          que |-> hol - recs[i + 1].enq,
          acc |-> recs[i + 1].deq - hol,
          e2e |-> recs[i + 1].deq - recs[i + 1].enq]]

Init ==
  /\ batch \in [Keys -> Seq([enq : Int, deq : Int, failures : Int])]
  /\ series = [k \in Keys |-> IF batch[k] = <<>> THEN <<>> ELSE Pending]

Decompose(k) ==
  /\ series[k] = Pending
  /\ series' = [series EXCEPT ![k] = SpecSeries(batch[k])]
  /\ UNCHANGED batch

Next == \E k \in Keys : Decompose(k)

Spec == Init /\ [][Next]_vars
=============================================================================
