--------------------------- MODULE BatchContract ---------------------------
(***************************************************************************)
(* What a batch function does for its caller, seen from the database: the  *)
(* rows arrive in order, none is left out, the last one may arrive again,  *)
(* and an error stops the batch after the rows that arrived.               *)
(***************************************************************************)
EXTENDS Naturals, Sequences

CONSTANT MaxRows   \* bound: rows of a batch

VARIABLES
  size,      \* rows of the batch
  arrived,   \* positions of the rows that were executed, in the order of execution
  status     \* "running", "ok" or "failed"

vars == <<size, arrived, status>>

Init == size \in 0..MaxRows /\ arrived = <<>> /\ status = "running"

Deliver ==
  /\ status = "running" /\ Len(arrived) < size
  /\ arrived' = Append(arrived, Len(arrived) + 1)
  /\ UNCHANGED <<size, status>>

Redeliver ==
  /\ status = "running" /\ Len(arrived) = size /\ size > 0
  /\ arrived' = Append(arrived, size)
  /\ UNCHANGED <<size, status>>

\* An empty batch is an error.
Succeed ==
  /\ status = "running" /\ Len(arrived) >= size /\ size > 0
  /\ status' = "ok"
  /\ UNCHANGED <<size, arrived>>

Fail ==
  /\ status = "running"
  /\ status' = "failed"
  /\ UNCHANGED <<size, arrived>>

Next == Deliver \/ Redeliver \/ Succeed \/ Fail

Spec == Init /\ [][Next]_vars
=============================================================================
