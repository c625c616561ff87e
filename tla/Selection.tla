------------------------------- MODULE Selection -------------------------------
(***************************************************************************)
(* Array.prototype.filter by positions: the proof system knows nothing of  *)
(* SelectSeq.                                                              *)
(***************************************************************************)
EXTENDS Naturals, Sequences, FiniteSets

(* The position in keep before which there are n - 1 others.               *)
Nth(keep, n) == CHOOSE i \in keep : Cardinality({j \in keep : j <= i}) = n

(* The elements of seq at the positions keep, in their order.              *)
Selected(seq, keep) == [n \in 1 .. Cardinality(keep) |-> seq[Nth(keep, n)]]

=============================================================================
