------------------------------- MODULE MCMetrics -------------------------------
(* Metrics for TLC.                                                        *)
EXTENDS Metrics, TLC

CONSTANTS e1, e2, c1, c2, r1, r2

(* The first recruiter has a target for every client.                      *)
Targets == <<e1, c1>> :> 2 @@ <<e1, c2>> :> 1 @@ <<e2, c1>> :> 1 @@ <<e2, c2>> :> 0

(* The ids of the rows do not matter.                                      *)
SameRows == Permutations(Resume)

=============================================================================
