----------------------------- MODULE MCUploadBatch -----------------------------
(* UploadBatch for TLC.                                                    *)
EXTENDS UploadBatch, TLC

CONSTANTS c1, c2, f1, f2, f3

(* Two files with one name in the format of the page, and one of another.  *)
Names == f1 :> <<c1, "company", "job">> @@ f2 :> <<c1, "company", "job">>
           @@ f3 :> <<"person", "resume">>

=============================================================================
