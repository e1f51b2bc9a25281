------------------------------- MODULE MCVerify -------------------------------
(* Model-checking instance of Verify: a file of two chunks, one that shares a *)
(* chunk with it, and one whose second chunk has no hash.                     *)
EXTENDS Verify, TLC

CONSTANTS f1, f2, f3, a, b

SharedPieces == f1 :> <<a, b>> @@ f2 :> <<b>> @@ f3 :> <<a, NoHash>>

\* Every key, with and without encryption, all or some of the files, on one back end.
Keys ==
  [backend : {"s3"}, encrypted : BOOLEAN, key : {"none", "right", "wrong"},
   files : {{}, {f1}, {f1, f2}}, faults : SUBSET {"error", "cancel"}]

\* Three files on every back end, read with the key or without.
Reads ==
  [backend : AllBackends, encrypted : {TRUE}, key : {"none", "right"},
   files : {Files}, faults : {{}, {"cancel"}}]

VerifySettings == Keys \cup Reads
=============================================================================
