----------------------------- MODULE MCUploads -----------------------------
(***************************************************************************)
(* Instances of Uploads for TLC: requests of one tenant (tenants share     *)
(* nothing), four contents, one of them refused for itself.                *)
(***************************************************************************)
EXTENDS Uploads, TLC

CONSTANTS r1, r2, t1, small, large, wide, bad

Pair  == r1 :> t1 @@ r2 :> t1
Sizes == small :> 1 @@ large :> 2 @@ wide :> 2 @@ bad :> 3

=============================================================================
