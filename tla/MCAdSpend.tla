----------------------------- MODULE MCAdSpend -----------------------------
(* Instances of AdSpend for TLC. *)
EXTENDS AdSpend, TLC

CONSTANTS t1, t2, a1, a2, k1, k2

MCNet == t1 :> 3 @@ t2 :> 1
MCAuthorized == a1 :> 3 @@ a2 :> 1
MCAuthOf == k1 :> a1 @@ k2 :> a1
MCAmount == k1 :> 2 @@ k2 :> 2
=============================================================================
