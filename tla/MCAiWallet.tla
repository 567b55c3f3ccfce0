----------------------------- MODULE MCAiWallet -----------------------------
(***************************************************************************)
(* Instances of AiWallet for TLC: the top-up big can be reversed in two    *)
(* parts, a refund and a dispute, the top-up small cannot.                 *)
(***************************************************************************)
EXTENDS AiWallet

CONSTANTS big, small

MCAmount == [t \in Topups |-> IF t = big THEN 3 ELSE 1]

MCReversalOf == [r \in Reversals |-> big]

MCReversalAmount == [r \in Reversals |-> IF r = "refund" THEN 1 ELSE 2]
=============================================================================
