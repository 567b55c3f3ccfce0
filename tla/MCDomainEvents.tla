--------------------------- MODULE MCDomainEvents ---------------------------
(***************************************************************************)
(* The instance of DomainEvents for TLC: an order has one consumer, a      *)
(* notice has none and is processed as soon as it is dispatched.  Both may *)
(* be claimed in one batch and dispatched side by side, so that the drain  *)
(* that fails over one leaves the other running.                           *)
(***************************************************************************)
EXTENDS DomainEvents, TLC

CONSTANTS order, notice, finance

MCHandlersFor == order :> <<finance>> @@ notice :> <<>>

\* A batch has room for both events, so nothing depends on which of them has the
\* lower number: the order is appended first.
OrderFirst == row[notice].sequence # 0 => row[order].sequence # 0
=============================================================================
