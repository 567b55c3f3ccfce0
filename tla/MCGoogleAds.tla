---------------------------- MODULE MCGoogleAds ----------------------------
(* Instances of GoogleAds for TLC. *)
EXTENDS GoogleAds, TLC

CONSTANTS t1, a1, k1, k2, k3, c1, c2

MCNet == t1 :> 2
MCAuthorized == a1 :> 2
MCAuthOf == k1 :> a1 @@ k2 :> a1 @@ k3 :> a1
MCAmount == k1 :> 1 @@ k2 :> 1 @@ k3 :> 1
MCRelaunch == k1 :> k2 @@ k2 :> NoKey @@ k3 :> NoKey

Callers2 == Permutations({c1, c2})

\* Bounds.  Calls start once a top-up has settled and a budget is authorized, and
\* the authorization ends by being revoked only; MCAdSpend interleaves deposits,
\* refunds and expiry with the reservations.
FundedFirst ==
  /\ tally.calls + tally.pauses > 0 =>
       /\ \A t \in Topups : topup[t].credited /\ topup[t].status = "SUCCEEDED"
       /\ creating = {}
       /\ \A a \in Authorizations : auth[a].status # "none"
  /\ ended = {}

\* Either the automation is paused, or a launch of another key joins the first.
OneDisturbance ==
  \/ tally.pauses = 0
  \/ reservation[k3].status = "none" /\ \A c \in Callers : call[c].key # k3
=============================================================================
