------------------------------ MODULE AdSpend ------------------------------
(***************************************************************************)
(* The prepaid advertising wallet of one workspace, the budgets its        *)
(* customer authorizes for one campaign, and the reservations taken from   *)
(* both (adspend.repo.ts), with the two ways a reservation is settled by   *)
(* the Google Ads reconciliation (google-ads-spend.repo.ts).               *)
(*                                                                         *)
(* Every action is one transaction.  Amounts are whole units.  Partial     *)
(* refunds and disputes are those of module AiWallet and left out here.    *)
(* Operators commented "Variant:" are plausible mistakes in the definition *)
(* that follows them and not part of the specification.                    *)
(***************************************************************************)
EXTENDS Integers, FiniteSets, FiniteSetsExt

CONSTANTS
  Topups,           \* top-ups customers may start
  Net,              \* Net[t]: workspace_ad_spend_topups.net_amount
  PaymentStatuses,  \* results of mapProviderStatus that are reported
  Authorizations,   \* campaign budgets the customer may authorize
  Authorized,       \* Authorized[a]: authorized_amount
  Keys,             \* idempotency keys of launches, each of one reservation
  AuthOf,           \* AuthOf[k]: the authorization a launch names
  Amount,           \* Amount[k]: the budget it asks for
  MaxMoney          \* largest amount of a NUMERIC column (bounds the model)

\* The tables have finitely many rows.
ASSUME AdSpendFinite == IsFiniteSet(Topups) /\ IsFiniteSet(Authorizations) /\ IsFiniteSet(Keys)

ASSUME AdSpendAssumption ==
  /\ Net \in [Topups -> Nat \ {0}]
  /\ Authorized \in [Authorizations -> Nat \ {0}]
  /\ AuthOf \in [Keys -> Authorizations]
  /\ Amount \in [Keys -> Nat \ {0}]
  /\ MaxMoney \in Nat

VARIABLES
  wallet,       \* the workspace_ad_spend_wallets row
  deposited,    \* history: deposits credited less those taken back
  topup,        \* topup[t]: the workspace_ad_spend_topups row
  creating,     \* top-ups whose payment is being created at the provider
  auth,         \* auth[a]: the workspace_ad_budget_authorizations row
  ended,        \* authorizations whose ends_at has passed
  reservation   \* reservation[k]: the workspace_ad_spend_reservations row

deposits == <<deposited, topup, creating>>
adVars == <<wallet, deposited, topup, creating, auth, ended, reservation>>

Money == 0 .. MaxMoney

Open == {"CREATED", "PENDING_PAYMENT", "REQUIRES_CUSTOMER_ACTION"}

\* REFUNDED also stands for CHARGEBACK: the two differ in name only.
Ended == {"FAILED", "CANCELLED", "EXPIRED", "REFUNDED"}

ASSUME AdStatusAssumption == PaymentStatuses \subseteq Open \cup Ended \cup {"SUCCEEDED"}

AdInit ==
  /\ wallet = [exists |-> FALSE, available |-> 0, reserved |-> 0, payment |-> 0,
               spent |-> 0, debt |-> 0]
  /\ deposited = 0
  /\ topup = [t \in Topups |-> [status |-> "none", credited |-> FALSE,
                                credit |-> "NOT_CREDITED"]]
  /\ creating = {}
  /\ auth = [a \in Authorizations |-> [status |-> "none", reserved |-> 0, consumed |-> 0]]
  /\ ended = {}
  /\ reservation = [k \in Keys |-> [status |-> "none", settled |-> 0]]

-----------------------------------------------------------------------------
\* GREATEST(0, a - b)
Less(a, b) == IF a > b THEN a - b ELSE 0

\* Money comes in: it pays the debt first.
Repay(w, x) == [w EXCEPT !.available = @ + Less(x, w.debt), !.debt = Less(@, x)]

\* Money goes out: what the balance cannot cover becomes debt.
Owe(w, x) == [w EXCEPT !.available = Less(@, x), !.debt = @ + Less(x, w.available)]

Unpend(w, x) == [w EXCEPT !.payment = Less(@, x)]

\* ensureWallet: the row is created on first use, with the pending deposits.
PendingDeposits(tops) ==
  SumFunctionOnSet(Net, {t \in Topups : /\ tops[t].status \notin Ended \cup {"none"}
                                        /\ ~tops[t].credited})

Seeded(w, seed) == IF w.exists THEN w ELSE [w EXCEPT !.exists = TRUE, !.payment = seed]

EnsureWallet ==
  /\ ~wallet.exists
  /\ \E seed \in Money : seed = PendingDeposits(topup) /\ wallet' = Seeded(wallet, seed)
  /\ UNCHANGED <<deposits, auth, ended, reservation>>

-----------------------------------------------------------------------------
\* Deposits.

CreateAdSpendTopup(t) ==
  /\ topup[t].status = "none"
  /\ topup' = [topup EXCEPT ![t].status = "CREATED"]
  /\ creating' = creating \cup {t}
  /\ wallet' = IF wallet.exists THEN [wallet EXCEPT !.payment = @ + Net[t]] ELSE wallet
  /\ UNCHANGED <<deposited, auth, ended, reservation>>

AttachAdSpendProviderPayment(t) ==
  /\ t \in creating
  /\ creating' = creating \ {t}
  /\ topup' = [topup EXCEPT ![t].status = "PENDING_PAYMENT"]
  /\ UNCHANGED <<wallet, deposited, auth, ended, reservation>>

FailAdSpendTopup(t) ==
  /\ t \in creating
  /\ creating' = creating \ {t}
  /\ IF topup[t].credited \/ topup[t].status \in Ended
     THEN UNCHANGED <<topup, wallet>>
     ELSE /\ topup' = [topup EXCEPT ![t].status = "FAILED"]
          /\ \E seed \in Money : /\ seed = PendingDeposits(topup')
                                 /\ wallet' = Unpend(Seeded(wallet, seed), Net[t])
  /\ UNCHANGED <<deposited, auth, ended, reservation>>

\* The status the row takes for a reported status s.
Effective(top, s) ==
  LET wasReversed == top.credit = "REVERSED" \/ top.status = "REFUNDED"
  IN IF wasReversed /\ top.credited THEN top.status
     ELSE IF s = "REFUNDED" THEN s
     ELSE IF top.credited THEN "SUCCEEDED" ELSE s

\* Variant: a payment is credited before its settlement is proved.
NewlyCreditedUnsettled(top, s, verified) ==
  Effective(top, s) = "SUCCEEDED" /\ top.credit # "AVAILABLE"

NewlyCredited(top, s, verified) ==
  Effective(top, s) = "SUCCEEDED" /\ verified /\ top.credit # "AVAILABLE"

NewlyReleased(top, s) == ~top.credited /\ Effective(top, s) \in Ended

NewlyReversed(top, s) ==
  s = "REFUNDED" /\ top.credit = "AVAILABLE" /\ top.status # "REFUNDED"

Updated(top, s, verified) ==
  LET status == Effective(top, s)
      settled == status = "SUCCEEDED" /\ verified
  IN [status |-> status,
      credited |-> top.credited \/ settled,
      credit |-> IF settled THEN "AVAILABLE"
                 ELSE IF status = "REFUNDED" /\ top.credited THEN "REVERSED"
                 ELSE top.credit]

\* What a report of status s does to the wallet and to the sum of deposits.
Applied(t, s, verified, w) ==
  IF NewlyCredited(topup[t], s, verified) THEN Repay(Unpend(w, Net[t]), Net[t])
  ELSE IF NewlyReleased(topup[t], s) THEN Unpend(w, Net[t])
  ELSE IF NewlyReversed(topup[t], s) THEN Owe(w, Net[t])
  ELSE w

Gain(t, s, verified) ==
  IF NewlyCredited(topup[t], s, verified) THEN Net[t]
  ELSE IF ~NewlyReleased(topup[t], s) /\ NewlyReversed(topup[t], s) THEN -Net[t]
  ELSE 0

Settling(t, s, verified) ==
  \/ NewlyCredited(topup[t], s, verified)
  \/ NewlyReleased(topup[t], s)
  \/ NewlyReversed(topup[t], s)

\* applyAdSpendProviderStatus, from a webhook or a synchronisation.
ApplyAdSpendProviderStatus(t, s, verified) ==
  /\ topup[t].status # "none"
  /\ topup' = [topup EXCEPT ![t] = Updated(@, s, verified)]
  /\ deposited' = deposited + Gain(t, s, verified)
  /\ \E seed \in Money :
       /\ seed = PendingDeposits(topup')
       /\ wallet' = IF Settling(t, s, verified)
                    THEN Applied(t, s, verified, Seeded(wallet, seed)) ELSE wallet
  /\ UNCHANGED <<creating, auth, ended, reservation>>

\* holdAdSpendTopupForSettlement takes a credit back while nothing of the wallet
\* is reserved or spent.
HoldAdSpendTopupForSettlement(t) ==
  /\ topup[t].credit = "AVAILABLE" /\ topup[t].credited
  /\ wallet.available >= Net[t] /\ wallet.reserved = 0 /\ wallet.spent = 0
  /\ wallet' = [wallet EXCEPT !.available = @ - Net[t], !.payment = @ + Net[t]]
  /\ deposited' = deposited - Net[t]
  /\ topup' = [topup EXCEPT ![t].credit = "NOT_CREDITED", ![t].credited = FALSE]
  /\ UNCHANGED <<creating, auth, ended, reservation>>

-----------------------------------------------------------------------------
\* Budgets authorized for the campaign.

\* An authorization takes effect when it is created.
CreateAdBudgetAuthorization(a) ==
  LET expired(b) == auth[b].status = "ACTIVE" /\ b \in ended
  IN /\ auth[a].status = "none"
     /\ \A b \in Authorizations : auth[b].status = "ACTIVE" => b \in ended
     /\ auth' = [b \in Authorizations |->
                   IF b = a THEN [auth[b] EXCEPT !.status = "ACTIVE"]
                   ELSE IF expired(b) THEN [auth[b] EXCEPT !.status = "EXPIRED"]
                   ELSE auth[b]]
     /\ UNCHANGED <<wallet, deposits, ended, reservation>>

RevokeAdBudgetAuthorization(a) ==
  /\ auth[a].status = "ACTIVE" /\ auth[a].reserved = 0
  /\ auth' = [auth EXCEPT ![a].status = "REVOKED"]
  /\ UNCHANGED <<wallet, deposits, ended, reservation>>

\* Time reaches ends_at.
AuthorizationEnds(a) ==
  /\ auth[a].status # "none" /\ a \notin ended
  /\ ended' = ended \cup {a}
  /\ UNCHANGED <<wallet, deposits, auth, reservation>>

-----------------------------------------------------------------------------
\* Reservations.

Left(k) == Amount[k] - reservation[k].settled

\* Variant: a funded wallet is taken for permission.
CoveredByWallet(k) == wallet.debt = 0 /\ wallet.available >= Amount[k]

\* Both the authorization and the wallet cover the amount.
Covered(k) ==
  LET a == auth[AuthOf[k]]
  IN /\ a.status = "ACTIVE" /\ AuthOf[k] \notin ended
     /\ Authorized[AuthOf[k]] - a.reserved - a.consumed >= Amount[k]
     /\ wallet.debt = 0 /\ wallet.available >= Amount[k]

ReserveAdSpend(k) ==
  /\ reservation[k].status = "none"
  /\ Covered(k)
  /\ wallet' = [wallet EXCEPT !.available = @ - Amount[k], !.reserved = @ + Amount[k]]
  /\ auth' = [auth EXCEPT ![AuthOf[k]].reserved = @ + Amount[k]]
  /\ reservation' = [reservation EXCEPT ![k].status = "RESERVED"]
  /\ UNCHANGED <<deposits, ended>>

\* The hold is given back to the wallet, which pays its debt first, and to the
\* authorization, whose status becomes s.
GiveBack(k, s) ==
  /\ wallet.reserved >= Left(k)
  /\ wallet' = [Repay(wallet, Left(k)) EXCEPT !.reserved = @ - Left(k)]
  /\ auth[AuthOf[k]].reserved >= Left(k)
  /\ auth' = [auth EXCEPT ![AuthOf[k]].reserved = @ - Left(k), ![AuthOf[k]].status = s]
  /\ reservation' = [reservation EXCEPT ![k].status = "RELEASED"]

Consumed(k) == reservation' = [reservation EXCEPT ![k].status = "CONSUMED"]

\* releaseAdSpendReservation; a closed reservation is left alone.
ReleaseAdSpendReservation(k) ==
  /\ reservation[k].status = "RESERVED"
  /\ \/ Left(k) > 0 /\ GiveBack(k, auth[AuthOf[k]].status)
     \/ Left(k) = 0 /\ Consumed(k) /\ UNCHANGED <<wallet, auth>>
  /\ UNCHANGED <<deposits, ended>>

\* Variant: the money moves, the reservation forgets it.
SettledNowhere(k, target) == reservation[k].settled

SettledTo(k, target) == target

\* recordGoogleAdsCostObservation: the observed cost of the campaign moves the
\* difference to what is settled between hold and spending, either way.
SettleReservation(k, target) ==
  LET delta == target - reservation[k].settled
  IN /\ reservation[k].status = "RESERVED" /\ target <= Amount[k] /\ delta # 0
     /\ wallet.reserved >= delta /\ wallet.spent >= -delta
     /\ auth[AuthOf[k]].reserved >= delta /\ auth[AuthOf[k]].consumed >= -delta
     /\ wallet' = [wallet EXCEPT !.reserved = @ - delta, !.spent = @ + delta]
     /\ auth' = [auth EXCEPT ![AuthOf[k]].reserved = @ - delta,
                             ![AuthOf[k]].consumed = @ + delta]
     /\ reservation' = [reservation EXCEPT ![k].settled = SettledTo(k, target)]
     /\ UNCHANGED <<deposits, ended>>

\* finalizeGoogleAdsSpendAllocation, the money part.  A CHECK of the table keeps a
\* revoked authorization REVOKED: a transaction that would mark it EXHAUSTED fails.
StatusAfter(a) ==
  IF auth[a].consumed >= Authorized[a] THEN "EXHAUSTED"
  ELSE IF auth[a].status = "ACTIVE" /\ a \in ended THEN "EXPIRED"
  ELSE auth[a].status

FinalizeReservation(k) ==
  /\ reservation[k].status = "RESERVED"
  /\ \/ Left(k) > 0 /\ GiveBack(k, StatusAfter(AuthOf[k]))
     \/ /\ Left(k) = 0 /\ Consumed(k)
        /\ auth[AuthOf[k]].status = "REVOKED" => StatusAfter(AuthOf[k]) = "REVOKED"
        /\ auth' = [auth EXCEPT ![AuthOf[k]].status = StatusAfter(AuthOf[k])]
        /\ UNCHANGED wallet
  /\ UNCHANGED <<deposits, ended>>

-----------------------------------------------------------------------------
Deposits ==
  \/ EnsureWallet
  \/ \E t \in Topups :
       \/ CreateAdSpendTopup(t) \/ AttachAdSpendProviderPayment(t) \/ FailAdSpendTopup(t)
       \/ HoldAdSpendTopupForSettlement(t)
       \/ \E s \in PaymentStatuses, verified \in BOOLEAN :
            ApplyAdSpendProviderStatus(t, s, verified)

Budgets ==
  \E a \in Authorizations : \/ CreateAdBudgetAuthorization(a)
                            \/ RevokeAdBudgetAuthorization(a)
                            \/ AuthorizationEnds(a)

Reservations ==
  \E k \in Keys : \/ ReserveAdSpend(k) \/ ReleaseAdSpendReservation(k) \/ FinalizeReservation(k)
                  \/ \E target \in 0 .. Amount[k] : SettleReservation(k, target)

AdNext == Deposits \/ Budgets \/ Reservations

AdSpec == AdInit /\ [][AdNext]_adVars

-----------------------------------------------------------------------------
Wallets == [exists : BOOLEAN, available : Nat, reserved : Nat, payment : Nat,
            spent : Nat, debt : Nat]

\* Type correctness of the rows: no amount ever falls below zero, although
\* refunds take back what is held or spent and observations correct each other.
AdTypeOK ==
  /\ wallet \in Wallets
  /\ deposited \in Int
  /\ topup \in [Topups -> [status : {"none", "SUCCEEDED"} \cup Open \cup Ended,
                           credited : BOOLEAN,
                           credit : {"NOT_CREDITED", "AVAILABLE", "REVERSED"}]]
  /\ creating \in SUBSET Topups
  /\ auth \in [Authorizations ->
                 [status : {"none", "ACTIVE", "REVOKED", "EXHAUSTED", "EXPIRED"},
                  reserved : Nat, consumed : Nat]]
  /\ ended \in SUBSET Authorizations
  /\ reservation \in [Keys -> [status : {"none", "RESERVED", "RELEASED", "CONSUMED"},
                               settled : Nat]]

\* No money appears or disappears while deposits, refunds, launches, cost
\* observations, corrections and releases interleave: balance, holds and
\* spending are what was deposited, and what is owed on top.
AdConservation ==
  wallet.available + wallet.reserved + wallet.spent = deposited + wallet.debt

\* What is held and what is spent under an authorization never exceeds what the
\* customer authorized, across all its launches and relaunches.
WithinAuthorization ==
  \A a \in Authorizations : auth[a].reserved + auth[a].consumed <= Authorized[a]

HeldUnder(a) ==
  SumFunctionOnSet([k \in Keys |-> Left(k)],
                   {k \in Keys : AuthOf[k] = a /\ reservation[k].status = "RESERVED"})

SettledUnder(a) ==
  SumFunctionOnSet([k \in Keys |-> reservation[k].settled], {k \in Keys : AuthOf[k] = a})

\* The wallet, the authorizations and the reservations tell the same story: the
\* held and the spent amounts of the first two are the sums over the third, so
\* no release or settlement ever finds less than it needs.
BooksAgree ==
  /\ wallet.reserved = SumFunction([a \in Authorizations |-> HeldUnder(a)])
  /\ wallet.spent = SumFunction([a \in Authorizations |-> SettledUnder(a)])
  /\ \A a \in Authorizations : /\ auth[a].reserved = HeldUnder(a)
                               /\ auth[a].consumed = SettledUnder(a)

\* The net amounts of the top-ups whose rows say that they are credited.
CreditedTotal == SumFunctionOnSet(Net, {t \in Topups : topup[t].credit = "AVAILABLE"})

\* Every deposit is in the books once while its row says that it is credited and
\* not at all otherwise, however its settlement, its refund and the reports of
\* both are ordered and repeated, and whatever is held, spent and owed meanwhile.
\* Which deposits a late report credits is another matter: one whose refund is
\* reported before its success is credited by the success, see README.md.
DepositsAreWhole ==
  wallet.available + wallet.reserved + wallet.spent = CreditedTotal + wallet.debt
=============================================================================
