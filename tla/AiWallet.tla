------------------------------ MODULE AiWallet ------------------------------
(***************************************************************************)
(* The prepaid AI wallet of one workspace: deposits confirmed by Airwallex *)
(* (api-wallet.repo.ts), refunds and disputes of those deposits            *)
(* (airwallex-wallet-reversal.repo.ts), holds placed before AI work starts *)
(* and settled or released after it (ai-spend-reservation.repo.ts), direct *)
(* debits (api-wallet.repo.ts, composio-usage.repo.ts) and the manual      *)
(* adjustments of administrators (admin.repo.ts).                          *)
(*                                                                         *)
(* Every exported function is one transaction that locks the rows it       *)
(* changes, so it is one step; a call that throws or finds its work done   *)
(* changes nothing and is no step.  Amounts are whole units.  Provider     *)
(* messages arrive in any order and any number of times.                   *)
(*                                                                         *)
(* Operators commented "Variant:" are not part of the specification: each  *)
(* is a plausible mistake in the definition that follows it.               *)
(***************************************************************************)
EXTENDS Integers, FiniteSets, FiniteSetsExt

CONSTANTS
  Topups,           \* top-ups customers may start
  Amount,           \* Amount[t]: workspace_api_topups.amount
  PaymentStatuses,  \* results of mapStatus that the provider reports
  Reversals,        \* refund and dispute resources at the provider
  ReversalOf,       \* ReversalOf[r]: the top-up it reverses
  ReversalAmount,   \* ReversalAmount[r]: provider_amount
  MaxStamp,         \* provider updates of one reversal (bounds the model)
  Requests,         \* request keys of AI operations
  HoldAmounts,      \* holds that maximumCustomerCostUsd may ask for
  Costs,            \* actual costs that provider usage may have
  Usages,           \* usage rows without reservation, and Composio calls
  Adjustments,      \* idempotency keys of administrators' manual adjustments
  AdjustAmounts,    \* amounts of manual adjustments
  MaxMoney          \* largest amount of a NUMERIC column (bounds the model)

Money == 0 .. MaxMoney

\* The reversals of one top-up never exceed it: allocation() checks the sum.
ASSUME WalletAssumption ==
  /\ Amount \in [Topups -> Nat \ {0}]
  /\ ReversalOf \in [Reversals -> Topups]
  /\ ReversalAmount \in [Reversals -> Nat \ {0}]
  /\ MaxStamp \in Nat
  /\ HoldAmounts \subseteq Nat \ {0}
  /\ Costs \subseteq Nat
  /\ AdjustAmounts \subseteq Nat \ {0}
  /\ MaxMoney \in Nat

\* The tables have finitely many rows.
ASSUME WalletFinite ==
  IsFiniteSet(Topups) /\ IsFiniteSet(Reversals) /\ IsFiniteSet(Requests) /\ IsFiniteSet(Adjustments)

VARIABLES
  wallet,     \* the workspace_api_wallets row
  ledger,     \* sum of the TOPUP_CREDIT, REFUND and ADJUSTMENT ledger rows
  topup,      \* topup[t]: the workspace_api_topups row
  creating,   \* top-ups whose startApiTopup awaits the provider
  reversal,   \* reversal[r]: the airwallex_wallet_reversals row
  hold,       \* hold[q]: the ai_spend_reservations row
  billed,     \* usages with a USAGE_DEBIT or Composio ledger row
  funded,     \* idempotency keys of the API_FUNDS_FUNDED events appended
  adjusted    \* adjusted[a]: amount of the manual ADJUSTMENT ledger row, 0 if none

vars == <<wallet, ledger, topup, creating, reversal, hold, billed, funded, adjusted>>

Open == {"CREATED", "PENDING_PAYMENT", "REQUIRES_CUSTOMER_ACTION"}

Ended == {"FAILED", "CANCELLED", "EXPIRED", "REFUNDED"}

\* REFUNDED also stands for CHARGEBACK: the two differ in name only.
ASSUME StatusAssumption == PaymentStatuses \subseteq Open \cup Ended \cup {"SUCCEEDED"}

Unresolved == {"RESERVED", "SUBMITTING", "SUBMITTED", "AMBIGUOUS"}

Wallets == [exists : BOOLEAN, available : Nat, reserved : Nat, payment : Nat,
            spent : Nat, debt : Nat, funded : Nat]

Init ==
  /\ wallet = [exists |-> FALSE, available |-> 0, reserved |-> 0, payment |-> 0,
               spent |-> 0, debt |-> 0, funded |-> 0]
  /\ ledger = 0
  /\ topup = [t \in Topups |-> [status |-> "none", credited |-> FALSE,
                                credit |-> "NOT_CREDITED"]]
  /\ creating = {}
  /\ reversal = [r \in Reversals |-> [recorded |-> FALSE, active |-> FALSE,
                                      stamp |-> 0, applied |-> 0]]
  /\ hold = [q \in Requests |-> [status |-> "none", amount |-> 0]]
  /\ billed = {}
  /\ funded = {}
  /\ adjusted = [a \in Adjustments |-> 0]

-----------------------------------------------------------------------------
\* Arithmetic of the wallet's UPDATE statements.

\* GREATEST(0, a - b)
Less(a, b) == IF a > b THEN a - b ELSE 0

Smaller(a, b) == IF a < b THEN a ELSE b

\* Money comes in: it pays the debt first.
Repay(w, x) == [w EXCEPT !.available = @ + Less(x, w.debt), !.debt = Less(@, x)]

Fund(w, x) == [Repay(w, x) EXCEPT !.funded = @ + x]

\* Variant: what the balance cannot cover is forgotten.
OweNothing(w, x) == [w EXCEPT !.available = Less(@, x)]

\* Money goes out: what the balance cannot cover becomes debt.
Owe(w, x) == [w EXCEPT !.available = Less(@, x), !.debt = @ + Less(x, w.available)]

Defund(w, x) == [Owe(w, x) EXCEPT !.funded = Less(@, x)]

\* A pending deposit is no longer pending.
Unpend(w, x) == [w EXCEPT !.payment = Less(@, x)]

\* ensureWallet: the row is created on first use and seeded with the deposits
\* that are pending in the transaction's view of the top-ups.
OpenDeposits(tops) ==
  SumFunctionOnSet(Amount, {t \in Topups : tops[t].status \in Open /\ ~tops[t].credited})

Seeded(w, seed) == IF w.exists THEN w ELSE [w EXCEPT !.exists = TRUE, !.payment = seed]

EnsureWallet ==
  /\ ~wallet.exists
  /\ \E seed \in Money : seed = OpenDeposits(topup) /\ wallet' = Seeded(wallet, seed)
  /\ UNCHANGED <<ledger, topup, creating, reversal, hold, billed, funded, adjusted>>

\* API_FUNDS_FUNDED is appended when the wallet can be spent from again.
Spendable(w) == w.available > 0 /\ w.debt = 0

\* Variant: one idempotency key for every event of a kind.
AnnounceOnceEach(key, w) == IF Spendable(w) THEN funded \cup {<<key[1]>>} ELSE funded

\* An event whose idempotency key is taken is not appended again.
Announce(key, w) == IF Spendable(w) THEN funded \cup {key} ELSE funded

-----------------------------------------------------------------------------
\* createApiTopup, called by startApiTopup.
CreateApiTopup(t) ==
  /\ topup[t].status = "none"
  /\ topup' = [topup EXCEPT ![t].status = "CREATED"]
  /\ creating' = creating \cup {t}
  /\ wallet' = IF wallet.exists THEN [wallet EXCEPT !.payment = @ + Amount[t]] ELSE wallet
  /\ UNCHANGED <<ledger, reversal, hold, billed, funded, adjusted>>

\* attachApiProviderPayment overwrites the status, whatever a webhook made of
\* it in the meantime.
AttachApiProviderPayment(t) ==
  /\ t \in creating
  /\ creating' = creating \ {t}
  /\ \E s \in {"PENDING_PAYMENT", "REQUIRES_CUSTOMER_ACTION"} :
       topup' = [topup EXCEPT ![t].status = s]
  /\ UNCHANGED <<wallet, ledger, reversal, hold, billed, funded, adjusted>>

\* failApiTopup, when the provider payment could not be created.
FailApiTopup(t) ==
  /\ t \in creating
  /\ creating' = creating \ {t}
  /\ IF topup[t].credited \/ topup[t].status \in Ended
     THEN UNCHANGED <<topup, wallet>>
     ELSE /\ topup' = [topup EXCEPT ![t].status = "FAILED"]
          /\ \E seed \in Money : /\ seed = OpenDeposits(topup')
                                 /\ wallet' = Unpend(Seeded(wallet, seed), Amount[t])
  /\ UNCHANGED <<ledger, reversal, hold, billed, funded, adjusted>>

-----------------------------------------------------------------------------
\* Refunds and disputes.

ActiveSum(t, revs) ==
  SumFunctionOnSet(ReversalAmount, {r \in Reversals : ReversalOf[r] = t /\ revs[r].active})

\* updateTopupAggregateStatus
Aggregated(top, t, revs) ==
  IF ActiveSum(t, revs) >= Amount[t]
  THEN [top EXCEPT !.status = "REFUNDED",
                   !.credit = IF top.credited THEN "REVERSED" ELSE @]
  ELSE IF top.credited THEN [top EXCEPT !.status = "SUCCEEDED", !.credit = "AVAILABLE"]
  ELSE IF top.status = "REFUNDED" THEN [top EXCEPT !.status = "PENDING_PAYMENT"]
  ELSE top

\* recordAirwallexWalletReversal: an older message than the last one recorded is
\* stale, a contradicting one with the same time is refused.
Ordered(r, active, stamp) ==
  reversal[r].recorded => \/ stamp > reversal[r].stamp
                          \/ stamp = reversal[r].stamp /\ active = reversal[r].active

\* allocation(): the active reversals of a top-up never add up to more than it.
Allocable(r, active) ==
  LET others == [reversal EXCEPT ![r].active = FALSE]
  IN ReversalAmount[r] + (IF active THEN ActiveSum(ReversalOf[r], others) ELSE 0)
       <= Amount[ReversalOf[r]]

RecordAirwallexWalletReversal(r, active, stamp) ==
  LET t == ReversalOf[r]
      wanted == IF active THEN ReversalAmount[r] ELSE 0
      applied == reversal[r].applied
  IN /\ topup[t].status # "none"
     /\ Ordered(r, active, stamp)
     /\ Allocable(r, active)
     /\ reversal' = [reversal EXCEPT ![r] =
           [recorded |-> TRUE, active |-> active, stamp |-> stamp,
            applied |-> IF topup[t].credited THEN wanted ELSE applied]]
     /\ topup' = [topup EXCEPT ![t] = Aggregated(topup[t], t, reversal')]
     /\ IF topup[t].credited  \* settleReversal
        THEN /\ wallet' = IF wanted > applied THEN Defund(wallet, wanted - applied)
                          ELSE Fund(wallet, applied - wanted)
             /\ ledger' = ledger - (wanted - applied)
        ELSE UNCHANGED <<wallet, ledger>>
     /\ UNCHANGED <<creating, hold, billed, funded, adjusted>>

\* What applyPendingAirwallexWalletReversals takes from a credit of t.
PendingDebit(t) ==
  SumFunctionOnSet([r \in Reversals |-> ReversalAmount[r] - reversal[r].applied],
                   {r \in Reversals : ReversalOf[r] = t /\ reversal[r].active})

\* Variant: what was taken is not noted.
ReconciledNowhere(t) == [r \in Reversals |-> reversal[r]]

Reconciled(t) ==
  [r \in Reversals |-> IF ReversalOf[r] = t /\ reversal[r].active
                       THEN [reversal[r] EXCEPT !.applied = ReversalAmount[r]]
                       ELSE reversal[r]]

-----------------------------------------------------------------------------
\* applyApiProviderStatus, from a webhook, a sync or the reconciler.

\* The status the row takes for a reported status s.
Effective(top, s) ==
  LET wasReversed == top.credit = "REVERSED" \/ top.status = "REFUNDED"
  IN IF wasReversed /\ top.credited THEN top.status
     ELSE IF s = "REFUNDED" THEN s
     ELSE IF top.credited THEN "SUCCEEDED" ELSE s

\* Variant: credited on every report of success.
NewlyCreditedAgain(top, s) == Effective(top, s) = "SUCCEEDED"

NewlyCredited(top, s) == Effective(top, s) = "SUCCEEDED" /\ top.credit # "AVAILABLE"

NewlyReleased(top, s) == ~top.credited /\ Effective(top, s) \in Ended

NewlyReversed(top, s) ==
  s = "REFUNDED" /\ top.credit = "AVAILABLE" /\ top.status # "REFUNDED"

Updated(top, s) ==
  LET status == Effective(top, s)
  IN [status |-> status,
      credited |-> top.credited \/ status = "SUCCEEDED",
      credit |-> IF status = "SUCCEEDED" THEN "AVAILABLE"
                 ELSE IF status = "REFUNDED" /\ top.credited THEN "REVERSED"
                 ELSE top.credit]

\* Variant: reversals that arrived before the payment are forgotten.
CreditWhole(t, s) ==
  /\ NewlyCredited(topup[t], s)
  /\ \E seed \in Money :
       /\ seed = OpenDeposits([topup EXCEPT ![t] = Updated(@, s)])
       /\ wallet' = Fund(Unpend(Seeded(wallet, seed), Amount[t]), Amount[t])
  /\ ledger' = ledger + Amount[t]
  /\ topup' = [topup EXCEPT ![t] = Updated(@, s)]
  /\ funded' = Announce(<<"topup", t>>, wallet')
  /\ UNCHANGED <<creating, reversal, hold, billed, adjusted>>

\* The deposit becomes balance; reversals that arrived before it are applied.
CreditTopup(t, s) ==
  LET credited == [topup EXCEPT ![t] = Updated(topup[t], s)]
  IN /\ NewlyCredited(topup[t], s)
     /\ \E seed, due \in Money :
          /\ seed = OpenDeposits(credited)
          /\ due = PendingDebit(t)
          /\ wallet' = Defund(Fund(Unpend(Seeded(wallet, seed), Amount[t]), Amount[t]), due)
          /\ ledger' = ledger + Amount[t] - due
     /\ reversal' = Reconciled(t)
     /\ topup' = [credited EXCEPT ![t] = Aggregated(credited[t], t, reversal)]
     /\ funded' = Announce(<<"topup", t>>, wallet')
     /\ UNCHANGED <<creating, hold, billed, adjusted>>

\* The deposit will not come: its payment reserve is given back.
ReleaseDeposit(t, s) ==
  /\ NewlyReleased(topup[t], s)
  /\ topup' = [topup EXCEPT ![t] = Updated(@, s)]
  /\ \E seed \in Money : /\ seed = OpenDeposits(topup')
                         /\ wallet' = Unpend(Seeded(wallet, seed), Amount[t])
  /\ UNCHANGED <<ledger, creating, reversal, hold, billed, funded, adjusted>>

\* The provider reports the payment itself as refunded.
ReverseTopup(t, s) ==
  /\ NewlyReversed(topup[t], s)
  /\ topup' = [topup EXCEPT ![t] = Updated(@, s)]
  /\ wallet' = Defund(wallet, Amount[t])
  /\ ledger' = ledger - Amount[t]
  /\ UNCHANGED <<creating, reversal, hold, billed, funded, adjusted>>

\* Any other report changes the top-up row at most.
NoteStatus(t, s) ==
  /\ ~NewlyCredited(topup[t], s) /\ ~NewlyReleased(topup[t], s) /\ ~NewlyReversed(topup[t], s)
  /\ topup' = [topup EXCEPT ![t] = Updated(@, s)]
  /\ UNCHANGED <<wallet, ledger, creating, reversal, hold, billed, funded, adjusted>>

ApplyApiProviderStatus(t, s) ==
  /\ topup[t].status # "none"
  /\ CreditTopup(t, s) \/ ReleaseDeposit(t, s) \/ ReverseTopup(t, s) \/ NoteStatus(t, s)

-----------------------------------------------------------------------------
\* addWorkspaceManualFundingAdjustment of an administrator.  A first credit
\* creates the wallet row without seeding its payment reserve; a debit never
\* takes more than the balance.
CreditManually(a, x) ==
  /\ adjusted[a] = 0
  /\ adjusted' = [adjusted EXCEPT ![a] = x]
  /\ wallet' = Fund([wallet EXCEPT !.exists = TRUE], x)
  /\ ledger' = ledger + x
  /\ funded' = Announce(<<"manual", a>>, wallet')
  /\ UNCHANGED <<topup, creating, reversal, hold, billed>>

DebitManually(a, x) ==
  /\ adjusted[a] = 0
  /\ wallet.available >= x
  /\ adjusted' = [adjusted EXCEPT ![a] = -x]
  /\ wallet' = Defund(wallet, x)
  /\ ledger' = ledger - x
  /\ UNCHANGED <<topup, creating, reversal, hold, billed, funded>>

-----------------------------------------------------------------------------
\* Holds for AI work.

ReserveAiSpend(q, h) ==
  /\ hold[q].status = "none"
  /\ wallet.debt = 0 /\ wallet.available >= h
  /\ wallet' = [wallet EXCEPT !.available = @ - h, !.reserved = @ + h]
  /\ hold' = [hold EXCEPT ![q] = [status |-> "RESERVED", amount |-> h]]
  /\ UNCHANGED <<ledger, topup, creating, reversal, billed, funded, adjusted>>

SetStatus(q, from, to) ==
  /\ hold[q].status \in from
  /\ hold' = [hold EXCEPT ![q].status = to]
  /\ UNCHANGED <<wallet, ledger, topup, creating, reversal, billed, funded, adjusted>>

MarkAiSpendSubmitting(q) == SetStatus(q, {"RESERVED"}, "SUBMITTING")

\* A hold that is SUBMITTED under the same provider id stays as it is.
MarkAiSpendSubmitted(q) == SetStatus(q, {"SUBMITTING"}, "SUBMITTED")

MarkAiSpendAmbiguous(q) == SetStatus(q, {"SUBMITTING", "SUBMITTED"}, "AMBIGUOUS")

\* Variant: a repeated release is not recognised.
ReleasableAgain(q, disposition) == hold[q].status \in {"RESERVED", "SUBMITTING", "RELEASED"}

Releasable(q, disposition) ==
  \/ hold[q].status = "RESERVED" /\ disposition = "BEFORE_SUBMISSION"
  \/ hold[q].status = "SUBMITTING" /\ disposition = "DEFINITIVE_REJECTION"

ReleaseAiSpend(q, disposition) ==
  LET held == hold[q].amount
  IN /\ Releasable(q, disposition)
     /\ wallet.reserved >= held
     /\ wallet' = [Repay(wallet, held) EXCEPT !.reserved = @ - held]
     /\ hold' = [hold EXCEPT ![q].status = "RELEASED"]
     /\ funded' = Announce(<<"release", q>>, wallet')
     /\ UNCHANGED <<ledger, topup, creating, reversal, billed, adjusted>>

\* The charge never exceeds the hold; what is left of it pays debt first.
SettleAiSpend(q, cost) ==
  LET held == hold[q].amount
      charged == Smaller(cost, held)
      unused == held - charged
      returned == Less(unused, wallet.debt)
  IN /\ hold[q].status \in {"SUBMITTING", "SUBMITTED", "AMBIGUOUS"}
     /\ wallet.reserved >= held
     /\ wallet' = [Repay(wallet, unused) EXCEPT !.reserved = @ - held,
                                                 !.spent = @ + charged]
     /\ hold' = [hold EXCEPT ![q].status = "SETTLED"]
     /\ funded' = IF returned > 0 THEN Announce(<<"settle", q>>, wallet') ELSE funded
     /\ UNCHANGED <<ledger, topup, creating, reversal, billed, adjusted>>

-----------------------------------------------------------------------------
\* Debits without a hold.

\* debitApiWallet: usage that has happened is charged even beyond the balance.
DebitApiWallet(u, cost) ==
  /\ u \notin billed /\ cost > 0
  /\ \E seed \in Money :
       /\ seed = OpenDeposits(topup)
       /\ wallet' = [Owe(Seeded(wallet, seed), cost) EXCEPT !.spent = @ + cost]
  /\ billed' = billed \cup {u}
  /\ UNCHANGED <<ledger, topup, creating, reversal, hold, funded, adjusted>>

\* chargeComposioUsage: a call that is not covered is refused, and the wallet
\* row its transaction created is rolled back with it.
ChargeComposioUsage(u, price) ==
  /\ u \notin billed /\ price > 0
  /\ wallet.debt = 0 /\ wallet.available >= price
  /\ wallet' = [wallet EXCEPT !.available = @ - price, !.spent = @ + price]
  /\ billed' = billed \cup {u}
  /\ UNCHANGED <<ledger, topup, creating, reversal, hold, funded, adjusted>>

-----------------------------------------------------------------------------
Deposits ==
  \/ \E t \in Topups : CreateApiTopup(t) \/ AttachApiProviderPayment(t) \/ FailApiTopup(t)
  \/ \E t \in Topups, s \in PaymentStatuses : ApplyApiProviderStatus(t, s)
  \/ \E r \in Reversals, active \in BOOLEAN, stamp \in 1 .. MaxStamp :
       RecordAirwallexWalletReversal(r, active, stamp)

Spending ==
  \/ \E q \in Requests :
       \/ \E h \in HoldAmounts : ReserveAiSpend(q, h)
       \/ MarkAiSpendSubmitting(q) \/ MarkAiSpendSubmitted(q) \/ MarkAiSpendAmbiguous(q)
       \/ \E d \in {"BEFORE_SUBMISSION", "DEFINITIVE_REJECTION"} : ReleaseAiSpend(q, d)
       \/ \E cost \in Costs : SettleAiSpend(q, cost)
  \/ \E u \in Usages, cost \in Costs : DebitApiWallet(u, cost) \/ ChargeComposioUsage(u, cost)

Manual ==
  \E a \in Adjustments, x \in AdjustAmounts : CreditManually(a, x) \/ DebitManually(a, x)

Next == EnsureWallet \/ Deposits \/ Manual \/ Spending

Spec == Init /\ [][Next]_vars

-----------------------------------------------------------------------------
\* Type correctness of the rows.
TypeOK ==
  /\ wallet \in Wallets
  /\ ledger \in Int
  /\ topup \in [Topups -> [status : {"none", "SUCCEEDED"} \cup Open \cup Ended,
                           credited : BOOLEAN,
                           credit : {"NOT_CREDITED", "AVAILABLE", "REVERSED"}]]
  /\ creating \in SUBSET Topups
  /\ reversal \in [Reversals -> [recorded : BOOLEAN, active : BOOLEAN,
                                 stamp : 0 .. MaxStamp, applied : Nat]]
  /\ hold \in [Requests -> [status : {"none", "SETTLED", "RELEASED"} \cup Unresolved,
                            amount : Nat]]
  /\ billed \in SUBSET Usages
  /\ funded \in SUBSET ({"topup"} \X Topups \cup {"release", "settle"} \X Requests
                        \cup {"manual"} \X Adjustments)
  /\ adjusted \in [Adjustments -> Int]

\* No money appears or disappears: balance, holds and spending are what the
\* funding entries of the ledger brought in, and what is owed on top.
Conservation ==
  wallet.available + wallet.reserved + wallet.spent = ledger + wallet.debt

\* A workspace that owes money has no balance: every way money comes in pays
\* the debt first, and nothing is held or spent from it meanwhile.
DebtExcludesBalance == wallet.debt > 0 => wallet.available = 0

\* reserved_amount is the total of the holds that are not resolved, the equality
\* getAiReservationHealth looks for.
HoldsMatch ==
  wallet.reserved =
    SumFunctionOnSet([q \in Requests |-> hold[q].amount],
                     {q \in Requests : hold[q].status \in Unresolved})

\* What is left of a credited top-up after its refunds and disputes.
Remaining(t) ==
  IF ~topup[t].credited \/ topup[t].credit = "REVERSED" THEN 0
  ELSE Amount[t] - SumFunctionOnSet([r \in Reversals |-> reversal[r].applied],
                                    {r \in Reversals : ReversalOf[r] = t})

\* Each payment is credited exactly once and each refund, dispute or manual
\* adjustment taken exactly once, however often and in whatever order they are
\* reported.  total_funded_amount is that sum, until a reversal of money that an
\* administrator has already taken out is clipped at 0.
FundedMatchesTopups ==
  /\ ledger = SumFunction([t \in Topups |-> Remaining(t)]) + SumFunction(adjusted)
  /\ wallet.funded >= ledger
  /\ (\A a \in Adjustments : adjusted[a] >= 0) => wallet.funded = ledger

\* A reversal in force has been taken from its top-up if that was ever credited,
\* also when it was reported before the payment, and not otherwise.
ReversalsAreApplied ==
  \A r \in Reversals :
    reversal[r].applied =
      IF topup[ReversalOf[r]].credited /\ reversal[r].active THEN ReversalAmount[r] ELSE 0

\* A settled or released hold is final: no late mark, release or settlement
\* moves its money a second time.
ResolvedIsFinal ==
  [][\A q \in Requests : hold[q].status \in {"SETTLED", "RELEASED"} => hold'[q] = hold[q]]_vars

\* A refund or dispute of t is withdrawn in this step.
Withdrawn(t) ==
  \E r \in Reversals : ReversalOf[r] = t /\ reversal[r].active /\ ~reversal'[r].active

\* Refunds and disputes in force cover t, or its row says so.
Refunded(t) ==
  \/ ActiveSum(t, reversal) >= Amount[t]
  \/ topup[t].status = "REFUNDED" \/ topup[t].credit = "REVERSED"

\* "Refunds and chargebacks are terminal even when their webhook arrives before a
\* delayed success notification" (api-wallet.repo.ts): nothing of a refunded
\* top-up becomes balance, whether its payment was reported before or is reported
\* later, until a refund or dispute is withdrawn.  This holds of refunds that
\* Airwallex reports as resources of their own; it does not hold of one that it
\* reports as the status of a payment whose success has not been seen, README.md.
RefundIsTerminal ==
  [][\A t \in Topups : Refunded(t) => Remaining(t)' = 0 \/ Withdrawn(t)]_vars

\* Work that was paused for want of funds is woken: a step that makes the wallet
\* spendable again appends an event under a key of its own, so that it is not
\* taken for one appended before.  A dispute that is withdrawn appends none.
FundsWakeWork ==
  [][~Spendable(wallet) /\ Spendable(wallet')
       => funded' # funded \/ \E t \in Topups : Withdrawn(t)]_vars

\* The payment reserve covers every deposit that is still pending.
PendingPaymentsHeld == wallet.exists => wallet.payment >= OpenDeposits(topup)
=============================================================================
