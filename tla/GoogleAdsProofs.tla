-------------------------- MODULE GoogleAdsProofs --------------------------
(***************************************************************************)
(* The advertising wallet and its campaigns, for any number of top-ups,    *)
(* authorizations, calls, workers and launches and any amounts.  First the *)
(* wallet of module AdSpend: rows keep their types, no money appears or    *)
(* disappears, no authorization is exceeded, only settled deposits count,  *)
(* and the wallet and the authorizations agree with the reservations.      *)
(* Then the campaigns: every step of module GoogleAds is a step of that    *)
(* wallet or leaves it alone, a launch is sent at most once, its budget    *)
(* stays held while Google may run it, at most one allocation is open,     *)
(* what is finalized stays so, and no cost is charged to two launches      *)
(* while no two cycles of workers handle one row.                          *)
(***************************************************************************)
EXTENDS GoogleAds, SumTheorems

\* What is in the wallet, held, spent, less what is owed.
NetOf(w) == w.available + w.reserved + w.spent - w.debt

\* GREATEST(0, a - b) is an amount.
LEMMA LessNat ==
  ASSUME NEW a \in Nat, NEW b \in Nat
  PROVE  Less(a, b) \in Nat /\ a + Less(b, a) = b + Less(a, b)
BY DEF Less

\* Money that comes in raises the net by its amount.
LEMMA RepayNet ==
  ASSUME NEW w \in Wallets, NEW x \in Nat
  PROVE  /\ Repay(w, x) \in Wallets
         /\ NetOf(Repay(w, x)) = NetOf(w) + x
         /\ Repay(w, x).reserved = w.reserved
<1>1. /\ w.available \in Nat /\ w.debt \in Nat /\ w.reserved \in Nat /\ w.spent \in Nat
  BY DEF Wallets
<1>2. /\ Less(x, w.debt) \in Nat /\ Less(w.debt, x) \in Nat
      /\ x + Less(w.debt, x) = w.debt + Less(x, w.debt)
  BY <1>1, LessNat
<1>3. w.available + Less(x, w.debt) \in Nat
  BY <1>1, <1>2
<1>4. Repay(w, x) \in Wallets
  BY <1>2, <1>3 DEF Repay, Wallets
<1>5. /\ Repay(w, x).available = w.available + Less(x, w.debt)
      /\ Repay(w, x).debt = Less(w.debt, x)
      /\ Repay(w, x).reserved = w.reserved /\ Repay(w, x).spent = w.spent
  BY DEF Repay, Wallets
<1> QED BY <1>1, <1>2, <1>4, <1>5 DEF NetOf

\* Money that goes out lowers it, into debt if need be.
LEMMA OweNet ==
  ASSUME NEW w \in Wallets, NEW x \in Nat
  PROVE  Owe(w, x) \in Wallets /\ NetOf(Owe(w, x)) = NetOf(w) - x
<1>1. /\ w.available \in Nat /\ w.debt \in Nat /\ w.reserved \in Nat /\ w.spent \in Nat
  BY DEF Wallets
<1>2. /\ Less(x, w.available) \in Nat /\ Less(w.available, x) \in Nat
      /\ x + Less(w.available, x) = w.available + Less(x, w.available)
  BY <1>1, LessNat
<1>3. w.debt + Less(x, w.available) \in Nat
  BY <1>1, <1>2
<1>4. Owe(w, x) \in Wallets
  BY <1>2, <1>3 DEF Owe, Wallets
<1>5. /\ Owe(w, x).available = Less(w.available, x)
      /\ Owe(w, x).debt = w.debt + Less(x, w.available)
      /\ Owe(w, x).reserved = w.reserved /\ Owe(w, x).spent = w.spent
  BY DEF Owe, Wallets
<1> QED BY <1>1, <1>2, <1>4, <1>5 DEF NetOf

\* Seeding the row and pending payments move no money.
LEMMA SeedNet ==
  ASSUME NEW w \in Wallets, NEW x \in Nat
  PROVE  /\ Seeded(w, x) \in Wallets /\ NetOf(Seeded(w, x)) = NetOf(w)
         /\ Unpend(w, x) \in Wallets /\ NetOf(Unpend(w, x)) = NetOf(w)
         /\ [w EXCEPT !.payment = @ + x] \in Wallets
         /\ NetOf([w EXCEPT !.payment = @ + x]) = NetOf(w)
<1>1. w.payment \in Nat
  BY DEF Wallets
<1>2. Less(w.payment, x) \in Nat
  BY <1>1, LessNat
<1>3. w.payment + x \in Nat
  BY <1>1
<1> QED BY <1>2, <1>3 DEF Seeded, Unpend, NetOf, Wallets

-----------------------------------------------------------------------------
\* The inductive invariant: types, conservation and the authorized ceiling.
AdInv == AdTypeOK /\ NetOf(wallet) = deposited /\ WithinAuthorization

BudgetsKept == UNCHANGED <<auth, ended, reservation>>

\* A step that leaves budgets and reservations alone keeps the invariant if it
\* keeps the wallet's books.
LEMMA DepositStep ==
  ASSUME AdInv, BudgetsKept, topup' \in [Topups -> [status : {"none", "SUCCEEDED"} \cup Open \cup Ended,
                                             credited : BOOLEAN,
                                             credit : {"NOT_CREDITED", "AVAILABLE", "REVERSED"}]],
         creating' \in SUBSET Topups, wallet' \in Wallets, deposited' \in Int,
         NetOf(wallet') = deposited'
  PROVE  AdInv'
BY DEF AdInv, AdTypeOK, BudgetsKept, WithinAuthorization

\* A report changes the wallet by what it changes the sum of deposits by.
LEMMA AppliedNet ==
  ASSUME NEW w \in Wallets, NEW t \in Topups, NEW s, NEW verified \in BOOLEAN
  PROVE  /\ Applied(t, s, verified, w) \in Wallets
         /\ Gain(t, s, verified) \in Int
         /\ NetOf(Applied(t, s, verified, w)) = NetOf(w) + Gain(t, s, verified)
<1>1. Net[t] \in Nat
  BY AdSpendAssumption
<1>2. NetOf(w) \in Int
  BY DEF NetOf, Wallets
<1>3. CASE NewlyCredited(topup[t], s, verified)
  <2>1. Unpend(w, Net[t]) \in Wallets /\ NetOf(Unpend(w, Net[t])) = NetOf(w)
    BY <1>1, SeedNet
  <2>2. /\ Repay(Unpend(w, Net[t]), Net[t]) \in Wallets
        /\ NetOf(Repay(Unpend(w, Net[t]), Net[t])) = NetOf(w) + Net[t]
    BY <1>1, <2>1, RepayNet
  <2>3. /\ Applied(t, s, verified, w) = Repay(Unpend(w, Net[t]), Net[t])
        /\ Gain(t, s, verified) = Net[t]
    BY <1>3 DEF Applied, Gain
  <2> QED BY <1>1, <2>2, <2>3
<1>4. CASE /\ ~NewlyCredited(topup[t], s, verified)
           /\ NewlyReleased(topup[t], s)
  <2>1. Unpend(w, Net[t]) \in Wallets /\ NetOf(Unpend(w, Net[t])) = NetOf(w)
    BY <1>1, SeedNet
  <2>2. Applied(t, s, verified, w) = Unpend(w, Net[t]) /\ Gain(t, s, verified) = 0
    BY <1>4 DEF Applied, Gain
  <2> QED BY <1>2, <2>1, <2>2
<1>5. CASE /\ ~NewlyCredited(topup[t], s, verified)
           /\ ~NewlyReleased(topup[t], s) /\ NewlyReversed(topup[t], s)
  <2>1. Owe(w, Net[t]) \in Wallets /\ NetOf(Owe(w, Net[t])) = NetOf(w) - Net[t]
    BY <1>1, OweNet
  <2>2. Applied(t, s, verified, w) = Owe(w, Net[t]) /\ Gain(t, s, verified) = -Net[t]
    BY <1>5 DEF Applied, Gain
  <2> QED BY <1>1, <1>2, <2>1, <2>2
<1>6. CASE /\ ~NewlyCredited(topup[t], s, verified)
           /\ ~NewlyReleased(topup[t], s) /\ ~NewlyReversed(topup[t], s)
  <2>1. Applied(t, s, verified, w) = w /\ Gain(t, s, verified) = 0
    BY <1>6 DEF Applied, Gain
  <2> QED BY <1>2, <2>1
<1> QED BY <1>3, <1>4, <1>5, <1>6

\* Deposits that come in, fall through or are taken back keep the books.
LEMMA DepositsInv ==
  ASSUME AdInv, Deposits
  PROVE  AdInv'
<1> USE DEF AdInv, AdTypeOK
<1>1. Money \subseteq Nat
  BY AdSpendAssumption DEF Money
<1>2. \A t \in Topups : Net[t] \in Nat
  BY AdSpendAssumption
<1>3. ASSUME EnsureWallet PROVE AdInv'
  <2>1. PICK seed \in Money : wallet' = Seeded(wallet, seed)
    BY <1>3 DEF EnsureWallet
  <2>2. wallet' \in Wallets /\ NetOf(wallet') = NetOf(wallet)
    BY <1>1, <2>1, SeedNet
  <2> QED BY <1>3, <2>2, DepositStep DEF EnsureWallet, BudgetsKept, deposits
<1>4. ASSUME NEW t \in Topups, CreateAdSpendTopup(t) PROVE AdInv'
  <2>1. wallet' \in Wallets /\ NetOf(wallet') = NetOf(wallet)
    BY <1>2, <1>4, SeedNet DEF CreateAdSpendTopup
  <2>2. /\ topup' \in [Topups -> [status : {"none", "SUCCEEDED"} \cup Open \cup Ended,
                                  credited : BOOLEAN,
                                  credit : {"NOT_CREDITED", "AVAILABLE", "REVERSED"}]]
        /\ creating' \in SUBSET Topups
    BY <1>4 DEF CreateAdSpendTopup, Open
  <2> QED BY <1>4, <2>1, <2>2, DepositStep DEF CreateAdSpendTopup, BudgetsKept
<1>5. ASSUME NEW t \in Topups, AttachAdSpendProviderPayment(t) PROVE AdInv'
  <2>1. /\ topup' \in [Topups -> [status : {"none", "SUCCEEDED"} \cup Open \cup Ended,
                                  credited : BOOLEAN,
                                  credit : {"NOT_CREDITED", "AVAILABLE", "REVERSED"}]]
        /\ creating' \in SUBSET Topups
    BY <1>5 DEF AttachAdSpendProviderPayment, Open
  <2> QED BY <1>5, <2>1, DepositStep DEF AttachAdSpendProviderPayment, BudgetsKept
<1>6. ASSUME NEW t \in Topups, FailAdSpendTopup(t) PROVE AdInv'
  <2>1. creating' \in SUBSET Topups /\ BudgetsKept /\ deposited' = deposited
    BY <1>6 DEF FailAdSpendTopup, BudgetsKept
  <2>2. CASE UNCHANGED <<topup, wallet>>
    BY <2>1, <2>2, DepositStep
  <2>3. CASE ~UNCHANGED <<topup, wallet>>
    <3>1. PICK seed \in Money : /\ topup' = [topup EXCEPT ![t].status = "FAILED"]
                                /\ wallet' = Unpend(Seeded(wallet, seed), Net[t])
      BY <1>6, <2>3 DEF FailAdSpendTopup
    <3>2. Seeded(wallet, seed) \in Wallets /\ NetOf(Seeded(wallet, seed)) = NetOf(wallet)
      BY <1>1, SeedNet
    <3>3. wallet' \in Wallets /\ NetOf(wallet') = NetOf(wallet)
      BY <1>2, <3>1, <3>2, SeedNet
    <3>4. topup' \in [Topups -> [status : {"none", "SUCCEEDED"} \cup Open \cup Ended,
                                 credited : BOOLEAN,
                                 credit : {"NOT_CREDITED", "AVAILABLE", "REVERSED"}]]
      BY <3>1 DEF Ended
    <3> QED BY <2>1, <3>3, <3>4, DepositStep
  <2> QED BY <2>2, <2>3
<1>7. ASSUME NEW t \in Topups, HoldAdSpendTopupForSettlement(t) PROVE AdInv'
  <2>1. wallet' \in Wallets /\ NetOf(wallet') = NetOf(wallet) - Net[t]
    <3>1. wallet.available - Net[t] \in Nat /\ wallet.payment + Net[t] \in Nat
      BY <1>2, <1>7 DEF HoldAdSpendTopupForSettlement, Wallets
    <3> QED BY <1>2, <1>7, <3>1 DEF HoldAdSpendTopupForSettlement, Wallets, NetOf
  <2>2. topup' \in [Topups -> [status : {"none", "SUCCEEDED"} \cup Open \cup Ended,
                               credited : BOOLEAN,
                               credit : {"NOT_CREDITED", "AVAILABLE", "REVERSED"}]]
    BY <1>7 DEF HoldAdSpendTopupForSettlement
  <2>3. deposited' = deposited - Net[t] /\ deposited' \in Int /\ creating' = creating /\ BudgetsKept
    BY <1>2, <1>7 DEF HoldAdSpendTopupForSettlement, BudgetsKept
  <2> QED BY <2>1, <2>2, <2>3, DepositStep
<1>8. ASSUME NEW t \in Topups, NEW s \in PaymentStatuses, NEW verified \in BOOLEAN,
             ApplyAdSpendProviderStatus(t, s, verified)
      PROVE  AdInv'
  <2>1. Effective(topup[t], s) \in {"none", "SUCCEEDED"} \cup Open \cup Ended
    BY AdStatusAssumption DEF Effective
  <2>2. topup' \in [Topups -> [status : {"none", "SUCCEEDED"} \cup Open \cup Ended,
                               credited : BOOLEAN,
                               credit : {"NOT_CREDITED", "AVAILABLE", "REVERSED"}]]
    <3>1. Updated(topup[t], s, verified)
            \in [status : {"none", "SUCCEEDED"} \cup Open \cup Ended, credited : BOOLEAN,
                 credit : {"NOT_CREDITED", "AVAILABLE", "REVERSED"}]
      <4>1. /\ topup[t].credited \in BOOLEAN
            /\ topup[t].credit \in {"NOT_CREDITED", "AVAILABLE", "REVERSED"}
        OBVIOUS
      <4> QED BY <2>1, <4>1 DEF Updated
    <3> QED BY <1>8, <3>1 DEF ApplyAdSpendProviderStatus
  <2>3. PICK seed \in Money :
          wallet' = IF Settling(t, s, verified)
                    THEN Applied(t, s, verified, Seeded(wallet, seed)) ELSE wallet
    BY <1>8 DEF ApplyAdSpendProviderStatus
  <2>4. deposited' = deposited + Gain(t, s, verified) /\ creating' = creating /\ BudgetsKept
    BY <1>8 DEF ApplyAdSpendProviderStatus, BudgetsKept
  <2>5. Seeded(wallet, seed) \in Wallets /\ NetOf(Seeded(wallet, seed)) = NetOf(wallet)
    BY <1>1, SeedNet
  <2>6. /\ wallet' \in Wallets /\ Gain(t, s, verified) \in Int
        /\ NetOf(wallet') = NetOf(wallet) + Gain(t, s, verified)
    <3>1. CASE Settling(t, s, verified)
      BY <2>3, <2>5, <3>1, AppliedNet
    <3>2. CASE ~Settling(t, s, verified)
      <4>1. Gain(t, s, verified) = 0
        BY <3>2 DEF Settling, Gain
      <4>2. NetOf(wallet) \in Int
        BY DEF NetOf, Wallets
      <4> QED BY <2>3, <3>2, <4>1, <4>2
    <3> QED BY <3>1, <3>2
  <2> QED BY <2>2, <2>4, <2>6, DepositStep
<1> QED BY <1>3, <1>4, <1>5, <1>6, <1>7, <1>8 DEF Deposits

-----------------------------------------------------------------------------
\* Authorizing, revoking and expiry leave every amount alone.
LEMMA BudgetsInv ==
  ASSUME AdInv, Budgets
  PROVE  AdInv'
<1> USE DEF AdInv, AdTypeOK
<1>1. UNCHANGED <<wallet, deposits, reservation>> /\ ended' \in SUBSET Authorizations
  BY DEF Budgets, CreateAdBudgetAuthorization, RevokeAdBudgetAuthorization, AuthorizationEnds
<1> DEFINE Status == {"none", "ACTIVE", "REVOKED", "EXHAUSTED", "EXPIRED"}
<1>2. /\ auth' \in [Authorizations -> [status : Status, reserved : Nat, consumed : Nat]]
      /\ \A a \in Authorizations : /\ auth'[a].reserved = auth[a].reserved
                                   /\ auth'[a].consumed = auth[a].consumed
  <2>1. PICK a \in Authorizations : \/ CreateAdBudgetAuthorization(a)
                                    \/ RevokeAdBudgetAuthorization(a)
                                    \/ AuthorizationEnds(a)
    BY DEF Budgets
  <2>2. CASE CreateAdBudgetAuthorization(a)
    BY <2>2 DEF CreateAdBudgetAuthorization
  <2>3. CASE RevokeAdBudgetAuthorization(a)
    BY <2>3 DEF RevokeAdBudgetAuthorization
  <2>4. CASE AuthorizationEnds(a)
    BY <2>4 DEF AuthorizationEnds
  <2> QED BY <2>1, <2>2, <2>3, <2>4
<1>3. WithinAuthorization'
  BY <1>2 DEF WithinAuthorization
<1> QED BY <1>1, <1>2, <1>3 DEF deposits

\* A step that moves money between balance, holds and spending and its
\* authorization a alike keeps the invariant.
LEMMA ReservationStep ==
  ASSUME AdInv, NEW a \in Authorizations, UNCHANGED <<deposits, ended>>,
         wallet' \in Wallets, NetOf(wallet') = NetOf(wallet),
         NEW r \in [status : {"none", "ACTIVE", "REVOKED", "EXHAUSTED", "EXPIRED"},
                    reserved : Nat, consumed : Nat],
         auth' = [auth EXCEPT ![a] = r],
         r.reserved + r.consumed <= Authorized[a],
         reservation' \in [Keys -> [status : {"none", "RESERVED", "RELEASED", "CONSUMED"},
                                    settled : Nat]]
  PROVE  AdInv'
<1> USE DEF AdInv, AdTypeOK
<1>1. auth' \in [Authorizations ->
                   [status : {"none", "ACTIVE", "REVOKED", "EXHAUSTED", "EXPIRED"},
                    reserved : Nat, consumed : Nat]]
  OBVIOUS
<1>2. WithinAuthorization'
  BY DEF WithinAuthorization
<1> QED BY <1>1, <1>2 DEF deposits

\* Giving a hold back returns it to the balance and to the authorization.
LEMMA GiveBackInv ==
  ASSUME AdInv, NEW k \in Keys, Left(k) \in Nat, UNCHANGED <<deposits, ended>>,
         NEW s \in {"none", "ACTIVE", "REVOKED", "EXHAUSTED", "EXPIRED"}, GiveBack(k, s)
  PROVE  AdInv'
<1> USE DEF AdInv, AdTypeOK
<1> DEFINE a == AuthOf[k]
           w == Repay(wallet, Left(k))
           r == [auth[a] EXCEPT !.reserved = @ - Left(k), !.status = s]
<1>1. a \in Authorizations /\ Authorized[a] \in Nat
  BY AdSpendAssumption
<1>2. w \in Wallets /\ NetOf(w) = NetOf(wallet) + Left(k) /\ w.reserved = wallet.reserved
  BY RepayNet
<1>3. wallet' \in Wallets /\ NetOf(wallet') = NetOf(wallet)
  <2>1. wallet' = [w EXCEPT !.reserved = @ - Left(k)] /\ wallet.reserved >= Left(k)
    BY DEF GiveBack
  <2>2. w.reserved - Left(k) \in Nat
    BY <1>2, <2>1 DEF Wallets
  <2>3. wallet' \in Wallets /\ NetOf(wallet') = NetOf(w) - Left(k)
    BY <1>2, <2>1, <2>2 DEF NetOf, Wallets
  <2>4. NetOf(wallet) \in Int
    BY DEF NetOf, Wallets
  <2> QED BY <1>2, <2>3, <2>4
<1>4. /\ auth[a].reserved \in Nat /\ auth[a].consumed \in Nat
      /\ auth[a].reserved >= Left(k)
      /\ auth[a].reserved + auth[a].consumed <= Authorized[a]
  BY <1>1 DEF GiveBack, WithinAuthorization
<1>5. /\ r \in [status : {"none", "ACTIVE", "REVOKED", "EXHAUSTED", "EXPIRED"},
                reserved : Nat, consumed : Nat]
      /\ r.reserved + r.consumed <= Authorized[a]
  <2>1. auth[a].reserved - Left(k) \in Nat
    BY <1>4
  <2>2. auth[a] \in [status : {"none", "ACTIVE", "REVOKED", "EXHAUSTED", "EXPIRED"},
                     reserved : Nat, consumed : Nat]
    BY <1>1
  <2>3. /\ r \in [status : {"none", "ACTIVE", "REVOKED", "EXHAUSTED", "EXPIRED"},
                  reserved : Nat, consumed : Nat]
        /\ r.reserved = auth[a].reserved - Left(k) /\ r.consumed = auth[a].consumed
    BY <2>1, <2>2
  <2> QED BY <1>1, <1>4, <2>3
<1>6. auth' = [auth EXCEPT ![a] = r]
  BY DEF GiveBack
<1>7. reservation' \in [Keys -> [status : {"none", "RESERVED", "RELEASED", "CONSUMED"},
                                 settled : Nat]]
  BY DEF GiveBack
<1> QED BY <1>1, <1>3, <1>5, <1>6, <1>7, ReservationStep

\* Reserving, settling, releasing and finalizing keep the books and the ceiling.
LEMMA ReservationsInv ==
  ASSUME AdInv, Reservations
  PROVE  AdInv'
<1> USE DEF AdInv, AdTypeOK
<1> DEFINE Status == {"none", "ACTIVE", "REVOKED", "EXHAUSTED", "EXPIRED"}
           Held == [status : {"none", "RESERVED", "RELEASED", "CONSUMED"}, settled : Nat]
<1>1. \A k \in Keys : /\ AuthOf[k] \in Authorizations /\ Amount[k] \in Nat
                      /\ auth[AuthOf[k]].reserved \in Nat /\ auth[AuthOf[k]].consumed \in Nat
                      /\ auth[AuthOf[k]].status \in Status
                      /\ Authorized[AuthOf[k]] \in Nat
                      /\ auth[AuthOf[k]].reserved + auth[AuthOf[k]].consumed <= Authorized[AuthOf[k]]
                      /\ reservation[k].settled \in Nat
  BY AdSpendAssumption DEF WithinAuthorization
<1>2. ASSUME NEW k \in Keys, ReserveAdSpend(k) PROVE AdInv'
  <2> DEFINE a == AuthOf[k]
             r == [auth[a] EXCEPT !.reserved = @ + Amount[k]]
  <2>1. /\ r \in [status : Status, reserved : Nat, consumed : Nat]
        /\ r.reserved + r.consumed <= Authorized[a]
    <3>1. Authorized[a] - auth[a].reserved - auth[a].consumed >= Amount[k]
      BY <1>2 DEF ReserveAdSpend, Covered
    <3> QED BY <1>1, <3>1
  <2>2. wallet' \in Wallets /\ NetOf(wallet') = NetOf(wallet)
    <3>1. wallet.available \in Nat /\ wallet.reserved \in Nat /\ wallet.available >= Amount[k]
      BY <1>2 DEF ReserveAdSpend, Covered, Wallets
    <3>2. wallet.available - Amount[k] \in Nat /\ wallet.reserved + Amount[k] \in Nat
      BY <1>1, <3>1
    <3>3. wallet' \in Wallets
      BY <1>2, <3>2 DEF ReserveAdSpend, Wallets
    <3>4. /\ wallet'.available = wallet.available - Amount[k]
          /\ wallet'.reserved = wallet.reserved + Amount[k]
          /\ wallet'.spent = wallet.spent /\ wallet'.debt = wallet.debt
      BY <1>2 DEF ReserveAdSpend, Wallets
    <3>5. wallet.spent \in Nat /\ wallet.debt \in Nat
      BY DEF Wallets
    <3> QED BY <1>1, <3>1, <3>3, <3>4, <3>5 DEF NetOf
  <2>3. auth' = [auth EXCEPT ![a] = r] /\ reservation' \in [Keys -> Held]
    BY <1>2 DEF ReserveAdSpend
  <2>4. a \in Authorizations /\ UNCHANGED <<deposits, ended>>
    BY <1>1, <1>2 DEF ReserveAdSpend
  <2> HIDE DEF r
  <2> QED BY <2>1, <2>2, <2>3, <2>4, ReservationStep
<1>3. ASSUME NEW k \in Keys, NEW target \in 0 .. Amount[k], SettleReservation(k, target)
      PROVE  AdInv'
  <2> DEFINE a == AuthOf[k]
             delta == target - reservation[k].settled
             r == [auth[a] EXCEPT !.reserved = @ - delta, !.consumed = @ + delta]
  <2>1. delta \in Int /\ target \in Nat
    BY <1>1
  <2>2. /\ wallet.reserved >= delta /\ wallet.spent >= -delta
        /\ auth[a].reserved >= delta /\ auth[a].consumed >= -delta
        /\ wallet' = [wallet EXCEPT !.reserved = @ - delta, !.spent = @ + delta]
        /\ auth' = [auth EXCEPT ![a] = r]
        /\ reservation' = [reservation EXCEPT ![k].settled = target]
        /\ UNCHANGED <<deposits, ended>>
    BY <1>3 DEF SettleReservation, SettledTo
  <2> HIDE DEF delta
  <2>3. /\ auth[a].reserved \in Nat /\ auth[a].consumed \in Nat /\ auth[a].status \in Status
        /\ Authorized[a] \in Nat /\ auth[a].reserved + auth[a].consumed <= Authorized[a]
        /\ auth[a] \in [status : Status, reserved : Nat, consumed : Nat]
    BY <1>1
  <2>4. auth[a].reserved - delta \in Nat /\ auth[a].consumed + delta \in Nat
    BY <2>1, <2>2, <2>3
  <2>8. /\ r \in [status : Status, reserved : Nat, consumed : Nat]
        /\ r.reserved = auth[a].reserved - delta /\ r.consumed = auth[a].consumed + delta
    BY <2>3, <2>4
  <2>9. r.reserved + r.consumed <= Authorized[a]
    BY <2>1, <2>3, <2>8
  <2>4a. /\ wallet.reserved \in Nat /\ wallet.spent \in Nat
         /\ wallet.available \in Nat /\ wallet.debt \in Nat
    BY DEF Wallets
  <2>5. wallet.reserved - delta \in Nat /\ wallet.spent + delta \in Nat
    BY <2>1, <2>2, <2>4a
  <2>6. wallet' \in Wallets /\ NetOf(wallet') = NetOf(wallet)
    <3>1. wallet' \in Wallets
      BY <2>2, <2>5 DEF Wallets
    <3>2. /\ wallet'.available = wallet.available /\ wallet'.debt = wallet.debt
          /\ wallet'.reserved = wallet.reserved - delta /\ wallet'.spent = wallet.spent + delta
      BY <2>2 DEF Wallets
    <3> QED BY <2>1, <2>4a, <3>1, <3>2 DEF NetOf
  <2>7. reservation' \in [Keys -> Held]
    BY <2>1, <2>2
  <2> QED BY <1>1, <2>2, <2>6, <2>7, <2>8, <2>9, ReservationStep
<1>4. \A k \in Keys : Left(k) > 0 => Left(k) \in Nat
  BY <1>1 DEF Left
<1>5. ASSUME NEW k \in Keys, ReleaseAdSpendReservation(k) PROVE AdInv'
  <2>1. CASE Left(k) > 0 /\ GiveBack(k, auth[AuthOf[k]].status)
    BY <1>1, <1>4, <1>5, <2>1, GiveBackInv DEF ReleaseAdSpendReservation
  <2>2. CASE Consumed(k) /\ UNCHANGED <<wallet, auth>>
    BY <1>5, <2>2 DEF ReleaseAdSpendReservation, Consumed, WithinAuthorization, deposits
  <2> QED BY <1>5, <2>1, <2>2 DEF ReleaseAdSpendReservation
<1>6. ASSUME NEW k \in Keys, FinalizeReservation(k) PROVE AdInv'
  <2>1. StatusAfter(AuthOf[k]) \in Status
    BY <1>1 DEF StatusAfter
  <2>2. CASE Left(k) > 0 /\ GiveBack(k, StatusAfter(AuthOf[k]))
    BY <1>4, <1>6, <2>1, <2>2, GiveBackInv DEF FinalizeReservation
  <2>3. CASE /\ Consumed(k) /\ UNCHANGED wallet
             /\ auth' = [auth EXCEPT ![AuthOf[k]].status = StatusAfter(AuthOf[k])]
    <3> DEFINE r == [auth[AuthOf[k]] EXCEPT !.status = StatusAfter(AuthOf[k])]
    <3>1. /\ r \in [status : Status, reserved : Nat, consumed : Nat]
          /\ r.reserved + r.consumed <= Authorized[AuthOf[k]]
      BY <1>1, <2>1
    <3>2. auth' = [auth EXCEPT ![AuthOf[k]] = r] /\ reservation' \in [Keys -> Held]
      BY <2>3 DEF Consumed
    <3>3. wallet' \in Wallets /\ NetOf(wallet') = NetOf(wallet) /\ UNCHANGED <<deposits, ended>>
      BY <1>6, <2>3 DEF FinalizeReservation
    <3> QED BY <1>1, <3>1, <3>2, <3>3, ReservationStep
  <2> QED BY <1>6, <2>2, <2>3 DEF FinalizeReservation
<1> QED BY <1>2, <1>3, <1>5, <1>6 DEF Reservations

-----------------------------------------------------------------------------
LEMMA AdInvInit == AdInit => AdInv
<1> SUFFICES ASSUME AdInit PROVE AdInv
  OBVIOUS
<1>1. AdTypeOK /\ NetOf(wallet) = deposited
  BY DEF AdInit, AdTypeOK, Wallets, NetOf
<1>2. WithinAuthorization
  BY AdSpendAssumption DEF AdInit, WithinAuthorization
<1> QED BY <1>1, <1>2 DEF AdInv

LEMMA AdInvNext == AdInv /\ [AdNext]_adVars => AdInv'
<1> SUFFICES ASSUME AdInv, [AdNext]_adVars PROVE AdInv'
  OBVIOUS
<1>1. CASE UNCHANGED adVars
  BY <1>1 DEF adVars, AdInv, AdTypeOK, WithinAuthorization
<1> QED BY <1>1, DepositsInv, BudgetsInv, ReservationsInv DEF AdNext

LEMMA AdInvAlways == AdSpec => []AdInv
BY AdInvInit, AdInvNext, PTL DEF AdSpec

\* Rows keep their types: no balance, hold, spending, debt or authorized amount
\* ever falls below zero.
THEOREM AdTypesHold == AdSpec => []AdTypeOK
<1>1. AdInv => AdTypeOK
  BY DEF AdInv
<1> QED BY <1>1, AdInvAlways, PTL

\* Balance, holds and spending are what was deposited, and what is owed on top.
THEOREM AdMoneyIsConserved == AdSpec => []AdConservation
<1>1. AdInv => AdConservation
  BY DEF AdInv, AdTypeOK, Wallets, NetOf, AdConservation
<1> QED BY <1>1, AdInvAlways, PTL

\* No authorization is ever exceeded by what is held and spent under it.
THEOREM AuthorizationsHold == AdSpec => []WithinAuthorization
<1>1. AdInv => WithinAuthorization
  BY DEF AdInv
<1> QED BY <1>1, AdInvAlways, PTL

-----------------------------------------------------------------------------
\* Settled deposits.

\* What was deposited is what the rows say is credited.
SettledDepositsOnly == deposited = CreditedTotal

\* What the rows of two states differ in, when they differ in top-up t.
LEMMA CreditChange ==
  ASSUME AdTypeOK, SettledDepositsOnly, NEW t \in Topups,
         \A u \in Topups \ {t} : topup'[u].credit = topup[u].credit,
         deposited' = deposited - (IF topup[t].credit = "AVAILABLE" THEN Net[t] ELSE 0)
                                + (IF topup'[t].credit = "AVAILABLE" THEN Net[t] ELSE 0)
  PROVE  SettledDepositsOnly'
<1> DEFINE S == {u \in Topups : topup[u].credit = "AVAILABLE"}
           U == {u \in Topups : topup'[u].credit = "AVAILABLE"}
<1>1. IsFiniteSet(S) /\ IsFiniteSet(U)
  BY AdSpendFinite, FS_Subset
<1>2. \A u \in Topups : Net[u] \in Int
  BY AdSpendAssumption
<1>3. S \ {t} = U \ {t}
  OBVIOUS
<1>4. SumFunctionOnSet(Net, U) = SumFunctionOnSet(Net, S) - (IF t \in S THEN Net[t] ELSE 0)
                                                        + (IF t \in U THEN Net[t] ELSE 0)
  BY <1>1, <1>2, <1>3, SumChange
<1>5. deposited = SumFunctionOnSet(Net, S)
  BY DEF SettledDepositsOnly, CreditedTotal
<1>6. deposited' = SumFunctionOnSet(Net, U)
  BY <1>4, <1>5
<1> QED BY <1>6 DEF SettledDepositsOnly, CreditedTotal

\* A deposit that counts is marked as credited, and is not refunded.
CreditInv ==
  \A t \in Topups : topup[t].credit = "AVAILABLE"
                     => topup[t].credited /\ topup[t].status # "REFUNDED"

DepositBooks == AdTypeOK /\ CreditInv /\ SettledDepositsOnly

\* Nothing but a report, or a deposit that is held again, changes what counts.
LEMMA DepositBooksStep ==
  ASSUME DepositBooks, [AdNext]_adVars
  PROVE  CreditInv' /\ SettledDepositsOnly'
<1> USE DEF DepositBooks, AdTypeOK
<1>1. \A t \in Topups : Net[t] \in Nat
  BY AdSpendAssumption
<1>2. ASSUME deposited' = deposited,
             \A t \in Topups : topup'[t].credit = topup[t].credit
      PROVE  SettledDepositsOnly'
  BY <1>2 DEF SettledDepositsOnly, CreditedTotal
<1>3. CASE UNCHANGED deposits
  BY <1>2, <1>3 DEF deposits, CreditInv
<1>4. CASE EnsureWallet
  BY <1>3, <1>4 DEF EnsureWallet
<1>5. ASSUME NEW t \in Topups, CreateAdSpendTopup(t) PROVE CreditInv' /\ SettledDepositsOnly'
  BY <1>2, <1>5 DEF CreateAdSpendTopup, CreditInv
<1>6. ASSUME NEW t \in Topups, AttachAdSpendProviderPayment(t)
      PROVE  CreditInv' /\ SettledDepositsOnly'
  BY <1>2, <1>6 DEF AttachAdSpendProviderPayment, CreditInv
<1>7. ASSUME NEW t \in Topups, FailAdSpendTopup(t) PROVE CreditInv' /\ SettledDepositsOnly'
  BY <1>2, <1>7 DEF FailAdSpendTopup, CreditInv
<1>8. ASSUME NEW t \in Topups, HoldAdSpendTopupForSettlement(t)
      PROVE  CreditInv' /\ SettledDepositsOnly'
  <2>1. /\ topup[t].credit = "AVAILABLE" /\ topup'[t].credit = "NOT_CREDITED"
        /\ \A u \in Topups \ {t} : topup'[u] = topup[u]
        /\ deposited' = deposited - Net[t]
    BY <1>8 DEF HoldAdSpendTopupForSettlement
  <2>2. SettledDepositsOnly'
    BY <1>1, <2>1, CreditChange
  <2> QED BY <2>1, <2>2 DEF CreditInv
<1>9. ASSUME NEW t \in Topups, NEW s \in PaymentStatuses, NEW verified \in BOOLEAN,
             ApplyAdSpendProviderStatus(t, s, verified)
      PROVE  CreditInv' /\ SettledDepositsOnly'
  <2>1. /\ \A u \in Topups \ {t} : topup'[u] = topup[u]
        /\ topup'[t] = Updated(topup[t], s, verified)
        /\ deposited' = deposited + Gain(t, s, verified)
    BY <1>9 DEF ApplyAdSpendProviderStatus
  <2>2. topup[t].credit = "AVAILABLE" => topup[t].credited /\ topup[t].status # "REFUNDED"
    BY DEF CreditInv
  <2>3. topup[t].credited \in BOOLEAN
    OBVIOUS
  <2>4. /\ topup'[t].credit = "AVAILABLE" => topup'[t].credited /\ topup'[t].status # "REFUNDED"
        /\ Gain(t, s, verified)
             = (IF topup'[t].credit = "AVAILABLE" THEN Net[t] ELSE 0)
                - (IF topup[t].credit = "AVAILABLE" THEN Net[t] ELSE 0)
    BY <1>1, <2>1, <2>2, <2>3 DEF Updated, Effective, Gain, NewlyCredited, NewlyReleased,
                                  NewlyReversed, Ended
  <2>5. SettledDepositsOnly'
    BY <1>1, <2>1, <2>4, CreditChange
  <2> QED BY <2>1, <2>4, <2>5 DEF CreditInv
<1>10. CASE Budgets
  BY <1>3, <1>10 DEF Budgets, CreateAdBudgetAuthorization, RevokeAdBudgetAuthorization,
                     AuthorizationEnds
<1>11. CASE Reservations
  BY <1>3, <1>11 DEF Reservations, ReserveAdSpend, ReleaseAdSpendReservation,
                     FinalizeReservation, SettleReservation
<1> QED BY <1>3, <1>4, <1>5, <1>6, <1>7, <1>8, <1>9, <1>10, <1>11
        DEF AdNext, Deposits, adVars, deposits

-----------------------------------------------------------------------------
\* The wallet and the authorizations against the reservations.

\* What reservation k holds.
Held(k) == IF reservation[k].status = "RESERVED" THEN Left(k) ELSE 0

\* A hold is never settled beyond its amount, nor before it is taken.
SettledInv ==
  \A k \in Keys : /\ reservation[k].status = "RESERVED" => reservation[k].settled <= Amount[k]
                  /\ reservation[k].status = "none" => reservation[k].settled = 0

ReservationRows == [status : {"none", "RESERVED", "RELEASED", "CONSUMED"}, settled : Nat]

\* Under authorization a, the sums change by what reservation k changes by if
\* it is taken from a.
LEMMA UnderChange ==
  ASSUME reservation \in [Keys -> ReservationRows], reservation' \in [Keys -> ReservationRows], NEW k \in Keys,
         \A j \in Keys \ {k} : reservation'[j] = reservation[j],
         NEW a \in Authorizations
  PROVE  /\ HeldUnder(a) \in Int /\ SettledUnder(a) \in Int
         /\ HeldUnder(a)' = HeldUnder(a) + (IF a = AuthOf[k] THEN Held(k)' - Held(k) ELSE 0)
         /\ SettledUnder(a)' = SettledUnder(a)
                + (IF a = AuthOf[k] THEN reservation'[k].settled - reservation[k].settled ELSE 0)
<1> DEFINE left == [j \in Keys |-> Left(j)]
           held == {j \in Keys : AuthOf[j] = a /\ reservation[j].status = "RESERVED"}
           left1 == [j \in Keys |-> Left(j)']
           held1 == {j \in Keys : AuthOf[j] = a /\ reservation'[j].status = "RESERVED"}
           under == {j \in Keys : AuthOf[j] = a}
           settled == [j \in Keys |-> reservation[j].settled]
           settled1 == [j \in Keys |-> reservation'[j].settled]
<1>1. IsFiniteSet(held) /\ IsFiniteSet(held1) /\ IsFiniteSet(under)
  BY AdSpendFinite, FS_Subset
<1>2. \A j \in Keys : /\ left[j] \in Int /\ left1[j] \in Int
                      /\ settled[j] \in Int /\ settled1[j] \in Int
  BY AdSpendAssumption DEF Left, ReservationRows
<1>3. /\ HeldUnder(a) = SumFunctionOnSet(left, held) /\ HeldUnder(a)' = SumFunctionOnSet(left1, held1)
      /\ SettledUnder(a) = SumFunctionOnSet(settled, under)
      /\ SettledUnder(a)' = SumFunctionOnSet(settled1, under)
  BY DEF HeldUnder, SettledUnder
<1>4. held \ {k} = held1 \ {k} /\ \A j \in held \ {k} : left[j] = left1[j]
  BY DEF Left
<1>5. \A j \in under \ {k} : settled[j] = settled1[j]
  OBVIOUS
<1>6. /\ left[k] = Left(k) /\ left1[k] = Left(k)'
      /\ settled[k] = reservation[k].settled /\ settled1[k] = reservation'[k].settled
      /\ k \in held <=> (a = AuthOf[k] /\ reservation[k].status = "RESERVED")
      /\ k \in held1 <=> (a = AuthOf[k] /\ reservation'[k].status = "RESERVED")
      /\ k \in under <=> a = AuthOf[k]
  OBVIOUS
<1>7. \A j \in held : left[j] \in Int
  BY <1>2
<1>8. \A j \in held1 : left1[j] \in Int
  BY <1>2
<1>9. \A j \in under : settled[j] \in Int /\ settled1[j] \in Int
  BY <1>2
<1>10. Left(k) \in Int /\ Left(k)' \in Int
  BY <1>2, <1>6
<1> HIDE DEF left, left1, held, held1, under, settled, settled1
<1>11. /\ SumFunctionOnSet(left, held) \in Int
       /\ SumFunctionOnSet(left1, held1)
            = SumFunctionOnSet(left, held) - (IF k \in held THEN left[k] ELSE 0)
                                           + (IF k \in held1 THEN left1[k] ELSE 0)
  BY <1>1, <1>4, <1>7, <1>8, SumChange
<1>12. /\ SumFunctionOnSet(settled, under) \in Int
       /\ SumFunctionOnSet(settled1, under)
            = SumFunctionOnSet(settled, under) - (IF k \in under THEN settled[k] ELSE 0)
                                               + (IF k \in under THEN settled1[k] ELSE 0)
  BY <1>1, <1>5, <1>9, SumChange
<1>13. HeldUnder(a)' = HeldUnder(a) + (IF a = AuthOf[k] THEN Held(k)' - Held(k) ELSE 0)
  BY <1>3, <1>6, <1>10, <1>11 DEF Held
<1>14. SettledUnder(a)' = SettledUnder(a)
          + (IF a = AuthOf[k] THEN reservation'[k].settled - reservation[k].settled ELSE 0)
  <2>1. k \in under => settled[k] \in Int /\ settled1[k] \in Int
    BY <1>9
  <2> QED BY <1>3, <1>6, <1>12, <2>1
<1> QED BY <1>3, <1>11, <1>12, <1>13, <1>14

\* Over all authorizations, they change by what reservation k changes by.
LEMMA BooksStep ==
  ASSUME AdTypeOK, AdTypeOK', BooksAgree, NEW k \in Keys,
         \A j \in Keys \ {k} : reservation'[j] = reservation[j],
         NEW dh \in Int, dh = Held(k)' - Held(k),
         NEW ds \in Int, ds = reservation'[k].settled - reservation[k].settled,
         wallet'.reserved = wallet.reserved + dh, wallet'.spent = wallet.spent + ds,
         \A a \in Authorizations :
           /\ auth'[a].reserved = auth[a].reserved + (IF a = AuthOf[k] THEN dh ELSE 0)
           /\ auth'[a].consumed = auth[a].consumed + (IF a = AuthOf[k] THEN ds ELSE 0)
  PROVE  BooksAgree'
<1> DEFINE h == [a \in Authorizations |-> HeldUnder(a)]
           h1 == [a \in Authorizations |-> HeldUnder(a)']
           e == [a \in Authorizations |-> SettledUnder(a)]
           e1 == [a \in Authorizations |-> SettledUnder(a)']
           A == Authorizations
           c == AuthOf[k]
<1>1. c \in A
  BY AdSpendAssumption
<1>2. \A a \in A : /\ h[a] \in Int /\ e[a] \in Int
                   /\ h1[a] = h[a] + (IF a = c THEN dh ELSE 0)
                   /\ e1[a] = e[a] + (IF a = c THEN ds ELSE 0)
  BY UnderChange DEF AdTypeOK, ReservationRows
<1>3. \A a \in A : h1[a] \in Int /\ e1[a] \in Int
  BY <1>2
<1>4. \A a \in A \ {c} : h[a] = h1[a] /\ e[a] = e1[a]
  BY <1>2
<1>5. /\ wallet.reserved = SumFunctionOnSet(h, A) /\ wallet.spent = SumFunctionOnSet(e, A)
      /\ \A a \in A : auth[a].reserved = h[a] /\ auth[a].consumed = e[a]
  BY DEF BooksAgree, SumFunction
<1>6. h1[c] = h[c] + dh /\ e1[c] = e[c] + ds /\ h[c] \in Int /\ e[c] \in Int
  BY <1>1, <1>2
<1>7. \A a \in A : auth'[a].reserved = h1[a] /\ auth'[a].consumed = e1[a]
  BY <1>2, <1>5
<1> HIDE DEF h, h1, e, e1, c
<1>8. /\ SumFunctionOnSet(h, A) \in Int
      /\ SumFunctionOnSet(h1, A) = SumFunctionOnSet(h, A) - (IF c \in A THEN h[c] ELSE 0)
                                                          + (IF c \in A THEN h1[c] ELSE 0)
  BY <1>2, <1>3, <1>4, AdSpendFinite, SumChange
<1>9. /\ SumFunctionOnSet(e, A) \in Int
      /\ SumFunctionOnSet(e1, A) = SumFunctionOnSet(e, A) - (IF c \in A THEN e[c] ELSE 0)
                                                          + (IF c \in A THEN e1[c] ELSE 0)
  BY <1>2, <1>3, <1>4, AdSpendFinite, SumChange
<1>10. SumFunctionOnSet(h1, A) = wallet'.reserved /\ SumFunctionOnSet(e1, A) = wallet'.spent
  BY <1>1, <1>5, <1>6, <1>8, <1>9
<1> QED BY <1>7, <1>10 DEF BooksAgree, SumFunction, h1, e1

\* Deposits and budgets leave what is held and spent alone.
LEMMA BooksSame ==
  ASSUME BooksAgree, SettledInv, UNCHANGED reservation,
         wallet'.reserved = wallet.reserved, wallet'.spent = wallet.spent,
         \A a \in Authorizations : /\ auth'[a].reserved = auth[a].reserved
                                  /\ auth'[a].consumed = auth[a].consumed
  PROVE  SettledInv' /\ BooksAgree'
<1>1. \A a \in Authorizations : HeldUnder(a)' = HeldUnder(a) /\ SettledUnder(a)' = SettledUnder(a)
  BY DEF HeldUnder, SettledUnder, Left
<1>2. /\ [a \in Authorizations |-> HeldUnder(a)'] = [a \in Authorizations |-> HeldUnder(a)]
      /\ [a \in Authorizations |-> SettledUnder(a)'] = [a \in Authorizations |-> SettledUnder(a)]
  BY <1>1
<1>3. BooksAgree'
  BY <1>1, <1>2 DEF BooksAgree
<1> QED BY <1>3 DEF SettledInv

SameFunds(w, v) == w.reserved = v.reserved /\ w.spent = v.spent

\* Deposits do not touch what is held and spent in the wallet.
LEMMA FundsKept ==
  ASSUME NEW w \in Wallets, NEW x \in Nat
  PROVE  /\ SameFunds(Repay(w, x), w) /\ SameFunds(Owe(w, x), w) /\ SameFunds(Seeded(w, x), w)
         /\ SameFunds(Unpend(w, x), w) /\ SameFunds([w EXCEPT !.payment = @ + x], w)
BY DEF Wallets, SameFunds, Repay, Owe, Seeded, Unpend

\* Deposits move neither holds nor spending, in the wallet or in authorizations.
LEMMA DepositsKeepBooks ==
  ASSUME AdTypeOK, BooksAgree, SettledInv, Deposits
  PROVE  SettledInv' /\ BooksAgree'
<1> USE DEF AdTypeOK
<1>1. Money \subseteq Nat /\ \A t \in Topups : Net[t] \in Nat
  BY AdSpendAssumption DEF Money
<1>2. UNCHANGED <<auth, reservation>>
  BY DEF Deposits, EnsureWallet, CreateAdSpendTopup, AttachAdSpendProviderPayment,
         FailAdSpendTopup, HoldAdSpendTopupForSettlement, ApplyAdSpendProviderStatus
<1>3. \A seed \in Money : Seeded(wallet, seed) \in Wallets /\ SameFunds(Seeded(wallet, seed), wallet)
  BY <1>1, SeedNet, FundsKept
<1>4. ASSUME EnsureWallet PROVE SameFunds(wallet', wallet)
  BY <1>3, <1>4 DEF EnsureWallet
<1>5. ASSUME NEW t \in Topups, CreateAdSpendTopup(t) PROVE SameFunds(wallet', wallet)
  BY <1>1, <1>5, FundsKept DEF CreateAdSpendTopup, SameFunds
<1>6. ASSUME NEW t \in Topups, AttachAdSpendProviderPayment(t) PROVE SameFunds(wallet', wallet)
  BY <1>6 DEF AttachAdSpendProviderPayment, SameFunds
<1>7. ASSUME NEW t \in Topups, FailAdSpendTopup(t) PROVE SameFunds(wallet', wallet)
  <2>1. CASE UNCHANGED wallet
    BY <2>1 DEF SameFunds
  <2>2. CASE ~UNCHANGED wallet
    <3>1. PICK seed \in Money : wallet' = Unpend(Seeded(wallet, seed), Net[t])
      BY <1>7, <2>2 DEF FailAdSpendTopup
    <3>2. SameFunds(Unpend(Seeded(wallet, seed), Net[t]), Seeded(wallet, seed))
      BY <1>1, <1>3, FundsKept
    <3> QED BY <1>3, <3>1, <3>2 DEF SameFunds
  <2> QED BY <2>1, <2>2
<1>8. ASSUME NEW t \in Topups, HoldAdSpendTopupForSettlement(t) PROVE SameFunds(wallet', wallet)
  BY <1>8 DEF HoldAdSpendTopupForSettlement, SameFunds, Wallets
<1>9. ASSUME NEW t \in Topups, NEW s \in PaymentStatuses, NEW verified \in BOOLEAN,
              ApplyAdSpendProviderStatus(t, s, verified)
       PROVE  SameFunds(wallet', wallet)
  <2>1. PICK seed \in Money :
          wallet' = IF Settling(t, s, verified)
                    THEN Applied(t, s, verified, Seeded(wallet, seed)) ELSE wallet
    BY <1>9 DEF ApplyAdSpendProviderStatus
  <2> DEFINE w == Seeded(wallet, seed)
  <2>2. w \in Wallets /\ SameFunds(w, wallet)
    BY <1>3
  <2> HIDE DEF w
  <2>3. /\ SameFunds(Unpend(w, Net[t]), w) /\ SameFunds(Owe(w, Net[t]), w)
        /\ Unpend(w, Net[t]) \in Wallets
    BY <1>1, <2>2, FundsKept, SeedNet
  <2>4. SameFunds(Repay(Unpend(w, Net[t]), Net[t]), Unpend(w, Net[t]))
    BY <1>1, <2>3, FundsKept
  <2>5. SameFunds(Applied(t, s, verified, w), w)
    BY <2>3, <2>4 DEF Applied, SameFunds
  <2> QED BY <2>1, <2>2, <2>5 DEF SameFunds, w
<1>10. SameFunds(wallet', wallet)
  BY <1>4, <1>5, <1>6, <1>7, <1>8, <1>9 DEF Deposits
<1> QED BY <1>2, <1>10, BooksSame DEF SameFunds

\* Neither do the operations on authorizations.
LEMMA BudgetsKeepBooks ==
  ASSUME AdTypeOK, BooksAgree, SettledInv, Budgets
  PROVE  SettledInv' /\ BooksAgree'
<1> USE DEF AdTypeOK
<1>1. UNCHANGED <<wallet, reservation>>
  BY DEF Budgets, CreateAdBudgetAuthorization, RevokeAdBudgetAuthorization, AuthorizationEnds
<1>2. \A a \in Authorizations : /\ auth'[a].reserved = auth[a].reserved
                               /\ auth'[a].consumed = auth[a].consumed
  BY DEF Budgets, CreateAdBudgetAuthorization, RevokeAdBudgetAuthorization, AuthorizationEnds
<1> QED BY <1>1, <1>2, BooksSame

\* Reserving, settling, releasing and finalizing change the wallet and the
\* authorization by what they change the reservation by.
LEMMA ReservationsKeepBooks ==
  ASSUME AdTypeOK, AdTypeOK', BooksAgree, SettledInv, Reservations
  PROVE  SettledInv' /\ BooksAgree'
<1> DEFINE Status == {"none", "ACTIVE", "REVOKED", "EXHAUSTED", "EXPIRED"}
<1>1. /\ \A k \in Keys : /\ AuthOf[k] \in Authorizations /\ Amount[k] \in Nat
                         /\ reservation[k].settled \in Nat
                         /\ reservation[k] \in ReservationRows
      /\ wallet \in Wallets /\ wallet.reserved \in Nat /\ wallet.spent \in Nat
      /\ \A a \in Authorizations : /\ auth[a].reserved \in Nat /\ auth[a].consumed \in Nat
                                   /\ auth[a] \in [status : Status, reserved : Nat, consumed : Nat]
      /\ auth \in [Authorizations -> [status : Status, reserved : Nat, consumed : Nat]]
      /\ reservation \in [Keys -> ReservationRows]
  BY AdSpendAssumption DEF AdTypeOK, Wallets, ReservationRows
<1>2. ASSUME NEW k \in Keys, GiveBack(k, auth'[AuthOf[k]].status),
             reservation[k].status = "RESERVED"
      PROVE  SettledInv' /\ BooksAgree'
  <2> DEFINE dh == 0 - Left(k)
             c == AuthOf[k]
             s == auth'[c].status
  <2>1. /\ reservation'[k].status = "RELEASED" /\ reservation'[k].settled = reservation[k].settled
        /\ \A j \in Keys \ {k} : reservation'[j] = reservation[j]
    BY <1>1, <1>2 DEF GiveBack, ReservationRows
  <2>2. Left(k) \in Int /\ dh \in Int
    BY <1>1 DEF Left
  <2>3. dh = Held(k)' - Held(k) /\ 0 = reservation'[k].settled - reservation[k].settled
    BY <1>1, <1>2, <2>1, <2>2 DEF Held
  <2>4. wallet'.reserved = wallet.reserved + dh /\ wallet'.spent = wallet.spent + 0
    <3>1. Left(k) \in Nat
      BY <1>1, <1>2 DEF Left, SettledInv
    <3> DEFINE w == Repay(wallet, Left(k))
    <3>2. w \in Wallets /\ SameFunds(w, wallet)
      BY <1>1, <3>1, RepayNet, FundsKept
    <3>3. wallet' = [w EXCEPT !.reserved = @ - Left(k)]
      BY <1>2 DEF GiveBack
    <3> HIDE DEF w
    <3>4. wallet'.reserved = w.reserved - Left(k) /\ wallet'.spent = w.spent
      BY <3>2, <3>3 DEF Wallets
    <3> QED BY <1>1, <2>2, <3>2, <3>4 DEF SameFunds
  <2>5. \A a \in Authorizations :
          /\ auth'[a].reserved = auth[a].reserved + (IF a = c THEN dh ELSE 0)
          /\ auth'[a].consumed = auth[a].consumed + (IF a = c THEN 0 ELSE 0)
    <3>1. auth' = [auth EXCEPT ![c].reserved = @ - Left(k), ![c].status = s]
      BY <1>2 DEF GiveBack
    <3> HIDE DEF s
    <3>2. TAKE a \in Authorizations
    <3>3. CASE a = c
      BY <1>1, <2>2, <3>1, <3>3
    <3>4. CASE a # c
      BY <1>1, <3>1, <3>4
    <3> QED BY <3>3, <3>4
  <2> HIDE DEF dh
  <2>6. BooksAgree'
    BY <2>1, <2>2, <2>3, <2>4, <2>5, BooksStep
  <2>7. SettledInv'
    BY <2>1 DEF SettledInv
  <2> QED BY <2>6, <2>7
<1>3. ASSUME NEW k \in Keys, Left(k) = 0, Consumed(k), reservation[k].status = "RESERVED",
             UNCHANGED wallet,
             \A a \in Authorizations : /\ auth'[a].reserved = auth[a].reserved
                                      /\ auth'[a].consumed = auth[a].consumed
      PROVE  SettledInv' /\ BooksAgree'
  <2>1. /\ reservation'[k].status = "CONSUMED" /\ reservation'[k].settled = reservation[k].settled
        /\ \A j \in Keys \ {k} : reservation'[j] = reservation[j]
    BY <1>1, <1>3 DEF Consumed, ReservationRows
  <2>2. 0 = Held(k)' - Held(k) /\ 0 = reservation'[k].settled - reservation[k].settled
    BY <1>1, <1>3, <2>1 DEF Held
  <2>3. wallet'.reserved = wallet.reserved + 0 /\ wallet'.spent = wallet.spent + 0
    BY <1>1, <1>3
  <2>4. \A a \in Authorizations :
          /\ auth'[a].reserved = auth[a].reserved + (IF a = AuthOf[k] THEN 0 ELSE 0)
          /\ auth'[a].consumed = auth[a].consumed + (IF a = AuthOf[k] THEN 0 ELSE 0)
    BY <1>1, <1>3
  <2>5. BooksAgree'
    BY <2>1, <2>2, <2>3, <2>4, BooksStep
  <2>6. SettledInv'
    BY <2>1 DEF SettledInv
  <2> QED BY <2>5, <2>6
<1>4. ASSUME NEW k \in Keys, ReserveAdSpend(k) PROVE SettledInv' /\ BooksAgree'
  <2> DEFINE dh == Amount[k]
             c == AuthOf[k]
  <2>1. /\ reservation[k].status = "none" /\ reservation[k].settled = 0
        /\ reservation'[k].status = "RESERVED" /\ reservation'[k].settled = 0
        /\ \A j \in Keys \ {k} : reservation'[j] = reservation[j]
    BY <1>1, <1>4 DEF ReserveAdSpend, ReservationRows, SettledInv
  <2>2. dh \in Int
    BY <1>1
  <2>3. dh = Held(k)' - Held(k) /\ 0 = reservation'[k].settled - reservation[k].settled
    BY <1>1, <2>1 DEF Held, Left
  <2>4. wallet'.reserved = wallet.reserved + dh /\ wallet'.spent = wallet.spent + 0
    BY <1>1, <1>4 DEF ReserveAdSpend, Wallets
  <2>5. \A a \in Authorizations :
          /\ auth'[a].reserved = auth[a].reserved + (IF a = c THEN dh ELSE 0)
          /\ auth'[a].consumed = auth[a].consumed + (IF a = c THEN 0 ELSE 0)
    BY <1>1, <1>4 DEF ReserveAdSpend
  <2>6. BooksAgree'
    BY <2>1, <2>2, <2>3, <2>4, <2>5, BooksStep
  <2>7. SettledInv'
    BY <1>1, <2>1 DEF SettledInv
  <2> QED BY <2>6, <2>7
<1>5. ASSUME NEW k \in Keys, NEW target \in 0 .. Amount[k], SettleReservation(k, target)
      PROVE  SettledInv' /\ BooksAgree'
  <2> DEFINE ds == target - reservation[k].settled
             dh == 0 - ds
             c == AuthOf[k]
  <2>1. target \in Nat /\ target <= Amount[k] /\ ds \in Int /\ dh \in Int
    BY <1>1
  <2>2. /\ reservation[k].status = "RESERVED"
        /\ reservation'[k].status = "RESERVED" /\ reservation'[k].settled = target
        /\ \A j \in Keys \ {k} : reservation'[j] = reservation[j]
    BY <1>1, <1>5 DEF SettleReservation, SettledTo, ReservationRows
  <2>3. dh = Held(k)' - Held(k) /\ ds = reservation'[k].settled - reservation[k].settled
    BY <1>1, <2>1, <2>2 DEF Held, Left
  <2>4. wallet'.reserved = wallet.reserved + dh /\ wallet'.spent = wallet.spent + ds
    <3>1. wallet' = [wallet EXCEPT !.reserved = @ - ds, !.spent = @ + ds]
      BY <1>5 DEF SettleReservation
    <3>2. wallet'.reserved = wallet.reserved - ds /\ wallet'.spent = wallet.spent + ds
      BY <1>1, <3>1 DEF Wallets
    <3> QED BY <1>1, <2>1, <3>2
  <2>5. \A a \in Authorizations :
          /\ auth'[a].reserved = auth[a].reserved + (IF a = c THEN dh ELSE 0)
          /\ auth'[a].consumed = auth[a].consumed + (IF a = c THEN ds ELSE 0)
    <3>1. auth' = [auth EXCEPT ![c].reserved = @ - ds, ![c].consumed = @ + ds]
      BY <1>5 DEF SettleReservation
    <3> HIDE DEF ds
    <3>2. TAKE a \in Authorizations
    <3>3. CASE a = c
      BY <1>1, <2>1, <3>1, <3>3
    <3>4. CASE a # c
      BY <1>1, <3>1, <3>4
    <3> QED BY <3>3, <3>4
  <2> HIDE DEF ds, dh
  <2>6. BooksAgree'
    BY <2>1, <2>2, <2>3, <2>4, <2>5, BooksStep
  <2>7. SettledInv'
    BY <2>1, <2>2 DEF SettledInv
  <2> QED BY <2>6, <2>7
<1>6. ASSUME NEW k \in Keys, ReleaseAdSpendReservation(k) PROVE SettledInv' /\ BooksAgree'
  <2>1. CASE Left(k) > 0 /\ GiveBack(k, auth[AuthOf[k]].status)
    <3>1. auth'[AuthOf[k]].status = auth[AuthOf[k]].status
      BY <1>1, <2>1 DEF GiveBack
    <3> QED BY <1>2, <1>6, <2>1, <3>1 DEF ReleaseAdSpendReservation
  <2>2. CASE Left(k) = 0 /\ Consumed(k) /\ UNCHANGED <<wallet, auth>>
    BY <1>3, <1>6, <2>2 DEF ReleaseAdSpendReservation
  <2> QED BY <1>6, <2>1, <2>2 DEF ReleaseAdSpendReservation
<1>7. ASSUME NEW k \in Keys, FinalizeReservation(k) PROVE SettledInv' /\ BooksAgree'
  <2> DEFINE s == StatusAfter(AuthOf[k])
  <2>1. CASE Left(k) > 0 /\ GiveBack(k, s)
    <3> HIDE DEF s
    <3>1. auth'[AuthOf[k]].status = s
      BY <1>1, <2>1 DEF GiveBack
    <3> QED BY <1>2, <1>7, <2>1, <3>1 DEF FinalizeReservation
  <2>2. CASE Left(k) = 0 /\ Consumed(k) /\ UNCHANGED wallet
             /\ auth' = [auth EXCEPT ![AuthOf[k]].status = s]
    <3> HIDE DEF s
    <3>1. \A a \in Authorizations : /\ auth'[a].reserved = auth[a].reserved
                                   /\ auth'[a].consumed = auth[a].consumed
      BY <1>1, <2>2
    <3> QED BY <1>3, <1>7, <2>2, <3>1 DEF FinalizeReservation
  <2> QED BY <1>7, <2>1, <2>2 DEF FinalizeReservation
<1> QED BY <1>4, <1>5, <1>6, <1>7 DEF Reservations

\* Everything the two properties rest on, in one invariant.
BooksInv == AdInv /\ CreditInv /\ SettledDepositsOnly /\ SettledInv /\ BooksAgree

\* At first nothing is deposited, held or spent.
LEMMA BooksInvInit == AdInit => BooksInv
<1> SUFFICES ASSUME AdInit PROVE BooksInv
  OBVIOUS
<1>1. AdInv
  BY AdInvInit
<1>2. CreditInv /\ SettledInv
  BY DEF AdInit, CreditInv, SettledInv
<1>3. SettledDepositsOnly
  <2>1. {t \in Topups : topup[t].credit = "AVAILABLE"} = {}
    BY DEF AdInit
  <2> QED BY <2>1, SumEmpty DEF AdInit, SettledDepositsOnly, CreditedTotal
<1>4. ASSUME NEW a \in Authorizations PROVE HeldUnder(a) = 0 /\ SettledUnder(a) = 0
  <2>1. {k \in Keys : AuthOf[k] = a /\ reservation[k].status = "RESERVED"} = {}
    BY DEF AdInit
  <2>2. IsFiniteSet({k \in Keys : AuthOf[k] = a})
    BY AdSpendFinite, FS_Subset
  <2>3. \A k \in Keys : [j \in Keys |-> reservation[j].settled][k] = 0
    BY DEF AdInit
  <2> QED BY <2>1, <2>2, <2>3, SumEmpty, SumZero DEF HeldUnder, SettledUnder
<1>5. BooksAgree
  <2>1. /\ SumFunctionOnSet([a \in Authorizations |-> HeldUnder(a)], Authorizations) = 0
        /\ SumFunctionOnSet([a \in Authorizations |-> SettledUnder(a)], Authorizations) = 0
    BY <1>4, AdSpendFinite, SumZero
  <2> QED BY <1>4, <2>1 DEF AdInit, BooksAgree, SumFunction
<1> QED BY <1>1, <1>2, <1>3, <1>5 DEF BooksInv

\* Every operation keeps the books.
LEMMA BooksInvNext == BooksInv /\ [AdNext]_adVars => BooksInv'
<1> SUFFICES ASSUME BooksInv, [AdNext]_adVars PROVE BooksInv'
  OBVIOUS
<1> USE DEF BooksInv
<1>1. AdInv' /\ AdTypeOK /\ AdTypeOK'
  BY AdInvNext DEF AdInv
<1>2. CreditInv' /\ SettledDepositsOnly'
  BY <1>1, DepositBooksStep DEF DepositBooks
<1>3. SettledInv' /\ BooksAgree'
  <2>1. CASE UNCHANGED adVars
    BY <2>1, BooksSame DEF adVars
  <2> QED BY <1>1, <2>1, DepositsKeepBooks, BudgetsKeepBooks, ReservationsKeepBooks DEF AdNext
<1> QED BY <1>1, <1>2, <1>3

\* The books agree in every reachable state.
LEMMA BooksInvAlways == AdSpec => []BooksInv
BY BooksInvInit, BooksInvNext, PTL DEF AdSpec

\* What is held and spent, in the wallet and under each authorization, is what
\* the reservations say, so that no release or settlement finds less than it
\* needs.
THEOREM AdBooksAgree == AdSpec => []BooksAgree
<1>1. BooksInv => BooksAgree
  BY DEF BooksInv
<1> QED BY <1>1, BooksInvAlways, PTL

\* Balance, holds and spending are the deposits whose rows say that they are
\* credited, each once, and what is owed on top.
THEOREM AdDepositsAreWhole == AdSpec => []DepositsAreWhole
<1>1. AdInv => AdConservation
  BY DEF AdInv, AdTypeOK, Wallets, NetOf, AdConservation
<1>2. BooksInv => DepositsAreWhole
  BY <1>1 DEF BooksInv, SettledDepositsOnly, CreditedTotal, AdConservation, DepositsAreWhole
<1> QED BY <1>2, BooksInvAlways, PTL

-----------------------------------------------------------------------------
\* Campaigns.

Closed == {"RELEASED", "CONSUMED"}

Unsent(r) == (r.at = "create" /\ ~r.dup) \/ r.at \in {"undo", "send"}

\* The call that made the reservation of its key, and decides what becomes of it.
Owner(r) == Unsent(r) \/ r.at \in {"applied", "rejected", "close", "uncertain"}

\* Steps of calls that work on an allocation that exists.
OnRow == {"send", "applied", "rejected", "close", "uncertain", "pause", "stopped", "unknown",
          "look", "enable", "resumed"}

RowInv(k) ==
  /\ alloc[k].launch = "none" => alloc[k].closure = "OPEN" /\ launches[k].sent = 0
  /\ alloc[k].launch # "none" => reservation[k].status # "none"
  /\ alloc[k].launch = "REJECTED" => alloc[k].closure = "FINALIZED"
  /\ alloc[k].closure = "FINALIZED" => reservation[k].status \in Closed
  /\ launches[k].sent <= 1
  /\ launches[k].accepted => launches[k].sent = 1
  /\ launches[k].accepted /\ alloc[k].closure # "FINALIZED" => reservation[k].status = "RESERVED"

CallInv(c) ==
  LET k == call[c].key
  IN /\ call[c].at # "idle" => k \in Keys
     /\ call[c].at \in OnRow => alloc[k].launch # "none"
     /\ Owner(call[c]) => reservation[k].status # "none"
     /\ Unsent(call[c]) => launches[k].sent = 0
     /\ call[c].at = "send" /\ alloc[k].closure # "FINALIZED" => reservation[k].status = "RESERVED"
     /\ call[c].at \in {"rejected", "close"} => ~launches[k].accepted
     /\ call[c].at = "close" => reservation[k].status \in Closed

OwnersInv ==
  \A c, d \in Callers :
    Owner(call[c]) /\ Owner(call[d]) /\ call[c].key = call[d].key => c = d

WorkerInv(w) ==
  worker[w].at # "idle" => worker[w].key \in Keys /\ alloc[worker[w].key].launch # "none"

OpenInv == \A j, k \in Keys : IsOpen(j) /\ IsOpen(k) => j = k

\* What the calls, the workers and the rows keep between them.
FlowInv ==
  /\ \A k \in Keys : RowInv(k)
  /\ \A c \in Callers : CallInv(c)
  /\ OwnersInv
  /\ \A w \in Workers : WorkerInv(w)
  /\ OpenInv

GInv == AdInv /\ TypeOK /\ FlowInv

-----------------------------------------------------------------------------
\* How rows and reservations move in a step that creates no allocation.

RowsStep ==
  \A k \in Keys :
    /\ alloc[k].launch = "none" => alloc'[k].launch = "none" /\ alloc'[k].closure = alloc[k].closure
    /\ alloc[k].launch # "none" => alloc'[k].launch # "none"
    /\ alloc[k].closure = "FINALIZED" => alloc'[k].closure = "FINALIZED"
    /\ alloc'[k].launch = "REJECTED" => alloc'[k].closure = "FINALIZED"
    /\ alloc'[k].closure = "FINALIZED" => reservation'[k].status \in Closed

StatusStep ==
  \A k \in Keys :
    \/ reservation'[k].status = reservation[k].status
    \/ reservation[k].status = "none" /\ reservation'[k].status = "RESERVED"
    \/ /\ reservation[k].status = "RESERVED" /\ reservation'[k].status \in Closed
       /\ \/ alloc'[k].closure = "FINALIZED"
          \/ /\ ~launches[k].accepted
             /\ \A c \in Callers : call[c].at = "send" => call[c].key # k

FinalKept == \A k \in Keys : alloc[k].closure = "FINALIZED" => alloc'[k].closure = "FINALIZED"

\* Such a step keeps the facts about rows, and about the calls that do not move.
LEMMA RowsKeep ==
  ASSUME TypeOK, FlowInv, RowsStep, StatusStep, launches' = launches
  PROVE  /\ \A k \in Keys : RowInv(k)'
         /\ \A c \in Callers : call'[c] = call[c] => CallInv(c)'
         /\ \A w \in Workers : worker'[w] = worker[w] => WorkerInv(w)'
         /\ OpenInv'
<1>1. ASSUME NEW k \in Keys PROVE RowInv(k)'
  <2>1. RowInv(k)
    BY DEF FlowInv
  <2>2. /\ alloc[k].launch = "none" => alloc'[k].launch = "none" /\ alloc'[k].closure = alloc[k].closure
        /\ alloc[k].launch # "none" => alloc'[k].launch # "none"
        /\ alloc[k].closure = "FINALIZED" => alloc'[k].closure = "FINALIZED"
        /\ alloc'[k].launch = "REJECTED" => alloc'[k].closure = "FINALIZED"
        /\ alloc'[k].closure = "FINALIZED" => reservation'[k].status \in Closed
    BY DEF RowsStep
  <2>3. \/ reservation'[k].status = reservation[k].status
        \/ reservation[k].status = "none" /\ reservation'[k].status = "RESERVED"
        \/ /\ reservation[k].status = "RESERVED" /\ reservation'[k].status \in Closed
           /\ alloc'[k].closure = "FINALIZED" \/ ~launches[k].accepted
    BY DEF StatusStep
  <2> QED BY <2>1, <2>2, <2>3 DEF RowInv, Closed
<1>2. ASSUME NEW c \in Callers, call'[c] = call[c] PROVE CallInv(c)'
  <2>1. CallInv(c)
    BY DEF FlowInv
  <2>2. CASE call[c].at = "idle"
    BY <1>2, <2>2 DEF CallInv, Owner, Unsent, OnRow
  <2>3. CASE call[c].at # "idle"
    <3> DEFINE k == call[c].key
    <3>1. k \in Keys
      BY <2>1, <2>3 DEF CallInv
    <3> HIDE DEF k
    <3>2. /\ alloc[k].launch # "none" => alloc'[k].launch # "none"
          /\ alloc[k].closure = "FINALIZED" => alloc'[k].closure = "FINALIZED"
      BY <3>1 DEF RowsStep
    <3>3. \/ reservation'[k].status = reservation[k].status
          \/ reservation[k].status = "none" /\ reservation'[k].status = "RESERVED"
          \/ /\ reservation[k].status = "RESERVED" /\ reservation'[k].status \in Closed
             /\ alloc'[k].closure = "FINALIZED" \/ (call[c].at = "send" => call[c].key # k)
      BY <3>1 DEF StatusStep
    <3> QED BY <1>2, <2>1, <2>3, <3>1, <3>2, <3>3 DEF CallInv, Closed, k
  <2> QED BY <2>2, <2>3
<1>3. ASSUME NEW w \in Workers, worker'[w] = worker[w] PROVE WorkerInv(w)'
  BY <1>3 DEF FlowInv, WorkerInv, RowsStep
<1>4. OpenInv'
  <2>1. ASSUME NEW k \in Keys, IsOpen(k)' PROVE IsOpen(k)
    BY <2>1 DEF IsOpen, RowsStep, FlowInv, RowInv
  <2> QED BY <2>1 DEF OpenInv, FlowInv
<1> QED BY <1>1, <1>2, <1>3, <1>4

\* A step of a worker or of nobody.
LEMMA WorkerMoves ==
  ASSUME TypeOK, FlowInv, RowsStep, StatusStep, UNCHANGED <<launches, call>>,
         \A w \in Workers : worker'[w] = worker[w] \/ WorkerInv(w)'
  PROVE  FlowInv' /\ FinalKept
BY RowsKeep DEF FlowInv, OwnersInv, FinalKept, RowsStep

\* A step of a call that sends nothing and reserves nothing.
LEMMA CallMoves ==
  ASSUME TypeOK, FlowInv, RowsStep, StatusStep, UNCHANGED <<launches, worker>>,
         NEW c \in Callers, \A d \in Callers \ {c} : call'[d] = call[d],
         CallInv(c)', Owner(call'[c]) => Owner(call[c]) /\ call'[c].key = call[c].key
  PROVE  FlowInv' /\ FinalKept
<1>1. OwnersInv'
  BY DEF FlowInv, OwnersInv
<1>2. FinalKept
  BY DEF FinalKept, RowsStep
<1> QED BY <1>1, <1>2, RowsKeep DEF FlowInv

-----------------------------------------------------------------------------
\* What the writers of closures and leases leave alone.
LEMMA RowWriters ==
  ASSUME NEW row \in Rows
  PROVE  /\ \A why \in {"automation", "other"} :
              /\ Closure(row, why) \in Rows /\ Closure(row, why).launch = row.launch
              /\ \/ Closure(row, why).closure = row.closure
                 \/ row.closure = "OPEN" /\ Closure(row, why).closure = "REQUESTED"
         /\ \A definitive \in BOOLEAN :
              /\ PauseOutcome(row, definitive) \in Rows
              /\ PauseOutcome(row, definitive).launch = row.launch
              /\ PauseOutcome(row, definitive).closure # "FINALIZED"
         /\ Unleased(row) \in Rows /\ Unleased(row).launch = row.launch
         /\ Unleased(row).closure = row.closure
<1>1. ASSUME NEW why \in {"automation", "other"}
      PROVE  /\ Closure(row, why) \in Rows /\ Closure(row, why).launch = row.launch
             /\ \/ Closure(row, why).closure = row.closure
                \/ row.closure = "OPEN" /\ Closure(row, why).closure = "REQUESTED"
  <2> DEFINE closure == IF row.closure = "OPEN" THEN "REQUESTED" ELSE row.closure
             reason == IF row.reason = "none" THEN why ELSE row.reason
  <2>1. closure \in ClosureStates /\ reason \in {"none", "automation", "other"}
    BY DEF Rows, ClosureStates, Closing
  <2>2. Closure(row, why) = IF row.closure = "FINALIZED" THEN row
                            ELSE [row EXCEPT !.closure = closure, !.reason = reason]
    BY DEF Closure
  <2>3. closure = row.closure \/ (row.closure = "OPEN" /\ closure = "REQUESTED")
    OBVIOUS
  <2> HIDE DEF closure, reason
  <2> QED BY <2>1, <2>2, <2>3 DEF Rows
<1>2. ASSUME NEW definitive \in BOOLEAN
      PROVE  /\ PauseOutcome(row, definitive) \in Rows
             /\ PauseOutcome(row, definitive).launch = row.launch
             /\ PauseOutcome(row, definitive).closure # "FINALIZED"
  BY DEF Rows, PauseOutcome, ClosureStates, Closing
<1>3. /\ Unleased(row) \in Rows /\ Unleased(row).launch = row.launch
      /\ Unleased(row).closure = row.closure
  BY DEF Rows, Unleased
<1> QED BY <1>1, <1>2, <1>3

\* The usual ways to establish RowsStep and StatusStep.

LEMMA StillRows ==
  ASSUME TypeOK, FlowInv, UNCHANGED <<alloc, reservation>>
  PROVE  RowsStep /\ StatusStep
BY DEF RowsStep, StatusStep, FlowInv, RowInv

LEMMA OneRow ==
  ASSUME TypeOK, FlowInv, NEW k \in Keys, NEW row, alloc' = [alloc EXCEPT ![k] = row],
         alloc[k].launch # "none", row.launch # "none",
         alloc[k].closure = "FINALIZED" => row.closure = "FINALIZED",
         row.launch = "REJECTED" => row.closure = "FINALIZED",
         row.closure = "FINALIZED" => reservation'[k].status \in Closed,
         \A j \in Keys \ {k} : reservation'[j].status = reservation[j].status
  PROVE  RowsStep
<1>1. \A j \in Keys : alloc'[j] = IF j = k THEN row ELSE alloc[j]
  BY DEF TypeOK
<1> QED BY <1>1 DEF RowsStep, FlowInv, RowInv

\* What a step of the wallet does to the statuses of reservations.
LEMMA Releases ==
  ASSUME AdInv, NEW k \in Keys, ReleaseAdSpendReservation(k) \/ FinalizeReservation(k)
  PROVE  /\ reservation[k].status = "RESERVED" /\ reservation'[k].status \in Closed
         /\ \A j \in Keys \ {k} : reservation'[j] = reservation[j]
BY DEF ReleaseAdSpendReservation, FinalizeReservation, GiveBack, Consumed, AdInv, AdTypeOK, Closed

LEMMA Settles ==
  ASSUME AdInv, NEW k \in Keys, NEW target, SettleReservation(k, target)
  PROVE  \A j \in Keys : reservation'[j].status = reservation[j].status
BY DEF SettleReservation, AdInv, AdTypeOK

LEMMA OtherMoney == Deposits \/ Budgets => reservation' = reservation
BY DEF Deposits, Budgets, EnsureWallet, CreateAdSpendTopup, AttachAdSpendProviderPayment,
       FailAdSpendTopup, HoldAdSpendTopupForSettlement, ApplyAdSpendProviderStatus,
       CreateAdBudgetAuthorization, RevokeAdBudgetAuthorization, AuthorizationEnds

\* No transaction of the wallet touches a reservation that is closed.
LEMMA ClosedIsFinal ==
  ASSUME AdInv, [AdNext]_adVars, NEW k \in Keys, reservation[k].status \in Closed
  PROVE  reservation'[k] = reservation[k]
<1>1. CASE UNCHANGED adVars
  BY <1>1 DEF adVars
<1>2. CASE Deposits \/ Budgets
  BY <1>2, OtherMoney
<1>3. ASSUME NEW j \in Keys, ReleaseAdSpendReservation(j) \/ FinalizeReservation(j)
      PROVE  reservation'[k] = reservation[k]
  BY <1>3, Releases DEF Closed
<1>4. ASSUME NEW j \in Keys, NEW target, ReserveAdSpend(j) \/ SettleReservation(j, target)
      PROVE  reservation'[k] = reservation[k]
  BY <1>4 DEF ReserveAdSpend, SettleReservation, Closed, AdInv, AdTypeOK
<1> QED BY <1>1, <1>2, <1>3, <1>4 DEF AdNext, Reservations

\* A reservation that is given back outside finalization was not launched.
LEMMA GivenBack ==
  ASSUME AdInv, NEW k \in Keys, ReleaseAdSpendReservation(k),
         ~launches[k].accepted, \A c \in Callers : call[c].at = "send" => call[c].key # k
  PROVE  StatusStep
BY Releases DEF StatusStep

\* A step of worker w that keeps its allocation in view, or ends its cycle.
LEMMA WorkerGoes ==
  ASSUME TypeOK, FlowInv, RowsStep, StatusStep, UNCHANGED <<launches, call>>,
         NEW w \in Workers, worker[w].at # "idle", NEW at, Goto(w, at) \/ Rest(w)
  PROVE  FlowInv' /\ FinalKept
<1>1. \A v \in Workers \ {w} : worker'[v] = worker[v]
  BY DEF Goto, Rest, TypeOK
<1>2. worker'[w].at = "idle" \/ worker'[w].key = worker[w].key
  <2>1. worker[w] \in WorkerStates /\ worker \in [Workers -> WorkerStates]
    BY DEF TypeOK
  <2>2. CASE Rest(w)
    BY <2>1, <2>2 DEF Rest, IdleWorker
  <2>3. CASE Goto(w, at)
    <3> DEFINE r == IF at \in {"stop", "request"} THEN [worker[w] EXCEPT !.at = at, !.cost = 0]
                    ELSE [IdleWorker EXCEPT !.at = at, !.key = worker[w].key]
    <3>1. worker'[w] = r
      BY <2>1, <2>3 DEF Goto
    <3>2. r.key = worker[w].key
      BY <2>1 DEF WorkerStates, IdleWorker
    <3> QED BY <3>1, <3>2
  <2> QED BY <2>2, <2>3
<1>3. worker[w].key \in Keys /\ alloc[worker[w].key].launch # "none"
  BY DEF FlowInv, WorkerInv
<1>4. WorkerInv(w)'
  BY <1>2, <1>3 DEF WorkerInv, RowsStep
<1> QED BY <1>1, <1>4, WorkerMoves

-----------------------------------------------------------------------------
\* Steps of the reconciliation worker.
LEMMA ReconcilingFlow ==
  ASSUME GInv, NEW w \in Workers, Reconciling(w)
  PROVE  FlowInv' /\ FinalKept
<1> USE DEF GInv
<1> DEFINE k == worker[w].key
<1>1. worker[w].at # "idle" => k \in Keys /\ alloc[k].launch # "none"
  BY DEF FlowInv, WorkerInv
<1>2. \A j \in Keys : RowInv(j)
  BY DEF FlowInv
<1>3. ASSUME NEW j \in Keys, Claim(w, j) PROVE FlowInv' /\ FinalKept
  <2> DEFINE closed == [i \in Keys |-> IF alloc[i].launch # "none" /\ alloc[i].closure = "OPEN"
                                            /\ Lapsed(AuthOf[i])
                                         THEN Closure(alloc[i], "other") ELSE alloc[i]]
  <2>1. /\ alloc' = [closed EXCEPT ![j].owner = w, ![j].live = TRUE]
        /\ worker' = [worker EXCEPT ![w] = [IdleWorker EXCEPT !.at = "read", !.key = j]]
        /\ IsOpen(j) /\ UNCHANGED <<adVars, launches, call>>
    BY <1>3 DEF Claim
  <2>2. \A i \in Keys : /\ alloc'[i].launch = closed[i].launch
                         /\ alloc'[i].closure = closed[i].closure
    <3>1. \A i \in Keys : closed[i] \in Rows
      BY RowWriters DEF TypeOK
    <3>2. DOMAIN closed = Keys
      OBVIOUS
    <3> HIDE DEF closed
    <3>3. ASSUME NEW i \in Keys PROVE /\ alloc'[i].launch = closed[i].launch
                                       /\ alloc'[i].closure = closed[i].closure
      <4>1. alloc'[i] = IF i = j THEN [closed[j] EXCEPT !.owner = w, !.live = TRUE] ELSE closed[i]
        BY <2>1, <3>2
      <4> QED BY <3>1, <4>1 DEF Rows
    <3> QED BY <3>3
  <2>3. \A i \in Keys : /\ closed[i].launch = alloc[i].launch
                         /\ \/ closed[i].closure = alloc[i].closure
                            \/ /\ alloc[i].launch # "none" /\ alloc[i].closure = "OPEN"
                               /\ closed[i].closure = "REQUESTED"
    BY DEF Closure, TypeOK, Rows
  <2> HIDE DEF closed
  <2>4. RowsStep /\ StatusStep
    <3>1. reservation' = reservation
      BY <2>1 DEF adVars
    <3> QED BY <1>2, <2>2, <2>3, <3>1 DEF RowsStep, StatusStep, RowInv
  <2>5. \A v \in Workers : worker'[v] = worker[v] \/ WorkerInv(v)'
    <3>1. \A v \in Workers \ {w} : worker'[v] = worker[v]
      BY <2>1 DEF TypeOK
    <3>2. worker'[w].key = j
      BY <2>1 DEF TypeOK, IdleWorker
    <3>3. alloc'[j].launch # "none"
      BY <2>1, <2>2, <2>3 DEF IsOpen
    <3> QED BY <3>1, <3>2, <3>3 DEF WorkerInv
  <2> QED BY <2>1, <2>4, <2>5, WorkerMoves
<1>4. CASE ReadCampaign(w)
  <2>1. RowsStep /\ StatusStep /\ UNCHANGED <<launches, call>>
    BY <1>4, StillRows DEF ReadCampaign, adVars
  <2>2. \A v \in Workers : worker'[v] = worker[v] \/ WorkerInv(v)'
    BY <1>1, <1>4, <2>1 DEF ReadCampaign, TypeOK, WorkerInv, RowsStep
  <2> QED BY <2>1, <2>2, WorkerMoves
<1>5. ASSUME NEW row, NEW at, k \in Keys, alloc' = [alloc EXCEPT ![k] = row],
             row.launch = alloc[k].launch,
             \/ row.closure = alloc[k].closure
             \/ alloc[k].closure # "FINALIZED" /\ row.closure # "FINALIZED",
             worker[w].at # "idle", UNCHANGED <<adVars, launches, call>>, Goto(w, at) \/ Rest(w)
      PROVE  FlowInv' /\ FinalKept
  <2>1. RowsStep
    BY <1>1, <1>2, <1>5, OneRow DEF RowInv, adVars
  <2>2. StatusStep
    BY <1>5 DEF StatusStep, adVars
  <2> QED BY <1>5, <2>1, <2>2, WorkerGoes
<1>6. ASSUME NEW at, worker[w].at # "idle", UNCHANGED <<adVars, launches, alloc, call>>,
             Goto(w, at) \/ Rest(w)
      PROVE  FlowInv' /\ FinalKept
  <2>1. RowsStep /\ StatusStep
    BY <1>6, StillRows DEF adVars
  <2> QED BY <1>6, <2>1, WorkerGoes
<1> HIDE DEF k
<1>7. worker[w].at # "idle" => alloc[k] \in Rows
  BY <1>1 DEF TypeOK
<1> HIDE DEF k
<1>8. CASE Observe(w)
  <2> DEFINE o == worker[w]
             at == Proceed(alloc'[k], o)
  <2>1. /\ o.at = "observe" /\ alloc' = [alloc EXCEPT ![k] = Observed(k, o)]
        /\ Goto(w, at) /\ UNCHANGED <<launches, call>>
        /\ SettleReservation(k, Bounded(k, o.cost)) \/ UNCHANGED adVars
    BY <1>8 DEF Observe, k
  <2>2. k \in Keys /\ alloc[k].launch # "none" /\ alloc[k] \in Rows
    BY <1>1, <1>7, <2>1
  <2>3. \A j \in Keys : reservation'[j].status = reservation[j].status
    BY <2>1, <2>2, Settles DEF adVars
  <2>4. /\ \/ Observed(k, o).launch = alloc[k].launch
           \/ alloc[k].launch = "UNCERTAIN" /\ Observed(k, o).launch = "APPLIED"
        /\ \/ Observed(k, o).closure = alloc[k].closure
           \/ alloc[k].closure # "FINALIZED" /\ Observed(k, o).closure # "FINALIZED"
    BY <2>2 DEF Observed, Rows, Closing
  <2>5. RowsStep /\ StatusStep
    <3> HIDE DEF o
    <3> QED BY <1>2, <2>1, <2>2, <2>3, <2>4, OneRow DEF RowInv, StatusStep
  <2> HIDE DEF at
  <2> QED BY <2>1, <2>5, WorkerGoes
<1>9. CASE CloseStopped(w) \/ RequestClosure(w)
  <2> DEFINE row == IF worker[w].at = "stop" THEN PauseOutcome(Closure(alloc[k], "other"), TRUE)
                    ELSE Closure(alloc[k], "other")
             at == Proceed(alloc'[k], worker[w])
  <2>1. /\ worker[w].at \in {"stop", "request"} /\ alloc' = [alloc EXCEPT ![k] = row]
        /\ worker[w].at = "stop" => alloc[k].closure # "FINALIZED"
        /\ Goto(w, at) /\ UNCHANGED <<adVars, launches, call>>
    BY <1>9 DEF CloseStopped, RequestClosure, k
  <2>2. k \in Keys /\ alloc[k] \in Rows
    BY <1>1, <1>7, <2>1
  <2>3. /\ row.launch = alloc[k].launch
        /\ \/ row.closure = alloc[k].closure
           \/ alloc[k].closure # "FINALIZED" /\ row.closure # "FINALIZED"
    <3> DEFINE r == Closure(alloc[k], "other")
    <3>1. /\ r \in Rows /\ r.launch = alloc[k].launch
          /\ \/ r.closure = alloc[k].closure
             \/ alloc[k].closure = "OPEN" /\ r.closure = "REQUESTED"
      BY <2>2, RowWriters
    <3> HIDE DEF r
    <3>2. PauseOutcome(r, TRUE).launch = r.launch /\ PauseOutcome(r, TRUE).closure # "FINALIZED"
      BY <3>1, RowWriters
    <3> QED BY <2>1, <3>1, <3>2 DEF r
  <2> HIDE DEF row, at
  <2> QED BY <1>5, <2>1, <2>2, <2>3
<1>10. CASE MarkStopped(w) \/ MarkUnknown(w)
  <2>1. PICK definitive \in BOOLEAN, at \in {"settle", "give up"} :
          /\ worker[w].at # "idle" /\ MarkPause(k, definitive) /\ Goto(w, at)
          /\ UNCHANGED <<adVars, launches, call>>
    BY <1>10 DEF MarkStopped, MarkUnknown, k
  <2>2. k \in Keys /\ alloc[k] \in Rows
    BY <1>1, <1>7, <2>1
  <2>3. CASE alloc[k].closure = "FINALIZED"
    BY <1>6, <2>1, <2>3 DEF MarkPause
  <2>4. CASE alloc[k].closure # "FINALIZED"
    <3>1. alloc' = [alloc EXCEPT ![k] = PauseOutcome(alloc[k], definitive)]
      BY <2>1, <2>4 DEF MarkPause
    <3>2. /\ PauseOutcome(alloc[k], definitive).launch = alloc[k].launch
          /\ PauseOutcome(alloc[k], definitive).closure # "FINALIZED"
      BY <2>2, RowWriters
    <3> QED BY <1>5, <2>1, <2>2, <2>4, <3>1, <3>2
  <2> QED BY <2>3, <2>4
<1>11. CASE PauseCampaign(w) \/ ReadBillingEvidence(w) \/ WorkerDies(w)
  <2>1. /\ worker[w].at # "idle" /\ UNCHANGED <<adVars, launches, call>>
        /\ \E at : Goto(w, at) \/ Rest(w)
    BY <1>11 DEF PauseCampaign, ReadBillingEvidence, WorkerDies
  <2>2. CASE alloc' = alloc
    BY <1>6, <2>1, <2>2
  <2>3. CASE alloc' = [alloc EXCEPT ![k].live = TRUE]
    <3>1. k \in Keys /\ alloc[k] \in Rows
      BY <1>1, <1>7, <2>1
    <3>2. /\ [alloc[k] EXCEPT !.live = TRUE].launch = alloc[k].launch
          /\ [alloc[k] EXCEPT !.live = TRUE].closure = alloc[k].closure
      BY <3>1 DEF Rows
    <3> QED BY <1>5, <2>1, <2>3, <3>1, <3>2
  <2> QED BY <1>11, <2>2, <2>3 DEF PauseCampaign, ReadBillingEvidence, WorkerDies, k
<1>12. CASE RecordBillingEvidence(w)
  <2> DEFINE row == [alloc[k] EXCEPT !.evidence = TRUE, !.known = TRUE,
                       !.closure = IF @ = "PROVIDER_PAUSED" THEN "AWAITING_BILLING" ELSE @]
  <2>1. /\ worker[w].at # "idle" /\ Goto(w, "finalize") /\ UNCHANGED <<adVars, launches, call>>
        /\ alloc' = [alloc EXCEPT ![k] = row] \/ alloc' = alloc
    <3>1. k \in Keys => [alloc EXCEPT ![k].evidence = TRUE, ![k].known = TRUE,
                            ![k].closure = IF @ = "PROVIDER_PAUSED" THEN "AWAITING_BILLING" ELSE @]
                         = [alloc EXCEPT ![k] = row]
      BY DEF TypeOK, Rows
    <3> QED BY <1>1, <1>12, <3>1 DEF RecordBillingEvidence, k
  <2>2. k \in Keys /\ alloc[k] \in Rows
    BY <1>1, <1>7, <2>1
  <2>3. /\ row.launch = alloc[k].launch
        /\ \/ row.closure = alloc[k].closure
           \/ alloc[k].closure # "FINALIZED" /\ row.closure # "FINALIZED"
    BY <2>2 DEF Rows
  <2> HIDE DEF row
  <2> QED BY <1>5, <1>6, <2>1, <2>2, <2>3
<1>13. CASE Schedule(w)
  <2>1. /\ worker[w].at # "idle" /\ Rest(w) /\ UNCHANGED <<adVars, launches, call>>
        /\ alloc' = [alloc EXCEPT ![k] = Unleased(alloc[k])] \/ alloc' = alloc
    BY <1>13 DEF Schedule, k
  <2>2. k \in Keys /\ Unleased(alloc[k]).launch = alloc[k].launch
        /\ Unleased(alloc[k]).closure = alloc[k].closure
    BY <1>1, <1>7, <2>1, RowWriters
  <2> QED BY <1>5, <1>6, <2>1, <2>2
<1>14. CASE Finalize(w)
  <2> DEFINE row == Unleased([alloc[k] EXCEPT !.closure = "FINALIZED"])
  <2>1. /\ worker[w].at # "idle" /\ Rest(w) /\ UNCHANGED <<launches, call>>
        /\ alloc' = [alloc EXCEPT ![k] = row] /\ Finalizable(alloc[k])
        /\ FinalizeReservation(k) \/ (reservation[k].status # "RESERVED" /\ UNCHANGED adVars)
    BY <1>14 DEF Finalize, k
  <2>2. k \in Keys /\ alloc[k].launch # "none" /\ alloc[k] \in Rows
    BY <1>1, <1>7, <2>1
  <2>3. row.launch = alloc[k].launch /\ row.closure = "FINALIZED"
    BY <2>2 DEF Rows, Unleased
  <2>4. /\ reservation'[k].status \in Closed
        /\ reservation[k].status # "RESERVED" => reservation'[k].status = reservation[k].status
        /\ \A j \in Keys \ {k} : reservation'[j].status = reservation[j].status
    <3>1. CASE FinalizeReservation(k)
      BY <2>2, <3>1, Releases
    <3>2. CASE reservation[k].status # "RESERVED" /\ UNCHANGED adVars
      <4>1. reservation[k].status \in {"none", "RESERVED", "RELEASED", "CONSUMED"}
        BY <2>2 DEF AdInv, AdTypeOK
      <4> QED BY <1>2, <2>2, <3>2, <4>1 DEF RowInv, adVars, Closed
    <3> QED BY <2>1, <3>1, <3>2
  <2>5. alloc'[k].closure = "FINALIZED"
    BY <2>1, <2>2, <2>3 DEF TypeOK
  <2>6. reservation[k].status = "RESERVED" \/ reservation'[k].status = reservation[k].status
    BY <2>4
  <2> HIDE DEF row
  <2>7. RowsStep /\ StatusStep
    BY <2>1, <2>2, <2>3, <2>4, <2>5, <2>6, OneRow DEF StatusStep
  <2> QED BY <2>1, <2>7, WorkerGoes
<1> QED BY <1>3, <1>4, <1>8, <1>9, <1>10, <1>11, <1>12, <1>13, <1>14 DEF Reconciling

-----------------------------------------------------------------------------
\* Steps of service calls.

\* A call that moves on with the key it has, or returns.
LEMMA CallGoes ==
  ASSUME TypeOK, FlowInv, RowsStep, StatusStep, UNCHANGED <<launches, worker>>,
         NEW c \in Callers, NEW r, call' = [call EXCEPT ![c] = r],
         \/ r.at = "idle"
         \/ /\ call[c].at # "idle" /\ r.key = call[c].key
            /\ r.at \in OnRow => call[c].at \in OnRow
            /\ Owner(r) => Owner(call[c])
            /\ Unsent(r) => Unsent(call[c])
            /\ r.at # "send"
            /\ r.at \in {"rejected", "close"} => call[c].at \in {"rejected", "close"}
            /\ r.at = "close" => reservation'[r.key].status \in Closed
  PROVE  FlowInv' /\ FinalKept
<1>1. call'[c] = r /\ \A d \in Callers \ {c} : call'[d] = call[d]
  BY DEF TypeOK
<1>2. CASE r.at = "idle"
  BY <1>1, <1>2, CallMoves DEF CallInv, Owner, Unsent, OnRow
<1>3. CASE r.at # "idle"
  <2> DEFINE k == call[c].key
  <2>1. CallInv(c) /\ call[c].at # "idle" /\ k \in Keys
    BY <1>3 DEF FlowInv, CallInv
  <2>2. /\ alloc[k].launch # "none" => alloc'[k].launch # "none"
        /\ reservation[k].status # "none" => reservation'[k].status # "none"
    BY <2>1 DEF RowsStep, StatusStep, Closed
  <2>3. CallInv(c)'
    BY <1>1, <1>3, <2>1, <2>2 DEF CallInv
  <2> QED BY <1>1, <1>3, <2>3, CallMoves
<1> QED BY <1>2, <1>3

\* A call that starts, or works on a key it does not own yet.
LEMMA CallStarts ==
  ASSUME TypeOK, FlowInv, UNCHANGED <<alloc, reservation, launches, worker>>,
         NEW c \in Callers, NEW r, call' = [call EXCEPT ![c] = r], ~Owner(r),
         r.at # "idle" => r.key \in Keys,
         r.at \in OnRow => alloc[r.key].launch # "none"
  PROVE  FlowInv' /\ FinalKept
<1>1. call'[c] = r /\ \A d \in Callers \ {c} : call'[d] = call[d]
  BY DEF TypeOK
<1>2. CallInv(c)'
  BY <1>1 DEF CallInv, Owner, Unsent
<1> QED BY <1>1, <1>2, StillRows, CallMoves

\* The call that makes a reservation becomes its only owner.
LEMMA ReserveFlow ==
  ASSUME GInv, NEW c \in Callers, Reserve(c)
  PROVE  FlowInv' /\ FinalKept
<1> USE DEF GInv
<1> DEFINE k == call[c].key
<1>1. call[c].at = "reserve" /\ k \in Keys /\ UNCHANGED <<launches, alloc, worker>>
  BY DEF Reserve, FlowInv, CallInv
<1>2. CASE ReserveAdSpend(k) /\ Step(c, "create")
  <2>1. /\ reservation[k].status = "none" /\ reservation'[k].status = "RESERVED"
        /\ \A j \in Keys \ {k} : reservation'[j] = reservation[j]
    BY <1>1, <1>2 DEF ReserveAdSpend, AdInv, AdTypeOK
  <2>2. RowsStep /\ StatusStep
    BY <1>1, <2>1 DEF RowsStep, StatusStep, FlowInv, RowInv, Closed
  <2>3. call' = [call EXCEPT ![c] = [call[c] EXCEPT !.at = "create"]]
    BY <1>2 DEF Step
  <2>4. /\ \A d \in Callers \ {c} : call'[d] = call[d]
        /\ call'[c].at = "create" /\ call'[c].key = k
    BY <2>3 DEF TypeOK, CallStates
  <2>5. \A d \in Callers : Owner(call[d]) => call[d].key # k
    BY <2>1 DEF FlowInv, CallInv
  <2>6. OwnersInv'
    BY <2>4, <2>5 DEF FlowInv, OwnersInv
  <2>7. launches[k].sent = 0
    BY <1>1, <2>1 DEF FlowInv, RowInv
  <2>8. CallInv(c)'
    BY <1>1, <2>1, <2>4, <2>7 DEF CallInv, OnRow
  <2>9. FinalKept
    BY <1>1 DEF FinalKept
  <2> QED BY <1>1, <2>2, <2>4, <2>6, <2>8, <2>9, RowsKeep DEF FlowInv
<1>3. CASE call' = [call EXCEPT ![c].at = "create", ![c].dup = TRUE] /\ UNCHANGED adVars
  <2> DEFINE r == [call[c] EXCEPT !.at = "create", !.dup = TRUE]
  <2>1. call' = [call EXCEPT ![c] = r]
    BY <1>3 DEF TypeOK
  <2>2. r.at = "create" /\ r.key = k /\ r.dup
    BY DEF TypeOK, CallStates
  <2> HIDE DEF r
  <2> QED BY <1>1, <1>3, <2>1, <2>2, CallStarts DEF Owner, Unsent, OnRow, adVars
<1>4. CASE Return(c) /\ UNCHANGED adVars
  BY <1>1, <1>4, CallStarts DEF Return, IdleCall, Owner, Unsent, OnRow, adVars
<1> QED BY <1>2, <1>3, <1>4 DEF Reserve

\* An allocation is created where none is open; only its owner goes on to send.
LEMMA CreateFlow ==
  ASSUME GInv, NEW c \in Callers, CreateAllocation(c)
  PROVE  FlowInv' /\ FinalKept
<1> USE DEF GInv
<1> DEFINE k == call[c].key
           row == [Row0 EXCEPT !.launch = "PENDING", !.base = call[c].base,
                               !.observed = call[c].base, !.owner = "launch", !.live = TRUE,
                               !.after = Cardinality({j \in Keys : alloc[j].launch # "none"})]
<1>1. call[c].at = "create" /\ k \in Keys /\ CallInv(c) /\ UNCHANGED <<adVars, launches, worker>>
  BY DEF CreateAllocation, FlowInv, CallInv
<1>2. row.launch = "PENDING" /\ row.closure = "OPEN"
  BY DEF Row0
<1>3. \/ /\ alloc[k].launch = "none" /\ Creatable(k) /\ alloc' = [alloc EXCEPT ![k] = row]
         /\ IF MaySend(c, TRUE) THEN Step(c, "send") ELSE Return(c)
      \/ alloc' = alloc /\ Return(c)
      \/ alloc' = alloc /\ ~call[c].dup /\ Step(c, "undo")
  BY DEF CreateAllocation, MaySend
<1> HIDE DEF row
<1>4. CASE alloc' = alloc /\ Return(c)
  BY <1>1, <1>4, CallStarts DEF Return, IdleCall, Owner, Unsent, OnRow, adVars
<1>5. CASE alloc' = alloc /\ ~call[c].dup /\ Step(c, "undo")
  <2> DEFINE r == [call[c] EXCEPT !.at = "undo"]
  <2>1. call' = [call EXCEPT ![c] = r] /\ r.at = "undo" /\ r.key = k
    BY <1>5 DEF Step, TypeOK, CallStates
  <2> HIDE DEF r
  <2>2. RowsStep /\ StatusStep
    BY <1>1, <1>5, StillRows DEF adVars
  <2> QED BY <1>1, <1>5, <2>1, <2>2, CallGoes DEF OnRow, Owner, Unsent
<1>6. CASE /\ alloc[k].launch = "none" /\ Creatable(k) /\ alloc' = [alloc EXCEPT ![k] = row]
           /\ IF MaySend(c, TRUE) THEN Step(c, "send") ELSE Return(c)
  <2>1. \A j \in Keys : alloc'[j] = IF j = k THEN row ELSE alloc[j]
    BY <1>6 DEF TypeOK
  <2>2. reservation' = reservation /\ reservation[k].status = "RESERVED"
    BY <1>1, <1>6 DEF Creatable, adVars
  <2>3. launches[k].sent = 0
    BY <1>1, <1>6 DEF FlowInv, RowInv
  <2>4. \A j \in Keys : RowInv(j)'
    BY <1>1, <1>2, <2>1, <2>2, <2>3 DEF FlowInv, RowInv
  <2>5. OpenInv'
    BY <1>6, <2>1 DEF Creatable, IsOpen, OpenInv
  <2>6. \A w \in Workers : WorkerInv(w)'
    BY <1>1, <1>2, <2>1 DEF FlowInv, WorkerInv
  <2>7. \A d \in Callers \ {c} : call'[d] = call[d]
    BY <1>6 DEF Step, Return, TypeOK
  <2>8. call'[c].at = "idle"
        \/ (call'[c].at = "send" /\ call'[c].key = k /\ ~call[c].dup)
    BY <1>6 DEF Step, Return, TypeOK, CallStates, IdleCall, MaySend
  <2>9. CallInv(c)'
    BY <1>1, <1>2, <2>1, <2>2, <2>3, <2>8 DEF CallInv, Owner, Unsent, OnRow
  <2>10. ASSUME NEW d \in Callers \ {c} PROVE CallInv(d)'
    <3>1. CallInv(d) /\ call'[d] = call[d]
      BY <2>7 DEF FlowInv
    <3>2. call[d].at = "send" => call[d].key # k
      BY <1>6, <3>1 DEF CallInv, OnRow
    <3> QED BY <1>1, <1>2, <2>1, <2>2, <3>1, <3>2 DEF CallInv, Owner, Unsent, OnRow
  <2>11. OwnersInv'
    <3>1. Owner(call'[c]) => Owner(call[c]) /\ call'[c].key = call[c].key
      BY <1>1, <2>8 DEF Owner, Unsent
    <3> QED BY <2>7, <3>1 DEF FlowInv, OwnersInv
  <2>12. FinalKept
    BY <1>1, <1>6, <2>1 DEF FlowInv, RowInv, FinalKept
  <2> QED BY <2>4, <2>5, <2>6, <2>9, <2>10, <2>11, <2>12 DEF FlowInv
<1> QED BY <1>3, <1>4, <1>5, <1>6

\* The launch of a key is sent by its only owner, who had not sent it.
LEMMA SendFlow ==
  ASSUME GInv, NEW c \in Callers, SendLaunch(c)
  PROVE  FlowInv' /\ FinalKept
<1> USE DEF GInv
<1> DEFINE k == call[c].key
<1>1. PICK outcome \in Outcomes :
        /\ launches' = [launches EXCEPT ![k] = [sent |-> @.sent + 1,
                                               accepted |-> @.accepted \/ Executes(outcome)]]
        /\ call' = [call EXCEPT ![c] = [IdleCall EXCEPT !.at = AfterLaunch(outcome), !.key = k]]
  BY DEF SendLaunch
<1>2. call[c].at = "send" /\ UNCHANGED <<adVars, alloc, worker>> /\ CallInv(c)
  BY DEF SendLaunch, FlowInv
<1>3. /\ k \in Keys /\ alloc[k].launch # "none" /\ reservation[k].status # "none"
      /\ launches[k].sent = 0
      /\ alloc[k].closure # "FINALIZED" => reservation[k].status = "RESERVED"
      /\ launches[k].accepted = FALSE
  <2>1. CallInv(c) /\ k \in Keys
    BY <1>2 DEF CallInv
  <2>2. RowInv(k) /\ launches[k].accepted \in BOOLEAN
    BY <2>1 DEF FlowInv, TypeOK
  <2> QED BY <1>2, <2>1, <2>2 DEF CallInv, RowInv, Owner, Unsent, OnRow
<1>4. /\ launches'[k].sent = 1 /\ launches'[k].accepted = Executes(outcome)
      /\ \A j \in Keys \ {k} : launches'[j] = launches[j]
  BY <1>1, <1>3 DEF TypeOK, Executes
<1>5. /\ call'[c].at = AfterLaunch(outcome) /\ call'[c].key = k
      /\ \A d \in Callers \ {c} : call'[d] = call[d]
  BY <1>1 DEF TypeOK, IdleCall
<1>6. /\ AfterLaunch(outcome) \in {"applied", "rejected", "uncertain"}
      /\ AfterLaunch(outcome) = "rejected" => ~Executes(outcome)
  BY DEF AfterLaunch, Executes, Outcomes
<1>7. \A j \in Keys : RowInv(j)'
  BY <1>2, <1>3, <1>4 DEF FlowInv, RowInv, adVars
<1>8. OpenInv' /\ \A w \in Workers : WorkerInv(w)'
  BY <1>2 DEF FlowInv, OpenInv, IsOpen, WorkerInv
<1>9. CallInv(c)'
  BY <1>2, <1>3, <1>4, <1>5, <1>6 DEF CallInv, Owner, Unsent, OnRow, adVars
<1>10. ASSUME NEW d \in Callers \ {c} PROVE CallInv(d)'
  <2>1. CallInv(d) /\ call'[d] = call[d]
    BY <1>5 DEF FlowInv
  <2>2. Owner(call[d]) => call[d].key # k
    BY <1>2 DEF FlowInv, OwnersInv, Owner, Unsent
  <2> QED BY <1>2, <1>4, <2>1, <2>2 DEF CallInv, Owner, Unsent, adVars
<1>11. OwnersInv'
  BY <1>2, <1>5 DEF FlowInv, OwnersInv, Owner, Unsent
<1>12. FinalKept
  BY <1>2 DEF FinalKept
<1> QED BY <1>7, <1>8, <1>9, <1>10, <1>11, <1>12 DEF FlowInv

LEMMA CallingFlow ==
  ASSUME GInv, NEW c \in Callers, Calling(c)
  PROVE  FlowInv' /\ FinalKept
<1> USE DEF GInv
<1> DEFINE k == call[c].key
           to(at) == [call[c] EXCEPT !.at = at]
<1>1. CallInv(c) /\ (call[c].at # "idle" => k \in Keys)
  BY DEF FlowInv, CallInv
<1>2. \A j \in Keys : RowInv(j) /\ alloc[j] \in Rows
  BY DEF FlowInv, TypeOK
<1>3. \A at : to(at).at = at /\ to(at).key = k
  BY DEF TypeOK, CallStates
<1>4. /\ \A at : Step(c, at) <=> call' = [call EXCEPT ![c] = to(at)]
      /\ Return(c) <=> call' = [call EXCEPT ![c] = IdleCall]
      /\ IdleCall.at = "idle"
  BY DEF Step, Return, IdleCall
<1>5. call[c].at \in OnRow => alloc[k].launch # "none"
  BY <1>1 DEF CallInv
<1> HIDE DEF k, to
<1>6. ASSUME NEW j \in Keys, StartLaunch(c, j) \/ StartResume(c, j) PROVE FlowInv' /\ FinalKept
  <2>1. PICK at \in {"read", "look"}, i \in Keys :
          /\ call' = [call EXCEPT ![c] = [IdleCall EXCEPT !.at = at, !.key = i]]
          /\ at = "look" => alloc[i].launch = "APPLIED"
    <3>1. Relaunch[j] \in Keys \cup {NoKey}
      BY GoogleAdsAssumption
    <3> QED BY <1>6, <3>1 DEF StartLaunch, StartResume, Resumable
  <2>2. UNCHANGED <<alloc, reservation, launches, worker>>
    BY <1>6 DEF StartLaunch, StartResume, adVars
  <2> DEFINE r == [IdleCall EXCEPT !.at = at, !.key = i]
  <2>3. r.at = at /\ r.key = i
    BY DEF IdleCall
  <2> HIDE DEF r
  <2> QED BY <2>1, <2>2, <2>3, CallStarts DEF r, Owner, Unsent, OnRow
<1>7. ASSUME UNCHANGED <<alloc, reservation, launches, worker>>, Return(c) PROVE FlowInv' /\ FinalKept
  BY <1>4, <1>7, CallStarts DEF Owner, Unsent, OnRow
<1>8. ASSUME UNCHANGED <<alloc, reservation, launches, worker>>, NEW at, Step(c, at),
             \/ call[c].at \in {"applied", "rejected", "close"} /\ at = "uncertain"
             \/ /\ call[c].at \in {"pause", "look", "enable"}
                /\ at \in {"stopped", "unknown", "enable", "resumed"}
             \/ call[c].at = "read" /\ at = "reserve"
      PROVE  FlowInv' /\ FinalKept
  <2>1. RowsStep /\ StatusStep
    BY <1>8, StillRows
  <2> QED BY <1>3, <1>4, <1>8, <2>1, CallGoes DEF OnRow, Owner, Unsent, k
<1>9. CASE ReadBaseline(c)
  <2>1. CASE Return(c)
    BY <1>7, <1>9, <2>1 DEF ReadBaseline, adVars
  <2>2. CASE call' = [call EXCEPT ![c].at = "reserve", ![c].base = campaign.cost]
    <3> DEFINE r == [call[c] EXCEPT !.at = "reserve", !.base = campaign.cost]
    <3>1. call' = [call EXCEPT ![c] = r]
      BY <2>2 DEF TypeOK
    <3>2. r.at = "reserve" /\ r.key = k /\ call[c].at = "read"
      BY <1>9 DEF ReadBaseline, TypeOK, CallStates, k
    <3> HIDE DEF r
    <3> QED BY <1>1, <1>9, <3>1, <3>2, CallStarts
            DEF ReadBaseline, Owner, Unsent, OnRow, adVars
  <2> QED BY <1>9, <2>1, <2>2 DEF ReadBaseline
<1>10. CASE StatementFails(c) \/ SendPause(c) \/ LookBeforeResume(c) \/ SendEnable(c) \/ CallDies(c)
  BY <1>7, <1>8, <1>10
     DEF StatementFails, SendPause, LookBeforeResume, SendEnable, CallDies, adVars
<1>11. ASSUME NEW row, alloc' = [alloc EXCEPT ![k] = row], Return(c), UNCHANGED <<adVars, launches, worker>>,
              k \in Keys, alloc[k].launch # "none", row.launch \notin {"none", "REJECTED"},
              \/ row.closure = alloc[k].closure
              \/ alloc[k].closure # "FINALIZED" /\ row.closure # "FINALIZED"
       PROVE  FlowInv' /\ FinalKept
  <2>1. RowsStep /\ StatusStep
    BY <1>2, <1>11, OneRow DEF RowInv, StatusStep, adVars
  <2> QED BY <1>4, <1>11, <2>1, CallGoes
<1>12. ASSUME ReleaseOrSkip(k), call[c].at \in {"undo", "rejected"}, UNCHANGED <<alloc, launches, worker>>
       PROVE  /\ RowsStep /\ StatusStep /\ k \in Keys
              /\ reservation'[k].status \in Closed
  <2>1. k \in Keys /\ ~launches[k].accepted /\ reservation[k].status # "none"
    BY <1>1, <1>2, <1>12 DEF CallInv, RowInv, Owner, Unsent, k
  <2>2. \A d \in Callers : call[d].at = "send" => call[d].key # k
    BY <1>12 DEF FlowInv, OwnersInv, Owner, Unsent, k
  <2>3. CASE ReleaseAdSpendReservation(k)
    <3>1. StatusStep
      BY <2>1, <2>2, <2>3, GivenBack
    <3>2. /\ reservation'[k].status \in Closed
          /\ \A j \in Keys \ {k} : reservation'[j] = reservation[j]
      BY <2>1, <2>3, Releases
    <3> QED BY <1>2, <1>12, <2>1, <3>1, <3>2 DEF RowsStep, RowInv
  <2>4. CASE reservation[k].status # "RESERVED" /\ UNCHANGED adVars
    <3>1. RowsStep /\ StatusStep
      BY <1>12, <2>4, StillRows DEF adVars
    <3>2. reservation[k].status \in {"none", "RESERVED", "RELEASED", "CONSUMED"}
      BY <2>1 DEF AdInv, AdTypeOK
    <3> QED BY <2>1, <2>4, <3>1, <3>2 DEF adVars, Closed
  <2> QED BY <1>12, <2>3, <2>4 DEF ReleaseOrSkip
<1>13. CASE UndoReservation(c)
  BY <1>4, <1>12, <1>13, CallGoes DEF UndoReservation, k
<1>14. CASE ReleaseRejected(c)
  <2>1. /\ RowsStep /\ StatusStep /\ reservation'[k].status \in Closed
        /\ call' = [call EXCEPT ![c] = to("close")] /\ call[c].at = "rejected"
        /\ UNCHANGED <<launches, worker>>
    BY <1>4, <1>12, <1>14 DEF ReleaseRejected, k
  <2> QED BY <1>3, <2>1, CallGoes DEF OnRow, Owner, Unsent, k
<1>15. CASE MarkLaunchApplied(c)
  <2>1. CASE alloc[k].launch = "REJECTED" /\ Step(c, "uncertain") /\ UNCHANGED alloc
    BY <1>8, <1>15, <2>1 DEF MarkLaunchApplied, adVars
  <2>2. CASE /\ Return(c)
             /\ alloc' = [alloc EXCEPT ![k] = Unleased([@ EXCEPT !.launch = "APPLIED",
                                                                !.launchedAt = TRUE])]
    <3> DEFINE row == Unleased([alloc[k] EXCEPT !.launch = "APPLIED", !.launchedAt = TRUE])
    <3>1. k \in Keys /\ alloc[k].launch # "none"
      BY <1>1, <1>5, <1>15 DEF MarkLaunchApplied, OnRow
    <3>2. alloc' = [alloc EXCEPT ![k] = row]
      BY <2>2
    <3>3. row.launch = "APPLIED" /\ row.closure = alloc[k].closure
      BY <1>2, <3>1 DEF Unleased, Rows
    <3> HIDE DEF row
    <3> QED BY <1>11, <1>15, <2>2, <3>1, <3>2, <3>3 DEF MarkLaunchApplied
  <2> QED BY <1>15, <2>1, <2>2 DEF MarkLaunchApplied, k
<1>16. CASE MarkLaunchUncertain(c)
  <2>1. CASE alloc' = alloc
    BY <1>7, <1>16, <2>1 DEF MarkLaunchUncertain, adVars
  <2>2. CASE /\ alloc[k].launch = "PENDING"
             /\ alloc' = [alloc EXCEPT ![k] = Unleased([@ EXCEPT !.launch = "UNCERTAIN"])]
    <3> DEFINE row == Unleased([alloc[k] EXCEPT !.launch = "UNCERTAIN"])
    <3>1. k \in Keys
      BY <1>1, <1>16 DEF MarkLaunchUncertain
    <3>2. alloc' = [alloc EXCEPT ![k] = row]
      BY <2>2
    <3>3. row.launch = "UNCERTAIN" /\ row.closure = alloc[k].closure
      BY <1>2, <3>1 DEF Unleased, Rows
    <3> HIDE DEF row
    <3> QED BY <1>11, <1>16, <2>2, <3>1, <3>2, <3>3 DEF MarkLaunchUncertain
  <2> QED BY <1>16, <2>1, <2>2 DEF MarkLaunchUncertain, k
<1>17. CASE MarkLaunchRejected(c)
  <2>1. /\ k \in Keys /\ alloc[k].launch # "none" /\ reservation[k].status \in Closed
        /\ UNCHANGED <<adVars, launches, worker>> /\ Return(c)
    BY <1>1, <1>5, <1>17 DEF MarkLaunchRejected, CallInv, OnRow, k
  <2>2. CASE alloc' = alloc
    BY <1>7, <2>1, <2>2 DEF adVars
  <2>3. CASE /\ alloc[k].closure # "FINALIZED"
             /\ alloc' = [alloc EXCEPT ![k] = Unleased([@ EXCEPT !.launch = "REJECTED",
                                                                !.closure = "FINALIZED"])]
    <3> DEFINE row == Unleased([alloc[k] EXCEPT !.launch = "REJECTED", !.closure = "FINALIZED"])
    <3>1. alloc' = [alloc EXCEPT ![k] = row]
      BY <2>3
    <3>2. row.launch = "REJECTED" /\ row.closure = "FINALIZED"
      BY <1>2, <2>1 DEF Unleased, Rows
    <3> HIDE DEF row
    <3>3. RowsStep /\ StatusStep
      BY <2>1, <3>1, <3>2, OneRow DEF StatusStep, adVars
    <3> QED BY <1>4, <2>1, <3>3, CallGoes
  <2> QED BY <1>17, <2>2, <2>3 DEF MarkLaunchRejected, k
<1>18. CASE StartPause(c)
  <2>1. PICK j \in Keys :
          /\ IsOpen(j) /\ alloc' = [alloc EXCEPT ![j] = Closure(alloc[j], "other")]
          /\ call' = [call EXCEPT ![c] = [IdleCall EXCEPT !.at = "pause", !.key = j]]
    BY <1>18 DEF StartPause
  <2>2. UNCHANGED <<adVars, launches, worker>>
    BY <1>18 DEF StartPause
  <2>3. /\ Closure(alloc[j], "other").launch = alloc[j].launch
        /\ Closure(alloc[j], "other").closure # "FINALIZED"
    BY <1>2, <2>1, RowWriters DEF IsOpen
  <2>4. RowsStep /\ StatusStep
    BY <2>1, <2>2, <2>3, OneRow DEF IsOpen, StatusStep, adVars
  <2>5. /\ call'[c].at = "pause" /\ call'[c].key = j
        /\ \A d \in Callers \ {c} : call'[d] = call[d]
    BY <2>1 DEF TypeOK, IdleCall
  <2>6. alloc'[j].launch # "none"
    BY <2>1, <2>4 DEF RowsStep, IsOpen
  <2>7. CallInv(c)' /\ ~Owner(call'[c])
    BY <2>5, <2>6 DEF CallInv, Owner, Unsent
  <2> QED BY <2>2, <2>4, <2>5, <2>7, CallMoves
<1>19. CASE MarkPauseOutcome(c)
  <2>1. PICK definitive \in BOOLEAN : MarkPause(k, definitive)
    BY <1>19 DEF MarkPauseOutcome, k
  <2>2. /\ k \in Keys /\ alloc[k].launch # "none"
        /\ UNCHANGED <<adVars, launches, worker>> /\ Return(c)
    BY <1>1, <1>5, <1>19 DEF MarkPauseOutcome, OnRow
  <2>3. CASE alloc[k].closure = "FINALIZED"
    BY <1>7, <2>1, <2>2, <2>3 DEF MarkPause, adVars
  <2>4. CASE alloc[k].closure # "FINALIZED"
    <3>1. alloc' = [alloc EXCEPT ![k] = PauseOutcome(alloc[k], definitive)]
      BY <2>1, <2>4 DEF MarkPause
    <3>2. /\ PauseOutcome(alloc[k], definitive).launch = alloc[k].launch
          /\ PauseOutcome(alloc[k], definitive).closure # "FINALIZED"
      BY <1>2, <2>2, RowWriters
    <3>3. alloc[k].launch # "REJECTED"
      BY <1>2, <2>2, <2>4 DEF RowInv
    <3> QED BY <1>11, <2>2, <2>4, <3>1, <3>2, <3>3
  <2> QED BY <2>3, <2>4
<1>20. CASE MarkResumed(c)
  <2>1. k \in Keys /\ UNCHANGED <<adVars, launches, worker>> /\ Return(c)
    BY <1>1, <1>20 DEF MarkResumed
  <2>2. CASE ~Reopenable(alloc[k])
    BY <1>7, <1>20, <2>1, <2>2 DEF MarkResumed, adVars, k
  <2>3. CASE Reopenable(alloc[k])
    <3> DEFINE row == Unleased([alloc[k] EXCEPT !.closure = "OPEN", !.reason = "none",
                                               !.pausedAt = FALSE, !.evidence = FALSE])
    <3>1. alloc' = [alloc EXCEPT ![k] = row]
      BY <1>20, <2>3 DEF MarkResumed, k
    <3>2. row.launch = alloc[k].launch /\ row.closure = "OPEN"
      BY <1>2, <2>1 DEF Unleased, Rows
    <3> HIDE DEF row
    <3>3. alloc[k].launch = "APPLIED" /\ alloc[k].closure # "FINALIZED"
      BY <2>3 DEF Reopenable
    <3> QED BY <1>11, <2>1, <3>1, <3>2, <3>3
  <2> QED BY <2>2, <2>3
<1> QED BY <1>6, <1>9, <1>10, <1>13, <1>14, <1>15, <1>16, <1>17, <1>18, <1>19, <1>20,
           ReserveFlow, CreateFlow, SendFlow DEF Calling

-----------------------------------------------------------------------------
\* Steps of the wallet alone, of Google, of the automation switch and of time.
Elsewhere ==
  \/ (Deposits \/ Budgets) /\ UNCHANGED gVars
  \/ Spend \/ StoppedExternally
  \/ PauseAutomation \/ ResumeAutomation
  \/ \E k \in Keys : ReleaseOrphan(k) \/ LeaseExpires(k)

LEMMA ElsewhereFlow ==
  ASSUME GInv, Elsewhere
  PROVE  FlowInv' /\ FinalKept
<1> USE DEF GInv
<1>1. UNCHANGED <<launches, call, worker>>
  BY DEF Elsewhere, Spend, StoppedExternally, PauseAutomation, ResumeAutomation, ReleaseOrphan,
         LeaseExpires, gVars
<1>2. \A k \in Keys : RowInv(k) /\ alloc[k] \in Rows
  BY DEF FlowInv, TypeOK
<1>3. RowsStep /\ StatusStep
  <2>1. CASE \/ (Deposits \/ Budgets) /\ UNCHANGED gVars
             \/ Spend \/ StoppedExternally \/ ResumeAutomation
    <3>1. UNCHANGED <<alloc, reservation>>
      BY <2>1, OtherMoney DEF Spend, StoppedExternally, ResumeAutomation, gVars, adVars
    <3> QED BY <3>1, StillRows
  <2>2. CASE PauseAutomation
    <3>1. reservation' = reservation
      BY <2>2 DEF PauseAutomation, adVars
    <3>2. \A k \in Keys : /\ alloc'[k].launch = alloc[k].launch
                           /\ \/ alloc'[k].closure = alloc[k].closure
                              \/ alloc[k].closure = "OPEN" /\ alloc'[k].closure = "REQUESTED"
                                 /\ alloc[k].launch = "APPLIED"
      <4> TAKE k \in Keys
      <4> DEFINE row == [alloc[k] EXCEPT !.closure = "REQUESTED", !.reason = "automation"]
      <4>1. row.launch = alloc[k].launch /\ row.closure = "REQUESTED"
        BY <1>2 DEF Rows
      <4>2. alloc'[k] = IF alloc[k].launch = "APPLIED" /\ alloc[k].closure = "OPEN"
                        THEN row ELSE alloc[k]
        BY <2>2 DEF PauseAutomation
      <4> HIDE DEF row
      <4> QED BY <4>1, <4>2
    <3> QED BY <1>2, <3>1, <3>2 DEF RowsStep, StatusStep, RowInv
  <2>3. ASSUME NEW k \in Keys, ReleaseOrphan(k) PROVE RowsStep /\ StatusStep
    <3>1. alloc[k].launch = "none" /\ ReleaseAdSpendReservation(k) /\ alloc' = alloc
      BY <2>3 DEF ReleaseOrphan, gVars
    <3>2. /\ reservation'[k].status \in Closed
          /\ \A j \in Keys \ {k} : reservation'[j] = reservation[j]
      BY <3>1, Releases
    <3>3. ~launches[k].accepted
      BY <1>2, <3>1 DEF RowInv
    <3>4. \A c \in Callers : call[c].at = "send" => call[c].key # k
      BY <3>1 DEF FlowInv, CallInv, OnRow
    <3>5. StatusStep
      BY <3>1, <3>3, <3>4, GivenBack
    <3> QED BY <1>2, <3>1, <3>2, <3>5 DEF RowsStep, RowInv
  <2>4. ASSUME NEW k \in Keys, LeaseExpires(k) PROVE RowsStep /\ StatusStep
    <3> DEFINE row == [alloc[k] EXCEPT !.live = FALSE]
    <3>1. row.launch = alloc[k].launch /\ row.closure = alloc[k].closure
      BY <1>2 DEF Rows
    <3>2. alloc' = [alloc EXCEPT ![k] = row] /\ reservation' = reservation
      BY <2>4 DEF LeaseExpires, adVars
    <3> HIDE DEF row
    <3>3. \A j \in Keys : /\ alloc'[j].launch = alloc[j].launch
                           /\ alloc'[j].closure = alloc[j].closure
      BY <3>1, <3>2 DEF TypeOK
    <3> QED BY <1>2, <3>2, <3>3 DEF RowsStep, StatusStep, RowInv
  <2> QED BY <2>1, <2>2, <2>3, <2>4 DEF Elsewhere
<1> QED BY <1>1, <1>3, WorkerMoves

-----------------------------------------------------------------------------
\* Every step is a step of the wallet, or leaves it alone.
LEMMA StepOfAdSpend ==
  ASSUME GInv, [Next]_vars
  PROVE  [AdNext]_adVars
<1> USE DEF GInv
<1>1. ASSUME NEW k \in Keys, ReleaseAdSpendReservation(k) \/ ReserveAdSpend(k) \/ FinalizeReservation(k)
      PROVE  AdNext
  BY <1>1 DEF AdNext, Reservations
<1>2. ASSUME NEW c \in Callers, Calling(c) PROVE [AdNext]_adVars
  <2>1. CASE Reserve(c) \/ UndoReservation(c) \/ ReleaseRejected(c)
    <3>1. call[c].key \in Keys
      BY <2>1 DEF Reserve, UndoReservation, ReleaseRejected, FlowInv, CallInv
    <3> QED BY <1>1, <2>1, <3>1 DEF Reserve, UndoReservation, ReleaseRejected, ReleaseOrSkip
  <2>2. CASE ~(Reserve(c) \/ UndoReservation(c) \/ ReleaseRejected(c))
    BY <1>2, <2>2
       DEF Calling, StartLaunch, StartResume, ReadBaseline, CreateAllocation, SendLaunch,
           MarkLaunchApplied, MarkLaunchRejected, StatementFails, MarkLaunchUncertain, StartPause,
           SendPause, MarkPauseOutcome, LookBeforeResume, SendEnable, MarkResumed, CallDies
  <2> QED BY <2>1, <2>2
<1>3. ASSUME NEW w \in Workers, Reconciling(w) PROVE [AdNext]_adVars
  <2> DEFINE k == worker[w].key
  <2>1. CASE Observe(w)
    <3>1. k \in Keys /\ worker[w].cost \in Nat
      BY <2>1 DEF Observe, FlowInv, WorkerInv, TypeOK, WorkerStates
    <3>2. Amount[k] \in Nat /\ alloc[k].base \in Nat
      BY <3>1, AdSpendAssumption DEF TypeOK, Rows
    <3>3. Incremental(k, worker[w].cost) \in Nat
      BY <3>1, <3>2, LessNat DEF Incremental
    <3>4. Bounded(k, worker[w].cost) \in 0 .. Amount[k]
      BY <3>2, <3>3 DEF Bounded
    <3>5. SettleReservation(k, Bounded(k, worker[w].cost)) \/ UNCHANGED adVars
      BY <2>1 DEF Observe
    <3> HIDE DEF k
    <3> QED BY <3>1, <3>4, <3>5 DEF AdNext, Reservations
  <2>2. CASE Finalize(w)
    <3>1. k \in Keys
      BY <2>2 DEF Finalize, FlowInv, WorkerInv
    <3> QED BY <1>1, <2>2, <3>1 DEF Finalize
  <2>3. CASE ~(Observe(w) \/ Finalize(w))
    BY <1>3, <2>3
       DEF Reconciling, Claim, ReadCampaign, CloseStopped, RequestClosure, MarkStopped,
           PauseCampaign, MarkUnknown, ReadBillingEvidence, RecordBillingEvidence, Schedule,
           WorkerDies
  <2> QED BY <2>1, <2>2, <2>3
<1>4. CASE Elsewhere
  BY <1>1, <1>4 DEF Elsewhere, Spend, StoppedExternally, PauseAutomation, ResumeAutomation,
                    ReleaseOrphan, LeaseExpires, AdNext
<1>5. CASE UNCHANGED vars
  BY <1>5 DEF vars
<1> QED BY <1>2, <1>3, <1>4, <1>5 DEF Next, Elsewhere

-----------------------------------------------------------------------------
\* Types.

\* A row or a call is replaced by another of its type.
LEMMA TypesKeep ==
  ASSUME TypeOK, paused' \in BOOLEAN, launches' \in [Keys -> [sent : Nat, accepted : BOOLEAN]],
         tally' \in [calls : Nat, pauses : Nat],
         campaign' \in [enabled : BOOLEAN, budget : Nat, cost : Nat],
         \/ alloc' = alloc
         \/ \E k \in Keys, row \in Rows : alloc' = [alloc EXCEPT ![k] = row],
         \/ call' = call
         \/ \E c \in Callers, r \in CallStates : call' = [call EXCEPT ![c] = r],
         \/ worker' = worker
         \/ \E w \in Workers, o \in WorkerStates : worker' = [worker EXCEPT ![w] = o]
  PROVE  TypeOK'
BY DEF TypeOK

LEMMA StepTypes ==
  ASSUME TypeOK, NEW c \in Callers
  PROVE  /\ \A at \in CallSteps :
              Step(c, at) => \E r \in CallStates : call' = [call EXCEPT ![c] = r]
         /\ Return(c) => \E r \in CallStates : call' = [call EXCEPT ![c] = r]
         /\ \A at \in CallSteps, k \in Keys : [IdleCall EXCEPT !.at = at, !.key = k] \in CallStates
<1>1. call[c] \in CallStates
  BY DEF TypeOK
<1>2. IdleCall \in CallStates
  BY DEF IdleCall, CallStates, CallSteps
<1>3. \A at \in CallSteps, k \in Keys : [IdleCall EXCEPT !.at = at, !.key = k] \in CallStates
  BY <1>2 DEF CallStates
<1>4. \A at \in CallSteps : [call[c] EXCEPT !.at = at] \in CallStates
  BY <1>1 DEF CallStates
<1> QED BY <1>2, <1>3, <1>4 DEF Step, Return

LEMMA GotoTypes ==
  ASSUME TypeOK, NEW w \in Workers
  PROVE  /\ \A at \in WorkerSteps :
              Goto(w, at) => \E o \in WorkerStates : worker' = [worker EXCEPT ![w] = o]
         /\ Rest(w) => \E o \in WorkerStates : worker' = [worker EXCEPT ![w] = o]
         /\ IdleWorker \in WorkerStates
<1>1. worker[w] \in WorkerStates
  BY DEF TypeOK
<1>2. IdleWorker \in WorkerStates
  BY DEF IdleWorker, WorkerStates, WorkerSteps
<1>3. ASSUME NEW at \in WorkerSteps, Goto(w, at)
      PROVE  \E o \in WorkerStates : worker' = [worker EXCEPT ![w] = o]
  <2> DEFINE o == IF at \in {"stop", "request"} THEN [worker[w] EXCEPT !.at = at, !.cost = 0]
                  ELSE [IdleWorker EXCEPT !.at = at, !.key = worker[w].key]
  <2>1. o \in WorkerStates
    BY <1>1, <1>2 DEF WorkerStates
  <2>2. worker' = [worker EXCEPT ![w] = o]
    BY <1>3 DEF Goto
  <2> QED BY <2>1, <2>2
<1> QED BY <1>2, <1>3 DEF Rest

LEMMA ProceedTypes == \A row, o : Proceed(row, o) \in WorkerSteps
BY DEF Proceed, WorkerSteps

LEMMA CallingTypes ==
  ASSUME GInv, NEW c \in Callers, Calling(c)
  PROVE  TypeOK'
<1> USE DEF GInv
<1> DEFINE k == call[c].key
           Campaigns == [enabled : BOOLEAN, budget : Nat, cost : Nat]
           Sent == [Keys -> [sent : Nat, accepted : BOOLEAN]]
           Tallies == [calls : Nat, pauses : Nat]
<1>1. call[c].at # "idle" => k \in Keys
  BY DEF FlowInv, CallInv
<1>2. /\ paused \in BOOLEAN /\ campaign \in Campaigns /\ launches \in Sent /\ tally \in Tallies
      /\ \A j \in Keys : alloc[j] \in Rows
      /\ call[c] \in CallStates
  BY DEF TypeOK
<1>3. \A j \in Keys : Amount[j] \in Nat /\ Desired(j) \in Nat
  BY <1>2, AdSpendAssumption DEF Desired, Rows
<1> HIDE DEF k
<1>4. ASSUME Begin(c) PROVE tally' \in Tallies
  BY <1>2, <1>4 DEF Begin
<1>5. ASSUME UNCHANGED <<paused, launches, tally, campaign, worker>>,
             \/ alloc' = alloc
             \/ \E j \in Keys, row \in Rows : alloc' = [alloc EXCEPT ![j] = row],
             Return(c) \/ \E at \in CallSteps : Step(c, at)
      PROVE  TypeOK'
  <2>1. \E r \in CallStates : call' = [call EXCEPT ![c] = r]
    BY <1>5, StepTypes
  <2> QED BY <1>2, <1>5, <2>1, TypesKeep
<1>6. CASE \E j \in Keys : StartLaunch(c, j) \/ StartResume(c, j)
  <2>1. PICK at \in {"read", "look"}, i \in Keys :
          call' = [call EXCEPT ![c] = [IdleCall EXCEPT !.at = at, !.key = i]]
    <3>1. \A j \in Keys : Relaunch[j] \in Keys \cup {NoKey}
      BY GoogleAdsAssumption
    <3> QED BY <1>6, <3>1 DEF StartLaunch, StartResume
  <2>2. \E r \in CallStates : call' = [call EXCEPT ![c] = r]
    BY <2>1, StepTypes DEF CallSteps
  <2>3. /\ UNCHANGED <<paused, campaign, launches, alloc, worker>> /\ Begin(c)
    BY <1>6 DEF StartLaunch, StartResume
  <2> QED BY <1>2, <1>4, <2>2, <2>3, TypesKeep
<1>7. CASE StartPause(c)
  <2>1. PICK j \in Keys :
          /\ alloc' = [alloc EXCEPT ![j] = Closure(alloc[j], "other")]
          /\ call' = [call EXCEPT ![c] = [IdleCall EXCEPT !.at = "pause", !.key = j]]
    BY <1>7 DEF StartPause
  <2>2. Closure(alloc[j], "other") \in Rows
    BY <1>2, RowWriters
  <2>3. \E r \in CallStates : call' = [call EXCEPT ![c] = r]
    BY <2>1, StepTypes DEF CallSteps
  <2>4. UNCHANGED <<paused, campaign, launches, worker>> /\ Begin(c)
    BY <1>7 DEF StartPause
  <2> QED BY <1>2, <1>4, <2>1, <2>2, <2>3, <2>4, TypesKeep
<1>8. CASE ReadBaseline(c)
  <2>1. CASE Return(c)
    BY <1>5, <1>8, <2>1 DEF ReadBaseline
  <2>2. CASE call' = [call EXCEPT ![c].at = "reserve", ![c].base = campaign.cost]
    <3> DEFINE r == [call[c] EXCEPT !.at = "reserve", !.base = campaign.cost]
    <3>1. r \in CallStates
      BY <1>2 DEF CallStates, CallSteps
    <3>2. call' = [call EXCEPT ![c] = r]
      BY <2>2 DEF TypeOK
    <3> QED BY <1>2, <1>8, <3>1, <3>2, TypesKeep DEF ReadBaseline
  <2> QED BY <1>8, <2>1, <2>2 DEF ReadBaseline
<1>9. CASE Reserve(c)
  <2>1. CASE Step(c, "create") \/ Return(c)
    BY <1>5, <1>9, <2>1 DEF Reserve, CallSteps
  <2>2. CASE call' = [call EXCEPT ![c].at = "create", ![c].dup = TRUE]
    <3> DEFINE r == [call[c] EXCEPT !.at = "create", !.dup = TRUE]
    <3>1. r \in CallStates
      BY <1>2 DEF CallStates, CallSteps
    <3>2. call' = [call EXCEPT ![c] = r]
      BY <2>2 DEF TypeOK
    <3> QED BY <1>2, <1>9, <3>1, <3>2, TypesKeep DEF Reserve
  <2> QED BY <1>9, <2>1, <2>2 DEF Reserve
<1>10. CASE CreateAllocation(c)
  <2> DEFINE n == Cardinality({j \in Keys : alloc[j].launch # "none"})
             row == [Row0 EXCEPT !.launch = "PENDING", !.base = call[c].base,
                                 !.observed = call[c].base, !.owner = "launch", !.live = TRUE,
                                 !.after = n]
  <2>1. n \in Nat
    BY AdSpendFinite, FS_Subset, FS_CardinalityType
  <2>2. call[c].base \in Nat
    BY <1>2 DEF CallStates
  <2> HIDE DEF n
  <2>3. row \in Rows
    <3>1. Row0 \in Rows
      BY DEF Row0, Rows, LaunchStates, ClosureStates, Closing, Nobody
    <3> DEFINE r1 == [Row0 EXCEPT !.launch = "PENDING", !.base = call[c].base,
                                  !.observed = call[c].base]
    <3>2. r1 \in Rows
      BY <2>2, <3>1 DEF Rows, LaunchStates
    <3>3. row = [r1 EXCEPT !.owner = "launch", !.live = TRUE, !.after = n]
      OBVIOUS
    <3> HIDE DEF r1, row
    <3> QED BY <2>1, <3>2, <3>3 DEF Rows
  <2>4. k \in Keys
    BY <1>1, <1>10 DEF CreateAllocation
  <2>5. alloc' = alloc \/ alloc' = [alloc EXCEPT ![k] = row]
    BY <1>10 DEF CreateAllocation, k, n
  <2>6. Return(c) \/ \E at \in CallSteps : Step(c, at)
    BY <1>10 DEF CreateAllocation, CallSteps
  <2>7. UNCHANGED <<paused, launches, tally, campaign, worker>>
    BY <1>10 DEF CreateAllocation
  <2> HIDE DEF row
  <2> QED BY <1>5, <2>3, <2>4, <2>5, <2>6, <2>7
<1>11. CASE \/ UndoReservation(c) \/ ReleaseRejected(c) \/ StatementFails(c) \/ LookBeforeResume(c)
            \/ CallDies(c)
  BY <1>5, <1>11 DEF UndoReservation, ReleaseRejected, StatementFails, LookBeforeResume, CallDies,
                     CallSteps
<1>12. CASE SendLaunch(c)
  <2>1. k \in Keys
    BY <1>1, <1>12 DEF SendLaunch
  <2>2. PICK outcome \in Outcomes :
          /\ campaign' = IF Executes(outcome)
                         THEN [campaign EXCEPT !.enabled = TRUE, !.budget = Desired(k)]
                         ELSE campaign
          /\ launches' = [launches EXCEPT ![k] = [sent |-> @.sent + 1,
                                                  accepted |-> @.accepted \/ Executes(outcome)]]
          /\ call' = [call EXCEPT ![c] = [IdleCall EXCEPT !.at = AfterLaunch(outcome), !.key = k]]
    BY <1>12 DEF SendLaunch, k
  <2>3. AfterLaunch(outcome) \in CallSteps
    BY DEF AfterLaunch, CallSteps
  <2>4. \E r \in CallStates : call' = [call EXCEPT ![c] = r]
    BY <2>1, <2>2, <2>3, StepTypes
  <2>5. campaign' \in Campaigns
    BY <1>2, <1>3, <2>1, <2>2
  <2>6. launches' \in Sent
    <3>1. /\ launches[k].sent + 1 \in Nat
          /\ (launches[k].accepted \/ Executes(outcome)) \in BOOLEAN
      BY <1>2, <2>1 DEF Executes
    <3> QED BY <1>2, <2>1, <2>2, <3>1
  <2> QED BY <1>2, <1>12, <2>4, <2>5, <2>6, TypesKeep DEF SendLaunch
<1>13. CASE SendPause(c) \/ SendEnable(c)
  <2>1. campaign' \in Campaigns
    <3>1. call[c].at = "enable" => Desired(k) \in Nat
      BY <1>1, <1>3
    <3> QED BY <1>2, <1>13, <3>1 DEF SendPause, SendEnable, k
  <2>2. Return(c) \/ \E at \in CallSteps : Step(c, at)
    BY <1>13 DEF SendPause, SendEnable, CallSteps
  <2>3. \E r \in CallStates : call' = [call EXCEPT ![c] = r]
    BY <2>2, StepTypes
  <2> QED BY <1>2, <1>13, <2>1, <2>3, TypesKeep DEF SendPause, SendEnable
<1>14. CASE MarkLaunchApplied(c) \/ MarkLaunchRejected(c) \/ MarkLaunchUncertain(c)
            \/ MarkPauseOutcome(c) \/ MarkResumed(c)
  <2>1. k \in Keys /\ alloc[k] \in Rows
    BY <1>1, <1>2, <1>14
       DEF MarkLaunchApplied, MarkLaunchRejected, MarkLaunchUncertain, MarkPauseOutcome, MarkResumed
  <2> DEFINE applied == [alloc[k] EXCEPT !.launch = "APPLIED", !.launchedAt = TRUE]
             rejected == [alloc[k] EXCEPT !.launch = "REJECTED", !.closure = "FINALIZED"]
             uncertain == [alloc[k] EXCEPT !.launch = "UNCERTAIN"]
             reopened == [alloc[k] EXCEPT !.closure = "OPEN", !.reason = "none",
                                          !.pausedAt = FALSE, !.evidence = FALSE]
  <2>2. /\ applied \in Rows /\ rejected \in Rows /\ uncertain \in Rows /\ reopened \in Rows
        /\ \A definitive \in BOOLEAN : PauseOutcome(alloc[k], definitive) \in Rows
    <3>1. applied \in Rows
      BY <2>1 DEF Rows, LaunchStates
    <3>2. rejected \in Rows
      BY <2>1 DEF Rows, LaunchStates, ClosureStates
    <3>3. uncertain \in Rows
      BY <2>1 DEF Rows, LaunchStates
    <3>4. reopened \in Rows
      BY <2>1 DEF Rows, ClosureStates
    <3> QED BY <2>1, <3>1, <3>2, <3>3, <3>4, RowWriters
  <2>3. \/ alloc' = alloc
        \/ alloc' = [alloc EXCEPT ![k] = Unleased(applied)]
        \/ alloc' = [alloc EXCEPT ![k] = Unleased(rejected)]
        \/ alloc' = [alloc EXCEPT ![k] = Unleased(uncertain)]
        \/ alloc' = [alloc EXCEPT ![k] = Unleased(reopened)]
        \/ \E definitive \in BOOLEAN : alloc' = [alloc EXCEPT ![k] = PauseOutcome(alloc[k], definitive)]
    BY <1>14 DEF MarkLaunchApplied, MarkLaunchRejected, MarkLaunchUncertain, MarkPauseOutcome,
                 MarkPause, MarkResumed, k
  <2> HIDE DEF applied, rejected, uncertain, reopened
  <2>4. alloc' = alloc \/ \E row \in Rows : alloc' = [alloc EXCEPT ![k] = row]
    BY <2>2, <2>3, RowWriters
  <2>5. Return(c) \/ \E at \in CallSteps : Step(c, at)
    BY <1>14 DEF MarkLaunchApplied, MarkLaunchRejected, MarkLaunchUncertain, MarkPauseOutcome,
                 MarkResumed, CallSteps
  <2>6. UNCHANGED <<paused, launches, tally, campaign, worker>>
    BY <1>14 DEF MarkLaunchApplied, MarkLaunchRejected, MarkLaunchUncertain, MarkPauseOutcome,
                 MarkResumed
  <2> QED BY <1>5, <2>1, <2>4, <2>5, <2>6
<1> QED BY <1>6, <1>7, <1>8, <1>9, <1>10, <1>11, <1>12, <1>13, <1>14 DEF Calling

LEMMA ReconcilingTypes ==
  ASSUME GInv, NEW w \in Workers, Reconciling(w)
  PROVE  TypeOK'
<1> USE DEF GInv
<1> DEFINE k == worker[w].key
           Campaigns == [enabled : BOOLEAN, budget : Nat, cost : Nat]
           Sent == [Keys -> [sent : Nat, accepted : BOOLEAN]]
           Tallies == [calls : Nat, pauses : Nat]
<1>1. worker[w].at # "idle" => k \in Keys
  BY DEF FlowInv, WorkerInv
<1>2. /\ paused \in BOOLEAN /\ campaign \in Campaigns /\ launches \in Sent /\ tally \in Tallies
      /\ \A j \in Keys : alloc[j] \in Rows
      /\ worker[w] \in WorkerStates
  BY DEF TypeOK
<1> HIDE DEF k
<1>3. ASSUME UNCHANGED <<paused, launches, tally, call>>, campaign' \in Campaigns,
             \/ alloc' = alloc
             \/ \E j \in Keys, row \in Rows : alloc' = [alloc EXCEPT ![j] = row],
             Rest(w) \/ \E at \in WorkerSteps : Goto(w, at)
      PROVE  TypeOK'
  <2>1. \E o \in WorkerStates : worker' = [worker EXCEPT ![w] = o]
    BY <1>3, GotoTypes
  <2> QED BY <1>2, <1>3, <2>1, TypesKeep
<1>4. ASSUME NEW j \in Keys, Claim(w, j) PROVE TypeOK'
  <2> DEFINE closed == [i \in Keys |-> IF alloc[i].launch # "none" /\ alloc[i].closure = "OPEN"
                                            /\ Lapsed(AuthOf[i])
                                         THEN Closure(alloc[i], "other") ELSE alloc[i]]
             row == [closed[j] EXCEPT !.owner = w, !.live = TRUE]
  <2>1. closed \in [Keys -> Rows]
    BY <1>2, RowWriters
  <2>2. alloc' = [closed EXCEPT ![j].owner = w, ![j].live = TRUE]
    BY <1>4 DEF Claim
  <2> HIDE DEF closed
  <2>3. alloc' = [closed EXCEPT ![j] = row]
    BY <2>1, <2>2
  <2>4. row \in Rows
    BY <2>1 DEF Rows
  <2>5. alloc' \in [Keys -> Rows]
    BY <2>1, <2>3, <2>4
  <2>6. worker' \in [Workers -> WorkerStates]
    <3>1. [IdleWorker EXCEPT !.at = "read", !.key = j] \in WorkerStates
      BY GotoTypes DEF WorkerStates, WorkerSteps
    <3> QED BY <1>4, <3>1 DEF Claim, TypeOK
  <2> QED BY <1>4, <2>5, <2>6 DEF Claim, TypeOK
<1>5. CASE ReadCampaign(w)
  <2> DEFINE o == [at |-> "observe", key |-> k, cost |-> campaign.cost,
                   stopped |-> ~campaign.enabled, mismatch |-> campaign.budget # Desired(k)]
  <2>1. o \in WorkerStates
    BY <1>1, <1>2, <1>5 DEF ReadCampaign, WorkerStates, WorkerSteps
  <2>2. worker' = [worker EXCEPT ![w] = o]
    BY <1>5 DEF ReadCampaign, k
  <2> QED BY <1>2, <1>5, <2>1, <2>2, TypesKeep DEF ReadCampaign
<1>6. CASE Observe(w)
  <2> DEFINE o == worker[w]
             closure == IF alloc[k].closure \in Closing /\ o.stopped THEN "PROVIDER_PAUSED"
                        ELSE IF alloc[k].closure = "PROVIDER_PAUSED" THEN "AWAITING_BILLING"
                        ELSE alloc[k].closure
             launch == IF alloc[k].launch = "UNCERTAIN" /\ ~o.mismatch THEN "APPLIED"
                       ELSE alloc[k].launch
             stable == IF alloc[k].observed # o.cost THEN 1
                       ELSE IF alloc[k].stable < 2 THEN alloc[k].stable + 1 ELSE 2
             over == Incremental(k, o.cost) > Amount[k]
             paid == alloc[k].pausedAt \/ o.stopped
             at == Proceed(alloc'[k], o)
  <2>1. k \in Keys /\ alloc[k] \in Rows
    BY <1>1, <1>2, <1>6 DEF Observe
  <2>2. /\ closure \in ClosureStates /\ launch \in LaunchStates /\ stable \in 0 .. 2
        /\ over \in BOOLEAN /\ paid \in BOOLEAN /\ o.cost \in Nat
    <3>1. /\ alloc[k].closure \in ClosureStates /\ alloc[k].launch \in LaunchStates
          /\ alloc[k].stable \in 0 .. 2 /\ o.cost \in Nat
      BY <1>2, <2>1 DEF Rows, WorkerStates
    <3>2. closure \in ClosureStates /\ launch \in LaunchStates
      BY <3>1 DEF ClosureStates, LaunchStates
    <3>3. stable \in 0 .. 2
      BY <3>1
    <3> QED BY <3>1, <3>2, <3>3
  <2>3. Observed(k, o) = [alloc[k] EXCEPT !.observed = o.cost, !.over = over, !.stable = stable,
                                          !.launch = launch, !.closure = closure, !.pausedAt = paid]
    BY DEF Observed
  <2>4. /\ alloc' = [alloc EXCEPT ![k] = Observed(k, o)] /\ Goto(w, at)
        /\ UNCHANGED <<paused, campaign, launches, call, tally>>
    BY <1>6 DEF Observe, k
  <2>5. at \in WorkerSteps
    BY ProceedTypes
  <2> HIDE DEF closure, launch, stable, over, paid, o, at
  <2>6. Observed(k, o) \in Rows
    BY <2>1, <2>2, <2>3 DEF Rows
  <2> QED BY <1>2, <1>3, <2>1, <2>4, <2>5, <2>6
<1>7. CASE CloseStopped(w) \/ RequestClosure(w)
  <2> DEFINE r == Closure(alloc[k], "other")
             at == Proceed(alloc'[k], worker[w])
  <2>1. k \in Keys
    BY <1>1, <1>7 DEF CloseStopped, RequestClosure
  <2>2. r \in Rows
    BY <1>2, <2>1, RowWriters
  <2>3. alloc' = [alloc EXCEPT ![k] = r] \/ alloc' = [alloc EXCEPT ![k] = PauseOutcome(r, TRUE)]
    BY <1>7 DEF CloseStopped, RequestClosure, k
  <2> HIDE DEF r
  <2>4. \E row \in Rows : alloc' = [alloc EXCEPT ![k] = row]
    BY <2>2, <2>3, RowWriters
  <2>5. at \in WorkerSteps /\ Goto(w, at) /\ UNCHANGED <<paused, campaign, launches, call, tally>>
    BY <1>7, ProceedTypes DEF CloseStopped, RequestClosure, k
  <2> HIDE DEF at
  <2> QED BY <1>2, <1>3, <2>1, <2>4, <2>5
<1>8. CASE MarkStopped(w) \/ MarkUnknown(w)
  <2>1. k \in Keys
    BY <1>1, <1>8 DEF MarkStopped, MarkUnknown
  <2>2. PICK definitive \in BOOLEAN, at \in WorkerSteps :
          /\ MarkPause(k, definitive) /\ Goto(w, at)
          /\ UNCHANGED <<paused, campaign, launches, call, tally>>
    BY <1>8 DEF MarkStopped, MarkUnknown, WorkerSteps, k
  <2>3. alloc' = alloc \/ \E row \in Rows : alloc' = [alloc EXCEPT ![k] = row]
    BY <1>2, <2>1, <2>2, RowWriters DEF MarkPause
  <2> QED BY <1>2, <1>3, <2>1, <2>2, <2>3
<1>9. CASE PauseCampaign(w) \/ ReadBillingEvidence(w) \/ WorkerDies(w)
  <2>1. campaign' \in Campaigns
    BY <1>2, <1>9 DEF PauseCampaign, ReadBillingEvidence, WorkerDies
  <2>2. Rest(w) \/ \E at \in WorkerSteps : Goto(w, at)
    BY <1>9 DEF PauseCampaign, ReadBillingEvidence, WorkerDies, WorkerSteps
  <2>3. k \in Keys /\ alloc[k] \in Rows
    BY <1>1, <1>2, <1>9 DEF PauseCampaign, ReadBillingEvidence, WorkerDies
  <2>4. [alloc[k] EXCEPT !.live = TRUE] \in Rows
    BY <2>3 DEF Rows
  <2>5. alloc' = alloc \/ \E row \in Rows : alloc' = [alloc EXCEPT ![k] = row]
    BY <1>9, <2>4 DEF PauseCampaign, ReadBillingEvidence, WorkerDies, k
  <2> QED BY <1>2, <1>3, <1>9, <2>1, <2>2, <2>3, <2>5
          DEF PauseCampaign, ReadBillingEvidence, WorkerDies
<1>10. CASE RecordBillingEvidence(w)
  <2> DEFINE closure == IF alloc[k].closure = "PROVIDER_PAUSED" THEN "AWAITING_BILLING"
                        ELSE alloc[k].closure
             row == [alloc[k] EXCEPT !.evidence = TRUE, !.known = TRUE, !.closure = closure]
  <2>1. k \in Keys /\ alloc[k] \in Rows
    BY <1>1, <1>2, <1>10 DEF RecordBillingEvidence
  <2>2. closure \in ClosureStates
    BY <2>1 DEF Rows, ClosureStates
  <2>3. alloc' = alloc \/ alloc' = [alloc EXCEPT ![k] = row]
    BY <1>10, <2>1 DEF RecordBillingEvidence, TypeOK, k
  <2> HIDE DEF closure
  <2>4. row \in Rows
    BY <2>1, <2>2 DEF Rows
  <2>5. Goto(w, "finalize") /\ "finalize" \in WorkerSteps
    BY <1>10 DEF RecordBillingEvidence, WorkerSteps
  <2> HIDE DEF row
  <2> QED BY <1>2, <1>3, <1>10, <2>1, <2>3, <2>4, <2>5 DEF RecordBillingEvidence
<1>11. CASE Finalize(w) \/ Schedule(w)
  <2> DEFINE done == [alloc[k] EXCEPT !.closure = "FINALIZED"]
  <2>1. k \in Keys /\ alloc[k] \in Rows
    BY <1>1, <1>2, <1>11 DEF Finalize, Schedule
  <2>2. done \in Rows
    BY <2>1 DEF Rows, ClosureStates
  <2>3. \/ alloc' = alloc \/ alloc' = [alloc EXCEPT ![k] = Unleased(alloc[k])]
        \/ alloc' = [alloc EXCEPT ![k] = Unleased(done)]
    BY <1>11 DEF Finalize, Schedule, k
  <2> HIDE DEF done
  <2>4. alloc' = alloc \/ \E row \in Rows : alloc' = [alloc EXCEPT ![k] = row]
    BY <2>1, <2>2, <2>3, RowWriters
  <2> QED BY <1>2, <1>3, <1>11, <2>1, <2>4 DEF Finalize, Schedule
<1> QED BY <1>4, <1>5, <1>6, <1>7, <1>8, <1>9, <1>10, <1>11 DEF Reconciling

LEMMA ElsewhereTypes ==
  ASSUME GInv, Elsewhere
  PROVE  TypeOK'
<1> USE DEF GInv
<1>1. \A k \in Keys : alloc[k] \in Rows
  BY DEF TypeOK
<1>2. CASE (Deposits \/ Budgets) /\ UNCHANGED gVars
  BY <1>2 DEF TypeOK, gVars
<1>3. CASE Spend \/ StoppedExternally \/ ResumeAutomation
  <2>1. campaign \in [enabled : BOOLEAN, budget : Nat, cost : Nat] /\ paused \in BOOLEAN
    BY DEF TypeOK
  <2>2. campaign' \in [enabled : BOOLEAN, budget : Nat, cost : Nat]
    <3>1. campaign.cost + 1 \in Nat
      BY <2>1
    <3> QED BY <1>3, <2>1, <3>1 DEF Spend, StoppedExternally, ResumeAutomation
  <2> QED BY <1>3, <2>1, <2>2 DEF Spend, StoppedExternally, ResumeAutomation, TypeOK
<1>4. CASE PauseAutomation
  <2>1. ASSUME NEW k \in Keys
        PROVE  [alloc[k] EXCEPT !.closure = "REQUESTED", !.reason = "automation"] \in Rows
    BY <1>1 DEF Rows, ClosureStates, Closing
  <2>2. alloc' \in [Keys -> Rows]
    BY <1>1, <1>4, <2>1 DEF PauseAutomation
  <2>3. tally' \in [calls : Nat, pauses : Nat]
    <3>1. tally \in [calls : Nat, pauses : Nat] /\ tally.pauses + 1 \in Nat
      BY DEF TypeOK
    <3> QED BY <1>4, <3>1 DEF PauseAutomation
  <2> QED BY <1>4, <2>2, <2>3 DEF PauseAutomation, TypeOK
<1>5. ASSUME NEW k \in Keys, ReleaseOrphan(k) PROVE TypeOK'
  BY <1>5 DEF ReleaseOrphan, TypeOK, gVars
<1>6. ASSUME NEW k \in Keys, LeaseExpires(k) PROVE TypeOK'
  <2> DEFINE row == [alloc[k] EXCEPT !.live = FALSE]
  <2>1. row \in Rows
    BY <1>1 DEF Rows
  <2>2. alloc' = [alloc EXCEPT ![k] = row]
    BY <1>6 DEF LeaseExpires
  <2> HIDE DEF row
  <2> QED BY <1>6, <2>1, <2>2 DEF LeaseExpires, TypeOK
<1> QED BY <1>2, <1>3, <1>4, <1>5, <1>6 DEF Elsewhere

-----------------------------------------------------------------------------
LEMMA GInvInit == Init => GInv
<1> SUFFICES ASSUME Init PROVE GInv
  OBVIOUS
<1>1. AdInv
  BY AdInvInit DEF Init
<1>2. TypeOK
  <2>1. Row0 \in Rows
    BY DEF Row0, Rows, LaunchStates, ClosureStates, Closing, Nobody
  <2>2. IdleCall \in CallStates /\ IdleWorker \in WorkerStates
    BY DEF IdleCall, CallStates, CallSteps, IdleWorker, WorkerStates, WorkerSteps
  <2> QED BY <2>1, <2>2 DEF Init, TypeOK
<1>3. \A k \in Keys : RowInv(k) /\ ~IsOpen(k)
  BY DEF Init, RowInv, IsOpen, Row0
<1>4. \A c \in Callers : CallInv(c) /\ ~Owner(call[c])
  BY DEF Init, CallInv, IdleCall, Owner, Unsent, OnRow
<1>5. \A w \in Workers : WorkerInv(w)
  BY DEF Init, WorkerInv, IdleWorker
<1> QED BY <1>1, <1>2, <1>3, <1>4, <1>5 DEF GInv, FlowInv, OwnersInv, OpenInv

LEMMA GInvNext == GInv /\ [Next]_vars => GInv' /\ FinalKept
<1> SUFFICES ASSUME GInv, [Next]_vars PROVE GInv' /\ FinalKept
  OBVIOUS
<1>1. AdInv'
  BY StepOfAdSpend, AdInvNext DEF GInv
<1>2. TypeOK' /\ FlowInv' /\ FinalKept
  <2>1. CASE UNCHANGED vars
    BY <2>1 DEF vars, adVars, gVars, GInv, TypeOK, FlowInv, RowInv, CallInv, OwnersInv, WorkerInv,
                OpenInv, IsOpen, FinalKept
  <2> QED BY <2>1, CallingFlow, CallingTypes, ReconcilingFlow, ReconcilingTypes, ElsewhereFlow,
             ElsewhereTypes DEF Next, Elsewhere
<1> QED BY <1>1, <1>2 DEF GInv

LEMMA GInvAlways == Spec => []GInv
BY GInvInit, GInvNext, PTL DEF Spec

-----------------------------------------------------------------------------
\* The calls and the worker use the wallet as module AdSpend specifies it: every
\* step of theirs is one transaction of the wallet, or leaves it alone.
THEOREM GoogleAdsImplementsAdSpend == Spec => AdSpec
<1>1. Init => AdInit
  BY DEF Init
<1>2. GInv /\ [Next]_vars => [AdNext]_adVars
  BY StepOfAdSpend
<1> QED BY <1>1, <1>2, GInvAlways, PTL DEF Spec, AdSpec

\* Types of the rows, the campaign, the calls and the workers, and so that no
\* step of any of them ever reads a row that is not there.
THEOREM GoogleAdsTypes == Spec => []TypeOK
<1>1. GInv => TypeOK
  BY DEF GInv
<1> QED BY <1>1, GInvAlways, PTL

\* Budgets hold whoever launches, pauses, resumes and reconciles.
THEOREM LaunchesStayAuthorized == Spec => []WithinAuthorization
<1>1. GInv => WithinAuthorization
  BY DEF GInv, AdInv
<1> QED BY <1>1, GInvAlways, PTL

\* A launch is sent at most once per operation key.
THEOREM LaunchesAreSentOnce == Spec => []LaunchedOnce
<1>1. GInv => LaunchedOnce
  BY DEF GInv, FlowInv, RowInv, LaunchedOnce
<1> QED BY <1>1, GInvAlways, PTL

\* The budget stays held while Google may be running the launch.
THEOREM BudgetsStayHeld == Spec => []HeldWhileOpen
<1>1. GInv => HeldWhileOpen
  BY DEF GInv, FlowInv, RowInv, HeldWhileOpen
<1> QED BY <1>1, GInvAlways, PTL

\* At most one allocation of the campaign is open.
THEOREM OneAllocationIsOpen == Spec => []OneOpenAllocation
<1>1. ASSUME GInv PROVE OneOpenAllocation
  <2> DEFINE S == {k \in Keys : IsOpen(k)}
  <2>1. CASE S = {}
    BY <2>1, FS_EmptySet DEF OneOpenAllocation
  <2>2. CASE \E k \in S : TRUE
    <3>1. PICK k \in Keys : IsOpen(k)
      BY <2>2
    <3>2. S = {k}
      BY <1>1, <3>1 DEF GInv, FlowInv, OpenInv
    <3>3. Cardinality(S) = 1
      BY <3>2, FS_Singleton
    <3> QED BY <3>3 DEF OneOpenAllocation
  <2> QED BY <2>1, <2>2
<1> QED BY <1>1, GInvAlways, PTL

\* A finalized allocation and its reservation never change again.
THEOREM FinalizedStaysFinal == Spec => FinalizedIsFinal
<1> DEFINE Final == \A k \in Keys : alloc[k].closure = "FINALIZED"
                      => alloc'[k].closure = "FINALIZED" /\ reservation'[k] = reservation[k]
<1>1. ASSUME GInv, [Next]_vars PROVE [Final]_vars
  <2> SUFFICES ASSUME NEW k \in Keys, alloc[k].closure = "FINALIZED"
               PROVE  alloc'[k].closure = "FINALIZED" /\ reservation'[k] = reservation[k]
    OBVIOUS
  <2>1. alloc'[k].closure = "FINALIZED"
    BY <1>1, GInvNext DEF FinalKept
  <2>2. reservation[k].status \in Closed
    BY <1>1 DEF GInv, FlowInv, RowInv
  <2>3. [AdNext]_adVars
    BY <1>1, StepOfAdSpend
  <2> QED BY <1>1, <2>1, <2>2, <2>3, ClosedIsFinal DEF GInv
<1> QED BY <1>1, GInvAlways, PTL DEF Spec, FinalizedIsFinal

-----------------------------------------------------------------------------
\* Launches in flight.

\* Steps of a call between the creation of its allocation and the record of the answer.
Sending == {"send", "applied", "rejected", "close", "uncertain"}

\* The row of a launch in flight belongs to its call: it is pending, leased and
\* never observed, and no worker has it.
LaunchInv(c) ==
  LET k == call[c].key
  IN call[c].at \in Sending =>
       /\ alloc[k].launch = "PENDING" /\ alloc[k].live
       /\ alloc[k].observed = alloc[k].base
       /\ \A w \in Workers : worker[w].at # "idle" => worker[w].key # k

LaunchesOwnRows == \A c \in Callers : LaunchInv(c)

\* The part of a row LaunchInv is about.
RowSame(k) ==
  /\ alloc'[k].launch = alloc[k].launch /\ alloc'[k].live = alloc[k].live
  /\ alloc'[k].observed = alloc[k].observed /\ alloc'[k].base = alloc[k].base

LEMMA LaunchKept ==
  ASSUME NEW c \in Callers, LaunchInv(c),
         call'[c].at \in Sending =>
           /\ call[c].at \in Sending /\ call'[c].key = call[c].key
           /\ RowSame(call[c].key)
           /\ \A w \in Workers : worker'[w].at # "idle" => worker'[w].key # call[c].key
  PROVE  LaunchInv(c)'
BY DEF LaunchInv, RowSame

\* What else the writers of closures and leases leave alone.
LEMMA RowKeeps ==
  ASSUME NEW row \in Rows
  PROVE  /\ \A why \in {"automation", "other"} :
              /\ Closure(row, why).base = row.base /\ Closure(row, why).observed = row.observed
              /\ Closure(row, why).live = row.live
         /\ \A definitive \in BOOLEAN :
              /\ PauseOutcome(row, definitive).base = row.base
              /\ PauseOutcome(row, definitive).observed = row.observed
              /\ PauseOutcome(row, definitive).live = row.live
         /\ Unleased(row).base = row.base /\ Unleased(row).observed = row.observed
<1>1. ASSUME NEW why \in {"automation", "other"}
      PROVE  /\ Closure(row, why).base = row.base /\ Closure(row, why).observed = row.observed
             /\ Closure(row, why).live = row.live
  <2> DEFINE closure == IF row.closure = "OPEN" THEN "REQUESTED" ELSE row.closure
             reason == IF row.reason = "none" THEN why ELSE row.reason
  <2>1. Closure(row, why) = IF row.closure = "FINALIZED" THEN row
                            ELSE [row EXCEPT !.closure = closure, !.reason = reason]
    BY DEF Closure
  <2> HIDE DEF closure, reason
  <2> QED BY <2>1 DEF Rows
<1>2. ASSUME NEW definitive \in BOOLEAN
      PROVE  /\ PauseOutcome(row, definitive).base = row.base
             /\ PauseOutcome(row, definitive).observed = row.observed
             /\ PauseOutcome(row, definitive).live = row.live
  BY DEF Rows, PauseOutcome
<1>3. Unleased(row).base = row.base /\ Unleased(row).observed = row.observed
  BY DEF Rows, Unleased
<1> QED BY <1>1, <1>2, <1>3

\* A worker in a cycle writes the row of its own allocation only.
LEMMA WorkerFrame ==
  ASSUME GInv, NEW w \in Workers, Reconciling(w), \A k \in Keys : ~Claim(w, k)
  PROVE  /\ worker[w].at # "idle"
         /\ \A k \in Keys \ {worker[w].key} : alloc'[k] = alloc[k]
         /\ worker'[w].at # "idle" => worker'[w].key = worker[w].key
<1> USE DEF GInv
<1>1. worker[w] \in WorkerStates /\ DOMAIN worker = Workers /\ DOMAIN alloc = Keys
  BY DEF TypeOK
<1>2. ASSUME NEW at, Goto(w, at) PROVE worker'[w].key = worker[w].key
  <2> DEFINE r == IF at \in {"stop", "request"} THEN [worker[w] EXCEPT !.at = at, !.cost = 0]
                  ELSE [IdleWorker EXCEPT !.at = at, !.key = worker[w].key]
  <2>1. worker'[w] = r
    BY <1>1, <1>2 DEF Goto
  <2>2. r.key = worker[w].key
    BY <1>1 DEF WorkerStates, IdleWorker
  <2> QED BY <2>1, <2>2
<1>3. Rest(w) => worker'[w].at = "idle"
  BY <1>1 DEF Rest, IdleWorker
<1>4. worker[w].at # "idle"
  BY DEF Reconciling, ReadCampaign, Observe, CloseStopped, RequestClosure, MarkStopped,
         PauseCampaign, MarkUnknown, ReadBillingEvidence, RecordBillingEvidence, Finalize,
         Schedule, WorkerDies
<1>5. \A k \in Keys \ {worker[w].key} : alloc'[k] = alloc[k]
  BY <1>1
     DEF Reconciling, ReadCampaign, Observe, CloseStopped, RequestClosure, MarkStopped, MarkPause,
         PauseCampaign, MarkUnknown, ReadBillingEvidence, RecordBillingEvidence, Finalize,
         Schedule, WorkerDies
<1>6. worker'[w].at # "idle" => worker'[w].key = worker[w].key
  <2>1. CASE ReadCampaign(w)
    BY <1>1, <2>1 DEF ReadCampaign
  <2>2. CASE (\E at : Goto(w, at)) \/ Rest(w)
    BY <1>2, <1>3, <2>2
  <2> QED
    BY <2>1, <2>2
       DEF Reconciling, Observe, CloseStopped, RequestClosure, MarkStopped,
           PauseCampaign, MarkUnknown, ReadBillingEvidence, RecordBillingEvidence, Finalize,
           Schedule, WorkerDies
<1> QED BY <1>4, <1>5, <1>6

\* A step of a worker leaves the calls and the other workers alone.
LEMMA WorkerAlone ==
  ASSUME TypeOK, NEW w \in Workers, Reconciling(w)
  PROVE  /\ UNCHANGED <<launches, call>> /\ campaign'.cost = campaign.cost
         /\ \A v \in Workers \ {w} : worker'[v] = worker[v]
<1>1. DOMAIN worker = Workers /\ campaign \in [enabled : BOOLEAN, budget : Nat, cost : Nat]
  BY DEF TypeOK
<1>2. UNCHANGED <<launches, call>>
  BY DEF Reconciling, Claim, ReadCampaign, Observe, CloseStopped, RequestClosure, MarkStopped,
         PauseCampaign, MarkUnknown, ReadBillingEvidence, RecordBillingEvidence, Finalize,
         Schedule, WorkerDies
<1>3. campaign'.cost = campaign.cost
  BY <1>1
     DEF Reconciling, Claim, ReadCampaign, Observe, CloseStopped, RequestClosure, MarkStopped,
         PauseCampaign, MarkUnknown, ReadBillingEvidence, RecordBillingEvidence, Finalize,
         Schedule, WorkerDies
<1>4. \A v \in Workers \ {w} : worker'[v] = worker[v]
  <2>1. CASE (\E at : Goto(w, at)) \/ Rest(w)
    BY <1>1, <2>1 DEF Goto, Rest
  <2>2. CASE ReadCampaign(w) \/ \E k \in Keys : Claim(w, k)
    BY <1>1, <2>2 DEF ReadCampaign, Claim
  <2> QED
    BY <2>1, <2>2
       DEF Reconciling, Observe, CloseStopped, RequestClosure, MarkStopped,
           PauseCampaign, MarkUnknown, ReadBillingEvidence, RecordBillingEvidence, Finalize,
           Schedule, WorkerDies
<1> QED BY <1>2, <1>3, <1>4

\* A claim writes nothing of a row but its lease and its closure.
LEMMA ClaimRows ==
  ASSUME TypeOK, NEW w \in Workers, NEW j \in Keys, Claim(w, j)
  PROVE  \A k \in Keys : /\ alloc'[k].base = alloc[k].base
                          /\ alloc'[k].observed = alloc[k].observed
                          /\ alloc'[k].launch = alloc[k].launch
                          /\ (alloc'[k].closure = "FINALIZED") = (alloc[k].closure = "FINALIZED")
                          /\ (k # j => alloc'[k].live = alloc[k].live)
<1> DEFINE closed == [i \in Keys |-> IF alloc[i].launch # "none" /\ alloc[i].closure = "OPEN"
                                          /\ Lapsed(AuthOf[i])
                                       THEN Closure(alloc[i], "other") ELSE alloc[i]]
<1>1. alloc' = [closed EXCEPT ![j].owner = w, ![j].live = TRUE] /\ DOMAIN closed = Keys
  BY DEF Claim
<1>2. ASSUME NEW k \in Keys
      PROVE  /\ closed[k] \in Rows
             /\ closed[k].base = alloc[k].base /\ closed[k].observed = alloc[k].observed
             /\ closed[k].launch = alloc[k].launch /\ closed[k].live = alloc[k].live
             /\ (closed[k].closure = "FINALIZED") = (alloc[k].closure = "FINALIZED")
  <2> DEFINE r == Closure(alloc[k], "other")
  <2>1. alloc[k] \in Rows
    BY DEF TypeOK
  <2>2. /\ r \in Rows /\ r.launch = alloc[k].launch
        /\ r.base = alloc[k].base /\ r.observed = alloc[k].observed /\ r.live = alloc[k].live
        /\ \/ r.closure = alloc[k].closure
           \/ alloc[k].closure = "OPEN" /\ r.closure = "REQUESTED"
    BY <2>1, RowWriters, RowKeeps
  <2>3. closed[k] = r \/ closed[k] = alloc[k]
    OBVIOUS
  <2> HIDE DEF r, closed
  <2> QED BY <2>1, <2>2, <2>3
<1> HIDE DEF closed
<1>3. ASSUME NEW k \in Keys
      PROVE  alloc'[k] = IF k = j THEN [closed[j] EXCEPT !.owner = w, !.live = TRUE] ELSE closed[k]
  BY <1>1
<1>4. ASSUME NEW k \in Keys
      PROVE  /\ alloc'[k].base = closed[k].base
             /\ alloc'[k].observed = closed[k].observed
             /\ alloc'[k].launch = closed[k].launch
             /\ alloc'[k].closure = closed[k].closure
             /\ (k # j => alloc'[k].live = closed[k].live)
  <2> DEFINE r == [closed[j] EXCEPT !.owner = w, !.live = TRUE]
  <2>1. closed[j] \in Rows
    BY <1>2
  <2>2. /\ r.base = closed[j].base /\ r.observed = closed[j].observed
        /\ r.launch = closed[j].launch /\ r.closure = closed[j].closure
    BY <2>1 DEF Rows
  <2> HIDE DEF r
  <2>3. alloc'[k] = IF k = j THEN r ELSE closed[k]
    BY <1>3 DEF r
  <2> QED BY <2>2, <2>3
<1> QED BY <1>2, <1>4

\* A step of a call leaves the workers, the other calls and the cost alone.
LEMMA CallAlone ==
  ASSUME TypeOK, NEW c \in Callers, Calling(c)
  PROVE  /\ worker' = worker /\ campaign'.cost = campaign.cost
         /\ \A d \in Callers \ {c} : call'[d] = call[d]
<1>1. DOMAIN call = Callers /\ campaign \in [enabled : BOOLEAN, budget : Nat, cost : Nat]
  BY DEF TypeOK
<1>2. worker' = worker
  BY DEF Calling, StartLaunch, StartResume, ReadBaseline, Reserve, CreateAllocation,
         UndoReservation, SendLaunch, MarkLaunchApplied, ReleaseRejected, MarkLaunchRejected,
         StatementFails, MarkLaunchUncertain, StartPause, SendPause, MarkPauseOutcome,
         LookBeforeResume, SendEnable, MarkResumed, CallDies
<1>3. campaign'.cost = campaign.cost
  <2>1. CASE SendLaunch(c) \/ SendPause(c) \/ SendEnable(c)
    BY <1>1, <2>1 DEF SendLaunch, SendPause, SendEnable
  <2>2. CASE ~(SendLaunch(c) \/ SendPause(c) \/ SendEnable(c))
    BY <2>2
       DEF Calling, StartLaunch, StartResume, ReadBaseline, Reserve, CreateAllocation,
           UndoReservation, MarkLaunchApplied, ReleaseRejected, MarkLaunchRejected,
           StatementFails, MarkLaunchUncertain, StartPause, MarkPauseOutcome,
           LookBeforeResume, MarkResumed, CallDies
  <2> QED BY <2>1, <2>2
<1>4. \A d \in Callers \ {c} : call'[d] = call[d]
  BY <1>1
     DEF Calling, StartLaunch, StartResume, ReadBaseline, Reserve, CreateAllocation,
         UndoReservation, SendLaunch, MarkLaunchApplied, ReleaseRejected, MarkLaunchRejected,
         StatementFails, MarkLaunchUncertain, StartPause, SendPause, MarkPauseOutcome,
         LookBeforeResume, SendEnable, MarkResumed, CallDies, Step, Return
<1> QED BY <1>2, <1>3, <1>4

\* What a call writes of rows that exist: the baseline and the observed cost never,
\* the launch of its own key only, the lease of that one or of one it resumes.
Recording == {"applied", "close", "uncertain"}

LEMMA CallRows ==
  ASSUME GInv, NEW c \in Callers, Calling(c), ~CreateAllocation(c), NEW k \in Keys
  PROVE  /\ alloc'[k].base = alloc[k].base /\ alloc'[k].observed = alloc[k].observed
         /\ \/ alloc'[k].launch = alloc[k].launch
            \/ call[c].at \in Recording /\ call[c].key = k
         /\ \/ alloc'[k].live = alloc[k].live
            \/ call[c].at \in Recording /\ call[c].key = k
            \/ alloc[k].launch = "APPLIED"
         /\ \/ (alloc'[k].closure = "FINALIZED") = (alloc[k].closure = "FINALIZED")
            \/ call[c].at = "close" /\ call[c].key = k
         /\ alloc[k].launch = "none" => alloc'[k].launch = "none"
<1> USE DEF GInv
<1>1. DOMAIN alloc = Keys /\ alloc[k] \in Rows
  BY DEF TypeOK
<1>2. call[c].at # "idle" => call[c].key \in Keys
  BY DEF FlowInv, CallInv
<1>3. call[c].at \in OnRow => alloc[call[c].key].launch # "none"
  BY DEF FlowInv, CallInv
<1> DEFINE Goal == /\ alloc'[k].base = alloc[k].base /\ alloc'[k].observed = alloc[k].observed
                   /\ \/ alloc'[k].launch = alloc[k].launch
                      \/ call[c].at \in Recording /\ call[c].key = k
                   /\ \/ alloc'[k].live = alloc[k].live
                      \/ call[c].at \in Recording /\ call[c].key = k
                      \/ alloc[k].launch = "APPLIED"
                   /\ \/ (alloc'[k].closure = "FINALIZED") = (alloc[k].closure = "FINALIZED")
                      \/ call[c].at = "close" /\ call[c].key = k
                   /\ alloc[k].launch = "none" => alloc'[k].launch = "none"
<1>4. CASE alloc' = alloc
  BY <1>4
<1>5. ASSUME NEW j \in Keys, NEW row, alloc' = [alloc EXCEPT ![j] = row],
             row.base = alloc[j].base, row.observed = alloc[j].observed,
             row.launch = alloc[j].launch \/ (call[c].at \in Recording /\ call[c].key = j),
             \/ row.live = alloc[j].live
             \/ call[c].at \in Recording /\ call[c].key = j
             \/ alloc[j].launch = "APPLIED",
             \/ (row.closure = "FINALIZED") = (alloc[j].closure = "FINALIZED")
             \/ call[c].at = "close" /\ call[c].key = j
      PROVE  Goal
  <2>1. CASE k # j
    <3>1. alloc'[k] = alloc[k]
      BY <1>1, <1>5, <2>1
    <3> QED BY <3>1
  <2>2. CASE k = j
    <3>1. alloc'[k] = row
      BY <1>1, <1>5, <2>2
    <3>2. call[c].at \in Recording /\ call[c].key = j => alloc[j].launch # "none"
      BY <1>3 DEF Recording, OnRow
    <3> QED BY <1>5, <2>2, <3>1, <3>2
  <2> QED BY <2>1, <2>2
<1>6. CASE MarkLaunchApplied(c) \/ MarkLaunchRejected(c) \/ MarkLaunchUncertain(c)
  <2> DEFINE j == call[c].key
             a == [alloc[j] EXCEPT !.launch = "APPLIED", !.launchedAt = TRUE]
             r == [alloc[j] EXCEPT !.launch = "REJECTED", !.closure = "FINALIZED"]
             u == [alloc[j] EXCEPT !.launch = "UNCERTAIN"]
  <2>1. j \in Keys /\ call[c].at \in Recording
    BY <1>2, <1>6 DEF MarkLaunchApplied, MarkLaunchRejected, MarkLaunchUncertain, Recording
  <2>2. alloc[j] \in Rows
    BY <2>1 DEF TypeOK
  <2>3. /\ a.base = alloc[j].base /\ a.observed = alloc[j].observed /\ a.closure = alloc[j].closure
        /\ r.base = alloc[j].base /\ r.observed = alloc[j].observed
        /\ u.base = alloc[j].base /\ u.observed = alloc[j].observed /\ u.closure = alloc[j].closure
        /\ a \in Rows /\ r \in Rows /\ u \in Rows
    BY <2>2 DEF Rows, LaunchStates, ClosureStates
  <2>4. \/ alloc' = alloc
        \/ alloc' = [alloc EXCEPT ![j] = Unleased(a)]
        \/ alloc' = [alloc EXCEPT ![j] = Unleased(r)] /\ call[c].at = "close"
        \/ alloc' = [alloc EXCEPT ![j] = Unleased(u)]
    <3>1. CASE MarkLaunchApplied(c)
      BY <3>1 DEF MarkLaunchApplied
    <3>2. CASE MarkLaunchRejected(c)
      BY <3>2 DEF MarkLaunchRejected
    <3>3. CASE MarkLaunchUncertain(c)
      BY <3>3 DEF MarkLaunchUncertain
    <3> QED BY <1>6, <3>1, <3>2, <3>3
  <2> HIDE DEF a, r, u, j
  <2>5. \A row \in {a, r, u} : /\ Unleased(row).base = row.base
                               /\ Unleased(row).observed = row.observed
                               /\ Unleased(row).closure = row.closure
    <3> SUFFICES ASSUME NEW row \in Rows
                 PROVE  /\ Unleased(row).base = row.base
                        /\ Unleased(row).observed = row.observed
                        /\ Unleased(row).closure = row.closure
      BY <2>3
    <3> QED BY RowKeeps, RowWriters
  <2>6. CASE alloc' = [alloc EXCEPT ![j] = Unleased(a)]
    BY <1>5, <2>1, <2>3, <2>5, <2>6 DEF j
  <2>7. CASE alloc' = [alloc EXCEPT ![j] = Unleased(r)] /\ call[c].at = "close"
    BY <1>5, <2>1, <2>3, <2>5, <2>7 DEF j
  <2>8. CASE alloc' = [alloc EXCEPT ![j] = Unleased(u)]
    BY <1>5, <2>1, <2>3, <2>5, <2>8 DEF j
  <2> QED BY <1>4, <2>4, <2>6, <2>7, <2>8
<1>7. CASE StartPause(c)
  <2>1. PICK j \in Keys : alloc' = [alloc EXCEPT ![j] = Closure(alloc[j], "other")]
    BY <1>7 DEF StartPause
  <2>2. alloc[j] \in Rows
    BY DEF TypeOK
  <2> DEFINE r == Closure(alloc[j], "other")
  <2>3. /\ r.base = alloc[j].base /\ r.observed = alloc[j].observed /\ r.live = alloc[j].live
        /\ r.launch = alloc[j].launch
        /\ r.closure = alloc[j].closure \/ (alloc[j].closure = "OPEN" /\ r.closure = "REQUESTED")
    BY <2>2, RowWriters, RowKeeps
  <2> HIDE DEF r
  <2>4. (r.closure = "FINALIZED") = (alloc[j].closure = "FINALIZED")
    BY <2>3
  <2> QED BY <1>5, <2>1, <2>3, <2>4 DEF r
<1>8. CASE MarkPauseOutcome(c)
  <2> DEFINE j == call[c].key
             definitive == call[c].at = "stopped"
             r == PauseOutcome(alloc[j], definitive)
  <2>1. j \in Keys
    BY <1>2, <1>8 DEF MarkPauseOutcome
  <2>2. /\ r.base = alloc[j].base /\ r.observed = alloc[j].observed /\ r.live = alloc[j].live
        /\ r.launch = alloc[j].launch /\ r.closure # "FINALIZED"
    <3>1. definitive \in BOOLEAN /\ alloc[j] \in Rows
      BY <2>1 DEF TypeOK
    <3> QED BY <3>1, RowWriters, RowKeeps
  <2>3. CASE alloc[j].closure # "FINALIZED"
    <3>1. alloc' = [alloc EXCEPT ![j] = r]
      BY <1>8, <2>3 DEF MarkPauseOutcome, MarkPause
    <3> HIDE DEF r, j
    <3> QED BY <1>5, <2>1, <2>2, <2>3, <3>1
  <2> QED BY <1>4, <1>8, <2>3 DEF MarkPauseOutcome, MarkPause
<1>9. CASE MarkResumed(c)
  <2> DEFINE j == call[c].key
             r == [alloc[j] EXCEPT !.closure = "OPEN", !.reason = "none",
                                   !.pausedAt = FALSE, !.evidence = FALSE]
  <2>1. j \in Keys
    BY <1>2, <1>9 DEF MarkResumed
  <2>2. /\ r.base = alloc[j].base /\ r.observed = alloc[j].observed
        /\ r.launch = alloc[j].launch /\ r.closure = "OPEN" /\ r \in Rows
    <3>1. alloc[j] \in Rows
      BY <2>1 DEF TypeOK
    <3> QED BY <3>1 DEF Rows, ClosureStates
  <2>3. \/ alloc' = alloc
        \/ alloc' = [alloc EXCEPT ![j] = Unleased(r)] /\ Reopenable(alloc[j])
    BY <1>9 DEF MarkResumed
  <2> HIDE DEF r, j
  <2>4. /\ Unleased(r).base = r.base /\ Unleased(r).observed = r.observed
        /\ Unleased(r).launch = r.launch /\ Unleased(r).closure = r.closure
    BY <2>2, RowKeeps, RowWriters
  <2>5. CASE alloc' = [alloc EXCEPT ![j] = Unleased(r)] /\ Reopenable(alloc[j])
    BY <1>5, <2>1, <2>2, <2>4, <2>5 DEF Reopenable
  <2> QED BY <1>4, <2>3, <2>5
<1> QED
  BY <1>4, <1>6, <1>7, <1>8, <1>9
     DEF Calling, StartLaunch, StartResume, ReadBaseline, Reserve,
         UndoReservation, SendLaunch, ReleaseRejected, StatementFails, SendPause,
         LookBeforeResume, SendEnable, CallDies

\* A launch in flight keeps its row: nobody else writes it, and no worker claims it.
LEMMA CallingLaunches ==
  ASSUME GInv, LaunchesOwnRows, NEW c \in Callers, Calling(c)
  PROVE  LaunchesOwnRows'
<1> USE DEF GInv
<1>1. worker' = worker /\ \A d \in Callers \ {c} : call'[d] = call[d]
  BY CallAlone
<1>2. DOMAIN alloc = Keys /\ DOMAIN call = Callers /\ call[c] \in CallStates
  BY DEF TypeOK
<1>3. \A d \in Callers : call[d].at \in Sending => call[d].key \in Keys
  BY DEF FlowInv, CallInv, Sending
<1>4. \A w \in Workers : WorkerInv(w)
  BY DEF FlowInv
<1>5. ASSUME NEW d \in Callers \ {c} PROVE LaunchInv(d)'
  <2> SUFFICES ASSUME call[d].at \in Sending PROVE RowSame(call[d].key)
    BY <1>1, LaunchKept DEF LaunchesOwnRows, LaunchInv
  <2> DEFINE k == call[d].key
  <2>1. k \in Keys /\ alloc[k].launch = "PENDING"
    BY <1>3 DEF LaunchesOwnRows, LaunchInv
  <2>2. CASE CreateAllocation(c)
    <3> DEFINE row == [Row0 EXCEPT !.launch = "PENDING", !.base = call[c].base,
                          !.observed = call[c].base, !.owner = "launch", !.live = TRUE,
                          !.after = Cardinality({j \in Keys : alloc[j].launch # "none"})]
    <3>1. \/ alloc' = alloc
          \/ alloc[call[c].key].launch = "none" /\ alloc' = [alloc EXCEPT ![call[c].key] = row]
      BY <2>2 DEF CreateAllocation
    <3> HIDE DEF row
    <3>2. alloc'[k] = alloc[k]
      BY <1>2, <2>1, <3>1
    <3> QED BY <3>2 DEF RowSame
  <2>3. CASE ~CreateAllocation(c)
    <3>1. ~(call[c].at \in Recording /\ call[c].key = k)
      BY DEF FlowInv, OwnersInv, Owner, Recording, Sending, Unsent
    <3> HIDE DEF k
    <3> QED BY <2>1, <2>3, <3>1, CallRows DEF RowSame, k
  <2> QED BY <2>2, <2>3
<1>6. LaunchInv(c)'
  <2> SUFFICES ASSUME call'[c].at \in Sending PROVE LaunchInv(c)'
    BY DEF LaunchInv
  <2>1. \A at : Step(c, at) => call'[c].at = at /\ call'[c].key = call[c].key
    BY <1>2 DEF Step, CallStates
  <2>2. ~Return(c)
    BY <1>2 DEF Return, IdleCall, Sending
  <2>3. CASE CreateAllocation(c)
    <3> DEFINE k == call[c].key
               row == [Row0 EXCEPT !.launch = "PENDING", !.base = call[c].base,
                          !.observed = call[c].base, !.owner = "launch", !.live = TRUE,
                          !.after = Cardinality({j \in Keys : alloc[j].launch # "none"})]
    <3>1. /\ call[c].at = "create" /\ call'[c].key = k
          /\ alloc[k].launch = "none" /\ alloc' = [alloc EXCEPT ![k] = row]
      BY <2>1, <2>2, <2>3 DEF CreateAllocation, MaySend, Sending
    <3>2. k \in Keys
      BY <3>1 DEF FlowInv, CallInv
    <3>3. row.launch = "PENDING" /\ row.live /\ row.observed = row.base
      BY DEF Row0
    <3> HIDE DEF row
    <3>4. alloc'[k] = row
      BY <1>2, <3>1, <3>2
    <3>5. \A w \in Workers : worker'[w].at # "idle" => worker'[w].key # k
      BY <1>1, <1>4, <3>1 DEF WorkerInv
    <3> QED BY <3>1, <3>3, <3>4, <3>5 DEF LaunchInv
  <2>4. CASE SendLaunch(c)
    <3>1. call[c].at \in Sending /\ call'[c].key = call[c].key /\ alloc' = alloc
      BY <1>2, <2>4 DEF SendLaunch, Sending, IdleCall
    <3> QED BY <1>1, <3>1, LaunchKept DEF LaunchesOwnRows, LaunchInv, RowSame
  <2>5. CASE MarkLaunchApplied(c) \/ ReleaseRejected(c) \/ StatementFails(c)
    <3>1. call[c].at \in Sending /\ call'[c].key = call[c].key /\ alloc' = alloc
      BY <2>1, <2>2, <2>5 DEF MarkLaunchApplied, ReleaseRejected, StatementFails, Sending
    <3> QED BY <1>1, <3>1, LaunchKept DEF LaunchesOwnRows, LaunchInv, RowSame
  <2>6. CASE \E k \in Keys : StartLaunch(c, k) \/ StartResume(c, k)
    <3>1. \A at, k : [IdleCall EXCEPT !.at = at, !.key = k].at = at
      BY DEF IdleCall
    <3>2. \E at \in {"read", "look"} : \E k : call' = [call EXCEPT ![c] = [IdleCall EXCEPT !.at = at, !.key = k]]
      BY <2>6 DEF StartLaunch, StartResume
    <3> QED BY <1>2, <3>1, <3>2 DEF Sending
  <2>7. CASE StartPause(c)
    BY <1>2, <2>7 DEF StartPause, Sending, IdleCall
  <2>8. CASE ReadBaseline(c) \/ Reserve(c) \/ LookBeforeResume(c) \/ SendEnable(c) \/ SendPause(c)
    <3>1. CASE ReadBaseline(c)
      BY <1>2, <2>2, <3>1 DEF ReadBaseline, Sending, CallStates
    <3>2. CASE Reserve(c)
      BY <1>2, <2>1, <2>2, <3>2 DEF Reserve, Sending, CallStates
    <3>3. CASE LookBeforeResume(c) \/ SendEnable(c) \/ SendPause(c)
      BY <2>1, <2>2, <3>3 DEF LookBeforeResume, SendEnable, SendPause, Sending
    <3> QED BY <2>8, <3>1, <3>2, <3>3
  <2> QED
    BY <2>2, <2>3, <2>4, <2>5, <2>6, <2>7, <2>8
       DEF Calling, UndoReservation, MarkLaunchRejected, MarkLaunchUncertain, MarkPauseOutcome,
           MarkResumed, CallDies
<1> QED BY <1>5, <1>6 DEF LaunchesOwnRows

LEMMA ReconcilingLaunches ==
  ASSUME GInv, LaunchesOwnRows, NEW w \in Workers, Reconciling(w)
  PROVE  LaunchesOwnRows'
<1> USE DEF GInv
<1> SUFFICES ASSUME NEW c \in Callers, call[c].at \in Sending
             PROVE  LaunchInv(c)'
  BY WorkerAlone DEF LaunchesOwnRows, LaunchInv
<1> DEFINE k == call[c].key
<1>1. /\ k \in Keys /\ alloc[k].live
      /\ \A v \in Workers : worker[v].at # "idle" => worker[v].key # k
  BY DEF LaunchesOwnRows, LaunchInv, FlowInv, CallInv, Sending
<1>2. call' = call /\ \A v \in Workers \ {w} : worker'[v] = worker[v]
  BY WorkerAlone
<1>3. RowSame(k) /\ (worker'[w].at # "idle" => worker'[w].key # k)
  <2>1. ASSUME NEW j \in Keys, Claim(w, j)
        PROVE  RowSame(k) /\ (worker'[w].at # "idle" => worker'[w].key # k)
    <3>1. j # k
      BY <1>1, <2>1 DEF Claim
    <3>2. worker'[w].key = j
      BY <2>1 DEF Claim, TypeOK, IdleWorker
    <3> HIDE DEF k
    <3> QED BY <1>1, <2>1, <3>1, <3>2, ClaimRows DEF RowSame
  <2>2. CASE \A j \in Keys : ~Claim(w, j)
    <3>1. /\ worker[w].at # "idle"
          /\ \A j \in Keys \ {worker[w].key} : alloc'[j] = alloc[j]
          /\ worker'[w].at # "idle" => worker'[w].key = worker[w].key
      BY <2>2, WorkerFrame
    <3> QED BY <1>1, <3>1 DEF RowSame
  <2> QED BY <2>1, <2>2
<1> QED BY <1>1, <1>2, <1>3, LaunchKept DEF LaunchesOwnRows

\* What else happens to rows: the switch and time leave the books alone.
LEMMA ElsewhereRows ==
  ASSUME GInv, Elsewhere, NEW k \in Keys
  PROVE  /\ alloc'[k].base = alloc[k].base /\ alloc'[k].observed = alloc[k].observed
         /\ alloc'[k].launch = alloc[k].launch
         /\ (alloc'[k].closure = "FINALIZED") = (alloc[k].closure = "FINALIZED")
         /\ \/ alloc'[k].live = alloc[k].live
            \/ \A c \in Callers : call[c].at \in Sending => call[c].key # k
<1> USE DEF GInv
<1>1. DOMAIN alloc = Keys /\ alloc[k] \in Rows
  BY DEF TypeOK
<1>2. CASE PauseAutomation
  <2> DEFINE r == [alloc[k] EXCEPT !.closure = "REQUESTED", !.reason = "automation"]
  <2>1. /\ r.base = alloc[k].base /\ r.observed = alloc[k].observed /\ r.live = alloc[k].live
        /\ r.launch = alloc[k].launch /\ r.closure = "REQUESTED"
    BY <1>1 DEF Rows
  <2>2. alloc'[k] = IF alloc[k].launch = "APPLIED" /\ alloc[k].closure = "OPEN" THEN r ELSE alloc[k]
    BY <1>2 DEF PauseAutomation
  <2> HIDE DEF r
  <2> QED BY <2>1, <2>2
<1>3. ASSUME NEW j \in Keys, LeaseExpires(j)
      PROVE  /\ alloc'[k].base = alloc[k].base /\ alloc'[k].observed = alloc[k].observed
             /\ alloc'[k].launch = alloc[k].launch
             /\ alloc'[k].closure = alloc[k].closure
             /\ \/ alloc'[k].live = alloc[k].live
                \/ \A c \in Callers : call[c].at \in Sending => call[c].key # k
  <2> DEFINE r == [alloc[k] EXCEPT !.live = FALSE]
  <2>1. /\ r.base = alloc[k].base /\ r.observed = alloc[k].observed
        /\ r.launch = alloc[k].launch /\ r.closure = alloc[k].closure
    BY <1>1 DEF Rows
  <2>2. alloc'[k] = IF k = j THEN r ELSE alloc[k]
    BY <1>1, <1>3 DEF LeaseExpires
  <2>3. k = j => \A c \in Callers : call[c].at \in Sending => call[c].key # k
    BY <1>3 DEF LeaseExpires, Sending
  <2> HIDE DEF r
  <2> QED BY <2>1, <2>2, <2>3
<1>4. CASE alloc' = alloc
  BY <1>4
<1> QED
  BY <1>2, <1>3, <1>4 DEF Elsewhere, Spend, StoppedExternally, ResumeAutomation, ReleaseOrphan, gVars

LEMMA LaunchesInit == Init => LaunchesOwnRows
BY DEF Init, LaunchesOwnRows, LaunchInv, IdleCall, Sending

LEMMA LaunchesNext ==
  ASSUME GInv, LaunchesOwnRows, [Next]_vars
  PROVE  LaunchesOwnRows'
<1>1. CASE UNCHANGED vars
  BY <1>1 DEF vars, gVars, LaunchesOwnRows, LaunchInv
<1>2. CASE Elsewhere
  <2> SUFFICES ASSUME NEW c \in Callers, call[c].at \in Sending PROVE LaunchInv(c)'
    <3>1. call' = call
      BY <1>2 DEF Elsewhere, Spend, StoppedExternally, PauseAutomation, ResumeAutomation,
                  ReleaseOrphan, LeaseExpires, gVars
    <3> QED BY <3>1 DEF LaunchesOwnRows, LaunchInv
  <2>1. UNCHANGED <<call, worker>>
    BY <1>2 DEF Elsewhere, Spend, StoppedExternally, PauseAutomation, ResumeAutomation,
                ReleaseOrphan, LeaseExpires, gVars
  <2>2. call[c].key \in Keys
    BY DEF GInv, FlowInv, CallInv, Sending
  <2>3. RowSame(call[c].key)
    BY <1>2, <2>2, ElsewhereRows DEF RowSame
  <2> QED BY <2>1, <2>3, LaunchKept DEF LaunchesOwnRows, LaunchInv
<1> QED BY <1>1, <1>2, CallingLaunches, ReconcilingLaunches DEF Next, Elsewhere

-----------------------------------------------------------------------------
\* What the launches of a campaign are charged for.

\* No cycle of a worker outlives its lease so far that another takes its row.
OneCyclePerRow ==
  \A v, w \in Workers : worker[v].at # "idle" /\ worker[w].at # "idle" /\ v # w
                         => worker[v].key # worker[w].key

\* What is charged for all launches together.
Charged == SumFunction([k \in Keys |-> reservation[k].settled])

\* Steps of a launch between reading its baseline and storing it.
BaseSteps == {"reserve", "create"}

Basing == {c \in Callers : call[c].at \in BaseSteps}

\* A row is charged for cost between its baseline and what was observed last.
RowCost(k) ==
  alloc[k].launch # "none" => /\ alloc[k].base + reservation[k].settled <= alloc[k].observed
                              /\ alloc[k].observed <= campaign.cost

\* What the other rows are charged lies below the baseline of the open row, and
\* below every baseline that may become that of the next.
ChargedBelow ==
  /\ \A k \in Keys : IsOpen(k) =>
       /\ Charged <= alloc[k].base + reservation[k].settled
       /\ \A c \in Basing : Charged <= call[c].base + reservation[k].settled
  /\ (\A k \in Keys : ~IsOpen(k)) =>
       /\ Charged <= campaign.cost
       /\ \A c \in Basing : Charged <= call[c].base

\* A worker observes cost no older than what its row has, and finalizes what no
\* pending launch has a lower baseline than.
WorkerCost(w) ==
  LET k == worker[w].key
  IN /\ worker[w].at = "observe" => /\ alloc[k].observed <= worker[w].cost
                                    /\ worker[w].cost <= campaign.cost
     /\ worker[w].at \in {"record", "finalize"} /\ IsOpen(k) =>
          \A c \in Basing : alloc[k].observed <= call[c].base

CostInv ==
  /\ \A k \in Keys : RowCost(k)
  /\ ChargedBelow
  /\ \A c \in Basing : call[c].base <= campaign.cost
  /\ \A w \in Workers : WorkerCost(w)

LEMMA ChargedSame ==
  ASSUME \A k \in Keys : reservation'[k].settled = reservation[k].settled
  PROVE  Charged' = Charged
<1>1. [k \in Keys |-> reservation'[k].settled] = [k \in Keys |-> reservation[k].settled]
  OBVIOUS
<1> QED BY <1>1 DEF Charged

LEMMA ChargedMoves ==
  ASSUME AdTypeOK, AdTypeOK', NEW k \in Keys,
         \A j \in Keys \ {k} : reservation'[j].settled = reservation[j].settled
  PROVE  /\ Charged \in Int /\ Charged' \in Int
         /\ Charged' = Charged - reservation[k].settled + reservation'[k].settled
<1> DEFINE f == [j \in Keys |-> reservation[j].settled]
           e == [j \in Keys |-> reservation'[j].settled]
<1>1. \A j \in Keys : f[j] \in Int /\ e[j] \in Int
  BY DEF AdTypeOK
<1>2. /\ SumFunctionOnSet(f, Keys) \in Int /\ SumFunctionOnSet(e, Keys) \in Int
      /\ SumFunctionOnSet(e, Keys) = SumFunctionOnSet(f, Keys) - (IF k \in Keys THEN f[k] ELSE 0)
                                                               + (IF k \in Keys THEN e[k] ELSE 0)
  <2>1. \A j \in Keys \ {k} : f[j] = e[j]
    OBVIOUS
  <2> HIDE DEF f, e
  <2> QED BY <1>1, <2>1, SumChange, AdSpendFinite
<1>3. Charged = SumFunctionOnSet(f, Keys) /\ Charged' = SumFunctionOnSet(e, Keys)
  BY DEF Charged, SumFunction
<1> QED BY <1>2, <1>3

LEMMA ChargedInt ==
  ASSUME AdTypeOK
  PROVE  Charged \in Int
<1> DEFINE f == [j \in Keys |-> reservation[j].settled]
<1>1. \A j \in Keys : f[j] \in Int
  BY DEF AdTypeOK
<1>2. Charged = SumFunctionOnSet(f, Keys)
  BY DEF Charged, SumFunction
<1> HIDE DEF f
<1> QED BY <1>1, <1>2, SumInts, AdSpendFinite

\* Types of the amounts.
LEMMA CostTypes ==
  ASSUME GInv
  PROVE  /\ campaign.cost \in Nat /\ Charged \in Int
         /\ \A k \in Keys : /\ alloc[k].base \in Nat /\ alloc[k].observed \in Nat
                            /\ reservation[k].settled \in Nat
         /\ \A c \in Callers : call[c].base \in Nat
         /\ \A w \in Workers : worker[w].cost \in Nat
BY ChargedInt DEF GInv, AdInv, AdTypeOK, TypeOK, Rows, CallStates, WorkerStates

\* A step that opens and closes no row and moves no money keeps the order of
\* baselines and charges; what is read from the campaign is its cost.
LEMMA CostKeeps ==
  ASSUME GInv, GInv', CostInv,
         \A k \in Keys : /\ alloc'[k].base = alloc[k].base
                         /\ alloc'[k].observed = alloc[k].observed
                         /\ alloc[k].launch = "none" => alloc'[k].launch = "none"
                         /\ IsOpen(k)' = IsOpen(k)
                         /\ reservation'[k].settled = reservation[k].settled,
         campaign'.cost >= campaign.cost,
         \A c \in Callers : call'[c].at \in BaseSteps =>
           \/ call[c].at \in BaseSteps /\ call'[c].base = call[c].base
           \/ call'[c].base = campaign.cost,
         \A w \in Workers : worker'[w].at = "observe" =>
           \/ worker'[w] = worker[w]
           \/ worker'[w].cost = campaign.cost,
         \A w \in Workers : worker'[w].at \in {"record", "finalize"} =>
           \/ worker[w].at \in {"record", "finalize"} /\ worker'[w].key = worker[w].key
           \/ \A c \in Basing' : alloc[worker'[w].key].observed <= call'[c].base
  PROVE  CostInv'
<1>1. Charged' = Charged
  BY ChargedSame
<1>2. /\ campaign.cost \in Nat /\ Charged \in Int /\ campaign'.cost \in Nat
      /\ \A k \in Keys : /\ alloc[k].base \in Nat /\ alloc[k].observed \in Nat
                         /\ reservation[k].settled \in Nat
      /\ \A c \in Callers : call[c].base \in Nat /\ call'[c].base \in Nat
      /\ \A w \in Workers : worker[w].cost \in Nat /\ worker'[w].cost \in Nat
  BY CostTypes DEF GInv, TypeOK, CallStates, WorkerStates
<1>3. \A c \in Basing' : c \in Callers /\ call'[c].at \in BaseSteps
  BY DEF Basing
<1>4. \A w \in Workers : worker'[w].at # "idle" =>
         worker'[w].key \in Keys /\ alloc'[worker'[w].key].launch # "none"
  BY DEF GInv, FlowInv, WorkerInv
<1>5. Charged <= campaign.cost
  <2>1. CASE \E k \in Keys : IsOpen(k)
    BY <1>2, <2>1 DEF CostInv, ChargedBelow, RowCost, IsOpen
  <2> QED BY <2>1 DEF CostInv, ChargedBelow
<1>6. \A k \in Keys : RowCost(k)'
  BY <1>2 DEF CostInv, RowCost
<1>7. ChargedBelow'
  <2>1. ASSUME NEW k \in Keys, IsOpen(k)'
        PROVE  /\ Charged <= alloc[k].base + reservation[k].settled
               /\ \A c \in Basing' : Charged <= call'[c].base + reservation[k].settled
    <3>1. IsOpen(k)
      BY <2>1
    <3>2. \A c \in Basing : Charged <= call[c].base + reservation[k].settled
      BY <3>1 DEF CostInv, ChargedBelow
    <3>3. Charged <= alloc[k].base + reservation[k].settled
      BY <3>1 DEF CostInv, ChargedBelow
    <3>4. \A c \in Basing' : Charged <= call'[c].base + reservation[k].settled
      BY <1>2, <1>3, <1>5, <3>2 DEF Basing
    <3> QED BY <3>3, <3>4
  <2>2. ASSUME \A k \in Keys : ~IsOpen(k)'
        PROVE  Charged <= campaign'.cost /\ \A c \in Basing' : Charged <= call'[c].base
    <3>1. \A k \in Keys : ~IsOpen(k)
      BY <2>2
    <3>2. \A c \in Basing : Charged <= call[c].base
      BY <3>1 DEF CostInv, ChargedBelow
    <3> QED BY <1>2, <1>3, <1>5, <3>2 DEF Basing
  <2> QED BY <1>1, <2>1, <2>2 DEF ChargedBelow
<1>8. \A c \in Basing' : call'[c].base <= campaign'.cost
  BY <1>2, <1>3 DEF CostInv, Basing
<1>9. ASSUME NEW w \in Workers PROVE WorkerCost(w)'
  <2>1. CASE worker'[w].at \notin {"observe", "record", "finalize"}
    BY <2>1 DEF WorkerCost
  <2>2. CASE worker'[w].at \in {"observe", "record", "finalize"}
    <3>1. PICK k \in Keys : k = worker'[w].key
      BY <1>4, <2>2
    <3>2. alloc'[k].observed = alloc[k].observed /\ IsOpen(k)' = IsOpen(k)
      OBVIOUS
    <3>3. alloc[k].observed <= campaign.cost
      BY <1>4, <2>2, <3>1 DEF CostInv, RowCost
    <3>4. ASSUME worker'[w].at = "observe"
          PROVE  alloc'[k].observed <= worker'[w].cost /\ worker'[w].cost <= campaign'.cost
      <4>1. CASE worker'[w] = worker[w]
        <5>1. alloc[k].observed <= worker[w].cost /\ worker[w].cost <= campaign.cost
          BY <3>1, <3>4, <4>1 DEF CostInv, WorkerCost
        <5> QED BY <1>2, <3>2, <4>1, <5>1
      <4>2. CASE worker'[w].cost = campaign.cost
        BY <1>2, <3>2, <3>3, <4>2
      <4> QED BY <3>4, <4>1, <4>2
    <3>5. ASSUME worker'[w].at \in {"record", "finalize"}, IsOpen(k)', NEW c \in Basing'
          PROVE  alloc'[k].observed <= call'[c].base
      <4>1. CASE worker[w].at \in {"record", "finalize"} /\ worker'[w].key = worker[w].key
        <5>1. \A d \in Basing : alloc[k].observed <= call[d].base
          BY <3>1, <3>2, <3>5, <4>1 DEF CostInv, WorkerCost
        <5> QED BY <1>2, <1>3, <3>2, <3>3, <5>1 DEF Basing
      <4>2. CASE \A d \in Basing' : alloc[k].observed <= call'[d].base
        BY <3>2, <3>5, <4>2
      <4> QED BY <3>1, <3>5, <4>1, <4>2
    <3> QED BY <3>1, <3>4, <3>5 DEF WorkerCost
  <2> QED BY <2>1, <2>2
<1> QED BY <1>6, <1>7, <1>8, <1>9 DEF CostInv

\* Money is settled by observations only.
LEMMA SettledStays ==
  ASSUME AdTypeOK, NEW j \in Keys,
         ReserveAdSpend(j) \/ ReleaseAdSpendReservation(j) \/ FinalizeReservation(j)
  PROVE  \A k \in Keys : reservation'[k].settled = reservation[k].settled
BY DEF ReserveAdSpend, ReleaseAdSpendReservation, FinalizeReservation, GiveBack, Consumed, AdTypeOK

LEMMA CallSettles ==
  ASSUME GInv, NEW c \in Callers, Calling(c)
  PROVE  \A k \in Keys : reservation'[k].settled = reservation[k].settled
<1>1. AdTypeOK
  BY DEF GInv, AdInv
<1>2. CASE reservation' = reservation
  BY <1>2
<1>3. CASE Reserve(c) \/ UndoReservation(c) \/ ReleaseRejected(c)
  <2>1. call[c].key \in Keys
    BY <1>3 DEF Reserve, UndoReservation, ReleaseRejected, GInv, FlowInv, CallInv
  <2> QED BY <1>1, <1>2, <1>3, <2>1, SettledStays
          DEF Reserve, UndoReservation, ReleaseRejected, ReleaseOrSkip, adVars
<1> QED
  BY <1>2, <1>3
     DEF Calling, StartLaunch, StartResume, ReadBaseline, CreateAllocation, SendLaunch,
         MarkLaunchApplied, MarkLaunchRejected, StatementFails, MarkLaunchUncertain, StartPause,
         SendPause, MarkPauseOutcome, LookBeforeResume, SendEnable, MarkResumed, CallDies, adVars

\* A baseline is the cost of the campaign when it is read, and stays as it was.
LEMMA CallBases ==
  ASSUME TypeOK, NEW c \in Callers, Calling(c), call'[c].at \in BaseSteps
  PROVE  \/ call[c].at \in BaseSteps /\ call'[c].base = call[c].base
         \/ call'[c].base = campaign.cost
<1>1. DOMAIN call = Callers /\ call[c] \in CallStates
  BY DEF TypeOK
<1>2. \A at : Step(c, at) => call'[c].at = at /\ call'[c].base = call[c].base
  BY <1>1 DEF Step, CallStates
<1>3. ~Return(c)
  BY <1>1 DEF Return, IdleCall, BaseSteps
<1>4. \A at : \A k : [IdleCall EXCEPT !.at = at, !.key = k].at = at
  BY DEF IdleCall
<1>5. CASE \E k \in Keys : StartLaunch(c, k) \/ StartResume(c, k)
  <2>1. \E at \in {"read", "look"} : \E k : call' = [call EXCEPT ![c] = [IdleCall EXCEPT !.at = at, !.key = k]]
    BY <1>5 DEF StartLaunch, StartResume
  <2> QED BY <1>1, <1>4, <2>1 DEF BaseSteps
<1>6. CASE StartPause(c) \/ SendLaunch(c)
  <2>1. \E at \in {"pause", "applied", "rejected", "uncertain"} : \E k :
          call' = [call EXCEPT ![c] = [IdleCall EXCEPT !.at = at, !.key = k]]
    BY <1>6 DEF StartPause, SendLaunch, AfterLaunch, Outcomes
  <2> QED BY <1>1, <1>4, <2>1 DEF BaseSteps
<1>7. CASE ReadBaseline(c)
  BY <1>1, <1>3, <1>7 DEF ReadBaseline, CallStates
<1>8. CASE Reserve(c)
  <2>1. CASE call' = [call EXCEPT ![c].at = "create", ![c].dup = TRUE]
    BY <1>1, <1>8, <2>1 DEF Reserve, BaseSteps, CallStates
  <2> QED BY <1>2, <1>3, <1>8, <2>1 DEF Reserve, BaseSteps
<1>9. CASE \E at \in CallSteps \ BaseSteps : Step(c, at)
  BY <1>2, <1>9
<1> QED
  BY <1>3, <1>5, <1>6, <1>7, <1>8, <1>9
     DEF Calling, CreateAllocation, UndoReservation, MarkLaunchApplied, ReleaseRejected,
         MarkLaunchRejected, StatementFails, MarkLaunchUncertain, SendPause, MarkPauseOutcome,
         LookBeforeResume, SendEnable, MarkResumed, CallDies, CallSteps, BaseSteps

\* The allocation of a call that has read its baseline is the only open one, and
\* all that is charged lies below it.
LEMMA CreateCost ==
  ASSUME GInv, GInv', CostInv, NEW c \in Callers, CreateAllocation(c), alloc' # alloc
  PROVE  CostInv'
<1> DEFINE row == [Row0 EXCEPT !.launch = "PENDING", !.base = call[c].base,
                      !.observed = call[c].base, !.owner = "launch", !.live = TRUE,
                      !.after = Cardinality({j \in Keys : alloc[j].launch # "none"})]
<1>1. call[c].at = "create" /\ UNCHANGED <<adVars, paused, campaign, launches, worker, tally>>
  BY DEF CreateAllocation
<1>0. PICK k \in Keys : k = call[c].key
  BY <1>1 DEF GInv, FlowInv, CallInv
<1>2. /\ alloc[k].launch = "none" /\ Creatable(k) /\ c \in Basing
      /\ alloc' = [alloc EXCEPT ![k] = row]
  BY <1>1, <1>0 DEF CreateAllocation, Basing, BaseSteps
<1>3. row.base = call[c].base /\ row.observed = call[c].base
  BY DEF Row0
<1>4. DOMAIN alloc = Keys /\ DOMAIN call = Callers
  BY DEF GInv, TypeOK
<1> HIDE DEF row
<1>5. alloc'[k] = row /\ \A j \in Keys \ {k} : alloc'[j] = alloc[j]
  BY <1>1, <1>2, <1>4
<1>6. reservation' = reservation /\ reservation[k].settled = 0 /\ \A j \in Keys : ~IsOpen(j)
  BY <1>1, <1>2 DEF adVars, Creatable
<1>7. Charged' = Charged
  BY <1>6, ChargedSame
<1>8. /\ campaign.cost \in Nat /\ Charged \in Int
      /\ \A d \in Callers : call[d].base \in Nat /\ call'[d].base \in Nat
  BY CostTypes DEF GInv, TypeOK, CallStates
<1>9. \A d \in Basing' : d \in Basing /\ call'[d].base = call[d].base
  <2>1. \A d \in Callers \ {c} : call'[d] = call[d]
    BY <1>4 DEF CreateAllocation, Step, Return
  <2>2. call'[c].at \notin BaseSteps
    <3>1. \A at : Step(c, at) => call'[c].at = at
      BY <1>4 DEF Step, GInv, TypeOK, CallStates
    <3>2. Return(c) => call'[c].at = "idle"
      BY <1>4 DEF Return, IdleCall
    <3> QED BY <3>1, <3>2 DEF CreateAllocation, BaseSteps
  <2> QED BY <2>1, <2>2 DEF Basing
<1>10. Charged <= call[c].base /\ call[c].base <= campaign.cost
       /\ \A d \in Basing : Charged <= call[d].base
  BY <1>2, <1>6 DEF CostInv, ChargedBelow
<1>11. \A j \in Keys : RowCost(j)'
  BY <1>1, <1>2, <1>3, <1>5, <1>6, <1>8, <1>10 DEF CostInv, RowCost
<1>12. ChargedBelow'
  <2>1. IsOpen(k)'
    <3>1. row.launch = "PENDING" /\ row.closure = "OPEN"
      BY DEF row, Row0
    <3> QED BY <1>5, <3>1 DEF IsOpen
  <2>2. \A j \in Keys : IsOpen(j)' => j = k
    BY <1>2, <2>1 DEF GInv, FlowInv, OpenInv
  <2>3. /\ Charged <= alloc'[k].base + reservation'[k].settled
        /\ \A d \in Basing' : Charged <= call'[d].base + reservation'[k].settled
    BY <1>3, <1>5, <1>6, <1>8, <1>9, <1>10 DEF Basing
  <2> QED BY <1>7, <2>1, <2>2, <2>3 DEF ChargedBelow
<1>13. \A d \in Basing' : call'[d].base <= campaign'.cost
  BY <1>1, <1>9 DEF CostInv
<1>14. ASSUME NEW w \in Workers PROVE WorkerCost(w)'
  <2>1. CASE worker[w].at = "idle"
    BY <1>1, <2>1 DEF WorkerCost
  <2>2. CASE worker[w].at # "idle"
    <3>1. worker[w].key \in Keys /\ worker[w].key # k
      BY <1>2, <2>2 DEF GInv, FlowInv, WorkerInv
    <3>2. alloc'[worker[w].key] = alloc[worker[w].key]
      BY <1>5, <3>1
    <3>3. IsOpen(worker[w].key)' = IsOpen(worker[w].key)
      BY <1>1, <3>2 DEF IsOpen
    <3> QED BY <1>1, <1>9, <3>2, <3>3 DEF CostInv, WorkerCost
  <2> QED BY <2>1, <2>2
<1> QED BY <1>11, <1>12, <1>13, <1>14 DEF CostInv

\* When the open row is closed, what it was charged must lie below every baseline
\* that is pending.
LEMMA CostCloses ==
  ASSUME GInv, GInv', CostInv, NEW k \in Keys, IsOpen(k), ~IsOpen(k)',
         \A j \in Keys : /\ alloc'[j].base = alloc[j].base
                         /\ alloc'[j].observed = alloc[j].observed
                         /\ alloc[j].launch = "none" => alloc'[j].launch = "none"
                         /\ j # k => IsOpen(j)' = IsOpen(j)
                         /\ reservation'[j].settled = reservation[j].settled,
         campaign'.cost = campaign.cost,
         \A c \in Callers : call'[c].at \in BaseSteps => call'[c] = call[c],
         \A w \in Workers : worker'[w].at \in {"observe", "record", "finalize"}
                              => worker'[w] = worker[w],
         \A c \in Basing : Charged <= call[c].base
  PROVE  CostInv'
<1>1. Charged' = Charged
  BY ChargedSame
<1>2. \A j \in Keys : ~IsOpen(j)'
  BY DEF GInv, FlowInv, OpenInv
<1>3. \A c \in Basing' : c \in Basing /\ call'[c] = call[c]
  BY DEF Basing
<1>4. Charged <= campaign.cost
  BY CostTypes DEF CostInv, ChargedBelow, RowCost, IsOpen
<1>5. \A j \in Keys : RowCost(j)'
  BY DEF CostInv, RowCost
<1>6. ChargedBelow'
  BY <1>1, <1>2, <1>3, <1>4 DEF ChargedBelow
<1>7. \A c \in Basing' : call'[c].base <= campaign'.cost
  BY <1>3 DEF CostInv
<1>8. ASSUME NEW w \in Workers PROVE WorkerCost(w)'
  <2>1. CASE worker'[w].at \notin {"observe", "record", "finalize"}
    BY <2>1 DEF WorkerCost
  <2>2. CASE worker'[w].at \in {"observe", "record", "finalize"}
    <3>1. worker'[w] = worker[w]
      BY <2>2
    <3>2. PICK j \in Keys : j = worker[w].key
      BY <2>2, <3>1 DEF GInv, FlowInv, WorkerInv
    <3> QED BY <1>2, <3>1, <3>2 DEF CostInv, WorkerCost
  <2> QED BY <2>1, <2>2
<1> QED BY <1>5, <1>6, <1>7, <1>8 DEF CostInv

LEMMA CallingCost ==
  ASSUME GInv, GInv', LaunchesOwnRows, CostInv, NEW c \in Callers, Calling(c)
  PROVE  CostInv'
<1> USE DEF GInv
<1>1. /\ worker' = worker /\ campaign'.cost = campaign.cost
      /\ \A d \in Callers \ {c} : call'[d] = call[d]
  BY CallAlone
<1>2. \A k \in Keys : reservation'[k].settled = reservation[k].settled
  BY CallSettles
<1>3. \A d \in Callers : call'[d].at \in BaseSteps =>
        \/ call[d].at \in BaseSteps /\ call'[d].base = call[d].base
        \/ call'[d].base = campaign.cost
  BY <1>1, CallBases
<1>4. campaign.cost \in Nat
  BY CostTypes
<1>5. ASSUME \A k \in Keys : /\ alloc'[k].base = alloc[k].base
                             /\ alloc'[k].observed = alloc[k].observed
                             /\ alloc[k].launch = "none" => alloc'[k].launch = "none"
                             /\ IsOpen(k)' = IsOpen(k)
      PROVE  CostInv'
  <2>1. \A w \in Workers : worker'[w].at \in {"record", "finalize"} =>
           worker[w].at \in {"record", "finalize"} /\ worker'[w].key = worker[w].key
    BY <1>1
  <2>2. campaign'.cost >= campaign.cost /\ \A w \in Workers : worker'[w] = worker[w]
    BY <1>1, <1>4
  <2> QED BY <1>2, <1>3, <1>5, <2>1, <2>2, CostKeeps
<1>6. CASE alloc' = alloc
  BY <1>5, <1>6 DEF IsOpen
<1>7. CASE CreateAllocation(c)
  BY <1>6, <1>7, CreateCost
<1>8. CASE MarkLaunchRejected(c)
  <2>1. PICK k \in Keys : k = call[c].key
    BY <1>8 DEF MarkLaunchRejected, FlowInv, CallInv
  <2>2. /\ alloc[k].launch = "PENDING" /\ alloc[k].observed = alloc[k].base
        /\ call[c].at = "close"
    BY <1>8, <2>1 DEF MarkLaunchRejected, LaunchesOwnRows, LaunchInv, Sending
  <2>3. CASE alloc[k].closure # "FINALIZED"
    <3> DEFINE r == [alloc[k] EXCEPT !.launch = "REJECTED", !.closure = "FINALIZED"]
    <3>1. alloc' = [alloc EXCEPT ![k] = Unleased(r)]
      BY <1>8, <2>1, <2>3 DEF MarkLaunchRejected
    <3>2. alloc[k] \in Rows /\ DOMAIN alloc = Keys
      BY DEF TypeOK
    <3>3. r \in Rows /\ r.closure = "FINALIZED" /\ r.launch = "REJECTED"
          /\ r.base = alloc[k].base /\ r.observed = alloc[k].observed
      BY <3>2 DEF Rows, LaunchStates, ClosureStates
    <3> HIDE DEF r
    <3>4. /\ alloc'[k].closure = "FINALIZED" /\ alloc'[k].launch = "REJECTED"
          /\ alloc'[k].base = alloc[k].base /\ alloc'[k].observed = alloc[k].observed
          /\ \A j \in Keys \ {k} : alloc'[j] = alloc[j]
      BY <3>1, <3>2, <3>3, RowKeeps, RowWriters
    <3>5. IsOpen(k) /\ ~IsOpen(k)'
      BY <2>2, <2>3, <3>4 DEF IsOpen
    <3>6. \A j \in Keys : /\ alloc'[j].base = alloc[j].base
                          /\ alloc'[j].observed = alloc[j].observed
                          /\ alloc[j].launch = "none" => alloc'[j].launch = "none"
                          /\ j # k => IsOpen(j)' = IsOpen(j)
      BY <2>2, <3>4 DEF IsOpen
    <3>7. reservation[k].settled = 0
      BY <2>2, CostTypes DEF CostInv, RowCost
    <3>8. \A d \in Basing : Charged <= call[d].base
      BY <3>5, <3>7, CostTypes DEF CostInv, ChargedBelow, Basing
    <3>9. \A d \in Callers : call'[d].at \in BaseSteps => call'[d] = call[d]
      <4>1. call'[c].at = "idle"
        BY <1>8 DEF MarkLaunchRejected, Return, IdleCall, TypeOK
      <4> QED BY <1>1, <4>1 DEF BaseSteps
    <3> QED BY <1>1, <1>2, <3>5, <3>6, <3>8, <3>9, CostCloses
  <2>4. CASE alloc[k].closure = "FINALIZED"
    BY <1>6, <1>8, <2>1, <2>4 DEF MarkLaunchRejected
  <2> QED BY <2>3, <2>4
<1>9. CASE MarkLaunchApplied(c) \/ MarkLaunchUncertain(c)
  <2>1. PICK k \in Keys : k = call[c].key
    BY <1>9 DEF MarkLaunchApplied, MarkLaunchUncertain, FlowInv, CallInv
  <2>2. alloc[k].launch = "PENDING" /\ call[c].at \in {"applied", "uncertain"}
    BY <1>9, <2>1 DEF MarkLaunchApplied, MarkLaunchUncertain, LaunchesOwnRows, LaunchInv, Sending
  <2> DEFINE a == [alloc[k] EXCEPT !.launch = "APPLIED", !.launchedAt = TRUE]
             u == [alloc[k] EXCEPT !.launch = "UNCERTAIN"]
  <2>3. alloc[k] \in Rows /\ DOMAIN alloc = Keys
    BY DEF TypeOK
  <2>4. a \in Rows /\ u \in Rows /\ a.launch = "APPLIED" /\ u.launch = "UNCERTAIN"
    BY <2>3 DEF Rows, LaunchStates
  <2>5. alloc' = [alloc EXCEPT ![k] = Unleased(a)] \/ alloc' = [alloc EXCEPT ![k] = Unleased(u)]
    BY <1>9, <2>1, <2>2 DEF MarkLaunchApplied, MarkLaunchUncertain
  <2> HIDE DEF a, u
  <2>6. Unleased(a).launch = "APPLIED" /\ Unleased(u).launch = "UNCERTAIN"
    BY <2>4, RowWriters
  <2>7. alloc'[k].launch \in {"APPLIED", "UNCERTAIN"} /\ \A j \in Keys \ {k} : alloc'[j] = alloc[j]
    BY <2>3, <2>5, <2>6
  <2>8. \A j \in Keys : /\ alloc'[j].base = alloc[j].base /\ alloc'[j].observed = alloc[j].observed
                        /\ (alloc'[j].closure = "FINALIZED") = (alloc[j].closure = "FINALIZED")
    <3>1. ~CreateAllocation(c) /\ call[c].at # "close"
      BY <2>2 DEF CreateAllocation
    <3> QED BY <3>1, CallRows
  <2>9. \A j \in Keys : IsOpen(j)' = IsOpen(j)
    BY <2>2, <2>7, <2>8 DEF IsOpen
  <2> QED BY <1>5, <2>2, <2>7, <2>8, <2>9
<1>10. CASE call[c].at \notin Recording /\ ~CreateAllocation(c)
  <2>1. \A k \in Keys : /\ alloc'[k].base = alloc[k].base
                        /\ alloc'[k].observed = alloc[k].observed
                        /\ alloc'[k].launch = alloc[k].launch
                        /\ (alloc'[k].closure = "FINALIZED") = (alloc[k].closure = "FINALIZED")
    BY <1>10, CallRows DEF Recording
  <2> QED BY <1>5, <2>1 DEF IsOpen
<1>11. CASE StartPause(c) \/ MarkPauseOutcome(c) \/ MarkResumed(c)
  BY <1>10, <1>11 DEF StartPause, Begin, MarkPauseOutcome, MarkResumed, CreateAllocation, Recording
<1>12. alloc' # alloc => \/ CreateAllocation(c) \/ MarkLaunchRejected(c) \/ MarkLaunchApplied(c)
                         \/ MarkLaunchUncertain(c)
                         \/ StartPause(c) \/ MarkPauseOutcome(c) \/ MarkResumed(c)
  BY DEF Calling, StartLaunch, StartResume, ReadBaseline, Reserve, UndoReservation, SendLaunch,
         ReleaseRejected, StatementFails, SendPause, LookBeforeResume, SendEnable, CallDies
<1> QED BY <1>6, <1>7, <1>8, <1>9, <1>11, <1>12

LEMMA ElsewhereCost ==
  ASSUME GInv, GInv', CostInv, Elsewhere
  PROVE  CostInv'
<1> USE DEF GInv
<1>1. UNCHANGED <<call, worker>>
  BY DEF Elsewhere, Spend, StoppedExternally, PauseAutomation, ResumeAutomation, ReleaseOrphan,
         LeaseExpires, gVars
<1>2. campaign'.cost >= campaign.cost
  <2>1. campaign \in [enabled : BOOLEAN, budget : Nat, cost : Nat]
    BY DEF TypeOK
  <2>2. Spend \/ StoppedExternally => campaign'.cost >= campaign.cost
    BY <2>1 DEF Spend, StoppedExternally
  <2>3. campaign' = campaign => campaign'.cost >= campaign.cost
    BY <2>1
  <2> QED BY <2>2, <2>3 DEF Elsewhere, PauseAutomation, ResumeAutomation, ReleaseOrphan,
                            LeaseExpires, gVars
<1>3. \A k \in Keys : reservation'[k].settled = reservation[k].settled
  <2>1. ASSUME NEW j \in Keys, ReleaseOrphan(j)
        PROVE  \A k \in Keys : reservation'[k].settled = reservation[k].settled
    BY <2>1, SettledStays DEF ReleaseOrphan, AdInv
  <2> QED BY <2>1, OtherMoney DEF Elsewhere, Spend, StoppedExternally, PauseAutomation,
             ResumeAutomation, LeaseExpires, adVars
<1>4. \A k \in Keys : /\ alloc'[k].base = alloc[k].base
                      /\ alloc'[k].observed = alloc[k].observed
                      /\ alloc'[k].launch = alloc[k].launch
                      /\ (alloc'[k].closure = "FINALIZED") = (alloc[k].closure = "FINALIZED")
  BY ElsewhereRows
<1>5. \A k \in Keys : IsOpen(k)' = IsOpen(k)
  BY <1>4 DEF IsOpen
<1> QED BY <1>1, <1>2, <1>3, <1>4, <1>5, CostKeeps

\* What a worker writes of rows: the baseline never, the observed cost by observing,
\* and it closes a row by finalizing it only.
LEMMA WorkerRows ==
  ASSUME GInv, NEW w \in Workers, Reconciling(w), NEW k \in Keys
  PROVE  /\ alloc'[k].base = alloc[k].base
         /\ alloc'[k].observed = alloc[k].observed \/ (Observe(w) /\ k = worker[w].key)
         /\ alloc[k].launch = "none" => alloc'[k].launch = "none"
         /\ IsOpen(k)' = IsOpen(k) \/ (Finalize(w) /\ k = worker[w].key)
<1> USE DEF GInv
<1> DEFINE Goal == /\ alloc'[k].base = alloc[k].base
                   /\ alloc'[k].observed = alloc[k].observed \/ (Observe(w) /\ k = worker[w].key)
                   /\ alloc[k].launch = "none" => alloc'[k].launch = "none"
                   /\ IsOpen(k)' = IsOpen(k) \/ (Finalize(w) /\ k = worker[w].key)
<1>1. CASE alloc'[k] = alloc[k]
  BY <1>1 DEF IsOpen
<1>2. ASSUME NEW j \in Keys, Claim(w, j) PROVE Goal
  BY <1>2, ClaimRows DEF IsOpen
<1> SUFFICES ASSUME \A j \in Keys : ~Claim(w, j), k = worker[w].key PROVE Goal
  BY <1>1, <1>2, WorkerFrame
<1>3. alloc[k] \in Rows /\ DOMAIN alloc = Keys
  BY DEF TypeOK
<1>4. alloc[k].launch # "none"
  BY WorkerFrame DEF FlowInv, WorkerInv
<1>5. ASSUME NEW row, alloc' = [alloc EXCEPT ![k] = row],
             row.base = alloc[k].base,
             row.observed = alloc[k].observed \/ Observe(w),
             \/ row.launch = alloc[k].launch
             \/ row.launch = "APPLIED" /\ alloc[k].launch = "UNCERTAIN",
             (row.closure = "FINALIZED") = (alloc[k].closure = "FINALIZED") \/ Finalize(w)
      PROVE  Goal
  <2>1. alloc'[k] = row
    BY <1>3, <1>5
  <2>2. IsOpen(k)' = IsOpen(k) \/ Finalize(w)
    BY <1>5, <2>1 DEF IsOpen
  <2> QED BY <1>4, <1>5, <2>1, <2>2
<1>6. CASE Observe(w)
  <2> DEFINE r == Observed(k, worker[w])
  <2>1. alloc' = [alloc EXCEPT ![k] = r]
    BY <1>6 DEF Observe
  <2>2. /\ r.base = alloc[k].base
        /\ \/ r.launch = alloc[k].launch
           \/ r.launch = "APPLIED" /\ alloc[k].launch = "UNCERTAIN"
        /\ (r.closure = "FINALIZED") = (alloc[k].closure = "FINALIZED")
    BY <1>3 DEF Observed, Rows, Closing
  <2> HIDE DEF r
  <2> QED BY <1>5, <1>6, <2>1, <2>2
<1>7. CASE CloseStopped(w) \/ RequestClosure(w)
  <2> DEFINE c == Closure(alloc[k], "other")
             p == PauseOutcome(c, TRUE)
  <2>1. /\ c \in Rows /\ c.launch = alloc[k].launch /\ c.base = alloc[k].base
        /\ c.observed = alloc[k].observed
        /\ (c.closure = "FINALIZED") = (alloc[k].closure = "FINALIZED")
    <3>1. /\ c \in Rows /\ c.launch = alloc[k].launch /\ c.base = alloc[k].base
          /\ c.observed = alloc[k].observed
          /\ \/ c.closure = alloc[k].closure
             \/ alloc[k].closure = "OPEN" /\ c.closure = "REQUESTED"
      BY <1>3, RowWriters, RowKeeps
    <3> HIDE DEF c
    <3> QED BY <3>1
  <2>2. \/ alloc' = [alloc EXCEPT ![k] = c]
        \/ alloc' = [alloc EXCEPT ![k] = p] /\ alloc[k].closure # "FINALIZED"
    BY <1>7 DEF CloseStopped, RequestClosure
  <2> HIDE DEF c
  <2>3. /\ p.launch = c.launch /\ p.base = c.base /\ p.observed = c.observed
        /\ p.closure # "FINALIZED"
    BY <2>1, RowWriters, RowKeeps
  <2> HIDE DEF p
  <2>4. CASE alloc' = [alloc EXCEPT ![k] = c]
    BY <1>5, <2>1, <2>4
  <2>5. CASE alloc' = [alloc EXCEPT ![k] = p] /\ alloc[k].closure # "FINALIZED"
    BY <1>5, <2>1, <2>3, <2>5
  <2> QED BY <2>2, <2>4, <2>5
<1>8. CASE MarkStopped(w) \/ MarkUnknown(w)
  <2> DEFINE t == PauseOutcome(alloc[k], TRUE)
             f == PauseOutcome(alloc[k], FALSE)
  <2>1. /\ t.launch = alloc[k].launch /\ t.base = alloc[k].base /\ t.observed = alloc[k].observed
        /\ t.closure # "FINALIZED"
    BY <1>3, RowWriters, RowKeeps
  <2>2. /\ f.launch = alloc[k].launch /\ f.base = alloc[k].base /\ f.observed = alloc[k].observed
        /\ f.closure # "FINALIZED"
    BY <1>3, RowWriters, RowKeeps
  <2>3. \/ alloc' = alloc
        \/ alloc[k].closure # "FINALIZED" /\ alloc' = [alloc EXCEPT ![k] = t]
        \/ alloc[k].closure # "FINALIZED" /\ alloc' = [alloc EXCEPT ![k] = f]
    BY <1>8 DEF MarkStopped, MarkUnknown, MarkPause
  <2> HIDE DEF t, f
  <2> QED BY <1>1, <1>5, <2>1, <2>2, <2>3
<1>9. CASE ReadBillingEvidence(w)
  <2> DEFINE r == [alloc[k] EXCEPT !.live = TRUE]
  <2>1. /\ r.launch = alloc[k].launch /\ r.base = alloc[k].base
        /\ r.observed = alloc[k].observed /\ r.closure = alloc[k].closure
    BY <1>3 DEF Rows
  <2>2. alloc' = alloc \/ alloc' = [alloc EXCEPT ![k] = r]
    BY <1>9 DEF ReadBillingEvidence
  <2> HIDE DEF r
  <2> QED BY <1>1, <1>5, <2>1, <2>2
<1>10. CASE RecordBillingEvidence(w)
  <2> DEFINE r == [alloc[k] EXCEPT !.evidence = TRUE, !.known = TRUE,
                     !.closure = IF @ = "PROVIDER_PAUSED" THEN "AWAITING_BILLING" ELSE @]
  <2>1. /\ r.launch = alloc[k].launch /\ r.base = alloc[k].base
        /\ r.observed = alloc[k].observed
        /\ (r.closure = "FINALIZED") = (alloc[k].closure = "FINALIZED")
    BY <1>3 DEF Rows
  <2>2. alloc' = alloc \/ alloc' = [alloc EXCEPT ![k] = r]
    <3>1. [alloc EXCEPT ![k].evidence = TRUE, ![k].known = TRUE,
                        ![k].closure = IF @ = "PROVIDER_PAUSED" THEN "AWAITING_BILLING" ELSE @]
          = [alloc EXCEPT ![k] = r]
      BY <1>3 DEF Rows
    <3> QED BY <1>10, <3>1 DEF RecordBillingEvidence
  <2> HIDE DEF r
  <2> QED BY <1>1, <1>5, <2>1, <2>2
<1>11. CASE Finalize(w) \/ Schedule(w)
  <2> DEFINE f == [alloc[k] EXCEPT !.closure = "FINALIZED"]
  <2>1. /\ f \in Rows /\ f.launch = alloc[k].launch /\ f.base = alloc[k].base
        /\ f.observed = alloc[k].observed
    BY <1>3 DEF Rows, ClosureStates
  <2>2. \/ alloc' = alloc
        \/ alloc' = [alloc EXCEPT ![k] = Unleased(alloc[k])]
        \/ alloc' = [alloc EXCEPT ![k] = Unleased(f)] /\ Finalize(w)
    BY <1>11 DEF Finalize, Schedule
  <2> HIDE DEF f
  <2>3. \A row \in Rows : /\ Unleased(row).launch = row.launch /\ Unleased(row).base = row.base
                          /\ Unleased(row).observed = row.observed
                          /\ Unleased(row).closure = row.closure
    BY RowWriters, RowKeeps
  <2> QED BY <1>1, <1>3, <1>5, <2>1, <2>2, <2>3
<1> QED
  BY <1>1, <1>6, <1>7, <1>8, <1>9, <1>10, <1>11
     DEF Reconciling, ReadCampaign, PauseCampaign, WorkerDies

\* Where a worker gets its cost and its evidence from.
LEMMA WorkerReads ==
  ASSUME GInv, NEW w \in Workers, Reconciling(w)
  PROVE  /\ worker'[w].at = "observe" => worker'[w].cost = campaign.cost
         /\ worker'[w].at \in {"record", "finalize"} =>
              /\ worker'[w].key = worker[w].key
              /\ \/ worker[w].at \in {"record", "finalize"}
                 \/ \A c \in Basing : alloc[worker[w].key].observed <= call[c].base
<1>1. DOMAIN worker = Workers /\ worker[w] \in WorkerStates
  BY DEF GInv, TypeOK
<1>2. ASSUME NEW at, Goto(w, at) PROVE worker'[w].at = at /\ worker'[w].key = worker[w].key
  <2> DEFINE r == IF at \in {"stop", "request"} THEN [worker[w] EXCEPT !.at = at, !.cost = 0]
                  ELSE [IdleWorker EXCEPT !.at = at, !.key = worker[w].key]
  <2>1. worker'[w] = r
    BY <1>1, <1>2 DEF Goto
  <2>2. r.key = worker[w].key /\ r.at = at
    BY <1>1 DEF WorkerStates, IdleWorker
  <2> QED BY <2>1, <2>2
<1>3. Rest(w) => worker'[w].at = "idle"
  BY <1>1 DEF Rest, IdleWorker
<1>4. \A row, o : Proceed(row, o) \notin {"observe", "record", "finalize"}
  BY DEF Proceed
<1>5. ASSUME NEW k \in Keys, Claim(w, k) PROVE worker'[w].at = "read"
  BY <1>1, <1>5 DEF Claim, IdleWorker
<1>6. CASE ReadCampaign(w)
  BY <1>1, <1>6 DEF ReadCampaign
<1>7. CASE Observe(w) \/ CloseStopped(w) \/ RequestClosure(w)
  <2>1. \E row, o : Goto(w, Proceed(row, o))
    BY <1>7 DEF Observe, CloseStopped, RequestClosure
  <2> QED BY <1>2, <1>4, <2>1
<1>8. CASE MarkStopped(w) \/ PauseCampaign(w) \/ MarkUnknown(w)
  <2>1. \E at \in {"settle", "mark", "unknown", "give up"} : Goto(w, at)
    BY <1>8 DEF MarkStopped, PauseCampaign, MarkUnknown
  <2> QED BY <1>2, <2>1
<1>9. CASE ReadBillingEvidence(w)
  <2>1. CASE Goto(w, "give up")
    <3>1. worker'[w].at = "give up"
      BY <1>2, <2>1
    <3> QED BY <3>1
  <2>2. CASE Goto(w, "record") /\ LagElapsed(worker[w].key)
    <3>1. \A c \in Basing : alloc[worker[w].key].observed <= call[c].base
      <4>1. \A c \in Basing : call[c].base = alloc[worker[w].key].observed /\ c \in Callers
        BY <2>2 DEF LagElapsed, Basing, BaseSteps
      <4>2. \A c \in Callers : call[c].base \in Nat
        BY CostTypes
      <4> QED BY <4>1, <4>2
    <3> QED BY <1>2, <2>2, <3>1
  <2> QED BY <1>9, <2>1, <2>2 DEF ReadBillingEvidence
<1>10. CASE RecordBillingEvidence(w)
  BY <1>2, <1>10 DEF RecordBillingEvidence
<1>11. CASE Rest(w)
  BY <1>3, <1>11
<1> QED
  BY <1>5, <1>6, <1>7, <1>8, <1>9, <1>10, <1>11
     DEF Reconciling, Finalize, Schedule, WorkerDies

\* An observation charges the row up to what the campaign has cost since its
\* baseline, so what it charges stays above all the others are charged.
LEMMA ObserveCost ==
  ASSUME GInv, GInv', OneCyclePerRow, CostInv, NEW w \in Workers, Observe(w)
  PROVE  CostInv'
<1> USE DEF GInv
<1>1. PICK k \in Keys : k = worker[w].key
  BY DEF Observe, FlowInv, WorkerInv
<1> DEFINE o == worker[w]
           target == Bounded(k, o.cost)
<1>2. /\ o.at = "observe" /\ alloc[k].launch # "none"
      /\ alloc' = [alloc EXCEPT ![k] = Observed(k, o)]
      /\ UNCHANGED <<campaign, call>>
      /\ Reconciling(w) /\ \A j \in Keys : ~Claim(w, j)
  BY <1>1 DEF Observe, Reconciling, Claim, FlowInv, WorkerInv
<1>3. /\ alloc[k].base \in Nat /\ alloc[k].observed \in Nat /\ reservation[k].settled \in Nat
      /\ o.cost \in Nat /\ campaign.cost \in Nat /\ Amount[k] \in Nat /\ Charged \in Int
      /\ \A c \in Callers : call[c].base \in Nat
  BY CostTypes, AdSpendAssumption
<1>4. /\ alloc[k].base + reservation[k].settled <= alloc[k].observed
      /\ alloc[k].observed <= o.cost /\ o.cost <= campaign.cost
  BY <1>1, <1>2 DEF CostInv, RowCost, WorkerCost
<1>5. target \in Nat /\ alloc[k].base + target <= o.cost
  BY <1>3, <1>4 DEF Bounded, Incremental, Less
<1>6. /\ reservation'[k].settled = target
      /\ \A j \in Keys \ {k} : reservation'[j].settled = reservation[j].settled
  <2>1. \/ SettleReservation(k, target)
        \/ target = reservation[k].settled /\ reservation' = reservation
    BY <1>1 DEF Observe, adVars
  <2>2. reservation \in [Keys -> [status : {"none", "RESERVED", "RELEASED", "CONSUMED"}, settled : Nat]]
    BY DEF AdInv, AdTypeOK
  <2> HIDE DEF target
  <2> QED BY <2>1, <2>2 DEF SettleReservation, SettledTo
<1>7. ~IsOpen(k) => reservation'[k].settled = reservation[k].settled
  <2>1. SettleReservation(k, target) => IsOpen(k)
    BY <1>2 DEF SettleReservation, IsOpen, FlowInv, RowInv, Closed
  <2> QED BY <1>1, <2>1 DEF Observe, adVars
<1>8. /\ Charged' \in Int
      /\ Charged' = Charged - reservation[k].settled + reservation'[k].settled
  BY <1>6, ChargedMoves DEF AdInv
<1>9. /\ \A j \in Keys : /\ alloc'[j].base = alloc[j].base
                         /\ alloc[j].launch = "none" => alloc'[j].launch = "none"
                         /\ IsOpen(j)' = IsOpen(j)
                         /\ j # k => alloc'[j].observed = alloc[j].observed
      /\ alloc'[k].observed = o.cost
  <2>1. \A j \in Keys : /\ alloc'[j].base = alloc[j].base
                        /\ alloc[j].launch = "none" => alloc'[j].launch = "none"
                        /\ IsOpen(j)' = IsOpen(j)
                        /\ j # k => alloc'[j].observed = alloc[j].observed
    <3>1. ~Finalize(w)
      BY <1>2 DEF Finalize
    <3> QED BY <1>1, <1>2, <3>1, WorkerRows
  <2>2. alloc'[k].observed = o.cost
    <3>1. alloc[k] \in Rows /\ DOMAIN alloc = Keys
      BY DEF TypeOK
    <3>2. Observed(k, o).observed = o.cost
      BY <3>1 DEF Observed, Rows
    <3> QED BY <1>2, <3>1, <3>2
  <2> QED BY <2>1, <2>2
<1>10. Basing' = Basing
  BY <1>2 DEF Basing
<1> HIDE DEF o, target
<1>11. \A j \in Keys : RowCost(j)'
  <2>1. RowCost(k)'
    BY <1>2, <1>4, <1>5, <1>6, <1>9 DEF RowCost
  <2>2. ASSUME NEW j \in Keys \ {k} PROVE RowCost(j)'
    BY <1>2, <1>6, <1>9 DEF RowCost, CostInv
  <2> QED BY <2>1, <2>2
<1>12. ChargedBelow'
  <2>1. CASE IsOpen(k)
    <3>1. \A j \in Keys : IsOpen(j)' => j = k
      BY <1>9, <2>1 DEF FlowInv, OpenInv
    <3>2. /\ Charged <= alloc[k].base + reservation[k].settled
          /\ \A c \in Basing : Charged <= call[c].base + reservation[k].settled
      BY <2>1 DEF CostInv, ChargedBelow
    <3>3. /\ Charged' <= alloc'[k].base + reservation'[k].settled
          /\ \A c \in Basing' : Charged' <= call'[c].base + reservation'[k].settled
      <4>1. \A c \in Basing' : /\ Charged <= call[c].base + reservation[k].settled
                               /\ call'[c].base = call[c].base /\ call[c].base \in Nat
        BY <1>2, <1>3, <1>10, <3>2 DEF Basing
      <4>2. alloc'[k].base = alloc[k].base /\ reservation'[k].settled \in Nat
        BY <1>5, <1>6, <1>9
      <4> QED BY <1>3, <1>8, <3>2, <4>1, <4>2
    <3>4. IsOpen(k)'
      BY <1>9, <2>1
    <3> QED BY <3>1, <3>3, <3>4 DEF ChargedBelow
  <2>2. CASE ~IsOpen(k)
    <3>1. \A j \in Keys : reservation'[j].settled = reservation[j].settled
      BY <1>6, <1>7, <2>2
    <3>2. Charged' = Charged
      BY <3>1, ChargedSame
    <3> QED BY <1>2, <1>9, <1>10, <3>1, <3>2 DEF CostInv, ChargedBelow
  <2> QED BY <2>1, <2>2
<1>13. \A c \in Basing' : call'[c].base <= campaign'.cost
  BY <1>2, <1>10 DEF CostInv
<1>14. ASSUME NEW v \in Workers PROVE WorkerCost(v)'
  <2>1. CASE v = w
    <3>1. worker'[w].at \notin {"observe", "record", "finalize"}
      <4>1. \A row, r : Proceed(row, r) \notin {"observe", "record", "finalize"}
        BY DEF Proceed
      <4>2. ASSUME NEW at, Goto(w, at) PROVE worker'[w].at = at
        <5> DEFINE r == IF at \in {"stop", "request"} THEN [worker[w] EXCEPT !.at = at, !.cost = 0]
                        ELSE [IdleWorker EXCEPT !.at = at, !.key = worker[w].key]
        <5>1. worker'[w] = r
          BY <4>2 DEF Goto, TypeOK
        <5>2. r.at = at
          BY DEF TypeOK, WorkerStates, IdleWorker
        <5> QED BY <5>1, <5>2
      <4>3. \E row, r : Goto(w, Proceed(row, r))
        BY DEF Observe
      <4> QED BY <4>1, <4>2, <4>3
    <3> QED BY <2>1, <3>1 DEF WorkerCost
  <2>2. CASE v # w
    <3>1. worker'[v] = worker[v]
      BY <1>2, <2>2, WorkerAlone
    <3>2. CASE worker[v].at = "idle"
      BY <3>1, <3>2 DEF WorkerCost
    <3>3. CASE worker[v].at # "idle"
      <4>1. PICK j \in Keys : j = worker[v].key
        BY <3>3 DEF FlowInv, WorkerInv
      <4>2. j # k
        BY <1>1, <1>2, <2>2, <3>3, <4>1 DEF OneCyclePerRow, o
      <4>3. alloc'[j].observed = alloc[j].observed /\ IsOpen(j)' = IsOpen(j)
        BY <1>9, <4>2
      <4>4. WorkerCost(v)
        BY DEF CostInv
      <4> QED BY <1>2, <1>10, <3>1, <4>1, <4>3, <4>4 DEF WorkerCost
    <3> QED BY <3>2, <3>3
  <2> QED BY <2>1, <2>2
<1> QED BY <1>11, <1>12, <1>13, <1>14 DEF CostInv

LEMMA ReconcilingCost ==
  ASSUME GInv, GInv', OneCyclePerRow, CostInv, NEW w \in Workers, Reconciling(w)
  PROVE  CostInv'
<1> USE DEF GInv
<1>1. /\ call' = call /\ campaign'.cost = campaign.cost
      /\ \A v \in Workers \ {w} : worker'[v] = worker[v]
  BY WorkerAlone
<1>2. CASE Observe(w)
  BY <1>2, ObserveCost
<1>3. CASE ~Observe(w)
  <2>1. \A j \in Keys : reservation'[j].settled = reservation[j].settled
    <3>1. CASE reservation' = reservation
      BY <3>1
    <3>2. CASE Finalize(w)
      <4>1. worker[w].key \in Keys
        BY <3>2 DEF Finalize, FlowInv, WorkerInv
      <4> QED BY <3>1, <3>2, <4>1, SettledStays DEF Finalize, AdInv, adVars
    <3> QED
      BY <1>3, <3>1, <3>2
         DEF Reconciling, Claim, ReadCampaign, CloseStopped, RequestClosure, MarkStopped,
             PauseCampaign, MarkUnknown, ReadBillingEvidence, RecordBillingEvidence, Schedule,
             WorkerDies, adVars
  <2>2. \A j \in Keys : /\ alloc'[j].base = alloc[j].base
                        /\ alloc'[j].observed = alloc[j].observed
                        /\ alloc[j].launch = "none" => alloc'[j].launch = "none"
                        /\ IsOpen(j)' = IsOpen(j) \/ (Finalize(w) /\ j = worker[w].key)
    BY <1>3, WorkerRows
  <2>3. CASE \A j \in Keys : IsOpen(j)' = IsOpen(j)
    <3>1. \A v \in Workers : worker'[v].at = "observe" =>
             worker'[v] = worker[v] \/ worker'[v].cost = campaign.cost
      BY <1>1, WorkerReads
    <3>2. Basing' = Basing
      BY <1>1 DEF Basing
    <3>3. \A v \in Workers : worker'[v].at \in {"record", "finalize"} =>
             \/ worker[v].at \in {"record", "finalize"} /\ worker'[v].key = worker[v].key
             \/ \A c \in Basing' : alloc[worker'[v].key].observed <= call'[c].base
      <4>1. ASSUME worker'[w].at \in {"record", "finalize"}
            PROVE  /\ worker'[w].key = worker[w].key
                   /\ \/ worker[w].at \in {"record", "finalize"}
                      \/ \A c \in Basing : alloc[worker[w].key].observed <= call[c].base
        BY <4>1, WorkerReads
      <4> QED BY <1>1, <3>2, <4>1
    <3>4. campaign'.cost >= campaign.cost
      BY <1>1, CostTypes
    <3> QED BY <1>1, <2>1, <2>2, <2>3, <3>1, <3>3, <3>4, CostKeeps
  <2>4. ASSUME NEW k \in Keys, IsOpen(k)' # IsOpen(k) PROVE CostInv'
    <3>1. Finalize(w) /\ k = worker[w].key
      BY <2>2, <2>4
    <3>2. IsOpen(k) /\ ~IsOpen(k)'
      <4>1. alloc[k] \in Rows /\ DOMAIN alloc = Keys
        BY DEF TypeOK
      <4> DEFINE f == [alloc[k] EXCEPT !.closure = "FINALIZED"]
      <4>2. f \in Rows /\ f.closure = "FINALIZED"
        BY <4>1 DEF Rows, ClosureStates
      <4>3. alloc' = [alloc EXCEPT ![k] = Unleased(f)]
        BY <3>1 DEF Finalize
      <4> HIDE DEF f
      <4>4. alloc'[k].closure = "FINALIZED"
        BY <4>1, <4>2, <4>3, RowWriters
      <4>5. ~IsOpen(k)'
        BY <4>4 DEF IsOpen
      <4>6. IsOpen(k) \in BOOLEAN /\ IsOpen(k)' \in BOOLEAN
        BY DEF IsOpen
      <4> QED BY <2>4, <4>5, <4>6
    <3>3. worker[w].at = "finalize" /\ worker'[w].at = "idle"
      BY <3>1 DEF Finalize, Rest, IdleWorker, TypeOK
    <3>4. \A c \in Basing : Charged <= call[c].base
      <4>1. \A c \in Basing : alloc[k].observed <= call[c].base
        BY <3>1, <3>2, <3>3 DEF CostInv, WorkerCost
      <4>2. Charged <= alloc[k].base + reservation[k].settled
        BY <3>2 DEF CostInv, ChargedBelow
      <4>3. alloc[k].base + reservation[k].settled <= alloc[k].observed
        BY <3>2 DEF CostInv, RowCost, IsOpen
      <4> QED BY <4>1, <4>2, <4>3, CostTypes DEF Basing
    <3>5. \A j \in Keys : j # k => IsOpen(j)' = IsOpen(j)
      BY <2>2, <3>1
    <3>6. \A v \in Workers : worker'[v].at \in {"observe", "record", "finalize"}
                               => worker'[v] = worker[v]
      BY <1>1, <3>3
    <3> QED BY <1>1, <2>1, <2>2, <3>2, <3>4, <3>5, <3>6, CostCloses
  <2> QED BY <2>3, <2>4
<1> QED BY <1>2, <1>3

LEMMA CostInit == Init => CostInv
<1> SUFFICES ASSUME Init PROVE CostInv
  OBVIOUS
<1>1. Charged = 0
  <2> DEFINE f == [k \in Keys |-> reservation[k].settled]
  <2>1. \A k \in Keys : f[k] = 0
    BY DEF Init, AdInit
  <2>2. Charged = SumFunctionOnSet(f, Keys)
    BY DEF Charged, SumFunction
  <2> HIDE DEF f
  <2> QED BY <2>1, <2>2, SumZero, AdSpendFinite
<1>2. \A k \in Keys : alloc[k].launch = "none" /\ ~IsOpen(k)
  BY DEF Init, IsOpen, Row0
<1>3. Basing = {}
  BY DEF Init, IdleCall, Basing, BaseSteps
<1>4. \A w \in Workers : worker[w].at = "idle"
  BY DEF Init, IdleWorker
<1>5. campaign.cost = 0
  BY DEF Init
<1> QED BY <1>1, <1>2, <1>3, <1>4, <1>5 DEF CostInv, RowCost, ChargedBelow, WorkerCost

LEMMA CostNext ==
  GInv /\ LaunchesOwnRows /\ CostInv /\ OneCyclePerRow /\ [Next]_vars
    => LaunchesOwnRows' /\ CostInv'
<1> SUFFICES ASSUME GInv, LaunchesOwnRows, CostInv, OneCyclePerRow, [Next]_vars
             PROVE  LaunchesOwnRows' /\ CostInv'
  OBVIOUS
<1>1. GInv'
  BY GInvNext
<1>2. LaunchesOwnRows'
  BY LaunchesNext
<1>3. CASE UNCHANGED vars
  <2>1. /\ reservation' = reservation /\ alloc' = alloc /\ campaign' = campaign
        /\ call' = call /\ worker' = worker
    BY <1>3 DEF vars, adVars, gVars
  <2>2. Charged' = Charged
    BY <2>1, ChargedSame
  <2>3. Basing' = Basing /\ \A k \in Keys : IsOpen(k)' = IsOpen(k) /\ RowCost(k)' = RowCost(k)
    BY <2>1 DEF Basing, IsOpen, RowCost
  <2>4. ChargedBelow' = ChargedBelow
    BY <2>1, <2>2, <2>3 DEF ChargedBelow
  <2>5. \A w \in Workers : WorkerCost(w)'
    <3> TAKE w \in Workers
    <3>1. worker'[w] = worker[w] /\ WorkerCost(w)
      BY <2>1 DEF CostInv
    <3>2. CASE worker[w].at \in {"observe", "record", "finalize"}
      <4>1. worker[w].key \in Keys
        BY <3>2 DEF GInv, FlowInv, WorkerInv
      <4> QED BY <2>1, <2>3, <3>1, <4>1 DEF WorkerCost
    <3> QED BY <3>1, <3>2 DEF WorkerCost
  <2> QED BY <1>1, <1>2, <2>1, <2>3, <2>4, <2>5 DEF CostInv
<1> QED BY <1>1, <1>2, <1>3, CallingCost, ReconcilingCost, ElsewhereCost DEF Next, Elsewhere

\* While no cycle of a worker outlives its lease, the launches of a campaign are
\* never charged more, all together, than the campaign has cost: each is charged
\* an interval of the cost, and the intervals do not overlap.  Any number of calls,
\* workers and keys; without the hypothesis it is false (README, section 5).
THEOREM NoCostIsChargedTwice == Spec /\ []OneCyclePerRow => []NeverOvercharged
<1>1. GInv /\ CostInv => NeverOvercharged
  <2> SUFFICES ASSUME GInv, CostInv PROVE Charged <= campaign.cost
    BY DEF NeverOvercharged, Charged
  <2>1. CASE \E k \in Keys : IsOpen(k)
    BY <2>1, CostTypes DEF CostInv, ChargedBelow, RowCost, IsOpen
  <2> QED BY <2>1 DEF CostInv, ChargedBelow
<1> QED BY <1>1, LaunchesInit, CostInit, CostNext, GInvAlways, PTL DEF Spec

\* A single worker has one cycle at a time and needs no hypothesis: whatever the
\* calls and the customer do, no cost of the campaign is charged to two launches.
THEOREM NeverOverchargedByOneWorker ==
  ASSUME \A v, w \in Workers : v = w
  PROVE  Spec => []NeverOvercharged
<1>1. OneCyclePerRow
  BY DEF OneCyclePerRow
<1> QED BY <1>1, NoCostIsChargedTwice, PTL
=============================================================================
