-------------------------- MODULE AiRequestProofs --------------------------
(***************************************************************************)
(* Safety of the prepaid wallet and of the AI requests that spend from it. *)
(*                                                                         *)
(* First the wallet, for any top-ups, reversals, requests and usages and   *)
(* any amounts: no money appears or disappears, debt and balance exclude   *)
(* each other, reversals are applied once, holds end once.  Then calls of  *)
(* any number of callers and keys: they obey the wallet module, work is    *)
(* done once per key, its money stays held until it is settled, charges    *)
(* have evidence and answers are paid.  Last, voice sessions, whose close  *)
(* calls record metered use: an ended session is charged.                  *)
(***************************************************************************)
EXTENDS AiRequest, VoiceSession, SumTheorems

\* Debt and balance of one wallet row exclude each other.
Solvent(w) == w.debt > 0 => w.available = 0

\* What is in the wallet, held, spent, less what is owed.
Net(w) == w.available + w.reserved + w.spent - w.debt

\* GREATEST(0, a - b) is an amount.
LEMMA LessNat ==
  ASSUME NEW a \in Nat, NEW b \in Nat
  PROVE  /\ Less(a, b) \in Nat
         /\ a + Less(b, a) = b + Less(a, b)
         /\ Less(a, b) > 0 => Less(b, a) = 0
BY DEF Less

\* Money that comes in raises the net by its amount and never leaves a balance
\* beside a debt.
LEMMA RepayNet ==
  ASSUME NEW w \in Wallets, NEW x \in Nat
  PROVE  /\ Repay(w, x) \in Wallets
         /\ Net(Repay(w, x)) = Net(w) + x
         /\ Solvent(w) => Solvent(Repay(w, x))
         /\ Repay(w, x).reserved = w.reserved /\ Repay(w, x).spent = w.spent
<1>1. /\ w.available \in Nat /\ w.debt \in Nat /\ w.reserved \in Nat /\ w.spent \in Nat
  BY DEF Wallets
<1>2. Repay(w, x) \in Wallets
  <2>1. Less(x, w.debt) \in Nat /\ Less(w.debt, x) \in Nat
    BY <1>1, LessNat
  <2>2. w.available + Less(x, w.debt) \in Nat
    BY <1>1, <2>1
  <2> QED BY <2>1, <2>2 DEF Repay, Wallets
<1>3. /\ Repay(w, x).available = w.available + Less(x, w.debt)
      /\ Repay(w, x).debt = Less(w.debt, x)
      /\ Repay(w, x).reserved = w.reserved /\ Repay(w, x).spent = w.spent
  BY DEF Repay, Wallets
<1>4. Net(Repay(w, x)) = Net(w) + x
  BY <1>1, <1>3 DEF Net, Less
<1>5. Solvent(w) => Solvent(Repay(w, x))
  BY <1>1, <1>3 DEF Solvent, Less
<1> QED BY <1>2, <1>3, <1>4, <1>5

\* Funding is money that comes in.
LEMMA FundNet ==
  ASSUME NEW w \in Wallets, NEW x \in Nat
  PROVE  /\ Fund(w, x) \in Wallets
         /\ Net(Fund(w, x)) = Net(w) + x
         /\ Solvent(w) => Solvent(Fund(w, x))
<1>1. Repay(w, x) \in Wallets
  BY RepayNet
<1>2. /\ Fund(w, x) \in Wallets
      /\ \A k \in {"available", "debt", "reserved", "spent"} : Fund(w, x)[k] = Repay(w, x)[k]
  BY <1>1 DEF Fund, Wallets
<1> QED BY <1>2, RepayNet DEF Net, Solvent

\* Money that goes out lowers the net by its amount, into debt if need be.
LEMMA OweNet ==
  ASSUME NEW w \in Wallets, NEW x \in Nat
  PROVE  /\ Owe(w, x) \in Wallets
         /\ Net(Owe(w, x)) = Net(w) - x
         /\ Solvent(w) => Solvent(Owe(w, x))
         /\ Owe(w, x).spent = w.spent
<1>1. /\ w.available \in Nat /\ w.debt \in Nat /\ w.reserved \in Nat /\ w.spent \in Nat
  BY DEF Wallets
<1>2. Owe(w, x) \in Wallets
  <2>1. Less(x, w.available) \in Nat /\ Less(w.available, x) \in Nat
    BY <1>1, LessNat
  <2>2. w.debt + Less(x, w.available) \in Nat
    BY <1>1, <2>1
  <2> QED BY <2>1, <2>2 DEF Owe, Wallets
<1>3. /\ Owe(w, x).available = Less(w.available, x)
      /\ Owe(w, x).debt = w.debt + Less(x, w.available)
      /\ Owe(w, x).reserved = w.reserved /\ Owe(w, x).spent = w.spent
  BY DEF Owe, Wallets
<1>4. Net(Owe(w, x)) = Net(w) - x
  <2>1. /\ Less(x, w.available) \in Nat /\ Less(w.available, x) \in Nat
        /\ w.available + Less(x, w.available) = x + Less(w.available, x)
    BY <1>1, LessNat
  <2> QED BY <1>1, <1>3, <2>1 DEF Net
<1>5. Solvent(w) => Solvent(Owe(w, x))
  BY <1>1, <1>3 DEF Solvent, Less
<1> QED BY <1>2, <1>3, <1>4, <1>5

\* Taking a refund or dispute back is money that goes out.
LEMMA DefundNet ==
  ASSUME NEW w \in Wallets, NEW x \in Nat
  PROVE  /\ Defund(w, x) \in Wallets
         /\ Net(Defund(w, x)) = Net(w) - x
         /\ Solvent(w) => Solvent(Defund(w, x))
<1>1. Owe(w, x) \in Wallets
  BY OweNet
<1>2. Less(Owe(w, x).funded, x) \in Nat
  BY <1>1, LessNat DEF Wallets
<1>3. /\ Defund(w, x) \in Wallets
      /\ \A k \in {"available", "debt", "reserved", "spent"} : Defund(w, x)[k] = Owe(w, x)[k]
  BY <1>1, <1>2 DEF Defund, Wallets
<1> QED BY <1>3, OweNet DEF Net, Solvent

\* Seeding the row and giving back a payment reserve move no money.
LEMMA SeedNet ==
  ASSUME NEW w \in Wallets, NEW x \in Nat
  PROVE  /\ Seeded(w, x) \in Wallets /\ Unpend(w, x) \in Wallets
         /\ Net(Seeded(w, x)) = Net(w) /\ Net(Unpend(w, x)) = Net(w)
         /\ Solvent(w) => Solvent(Seeded(w, x)) /\ Solvent(Unpend(w, x))
         /\ Seeded(w, x).spent = w.spent
<1>1. Less(w.payment, x) \in Nat
  BY LessNat DEF Wallets
<1>2. /\ Seeded(w, x) \in Wallets /\ Unpend(w, x) \in Wallets
      /\ \A k \in {"available", "debt", "reserved", "spent"} :
           Seeded(w, x)[k] = w[k] /\ Unpend(w, x)[k] = w[k]
  BY <1>1 DEF Seeded, Unpend, Wallets
<1> QED BY <1>2 DEF Net, Solvent

-----------------------------------------------------------------------------
\* The money invariant, as a statement about the wallet row and the ledger.
MoneyOK == Net(wallet) = ledger /\ Solvent(wallet)

\* Deposits that come in or fall through.
LEMMA CreditMoney ==
  ASSUME TypeOK, MoneyOK, NEW t \in Topups, NEW s \in PaymentStatuses, CreditTopup(t, s)
  PROVE  wallet' \in Wallets /\ ledger' \in Int /\ MoneyOK'
<1> USE DEF TypeOK, MoneyOK
<1>1. PICK seed \in Money, due \in Money :
        /\ wallet' = Defund(Fund(Unpend(Seeded(wallet, seed), Amount[t]), Amount[t]), due)
        /\ ledger' = ledger + Amount[t] - due
  BY DEF CreditTopup
<1>2. Amount[t] \in Nat /\ seed \in Nat /\ due \in Nat
  BY WalletAssumption DEF Money
<1> DEFINE w1 == Seeded(wallet, seed)
           w2 == Unpend(w1, Amount[t])
           w3 == Fund(w2, Amount[t])
<1>3. w1 \in Wallets /\ Net(w1) = Net(wallet) /\ Solvent(w1)
  BY <1>2, SeedNet
<1>4. w2 \in Wallets /\ Net(w2) = Net(wallet) /\ Solvent(w2)
  BY <1>2, <1>3, SeedNet
<1>5. w3 \in Wallets /\ Net(w3) = Net(wallet) + Amount[t] /\ Solvent(w3)
  BY <1>2, <1>4, FundNet
<1>6. /\ wallet' \in Wallets /\ Solvent(wallet')
      /\ Net(wallet') = Net(wallet) + Amount[t] - due
  BY <1>1, <1>2, <1>5, DefundNet
<1> QED BY <1>1, <1>2, <1>6

\* Every operation on a top-up keeps the money right.
LEMMA DepositMoney ==
  ASSUME TypeOK, MoneyOK, NEW t \in Topups,
         \/ EnsureWallet \/ CreateApiTopup(t) \/ AttachApiProviderPayment(t) \/ FailApiTopup(t)
         \/ \E s \in PaymentStatuses : ApplyApiProviderStatus(t, s)
  PROVE  wallet' \in Wallets /\ ledger' \in Int /\ MoneyOK'
<1> USE DEF TypeOK, MoneyOK
<1>1. Amount[t] \in Nat /\ Money \subseteq Nat
  BY WalletAssumption DEF Money
<1>2. CASE wallet' = wallet /\ ledger' = ledger
  BY <1>2
<1>3. CASE /\ ledger' = ledger
           /\ \E seed \in Money : \/ wallet' = Seeded(wallet, seed)
                                  \/ wallet' = Unpend(Seeded(wallet, seed), Amount[t])
  <2>1. PICK seed \in Nat : \/ wallet' = Seeded(wallet, seed)
                            \/ wallet' = Unpend(Seeded(wallet, seed), Amount[t])
    BY <1>1, <1>3
  <2>2. /\ Seeded(wallet, seed) \in Wallets /\ Solvent(Seeded(wallet, seed))
        /\ Net(Seeded(wallet, seed)) = Net(wallet)
    BY SeedNet
  <2>3. /\ Unpend(Seeded(wallet, seed), Amount[t]) \in Wallets
        /\ Solvent(Unpend(Seeded(wallet, seed), Amount[t]))
        /\ Net(Unpend(Seeded(wallet, seed), Amount[t])) = Net(wallet)
    BY <1>1, <2>2, SeedNet
  <2> QED BY <1>3, <2>1, <2>2, <2>3
<1>4. CASE wallet' = [wallet EXCEPT !.payment = @ + Amount[t]] /\ ledger' = ledger
  BY <1>1, <1>4 DEF Wallets, Net, Solvent
<1>5. CASE wallet' = Defund(wallet, Amount[t]) /\ ledger' = ledger - Amount[t]
  <2>1. Amount[t] \in Int
    BY <1>1
  <2> QED BY <1>1, <1>5, <2>1, DefundNet
<1>6. ASSUME NEW s \in PaymentStatuses, CreditTopup(t, s)
      PROVE  wallet' \in Wallets /\ ledger' \in Int /\ MoneyOK'
  BY <1>6, CreditMoney
<1>7. ASSUME NEW s \in PaymentStatuses, ApplyApiProviderStatus(t, s)
      PROVE  wallet' \in Wallets /\ ledger' \in Int /\ MoneyOK'
  BY <1>2, <1>3, <1>5, <1>6, <1>7
     DEF ApplyApiProviderStatus, ReleaseDeposit, ReverseTopup, NoteStatus
<1> QED BY <1>2, <1>3, <1>4, <1>7
        DEF EnsureWallet, CreateApiTopup, AttachApiProviderPayment, FailApiTopup

\* Refunds and disputes, in force or withdrawn.
LEMMA ReversalMoney ==
  ASSUME TypeOK, MoneyOK, NEW r \in Reversals, NEW active \in BOOLEAN,
         NEW stamp \in 1 .. MaxStamp, RecordAirwallexWalletReversal(r, active, stamp)
  PROVE  wallet' \in Wallets /\ ledger' \in Int /\ MoneyOK'
<1> USE DEF TypeOK, MoneyOK
<1> DEFINE wanted == IF active THEN ReversalAmount[r] ELSE 0
           applied == reversal[r].applied
<1>1. wanted \in Nat /\ applied \in Nat
  BY WalletAssumption
<1>2. CASE topup[ReversalOf[r]].credited
  <2>1. /\ wallet' = IF wanted > applied THEN Defund(wallet, wanted - applied)
                     ELSE Fund(wallet, applied - wanted)
        /\ ledger' = ledger - (wanted - applied)
    BY <1>2 DEF RecordAirwallexWalletReversal
  <2> HIDE DEF wanted, applied
  <2>2. CASE wanted > applied
    <3>1. wanted - applied \in Nat
      BY <1>1, <2>2
    <3>2. wallet' \in Wallets /\ Solvent(wallet') /\ Net(wallet') = Net(wallet) - (wanted - applied)
      BY <2>1, <2>2, <3>1, DefundNet
    <3> QED BY <2>1, <3>1, <3>2
  <2>3. CASE ~(wanted > applied)
    <3>1. applied - wanted \in Nat
      BY <1>1, <2>3
    <3>2. wallet' \in Wallets /\ Solvent(wallet') /\ Net(wallet') = Net(wallet) + (applied - wanted)
      BY <2>1, <2>3, <3>1, FundNet
    <3> QED BY <1>1, <2>1, <3>1, <3>2
  <2> QED BY <2>2, <2>3
<1>3. CASE ~topup[ReversalOf[r]].credited
  BY <1>3 DEF RecordAirwallexWalletReversal
<1> QED BY <1>2, <1>3

\* Manual credits and debits of administrators.
LEMMA ManualMoney ==
  ASSUME TypeOK, MoneyOK, Manual
  PROVE  wallet' \in Wallets /\ ledger' \in Int /\ MoneyOK'
<1> USE DEF TypeOK, MoneyOK
<1>1. ASSUME NEW a \in Adjustments, NEW x \in AdjustAmounts, CreditManually(a, x)
      PROVE  wallet' \in Wallets /\ ledger' \in Int /\ MoneyOK'
  <2> DEFINE v == [wallet EXCEPT !.exists = TRUE]
  <2>1. x \in Nat /\ wallet' = Fund(v, x) /\ ledger' = ledger + x
    BY <1>1, WalletAssumption DEF CreditManually
  <2>2. v \in Wallets /\ Solvent(v) /\ Net(v) = Net(wallet)
    BY DEF Wallets, Solvent, Net
  <2> HIDE DEF v
  <2>3. wallet' \in Wallets /\ Solvent(wallet') /\ Net(wallet') = Net(wallet) + x
    BY <2>1, <2>2, FundNet
  <2> QED BY <2>1, <2>3
<1>2. ASSUME NEW a \in Adjustments, NEW x \in AdjustAmounts, DebitManually(a, x)
      PROVE  wallet' \in Wallets /\ ledger' \in Int /\ MoneyOK'
  <2>1. x \in Nat /\ wallet' = Defund(wallet, x) /\ ledger' = ledger - x
    BY <1>2, WalletAssumption DEF DebitManually
  <2>2. wallet' \in Wallets /\ Solvent(wallet') /\ Net(wallet') = Net(wallet) - x
    BY <2>1, DefundNet
  <2> QED BY <2>1, <2>2
<1> QED BY <1>1, <1>2 DEF Manual

\* Holds, settlements, releases and direct debits.
LEMMA SpendingMoney ==
  ASSUME TypeOK, MoneyOK, Spending
  PROVE  wallet' \in Wallets /\ ledger' \in Int /\ MoneyOK'
<1> USE DEF TypeOK, MoneyOK
<1>0. /\ wallet.available \in Nat /\ wallet.debt \in Nat
      /\ wallet.reserved \in Nat /\ wallet.spent \in Nat
  BY DEF Wallets
<1>1. ASSUME NEW q \in Requests, NEW h \in HoldAmounts, ReserveAiSpend(q, h)
      PROVE  wallet' \in Wallets /\ ledger' \in Int /\ MoneyOK'
  <2>1. h \in Nat /\ wallet.available - h \in Nat /\ wallet.reserved + h \in Nat
    BY <1>0, <1>1, WalletAssumption DEF ReserveAiSpend
  <2>2. /\ wallet' = [wallet EXCEPT !.available = wallet.available - h,
                                    !.reserved = wallet.reserved + h]
        /\ wallet.debt = 0 /\ ledger' = ledger
    BY <1>1 DEF ReserveAiSpend
  <2>3. wallet' \in Wallets
    BY <2>1, <2>2 DEF Wallets
  <2>4. /\ wallet'.available = wallet.available - h /\ wallet'.reserved = wallet.reserved + h
        /\ wallet'.debt = 0 /\ wallet'.spent = wallet.spent
    BY <2>2 DEF Wallets
  <2> QED BY <1>0, <2>1, <2>2, <2>3, <2>4 DEF Net, Solvent
<1>2. ASSUME NEW q \in Requests,
             \/ MarkAiSpendSubmitting(q) \/ MarkAiSpendSubmitted(q) \/ MarkAiSpendAmbiguous(q)
      PROVE  wallet' \in Wallets /\ ledger' \in Int /\ MoneyOK'
  BY <1>2 DEF MarkAiSpendSubmitting, MarkAiSpendSubmitted, MarkAiSpendAmbiguous, SetStatus
<1>3. ASSUME NEW held \in Nat, NEW charged \in Nat, charged <= held, wallet.reserved >= held,
             wallet' = [Repay(wallet, held - charged) EXCEPT !.reserved = @ - held,
                                                             !.spent = @ + charged],
             ledger' = ledger
      PROVE  wallet' \in Wallets /\ ledger' \in Int /\ MoneyOK'
  <2> DEFINE w == Repay(wallet, held - charged)
  <2>1. held - charged \in Nat
    BY <1>3
  <2>2. /\ w \in Wallets /\ Solvent(w) /\ Net(w) = Net(wallet) + (held - charged)
        /\ w.reserved = wallet.reserved /\ w.spent = wallet.spent
    BY <2>1, RepayNet
  <2> HIDE DEF w
  <2>3. w.reserved - held \in Nat /\ w.spent + charged \in Nat
    BY <1>0, <1>3, <2>2
  <2>4. wallet' = [w EXCEPT !.reserved = w.reserved - held, !.spent = w.spent + charged]
    BY <1>3 DEF w
  <2>5. wallet' \in Wallets
    BY <2>2, <2>3, <2>4 DEF Wallets
  <2>6. /\ wallet'.available = w.available /\ wallet'.debt = w.debt
        /\ wallet'.reserved = w.reserved - held /\ wallet'.spent = w.spent + charged
    BY <2>2, <2>4 DEF Wallets
  <2>7. w.available \in Nat /\ w.debt \in Nat /\ w.reserved \in Nat /\ w.spent \in Nat
    BY <2>2 DEF Wallets
  <2>8. Net(wallet') = Net(w) - held + charged
    BY <2>6, <2>7, <1>3 DEF Net
  <2>9. Net(wallet) \in Int
    BY <1>0 DEF Net
  <2> QED BY <1>3, <2>2, <2>5, <2>6, <2>8, <2>9 DEF Solvent
<1>4. ASSUME NEW q \in Requests, NEW d \in {"BEFORE_SUBMISSION", "DEFINITIVE_REJECTION"},
             ReleaseAiSpend(q, d)
      PROVE  wallet' \in Wallets /\ ledger' \in Int /\ MoneyOK'
  <2>1. hold[q].amount \in Nat
    OBVIOUS
  <2>2. Repay(wallet, hold[q].amount) \in Wallets
    BY <2>1, RepayNet
  <2>3. wallet' = [Repay(wallet, hold[q].amount - 0) EXCEPT !.reserved = @ - hold[q].amount,
                                                            !.spent = @ + 0]
    <3>1. wallet' = [Repay(wallet, hold[q].amount) EXCEPT !.reserved = @ - hold[q].amount]
      BY <1>4 DEF ReleaseAiSpend
    <3>2. hold[q].amount - 0 = hold[q].amount
      BY <2>1
    <3> HIDE DEF TypeOK
    <3>3. Repay(wallet, hold[q].amount).spent + 0 = Repay(wallet, hold[q].amount).spent
      BY <2>2 DEF Wallets
    <3> QED BY <2>2, <3>1, <3>2, <3>3 DEF Wallets
  <2>4. wallet.reserved >= hold[q].amount /\ ledger' = ledger
    BY <1>4 DEF ReleaseAiSpend
  <2> DEFINE held == hold[q].amount
             charged == 0
  <2>5. /\ held \in Nat /\ charged \in Nat /\ charged <= held
        /\ wallet.reserved >= held /\ ledger' = ledger
        /\ wallet' = [Repay(wallet, held - charged) EXCEPT !.reserved = @ - held,
                                                           !.spent = @ + charged]
    BY <2>1, <2>3, <2>4
  <2> HIDE DEF held, charged
  <2> QED BY <1>3, <2>5
<1>5. ASSUME NEW q \in Requests, NEW cost \in Costs, SettleAiSpend(q, cost)
      PROVE  wallet' \in Wallets /\ ledger' \in Int /\ MoneyOK'
  <2>1. /\ hold[q].amount \in Nat /\ Smaller(cost, hold[q].amount) \in Nat
        /\ Smaller(cost, hold[q].amount) <= hold[q].amount
    BY WalletAssumption DEF Smaller
  <2> DEFINE held == hold[q].amount
             charged == Smaller(cost, held)
  <2>2. /\ wallet.reserved >= held /\ ledger' = ledger
        /\ wallet' = [Repay(wallet, held - charged) EXCEPT !.reserved = @ - held,
                                                           !.spent = @ + charged]
    BY <1>5 DEF SettleAiSpend
  <2> HIDE DEF held, charged
  <2>3. held \in Nat /\ charged \in Nat /\ charged <= held
    BY <2>1 DEF held, charged
  <2> QED BY <1>3, <2>2, <2>3
<1>6. ASSUME NEW u \in Usages, NEW cost \in Costs, DebitApiWallet(u, cost)
      PROVE  wallet' \in Wallets /\ ledger' \in Int /\ MoneyOK'
  <2>1. PICK seed \in Nat :
          /\ wallet' = [Owe(Seeded(wallet, seed), cost) EXCEPT !.spent = @ + cost]
          /\ ledger' = ledger
    BY <1>6 DEF DebitApiWallet, Money
  <2> DEFINE v == Seeded(wallet, seed)
             w == Owe(v, cost)
  <2>2. cost \in Nat
    BY WalletAssumption
  <2>3. v \in Wallets /\ Solvent(v) /\ Net(v) = Net(wallet)
    BY SeedNet
  <2>4. w \in Wallets /\ Solvent(w) /\ Net(w) = Net(wallet) - cost
    BY <2>2, <2>3, OweNet
  <2> HIDE DEF v, w
  <2>5. wallet' = [w EXCEPT !.spent = w.spent + cost]
    BY <2>1 DEF v, w
  <2>6. w.available \in Nat /\ w.debt \in Nat /\ w.reserved \in Nat /\ w.spent \in Nat
    BY <2>4 DEF Wallets
  <2>7. /\ wallet' \in Wallets
        /\ wallet'.available = w.available /\ wallet'.debt = w.debt
        /\ wallet'.reserved = w.reserved /\ wallet'.spent = w.spent + cost
    BY <2>2, <2>4, <2>5, <2>6 DEF Wallets
  <2>8. Net(wallet') = Net(w) + cost
    BY <2>2, <2>6, <2>7 DEF Net
  <2>9. Net(wallet) \in Int
    BY <1>0 DEF Net
  <2> QED BY <2>1, <2>2, <2>4, <2>7, <2>8, <2>9 DEF Solvent
<1>7. ASSUME NEW u \in Usages, NEW cost \in Costs, ChargeComposioUsage(u, cost)
      PROVE  wallet' \in Wallets /\ ledger' \in Int /\ MoneyOK'
  <2>1. cost \in Nat /\ wallet.available - cost \in Nat /\ wallet.spent + cost \in Nat
    BY <1>0, <1>7, WalletAssumption DEF ChargeComposioUsage
  <2>2. /\ wallet' = [wallet EXCEPT !.available = wallet.available - cost,
                                    !.spent = wallet.spent + cost]
        /\ wallet.debt = 0 /\ ledger' = ledger
    BY <1>7 DEF ChargeComposioUsage
  <2>3. /\ wallet' \in Wallets
        /\ wallet'.available = wallet.available - cost /\ wallet'.spent = wallet.spent + cost
        /\ wallet'.debt = 0 /\ wallet'.reserved = wallet.reserved
    BY <2>1, <2>2 DEF Wallets
  <2> QED BY <1>0, <2>1, <2>2, <2>3 DEF Net, Solvent
<1> QED BY <1>1, <1>2, <1>4, <1>5, <1>6, <1>7 DEF Spending

-----------------------------------------------------------------------------
(***************************************************************************)
(* The other rows.  Types and reversals need to know that a top-up whose   *)
(* credit is available or reversed was credited, or a repeated report of   *)
(* success could pass it over.                                             *)
(***************************************************************************)
TopupRows == [status : {"none", "SUCCEEDED"} \cup Open \cup Ended, credited : BOOLEAN,
              credit : {"NOT_CREDITED", "AVAILABLE", "REVERSED"}]

CreditMeansCredited ==
  \A t \in Topups : topup[t].credit # "NOT_CREDITED" => topup[t].credited

IInv == TypeOK /\ MoneyOK /\ CreditMeansCredited /\ ReversalsAreApplied

\* What the two status computations write is a row, and a credit stays known.
LEMMA AggregatedRow ==
  ASSUME NEW top \in TopupRows, NEW t \in Topups, NEW revs
  PROVE  /\ Aggregated(top, t, revs) \in TopupRows
         /\ Aggregated(top, t, revs).credited = top.credited
         /\ (top.credit # "NOT_CREDITED" => top.credited) =>
              (Aggregated(top, t, revs).credit # "NOT_CREDITED" => top.credited)
<1>1. {"SUCCEEDED", "REFUNDED", "PENDING_PAYMENT"} \subseteq Open \cup Ended \cup {"SUCCEEDED"}
  BY DEF Open, Ended
<1> QED BY <1>1 DEF Aggregated, TopupRows

\* So does the row applyApiProviderStatus writes.
LEMMA UpdatedRow ==
  ASSUME NEW top \in TopupRows, NEW s \in PaymentStatuses
  PROVE  /\ Updated(top, s) \in TopupRows
         /\ top.credited => Updated(top, s).credited
         /\ (top.credit # "NOT_CREDITED" => top.credited) =>
              (Updated(top, s).credit # "NOT_CREDITED" => Updated(top, s).credited)
<1>1. Effective(top, s) \in {"none", "SUCCEEDED"} \cup Open \cup Ended
  BY StatusAssumption DEF Effective, TopupRows, Ended
<1> QED BY <1>1 DEF Updated, TopupRows

\* The steps of deposits and reversals keep the rows' types.
LEMMA TopupStep ==
  ASSUME TypeOK, CreditMeansCredited, Next
  PROVE  topup' \in [Topups -> TopupRows] /\ CreditMeansCredited'
<1>0. topup \in [Topups -> TopupRows]
  BY DEF TypeOK, TopupRows
<1>1. CASE topup' = topup
  BY <1>0, <1>1 DEF CreditMeansCredited
<1>2. ASSUME NEW t \in Topups, NEW row \in TopupRows, topup' = [topup EXCEPT ![t] = row],
             row.credit # "NOT_CREDITED" => row.credited
      PROVE  topup' \in [Topups -> TopupRows] /\ CreditMeansCredited'
  BY <1>0, <1>2 DEF CreditMeansCredited
<1>3. ASSUME NEW t \in Topups, NEW s \in {"none", "SUCCEEDED"} \cup Open \cup Ended,
             topup' = [topup EXCEPT ![t].status = s]
      PROVE  topup' \in [Topups -> TopupRows] /\ CreditMeansCredited'
  <2> DEFINE row == [topup[t] EXCEPT !.status = s]
  <2>1. row \in TopupRows /\ (row.credit # "NOT_CREDITED" => row.credited)
    BY <1>0 DEF TopupRows, CreditMeansCredited
  <2>2. topup' = [topup EXCEPT ![t] = row]
    BY <1>3
  <2> QED BY <1>2, <2>1, <2>2
<1>4. ASSUME NEW t \in Topups, CreateApiTopup(t) \/ AttachApiProviderPayment(t) \/ FailApiTopup(t)
      PROVE  topup' \in [Topups -> TopupRows] /\ CreditMeansCredited'
  <2>1. {"CREATED", "FAILED", "PENDING_PAYMENT", "REQUIRES_CUSTOMER_ACTION"} \subseteq Open \cup Ended
    BY DEF Open, Ended
  <2> QED BY <1>1, <1>3, <1>4, <2>1
          DEF CreateApiTopup, AttachApiProviderPayment, FailApiTopup
<1>5. ASSUME NEW t \in Topups, NEW s \in PaymentStatuses, ApplyApiProviderStatus(t, s)
      PROVE  topup' \in [Topups -> TopupRows] /\ CreditMeansCredited'
  <2> DEFINE row == Updated(topup[t], s)
  <2>1. row \in TopupRows /\ (row.credit # "NOT_CREDITED" => row.credited)
    BY <1>0, UpdatedRow DEF CreditMeansCredited
  <2>2. CASE topup' = [topup EXCEPT ![t] = row]
    BY <1>2, <2>1, <2>2
  <2>3. CASE CreditTopup(t, s)
    <3> DEFINE agg == Aggregated(row, t, reversal)
    <3>1. topup' = [topup EXCEPT ![t] = agg]
      BY <1>0, <2>3 DEF CreditTopup
    <3>2. agg \in TopupRows /\ (agg.credit # "NOT_CREDITED" => agg.credited)
      BY <2>1, AggregatedRow
    <3> HIDE DEF agg
    <3> QED BY <1>2, <3>1, <3>2
  <2> QED BY <1>5, <2>2, <2>3 DEF ApplyApiProviderStatus, ReleaseDeposit, ReverseTopup, NoteStatus
<1>6. ASSUME NEW r \in Reversals, NEW active \in BOOLEAN, NEW stamp \in 1 .. MaxStamp,
             RecordAirwallexWalletReversal(r, active, stamp)
      PROVE  topup' \in [Topups -> TopupRows] /\ CreditMeansCredited'
  <2> DEFINE t == ReversalOf[r]
  <2>1. t \in Topups
    BY WalletAssumption
  <2>2. PICK revs : topup' = [topup EXCEPT ![t] = Aggregated(topup[t], t, revs)]
    BY <1>6 DEF RecordAirwallexWalletReversal
  <2>3. /\ Aggregated(topup[t], t, revs) \in TopupRows
        /\ Aggregated(topup[t], t, revs).credit # "NOT_CREDITED" =>
             Aggregated(topup[t], t, revs).credited
    BY <1>0, <2>1, AggregatedRow DEF CreditMeansCredited
  <2> HIDE DEF t
  <2> QED BY <1>2, <2>1, <2>2, <2>3
<1>7. ASSUME Spending \/ EnsureWallet \/ Manual
      PROVE  topup' = topup
  BY <1>7 DEF Spending, EnsureWallet, Manual, CreditManually, DebitManually,
       ReserveAiSpend, MarkAiSpendSubmitting, SetStatus,
       MarkAiSpendSubmitted, MarkAiSpendAmbiguous, ReleaseAiSpend, SettleAiSpend,
       DebitApiWallet, ChargeComposioUsage
<1> QED BY <1>1, <1>4, <1>5, <1>6, <1>7 DEF Next, Deposits

\* So does the whole step.
LEMMA TypeStep ==
  ASSUME IInv, Next
  PROVE  TypeOK' /\ MoneyOK'
<1>0. TypeOK /\ MoneyOK /\ CreditMeansCredited
  BY DEF IInv
<1>1. wallet' \in Wallets /\ ledger' \in Int /\ MoneyOK'
  <2>1. CASE EnsureWallet
    BY <1>0, <2>1, SeedNet DEF EnsureWallet, Money, TypeOK, MoneyOK
  <2>2. CASE Deposits
    BY <1>0, <2>2, DepositMoney, ReversalMoney DEF Deposits
  <2>3. CASE Spending
    BY <1>0, <2>3, SpendingMoney
  <2>4. CASE Manual
    BY <1>0, <2>4, ManualMoney
  <2> QED BY <2>1, <2>2, <2>3, <2>4 DEF Next
<1>2. topup' \in [Topups -> TopupRows]
  BY <1>0, TopupStep
<1>3. creating' \in SUBSET Topups
  BY <1>0 DEF Next, Deposits, Spending, Manual, CreditManually, DebitManually,
       EnsureWallet, CreateApiTopup, AttachApiProviderPayment,
       FailApiTopup, ApplyApiProviderStatus, CreditTopup, ReleaseDeposit, ReverseTopup, NoteStatus,
       RecordAirwallexWalletReversal, ReserveAiSpend, MarkAiSpendSubmitting, SetStatus,
       MarkAiSpendSubmitted, MarkAiSpendAmbiguous, ReleaseAiSpend, SettleAiSpend,
       DebitApiWallet, ChargeComposioUsage, TypeOK
<1> DEFINE ReversalRows == [recorded : BOOLEAN, active : BOOLEAN, stamp : 0 .. MaxStamp, applied : Nat]
<1>4. reversal' \in [Reversals -> ReversalRows]
  <2>0. /\ reversal \in [Reversals -> ReversalRows] /\ MaxStamp \in Nat
        /\ \A r \in Reversals : ReversalAmount[r] \in Nat
    BY <1>0, WalletAssumption DEF TypeOK
  <2>1. CASE reversal' = reversal
    BY <2>0, <2>1
  <2>2. ASSUME NEW t \in Topups, reversal' = Reconciled(t)
        PROVE  reversal' \in [Reversals -> ReversalRows]
    BY <2>0, <2>2 DEF Reconciled
  <2>3. ASSUME NEW r \in Reversals, NEW active \in BOOLEAN, NEW stamp \in 1 .. MaxStamp,
               RecordAirwallexWalletReversal(r, active, stamp)
        PROVE  reversal' \in [Reversals -> ReversalRows]
    <3> DEFINE new == [recorded |-> TRUE, active |-> active, stamp |-> stamp,
                       applied |-> IF topup[ReversalOf[r]].credited
                                   THEN (IF active THEN ReversalAmount[r] ELSE 0)
                                   ELSE reversal[r].applied]
    <3>1. new \in ReversalRows
      BY <2>0
    <3>2. reversal' = [reversal EXCEPT ![r] = new]
      BY <2>3 DEF RecordAirwallexWalletReversal
    <3> QED BY <2>0, <3>1, <3>2
  <2> QED BY <2>1, <2>2, <2>3
      DEF Next, Deposits, Spending, Manual, CreditManually, DebitManually,
       EnsureWallet, CreateApiTopup, AttachApiProviderPayment,
       FailApiTopup, ApplyApiProviderStatus, CreditTopup, ReleaseDeposit, ReverseTopup, NoteStatus,
       ReserveAiSpend, MarkAiSpendSubmitting, SetStatus, MarkAiSpendSubmitted,
       MarkAiSpendAmbiguous, ReleaseAiSpend, SettleAiSpend, DebitApiWallet, ChargeComposioUsage
<1> DEFINE HoldRows == [status : {"none", "SETTLED", "RELEASED"} \cup Unresolved, amount : Nat]
<1>5. hold' \in [Requests -> HoldRows]
  <2>0. hold \in [Requests -> HoldRows] /\ HoldAmounts \subseteq Nat
    BY <1>0, WalletAssumption DEF TypeOK
  <2>1. CASE hold' = hold
    BY <2>0, <2>1
  <2>2. ASSUME NEW q \in Requests,
               NEW s \in {"SUBMITTING", "SUBMITTED", "AMBIGUOUS", "SETTLED", "RELEASED"},
               hold' = [hold EXCEPT ![q].status = s]
        PROVE  hold' \in [Requests -> HoldRows]
    BY <2>0, <2>2 DEF Unresolved
  <2>3. ASSUME NEW q \in Requests, NEW h \in HoldAmounts,
               hold' = [hold EXCEPT ![q] = [status |-> "RESERVED", amount |-> h]]
        PROVE  hold' \in [Requests -> HoldRows]
    BY <2>0, <2>3 DEF Unresolved
  <2>4. CASE Spending
    BY <2>1, <2>2, <2>3, <2>4
       DEF Spending, ReserveAiSpend, MarkAiSpendSubmitting, SetStatus, MarkAiSpendSubmitted,
           MarkAiSpendAmbiguous, ReleaseAiSpend, SettleAiSpend, DebitApiWallet, ChargeComposioUsage
  <2>5. CASE Deposits \/ EnsureWallet \/ Manual
    BY <2>1, <2>5 DEF Deposits, EnsureWallet, Manual, CreditManually, DebitManually,
       CreateApiTopup, AttachApiProviderPayment,
       FailApiTopup, ApplyApiProviderStatus, CreditTopup, ReleaseDeposit, ReverseTopup, NoteStatus,
       RecordAirwallexWalletReversal
  <2> QED BY <2>4, <2>5 DEF Next
<1>6. billed' \in SUBSET Usages
  BY <1>0 DEF Next, Deposits, Spending, Manual, CreditManually, DebitManually,
       EnsureWallet, CreateApiTopup, AttachApiProviderPayment,
       FailApiTopup, ApplyApiProviderStatus, CreditTopup, ReleaseDeposit, ReverseTopup, NoteStatus,
       RecordAirwallexWalletReversal, ReserveAiSpend, MarkAiSpendSubmitting, SetStatus,
       MarkAiSpendSubmitted, MarkAiSpendAmbiguous, ReleaseAiSpend, SettleAiSpend,
       DebitApiWallet, ChargeComposioUsage, TypeOK
<1> DEFINE Keys == {"topup"} \X Topups \cup {"release", "settle"} \X Requests
                   \cup {"manual"} \X Adjustments
<1>7. funded' \in SUBSET Keys
  <2>0. funded \in SUBSET Keys
    BY <1>0 DEF TypeOK
  <2>1. /\ \A t \in Topups : <<"topup", t>> \in Keys
        /\ \A a \in Adjustments : <<"manual", a>> \in Keys
        /\ \A q \in Requests : <<"release", q>> \in Keys /\ <<"settle", q>> \in Keys
    OBVIOUS
  <2>2. CASE funded' = funded
    BY <2>0, <2>2
  <2>3. ASSUME NEW k \in Keys, funded' = funded \cup {k}
        PROVE  funded' \in SUBSET Keys
    BY <2>0, <2>3
  <2>4. CASE EnsureWallet \/ Deposits
    <3>1. funded' = funded \/ \E t \in Topups : funded' = funded \cup {<<"topup", t>>}
      BY <2>4 DEF Deposits, EnsureWallet, CreateApiTopup, AttachApiProviderPayment, FailApiTopup,
         ApplyApiProviderStatus, CreditTopup, ReleaseDeposit, ReverseTopup, NoteStatus,
         RecordAirwallexWalletReversal, Announce
    <3> HIDE DEF Keys
    <3> QED BY <2>1, <2>2, <2>3, <3>1
  <2>5. CASE Spending
    <3>1. \/ funded' = funded
          \/ \E q \in Requests : \/ funded' = funded \cup {<<"release", q>>}
                                 \/ funded' = funded \cup {<<"settle", q>>}
      BY <2>5 DEF Spending, ReserveAiSpend, MarkAiSpendSubmitting, SetStatus,
         MarkAiSpendSubmitted, MarkAiSpendAmbiguous, ReleaseAiSpend, SettleAiSpend,
         DebitApiWallet, ChargeComposioUsage, Announce
    <3> HIDE DEF Keys
    <3> QED BY <2>1, <2>2, <2>3, <3>1
  <2>6. CASE Manual
    <3>1. funded' = funded \/ \E a \in Adjustments : funded' = funded \cup {<<"manual", a>>}
      BY <2>6 DEF Manual, CreditManually, DebitManually, Announce
    <3> HIDE DEF Keys
    <3> QED BY <2>1, <2>2, <2>3, <3>1
  <2> QED BY <2>4, <2>5, <2>6 DEF Next
<1>8. adjusted' \in [Adjustments -> Int]
  <2>0. adjusted \in [Adjustments -> Int] /\ AdjustAmounts \subseteq Int
    BY <1>0, WalletAssumption DEF TypeOK
  <2>1. CASE Manual
    <3>1. PICK a \in Adjustments, x \in AdjustAmounts :
            adjusted' = [adjusted EXCEPT ![a] = x] \/ adjusted' = [adjusted EXCEPT ![a] = -x]
      BY <2>1 DEF Manual, CreditManually, DebitManually
    <3>2. x \in Int /\ -x \in Int
      BY <2>0
    <3> QED BY <2>0, <3>1, <3>2
  <2>2. CASE EnsureWallet \/ Deposits
    BY <2>0, <2>2 DEF Deposits, EnsureWallet, CreateApiTopup, AttachApiProviderPayment,
       FailApiTopup, ApplyApiProviderStatus, CreditTopup, ReleaseDeposit, ReverseTopup, NoteStatus,
       RecordAirwallexWalletReversal
  <2>3. CASE Spending
    BY <2>0, <2>3 DEF Spending, ReserveAiSpend, MarkAiSpendSubmitting, SetStatus,
       MarkAiSpendSubmitted, MarkAiSpendAmbiguous, ReleaseAiSpend, SettleAiSpend,
       DebitApiWallet, ChargeComposioUsage
  <2> QED BY <2>1, <2>2, <2>3 DEF Next
<1> QED BY <1>1, <1>2, <1>3, <1>4, <1>5, <1>6, <1>7, <1>8 DEF TypeOK, TopupRows

\* A step leaves the reversals' accounts right.
LEMMA ReversalStep ==
  ASSUME IInv, Next
  PROVE  ReversalsAreApplied'
<1>0. /\ TypeOK /\ CreditMeansCredited /\ ReversalsAreApplied
      /\ topup \in [Topups -> TopupRows] /\ ReversalOf \in [Reversals -> Topups]
  BY WalletAssumption DEF IInv, TypeOK, TopupRows
<1> SUFFICES ASSUME NEW r \in Reversals
             PROVE  reversal'[r].applied =
                      IF topup'[ReversalOf[r]].credited /\ reversal'[r].active
                      THEN ReversalAmount[r] ELSE 0
  BY DEF ReversalsAreApplied
<1>1. CASE /\ reversal' = reversal
           /\ \A t \in Topups : topup'[t].credited = topup[t].credited
  BY <1>0, <1>1 DEF ReversalsAreApplied
<1>2. ASSUME NEW t \in Topups, NEW s \in PaymentStatuses, CreditTopup(t, s)
      PROVE  reversal'[r].applied = IF topup'[ReversalOf[r]].credited /\ reversal'[r].active
                                    THEN ReversalAmount[r] ELSE 0
  <2>1. reversal' = Reconciled(t)
    BY <1>2 DEF CreditTopup
  <2> DEFINE row == Updated(topup[t], s)
  <2>2. row \in TopupRows /\ row.credited
    BY <1>0, <1>2, UpdatedRow DEF CreditTopup, NewlyCredited, Updated
  <2>3. topup' = [topup EXCEPT ![t] = Aggregated(row, t, reversal)]
    BY <1>0, <1>2 DEF CreditTopup
  <2>4. Aggregated(row, t, reversal).credited
    BY <2>2, AggregatedRow
  <2> HIDE DEF row
  <2>5. CASE ReversalOf[r] = t
    <3>1. topup'[t].credited
      BY <1>0, <2>3, <2>4
    <3> QED BY <1>0, <2>1, <2>5, <3>1 DEF Reconciled, ReversalsAreApplied, TypeOK
  <2>6. CASE ReversalOf[r] # t
    <3>1. topup'[ReversalOf[r]] = topup[ReversalOf[r]]
      BY <1>0, <2>3, <2>6
    <3> QED BY <1>0, <2>1, <2>6, <3>1 DEF Reconciled, ReversalsAreApplied
  <2> QED BY <2>5, <2>6
<1>3. ASSUME NEW t \in Topups, NEW s \in PaymentStatuses, ApplyApiProviderStatus(t, s),
             ~CreditTopup(t, s)
      PROVE  reversal' = reversal /\ \A x \in Topups : topup'[x].credited = topup[x].credited
  <2>1. reversal' = reversal /\ topup' = [topup EXCEPT ![t] = Updated(topup[t], s)]
    BY <1>3 DEF ApplyApiProviderStatus, ReleaseDeposit, ReverseTopup, NoteStatus
  <2>2. Effective(topup[t], s) = "SUCCEEDED" => topup[t].credited
    <3>1. CASE NoteStatus(t, s)
      BY <1>0, <3>1 DEF NoteStatus, NewlyCredited, CreditMeansCredited
    <3>2. CASE ReleaseDeposit(t, s)
      BY <3>2 DEF ReleaseDeposit, NewlyReleased, Ended
    <3>3. CASE ReverseTopup(t, s)
      BY <1>0, <3>3 DEF ReverseTopup, NewlyReversed, CreditMeansCredited
    <3> QED BY <1>3, <3>1, <3>2, <3>3 DEF ApplyApiProviderStatus
  <2>3. topup[t].credited \in BOOLEAN
    BY <1>0 DEF TopupRows
  <2>4. Updated(topup[t], s).credited = topup[t].credited
    BY <2>2, <2>3 DEF Updated
  <2> QED BY <1>0, <2>1, <2>4
<1>4. ASSUME NEW x \in Reversals, NEW active \in BOOLEAN, NEW stamp \in 1 .. MaxStamp,
             RecordAirwallexWalletReversal(x, active, stamp)
      PROVE  reversal'[r].applied = IF topup'[ReversalOf[r]].credited /\ reversal'[r].active
                                    THEN ReversalAmount[r] ELSE 0
  <2> DEFINE t == ReversalOf[x]
             new == [recorded |-> TRUE, active |-> active, stamp |-> stamp,
                     applied |-> IF topup[t].credited THEN (IF active THEN ReversalAmount[x] ELSE 0)
                                 ELSE reversal[x].applied]
  <2>1. reversal' = [reversal EXCEPT ![x] = new]
    BY <1>4 DEF RecordAirwallexWalletReversal
  <2>2. PICK revs : topup' = [topup EXCEPT ![t] = Aggregated(topup[t], t, revs)]
    BY <1>4 DEF RecordAirwallexWalletReversal
  <2>3. t \in Topups /\ topup[t] \in TopupRows
    BY <1>0
  <2>4. Aggregated(topup[t], t, revs).credited = topup[t].credited
    BY <2>3, AggregatedRow
  <2>5. topup'[ReversalOf[r]].credited = topup[ReversalOf[r]].credited
    BY <1>0, <2>2, <2>3, <2>4
  <2>6. CASE r = x
    <3>1. reversal'[r] = new
      BY <1>0, <2>1, <2>6 DEF TypeOK
    <3>2. reversal[r].applied = IF topup[ReversalOf[r]].credited /\ reversal[r].active
                                THEN ReversalAmount[r] ELSE 0
      BY <1>0 DEF ReversalsAreApplied
    <3> QED BY <2>5, <2>6, <3>1, <3>2
  <2>7. CASE r # x
    <3>1. reversal'[r] = reversal[r]
      BY <1>0, <2>1, <2>7 DEF TypeOK
    <3> QED BY <1>0, <2>5, <3>1 DEF ReversalsAreApplied
  <2> QED BY <2>6, <2>7
<1>5. ASSUME NEW t \in Topups, CreateApiTopup(t) \/ AttachApiProviderPayment(t) \/ FailApiTopup(t)
      PROVE  reversal' = reversal /\ \A x \in Topups : topup'[x].credited = topup[x].credited
  <2>1. CASE topup' = topup
    BY <1>5, <2>1 DEF CreateApiTopup, AttachApiProviderPayment, FailApiTopup
  <2>2. CASE topup' # topup
    <3>1. PICK s : topup' = [topup EXCEPT ![t].status = s]
      BY <1>5, <2>2 DEF CreateApiTopup, AttachApiProviderPayment, FailApiTopup
    <3>2. [topup[t] EXCEPT !.status = s].credited = topup[t].credited
      BY <1>0 DEF TopupRows
    <3>3. \A x \in Topups : topup'[x].credited = topup[x].credited
      BY <1>0, <3>1, <3>2
    <3> QED BY <1>5, <3>3 DEF CreateApiTopup, AttachApiProviderPayment, FailApiTopup
  <2> QED BY <2>1, <2>2
<1>6. ASSUME Spending \/ EnsureWallet \/ Manual
      PROVE  topup' = topup /\ reversal' = reversal
  BY <1>6 DEF Spending, EnsureWallet, Manual, CreditManually, DebitManually,
       ReserveAiSpend, MarkAiSpendSubmitting, SetStatus,
       MarkAiSpendSubmitted, MarkAiSpendAmbiguous, ReleaseAiSpend, SettleAiSpend,
       DebitApiWallet, ChargeComposioUsage
<1> QED BY <1>1, <1>2, <1>3, <1>4, <1>5, <1>6 DEF Next, Deposits

\* The inductive invariant.
THEOREM Invariant == Spec => []IInv
<1>1. Init => IInv
  BY WalletAssumption DEF Init, IInv, TypeOK, Wallets, MoneyOK, Net, Solvent, CreditMeansCredited,
     ReversalsAreApplied
<1>2. IInv /\ [Next]_vars => IInv'
  <2> SUFFICES ASSUME IInv, [Next]_vars PROVE IInv'
    OBVIOUS
  <2>1. CASE Next
    BY <2>1, TypeStep, TopupStep, ReversalStep DEF IInv
  <2>2. CASE UNCHANGED vars
    BY <2>2 DEF vars, IInv, TypeOK, MoneyOK, Net, Solvent, CreditMeansCredited, ReversalsAreApplied
  <2> QED BY <2>1, <2>2
<1> QED BY <1>1, <1>2, PTL DEF Spec

-----------------------------------------------------------------------------
\* The wallet's rows keep their types, every amount of it nonnegative.
THEOREM TypeCorrect == Spec => []TypeOK
<1>1. IInv => TypeOK
  BY DEF IInv
<1> QED BY <1>1, Invariant, PTL

\* No money appears or disappears in deposits, reversals, holds and debits.
THEOREM MoneyIsConserved == Spec => []Conservation
<1>1. IInv => Conservation
  <2> SUFFICES ASSUME IInv PROVE Conservation
    OBVIOUS
  <2>1. wallet \in Wallets /\ ledger \in Int /\ Net(wallet) = ledger
    BY DEF IInv, TypeOK, MoneyOK
  <2>2. /\ wallet.available \in Nat /\ wallet.reserved \in Nat
        /\ wallet.spent \in Nat /\ wallet.debt \in Nat
    BY <2>1 DEF Wallets
  <2> QED BY <2>1, <2>2 DEF Net, Conservation
<1> QED BY <1>1, Invariant, PTL

\* A workspace that owes money has no balance.
THEOREM NoBalanceBesideDebt == Spec => []DebtExcludesBalance
<1>1. IInv => DebtExcludesBalance
  BY DEF IInv, MoneyOK, Solvent, DebtExcludesBalance
<1> QED BY <1>1, Invariant, PTL

\* A reversal in force has been taken exactly once from a credited top-up,
\* whichever of the two was reported first.
THEOREM ReversalsAreTakenOnce == Spec => []ReversalsAreApplied
<1>1. IInv => ReversalsAreApplied
  BY DEF IInv
<1> QED BY <1>1, Invariant, PTL

\* No step of the wallet moves a hold that is settled or released.
LEMMA ResolvedStep ==
  ASSUME TypeOK, Next, NEW q \in Requests, hold[q].status \in {"SETTLED", "RELEASED"}
  PROVE  hold'[q] = hold[q]
<1>1. CASE hold' = hold
  BY <1>1
<1>2. ASSUME NEW p \in Requests, NEW new, hold' = [hold EXCEPT ![p] = new],
             hold[p].status \notin {"SETTLED", "RELEASED"}
      PROVE  hold'[q] = hold[q]
  BY <1>2 DEF TypeOK
<1>3. ASSUME NEW p \in Requests,
             \/ \E h \in HoldAmounts : ReserveAiSpend(p, h)
             \/ MarkAiSpendSubmitting(p) \/ MarkAiSpendSubmitted(p) \/ MarkAiSpendAmbiguous(p)
             \/ \E d \in {"BEFORE_SUBMISSION", "DEFINITIVE_REJECTION"} : ReleaseAiSpend(p, d)
             \/ \E cost \in Costs : SettleAiSpend(p, cost)
      PROVE  /\ hold[p].status \notin {"SETTLED", "RELEASED"}
             /\ \E new : hold' = [hold EXCEPT ![p] = new]
  <2>1. hold[p].status \notin {"SETTLED", "RELEASED"}
    BY <1>3 DEF ReserveAiSpend, MarkAiSpendSubmitting, MarkAiSpendSubmitted, MarkAiSpendAmbiguous,
         SetStatus, ReleaseAiSpend, Releasable, SettleAiSpend
  <2>2. \/ \E h : hold' = [hold EXCEPT ![p] = [status |-> "RESERVED", amount |-> h]]
        \/ \E s : hold' = [hold EXCEPT ![p].status = s]
    BY <1>3 DEF ReserveAiSpend, MarkAiSpendSubmitting, MarkAiSpendSubmitted, MarkAiSpendAmbiguous,
         SetStatus, ReleaseAiSpend, SettleAiSpend
  <2> QED BY <2>1, <2>2
<1>4. ASSUME NEW u \in Usages, NEW cost \in Costs,
             DebitApiWallet(u, cost) \/ ChargeComposioUsage(u, cost)
      PROVE  hold' = hold
  BY <1>4 DEF DebitApiWallet, ChargeComposioUsage
<1>5. CASE Deposits \/ EnsureWallet \/ Manual
  BY <1>1, <1>5 DEF Deposits, EnsureWallet, Manual, CreditManually, DebitManually,
       CreateApiTopup, AttachApiProviderPayment, FailApiTopup,
     ApplyApiProviderStatus, CreditTopup, ReleaseDeposit, ReverseTopup, NoteStatus,
     RecordAirwallexWalletReversal
<1> QED BY <1>1, <1>2, <1>3, <1>4, <1>5 DEF Next, Spending

\* Settled and released holds are final.
THEOREM ResolvedForGood == Spec => ResolvedIsFinal
<1> DEFINE Final == \A q \in Requests :
                      hold[q].status \in {"SETTLED", "RELEASED"} => hold'[q] = hold[q]
<1>1. TypeOK /\ [Next]_vars => [Final]_vars
  BY ResolvedStep
<1> QED BY <1>1, TypeCorrect, PTL DEF Spec, ResolvedIsFinal

-----------------------------------------------------------------------------
(***************************************************************************)
(* The reserve and the holds.  Every step gives at most one hold another   *)
(* row, and moves the reserve by what that hold contributes before and     *)
(* after.                                                                  *)
(***************************************************************************)
Pending == {q \in Requests : hold[q].status \in Unresolved}

HoldAmount == [q \in Requests |-> hold[q].amount]

Reserves(row) == IF row.status \in Unresolved THEN row.amount ELSE 0

\* A wallet that keeps its reserve through money that comes in or goes out.
LEMMA SameReserve ==
  ASSUME NEW w \in Wallets, NEW x \in Nat
  PROVE  /\ Seeded(w, x).reserved = w.reserved /\ Unpend(w, x).reserved = w.reserved
         /\ Repay(w, x).reserved = w.reserved /\ Owe(w, x).reserved = w.reserved
         /\ Fund(w, x).reserved = w.reserved /\ Defund(w, x).reserved = w.reserved
BY DEF Seeded, Unpend, Repay, Owe, Fund, Defund, Wallets

\* One hold changes its row, and the reserve follows it.
LEMMA HoldChange ==
  ASSUME TypeOK, TypeOK', HoldsMatch, NEW q \in Requests, NEW row,
         hold' = [hold EXCEPT ![q] = row],
         wallet'.reserved = wallet.reserved - Reserves(hold[q]) + Reserves(row)
  PROVE  HoldsMatch'
<1>1. /\ IsFiniteSet(Pending) /\ IsFiniteSet(Pending')
      /\ \A p \in Requests : HoldAmount[p] \in Int /\ HoldAmount'[p] \in Int
      /\ \A p \in Requests \ {q} : hold'[p] = hold[p]
      /\ hold'[q] = row /\ row.amount \in Int /\ hold[q].amount \in Int
  BY WalletFinite, FS_Subset DEF TypeOK, Pending, HoldAmount
<1>2. Pending \ {q} = Pending' \ {q}
  BY <1>1 DEF Pending
<1>3. \A p \in Pending \ {q} : HoldAmount[p] = HoldAmount'[p]
  BY <1>1 DEF Pending, HoldAmount
<1>4. /\ \A p \in Pending : HoldAmount[p] \in Int
      /\ \A p \in Pending' : HoldAmount'[p] \in Int
  BY <1>1 DEF Pending
<1>5. SumFunctionOnSet(HoldAmount', Pending')
        = SumFunctionOnSet(HoldAmount, Pending) - (IF q \in Pending THEN HoldAmount[q] ELSE 0)
                                                + (IF q \in Pending' THEN HoldAmount'[q] ELSE 0)
  BY <1>1, <1>2, <1>3, <1>4, SumChange
<1>6. /\ (IF q \in Pending THEN HoldAmount[q] ELSE 0) = Reserves(hold[q])
      /\ (IF q \in Pending' THEN HoldAmount'[q] ELSE 0) = Reserves(row)
  BY <1>1 DEF Pending, HoldAmount, Reserves
<1>7. /\ wallet.reserved = SumFunctionOnSet(HoldAmount, Pending)
      /\ HoldsMatch' <=> wallet'.reserved = SumFunctionOnSet(HoldAmount', Pending')
  BY DEF HoldsMatch, HoldAmount, Pending
<1> QED BY <1>5, <1>6, <1>7

\* No hold and no reserve moves.
LEMMA HoldsKept ==
  ASSUME HoldsMatch, hold' = hold, wallet'.reserved = wallet.reserved
  PROVE  HoldsMatch'
BY DEF HoldsMatch

\* Deposits, reversals and manual adjustments leave reserve and holds alone.
LEMMA DepositsKeepHolds ==
  ASSUME TypeOK, HoldsMatch, EnsureWallet \/ Deposits \/ Manual
  PROVE  HoldsMatch'
<1>0. wallet \in Wallets
  BY DEF TypeOK
<1>1. hold' = hold
  BY DEF Deposits, EnsureWallet, Manual, CreditManually, DebitManually,
       CreateApiTopup, AttachApiProviderPayment, FailApiTopup,
     ApplyApiProviderStatus, CreditTopup, ReleaseDeposit, ReverseTopup, NoteStatus,
     RecordAirwallexWalletReversal
<1>2. ASSUME NEW t \in Topups, NEW seed \in Nat, NEW due \in Nat,
             \/ wallet' = wallet \/ wallet' = Seeded(wallet, seed)
             \/ wallet' = [wallet EXCEPT !.payment = @ + Amount[t]]
             \/ wallet' = Unpend(Seeded(wallet, seed), Amount[t])
             \/ wallet' = Defund(Fund(Unpend(Seeded(wallet, seed), Amount[t]), Amount[t]), due)
             \/ wallet' = Defund(wallet, Amount[t])
      PROVE  wallet'.reserved = wallet.reserved
  <2>1. Amount[t] \in Nat
    BY WalletAssumption
  <2> DEFINE v == Seeded(wallet, seed)
             w == Unpend(v, Amount[t])
             u == Fund(w, Amount[t])
  <2>2. /\ v \in Wallets /\ w \in Wallets
        /\ v.reserved = wallet.reserved /\ w.reserved = wallet.reserved
    <3>1. v \in Wallets /\ v.reserved = wallet.reserved
      BY <1>0, SeedNet, SameReserve
    <3> HIDE DEF v
    <3> QED BY <2>1, <3>1, SeedNet, SameReserve
  <2>3. u \in Wallets /\ u.reserved = wallet.reserved
    BY <2>1, <2>2, FundNet, SameReserve
  <2>4. Defund(u, due).reserved = wallet.reserved
    BY <2>3, SameReserve
  <2>5. Defund(wallet, Amount[t]).reserved = wallet.reserved
    BY <1>0, <2>1, SameReserve
  <2>6. [wallet EXCEPT !.payment = @ + Amount[t]].reserved = wallet.reserved
    BY <1>0 DEF Wallets
  <2> HIDE DEF v, w, u
  <2> QED BY <1>2, <2>2, <2>3, <2>4, <2>5, <2>6 DEF v, w, u
<1>3. ASSUME NEW t \in Topups,
             \/ CreateApiTopup(t) \/ AttachApiProviderPayment(t) \/ FailApiTopup(t)
             \/ \E s \in PaymentStatuses : ApplyApiProviderStatus(t, s)
      PROVE  wallet'.reserved = wallet.reserved
  <2>1. Money \subseteq Nat /\ 0 \in Nat
    BY WalletAssumption DEF Money
  <2>2. \E seed, due \in Nat :
             \/ wallet' = wallet \/ wallet' = Seeded(wallet, seed)
             \/ wallet' = [wallet EXCEPT !.payment = @ + Amount[t]]
             \/ wallet' = Unpend(Seeded(wallet, seed), Amount[t])
             \/ wallet' = Defund(Fund(Unpend(Seeded(wallet, seed), Amount[t]), Amount[t]), due)
             \/ wallet' = Defund(wallet, Amount[t])
    BY <1>3, <2>1
       DEF CreateApiTopup, AttachApiProviderPayment, FailApiTopup, ApplyApiProviderStatus,
           CreditTopup, ReleaseDeposit, ReverseTopup, NoteStatus
  <2> QED BY <1>2, <2>2
<1>4. ASSUME NEW r \in Reversals, NEW active \in BOOLEAN, NEW stamp \in 1 .. MaxStamp,
             RecordAirwallexWalletReversal(r, active, stamp)
      PROVE  wallet'.reserved = wallet.reserved
  <2> DEFINE wanted == IF active THEN ReversalAmount[r] ELSE 0
             applied == reversal[r].applied
  <2>1. wanted \in Nat /\ applied \in Nat
    BY WalletAssumption DEF TypeOK
  <2>2. \/ wallet' = wallet
        \/ wanted > applied /\ wallet' = Defund(wallet, wanted - applied)
        \/ ~(wanted > applied) /\ wallet' = Fund(wallet, applied - wanted)
    BY <1>4 DEF RecordAirwallexWalletReversal
  <2> HIDE DEF wanted, applied
  <2>3. CASE wanted > applied
    <3>1. wanted - applied \in Nat
      BY <2>1, <2>3
    <3> QED BY <1>0, <2>2, <2>3, <3>1, SameReserve
  <2>4. CASE ~(wanted > applied)
    <3>1. applied - wanted \in Nat
      BY <2>1, <2>4
    <3> QED BY <1>0, <2>2, <2>4, <3>1, SameReserve
  <2> QED BY <2>3, <2>4
<1>5. CASE Manual
  <2>1. PICK a \in Adjustments, x \in AdjustAmounts : CreditManually(a, x) \/ DebitManually(a, x)
    BY <1>5 DEF Manual
  <2>2. x \in Nat
    BY WalletAssumption
  <2>3. /\ [wallet EXCEPT !.exists = TRUE] \in Wallets
        /\ [wallet EXCEPT !.exists = TRUE].reserved = wallet.reserved
    BY <1>0 DEF Wallets
  <2> QED BY <1>0, <1>1, <2>1, <2>2, <2>3, SameReserve, HoldsKept DEF CreditManually, DebitManually
<1>6. CASE EnsureWallet
  <2>1. PICK seed \in Nat : wallet' = Seeded(wallet, seed)
    BY <1>6, WalletAssumption DEF EnsureWallet, Money
  <2> QED BY <1>0, <1>1, <2>1, SameReserve, HoldsKept
<1> QED BY <1>1, <1>3, <1>4, <1>5, <1>6, HoldsKept DEF Deposits

\* Holds are placed, marked, settled and released with the reserve; direct debits
\* touch neither.
LEMMA SpendingKeepsHolds ==
  ASSUME TypeOK, TypeOK', HoldsMatch, Spending
  PROVE  HoldsMatch'
<1>0. /\ wallet \in Wallets /\ wallet.reserved \in Nat
      /\ \A q \in Requests : hold[q].amount \in Nat
      /\ \A q \in Requests : hold[q] = [status |-> hold[q].status, amount |-> hold[q].amount]
  BY DEF TypeOK, Wallets
<1>1. ASSUME NEW q \in Requests, NEW h \in HoldAmounts, ReserveAiSpend(q, h)
      PROVE  HoldsMatch'
  <2> DEFINE row == [status |-> "RESERVED", amount |-> h]
  <2>1. /\ h \in Nat /\ hold' = [hold EXCEPT ![q] = row] /\ hold[q].status = "none"
        /\ wallet'.reserved = wallet.reserved + h
    BY <1>0, <1>1, WalletAssumption DEF ReserveAiSpend, Wallets
  <2>2. Reserves(hold[q]) = 0 /\ Reserves(row) = h
    BY <2>1 DEF Reserves, Unresolved
  <2> HIDE DEF row
  <2>3. wallet'.reserved = wallet.reserved - Reserves(hold[q]) + Reserves(row)
    BY <1>0, <2>1, <2>2
  <2> QED BY <2>1, <2>3, HoldChange
<1>2. ASSUME NEW q \in Requests,
             \/ MarkAiSpendSubmitting(q) \/ MarkAiSpendSubmitted(q) \/ MarkAiSpendAmbiguous(q)
      PROVE  HoldsMatch'
  <2>1. PICK s \in Unresolved : /\ hold' = [hold EXCEPT ![q].status = s]
                                /\ hold[q].status \in Unresolved /\ wallet' = wallet
    BY <1>2 DEF MarkAiSpendSubmitting, MarkAiSpendSubmitted, MarkAiSpendAmbiguous, SetStatus,
       Unresolved
  <2> DEFINE row == [hold[q] EXCEPT !.status = s]
  <2>2. hold' = [hold EXCEPT ![q] = row] /\ row.status = s /\ row.amount = hold[q].amount
    BY <1>0, <2>1
  <2>3. Reserves(hold[q]) = hold[q].amount /\ Reserves(row) = hold[q].amount
    BY <2>1, <2>2 DEF Reserves
  <2> HIDE DEF row
  <2>4. wallet'.reserved = wallet.reserved - Reserves(hold[q]) + Reserves(row)
    BY <1>0, <2>1, <2>3
  <2> QED BY <2>2, <2>4, HoldChange
<1>3. ASSUME NEW q \in Requests, NEW s \in {"RELEASED", "SETTLED"}, hold[q].status \in Unresolved,
             hold' = [hold EXCEPT ![q].status = s],
             wallet'.reserved = wallet.reserved - hold[q].amount
      PROVE  HoldsMatch'
  <2> DEFINE row == [hold[q] EXCEPT !.status = s]
  <2>1. hold' = [hold EXCEPT ![q] = row] /\ row.status = s
    BY <1>0, <1>3
  <2>2. Reserves(hold[q]) = hold[q].amount /\ Reserves(row) = 0
    BY <1>3, <2>1 DEF Reserves, Unresolved
  <2> HIDE DEF row
  <2>3. wallet'.reserved = wallet.reserved - Reserves(hold[q]) + Reserves(row)
    BY <1>0, <1>3, <2>2
  <2> QED BY <2>1, <2>3, HoldChange
<1>4. ASSUME NEW w \in Wallets, NEW x \in Nat, NEW y, w.reserved = wallet.reserved,
             wallet' = [w EXCEPT !.reserved = @ - x] \/ wallet' = [w EXCEPT !.reserved = @ - x, !.spent = y]
      PROVE  wallet'.reserved = wallet.reserved - x
  BY <1>4 DEF Wallets
<1>5. ASSUME NEW q \in Requests, NEW d \in {"BEFORE_SUBMISSION", "DEFINITIVE_REJECTION"},
             ReleaseAiSpend(q, d)
      PROVE  HoldsMatch'
  <2> DEFINE w == Repay(wallet, hold[q].amount)
  <2>1. w \in Wallets /\ w.reserved = wallet.reserved
    BY <1>0, RepayNet
  <2>2. /\ wallet' = [w EXCEPT !.reserved = @ - hold[q].amount]
        /\ hold' = [hold EXCEPT ![q].status = "RELEASED"] /\ hold[q].status \in Unresolved
    BY <1>5 DEF ReleaseAiSpend, Releasable, Unresolved
  <2> HIDE DEF w
  <2>3. wallet'.reserved = wallet.reserved - hold[q].amount
    BY <1>0, <1>4, <2>1, <2>2
  <2> QED BY <1>3, <2>2, <2>3
<1>6. ASSUME NEW q \in Requests, NEW cost \in Costs, SettleAiSpend(q, cost)
      PROVE  HoldsMatch'
  <2> DEFINE charged == Smaller(cost, hold[q].amount)
             w == Repay(wallet, hold[q].amount - charged)
  <2>1. hold[q].amount - charged \in Nat
    BY <1>0, WalletAssumption DEF Smaller
  <2>2. /\ wallet' = [w EXCEPT !.reserved = @ - hold[q].amount, !.spent = @ + charged]
        /\ hold' = [hold EXCEPT ![q].status = "SETTLED"] /\ hold[q].status \in Unresolved
    BY <1>6 DEF SettleAiSpend, Unresolved
  <2> HIDE DEF charged
  <2>3. w \in Wallets /\ w.reserved = wallet.reserved
    BY <1>0, <2>1, RepayNet
  <2> HIDE DEF w
  <2>4. wallet'.reserved = wallet.reserved - hold[q].amount
    BY <1>0, <1>4, <2>2, <2>3
  <2> QED BY <1>3, <2>2, <2>4
<1>7. ASSUME NEW u \in Usages, NEW cost \in Costs, DebitApiWallet(u, cost)
      PROVE  HoldsMatch'
  <2>1. PICK seed \in Nat :
          wallet' = [Owe(Seeded(wallet, seed), cost) EXCEPT !.spent = @ + cost] /\ hold' = hold
    BY <1>7, WalletAssumption DEF DebitApiWallet, Money
  <2>2. cost \in Nat
    BY WalletAssumption
  <2> DEFINE v == Seeded(wallet, seed)
             w == Owe(v, cost)
  <2>3. v \in Wallets /\ v.reserved = wallet.reserved
    BY <1>0, SeedNet, SameReserve
  <2>4. wallet' = [w EXCEPT !.spent = @ + cost]
    BY <2>1
  <2> HIDE DEF v
  <2>5. w \in Wallets /\ w.reserved = wallet.reserved
    BY <2>2, <2>3, OweNet, SameReserve
  <2> HIDE DEF w
  <2> QED BY <2>1, <2>4, <2>5, HoldsKept DEF Wallets
<1>8. ASSUME NEW u \in Usages, NEW cost \in Costs, ChargeComposioUsage(u, cost)
      PROVE  HoldsMatch'
  BY <1>0, <1>8, HoldsKept DEF ChargeComposioUsage, Wallets
<1> QED BY <1>1, <1>2, <1>5, <1>6, <1>7, <1>8 DEF Spending

\* The reserved amount is always the total of the holds that are not resolved.
THEOREM HoldsAlwaysMatch == Spec => []HoldsMatch
<1>1. Init => HoldsMatch
  <2> SUFFICES ASSUME Init PROVE HoldsMatch
    OBVIOUS
  <2>1. {q \in Requests : hold[q].status \in Unresolved} = {} /\ wallet.reserved = 0
    BY DEF Init, Unresolved
  <2> QED BY <2>1, SumEmpty DEF HoldsMatch
<1>2. TypeOK /\ TypeOK' /\ HoldsMatch /\ [Next]_vars => HoldsMatch'
  <2> SUFFICES ASSUME TypeOK, TypeOK', HoldsMatch, [Next]_vars PROVE HoldsMatch'
    OBVIOUS
  <2>1. CASE UNCHANGED vars
    BY <2>1, HoldsKept DEF vars
  <2> QED BY <2>1, DepositsKeepHolds, SpendingKeepsHolds DEF Next
<1> QED BY <1>1, <1>2, TypeCorrect, PTL DEF Spec

RowTells(row) ==
  /\ row.credited => row.credit # "NOT_CREDITED"
  /\ row.credit = "REVERSED" => row.status # "SUCCEEDED"

\* Who has announced funds has done for good what the key is named for.
KeysTell ==
  /\ \A t \in Topups : <<"topup", t>> \in funded => topup[t].credited
  /\ \A q \in Requests : /\ <<"release", q>> \in funded => hold[q].status = "RELEASED"
                         /\ <<"settle", q>> \in funded => hold[q].status = "SETTLED"
  /\ \A a \in Adjustments : <<"manual", a>> \in funded => adjusted[a] # 0
  /\ \A t \in Topups : RowTells(topup[t])

\* A credit that was taken back is not given again by a report of the payment.
LEMMA FreshCredit ==
  ASSUME TypeOK, CreditMeansCredited, KeysTell, NEW t \in Topups, NEW s \in PaymentStatuses,
         NewlyCredited(topup[t], s)
  PROVE  <<"topup", t>> \notin funded
<1>1. topup[t] \in TopupRows
  BY DEF TypeOK, TopupRows
<1> QED BY <1>1 DEF CreditMeansCredited, KeysTell, RowTells, NewlyCredited, Effective, TopupRows

\* Credits and adjustments are never forgotten.
LEMMA RowsRemember ==
  ASSUME TypeOK, CreditMeansCredited, KeysTell, Next
  PROVE  /\ \A t \in Topups : (topup[t].credited => topup'[t].credited) /\ RowTells(topup'[t])
         /\ \A a \in Adjustments : adjusted[a] # 0 => adjusted'[a] # 0
<1> DEFINE Remembers(t) == (topup[t].credited => topup'[t].credited) /\ RowTells(topup'[t])
<1>0. /\ topup \in [Topups -> TopupRows] /\ \A t \in Topups : topup[t] \in TopupRows
      /\ adjusted \in [Adjustments -> Int]
      /\ \A t \in Topups : RowTells(topup[t])
  BY DEF TypeOK, TopupRows, KeysTell
<1>1. ASSUME topup' = topup PROVE \A j \in Topups : Remembers(j)
  BY <1>0, <1>1
<1>2. ASSUME NEW t \in Topups, NEW row, topup' = [topup EXCEPT ![t] = row],
             topup[t].credited => row.credited, RowTells(row)
      PROVE  \A j \in Topups : Remembers(j)
  BY <1>0, <1>2
<1>3. ASSUME NEW t \in Topups, CreateApiTopup(t) \/ AttachApiProviderPayment(t) \/ FailApiTopup(t)
      PROVE  \A j \in Topups : Remembers(j)
  <2>1. CASE \E x \in {"CREATED", "FAILED", "PENDING_PAYMENT", "REQUIRES_CUSTOMER_ACTION"} :
               topup' = [topup EXCEPT ![t].status = x]
    BY <1>0, <2>1 DEF TopupRows, RowTells
  <2> QED BY <1>1, <1>3, <2>1 DEF CreateApiTopup, AttachApiProviderPayment, FailApiTopup
<1>4. ASSUME NEW row \in TopupRows, NEW t \in Topups, NEW revs, RowTells(row)
      PROVE  /\ Aggregated(row, t, revs).credited = row.credited
             /\ RowTells(Aggregated(row, t, revs))
  BY <1>4 DEF Aggregated, TopupRows, RowTells
<1>5. ASSUME NEW row \in TopupRows, NEW s \in PaymentStatuses, RowTells(row)
      PROVE  (row.credited => Updated(row, s).credited) /\ RowTells(Updated(row, s))
  BY <1>5 DEF Updated, Effective, TopupRows, RowTells
<1>6. ASSUME NEW t \in Topups, NEW s \in PaymentStatuses, ApplyApiProviderStatus(t, s)
      PROVE  \A j \in Topups : Remembers(j)
  <2> DEFINE row == Updated(topup[t], s)
             new == Aggregated(row, t, reversal)
  <2>1. row \in TopupRows /\ (topup[t].credited => row.credited) /\ RowTells(row)
    BY <1>0, <1>5, UpdatedRow
  <2> HIDE DEF row
  <2>2. CASE topup' = [topup EXCEPT ![t] = row]
    BY <1>2, <2>1, <2>2
  <2>3. CASE CreditTopup(t, s)
    <3>1. topup' = [topup EXCEPT ![t] = new]
      BY <1>0, <2>3 DEF CreditTopup, row
    <3>2. new.credited = row.credited /\ RowTells(new)
      BY <1>4, <2>1
    <3> HIDE DEF new
    <3> QED BY <1>2, <2>1, <3>1, <3>2
  <2> QED BY <1>6, <2>2, <2>3 DEF row, ApplyApiProviderStatus, ReleaseDeposit, ReverseTopup, NoteStatus
<1>7. ASSUME NEW r \in Reversals, NEW active \in BOOLEAN, NEW stamp \in 1 .. MaxStamp,
             RecordAirwallexWalletReversal(r, active, stamp)
      PROVE  \A j \in Topups : Remembers(j)
  <2> DEFINE t == ReversalOf[r]
  <2>1. t \in Topups
    BY WalletAssumption
  <2>2. PICK revs : topup' = [topup EXCEPT ![t] = Aggregated(topup[t], t, revs)]
    BY <1>7 DEF RecordAirwallexWalletReversal
  <2> HIDE DEF t
  <2>3. /\ Aggregated(topup[t], t, revs).credited = topup[t].credited
        /\ RowTells(Aggregated(topup[t], t, revs))
    BY <1>0, <1>4, <2>1
  <2> QED BY <1>2, <2>1, <2>2, <2>3
<1>8. \A t \in Topups : Remembers(t)
  <2>1. CASE Spending \/ EnsureWallet \/ Manual
    BY <1>1, <2>1 DEF Spending, EnsureWallet, Manual, CreditManually, DebitManually,
       ReserveAiSpend, MarkAiSpendSubmitting, SetStatus, MarkAiSpendSubmitted,
       MarkAiSpendAmbiguous, ReleaseAiSpend, SettleAiSpend, DebitApiWallet, ChargeComposioUsage
  <2> QED BY <1>3, <1>6, <1>7, <2>1 DEF Next, Deposits
<1>9. \A a \in Adjustments : adjusted[a] # 0 => adjusted'[a] # 0
  <2>1. CASE adjusted' = adjusted
    BY <2>1
  <2>2. CASE Manual
    BY <1>0, <2>2 DEF Manual, CreditManually, DebitManually
  <2>3. CASE Spending \/ EnsureWallet \/ Deposits
    BY <2>1, <2>3 DEF Spending, EnsureWallet, Deposits,
       CreateApiTopup, AttachApiProviderPayment, FailApiTopup, ApplyApiProviderStatus, CreditTopup,
       ReleaseDeposit, ReverseTopup, NoteStatus, RecordAirwallexWalletReversal,
       ReserveAiSpend, MarkAiSpendSubmitting, SetStatus, MarkAiSpendSubmitted,
       MarkAiSpendAmbiguous, ReleaseAiSpend, SettleAiSpend, DebitApiWallet, ChargeComposioUsage
  <2> QED BY <2>2, <2>3 DEF Next
<1> QED BY <1>8, <1>9

\* The steps that announce funds, each under the key of what it has just done.
Announces(key) ==
  \/ \E t \in Topups : key = <<"topup", t>> /\ topup'[t].credited
  \/ \E q \in Requests : \/ key = <<"release", q>> /\ hold'[q].status = "RELEASED"
                         \/ key = <<"settle", q>> /\ hold'[q].status = "SETTLED"
  \/ \E a \in Adjustments : key = <<"manual", a>> /\ adjusted'[a] # 0

LEMMA AnnounceStep ==
  ASSUME TypeOK, Next
  PROVE  funded' = funded \/ \E key : Announces(key) /\ funded' = funded \cup {key}
<1>0. topup \in [Topups -> TopupRows]
  BY DEF TypeOK, TopupRows
<1>1. ASSUME NEW t \in Topups, NEW s \in PaymentStatuses, CreditTopup(t, s)
      PROVE  funded' = funded \/ \E key : Announces(key) /\ funded' = funded \cup {key}
  <2>1. topup' = [topup EXCEPT ![t] = Aggregated(Updated(topup[t], s), t, reversal)]
    BY <1>0, <1>1 DEF CreditTopup
  <2>2. Updated(topup[t], s) \in TopupRows /\ Updated(topup[t], s).credited
    BY <1>0, <1>1, UpdatedRow DEF CreditTopup, NewlyCredited, Updated
  <2>3. Aggregated(Updated(topup[t], s), t, reversal).credited
    BY <2>2, AggregatedRow
  <2>4. topup'[t].credited
    BY <1>0, <2>1, <2>3
  <2>5. Announces(<<"topup", t>>)
    BY <2>4 DEF Announces
  <2> QED BY <1>1, <2>5 DEF CreditTopup, Announce
<1>2. ASSUME NEW a \in Adjustments, NEW x \in AdjustAmounts, CreditManually(a, x)
      PROVE  funded' = funded \/ \E key : Announces(key) /\ funded' = funded \cup {key}
  <2>1. x # 0 /\ adjusted'[a] = x
    BY <1>2, WalletAssumption DEF TypeOK, CreditManually
  <2>2. Announces(<<"manual", a>>)
    BY <2>1 DEF Announces
  <2> QED BY <1>2, <2>2 DEF CreditManually, Announce
<1>3. ASSUME NEW q \in Requests, NEW d, ReleaseAiSpend(q, d)
      PROVE  funded' = funded \/ \E key : Announces(key) /\ funded' = funded \cup {key}
  <2>1. hold'[q].status = "RELEASED"
    BY <1>3 DEF TypeOK, ReleaseAiSpend
  <2>2. Announces(<<"release", q>>)
    BY <2>1 DEF Announces
  <2> QED BY <1>3, <2>2 DEF ReleaseAiSpend, Announce
<1>4. ASSUME NEW q \in Requests, NEW cost, SettleAiSpend(q, cost)
      PROVE  funded' = funded \/ \E key : Announces(key) /\ funded' = funded \cup {key}
  <2>1. hold'[q].status = "SETTLED"
    BY <1>4 DEF TypeOK, SettleAiSpend
  <2>2. Announces(<<"settle", q>>)
    BY <2>1 DEF Announces
  <2>3. funded' = funded \/ funded' = Announce(<<"settle", q>>, wallet')
    BY <1>4 DEF SettleAiSpend
  <2> QED BY <2>2, <2>3 DEF Announce
<1>5. CASE Spending
  BY <1>3, <1>4, <1>5
     DEF Spending, ReserveAiSpend, MarkAiSpendSubmitting, SetStatus, MarkAiSpendSubmitted,
         MarkAiSpendAmbiguous, DebitApiWallet, ChargeComposioUsage
<1>6. CASE EnsureWallet \/ Deposits \/ Manual
  BY <1>1, <1>2, <1>6 DEF Deposits, EnsureWallet, Manual, DebitManually,
     CreateApiTopup, AttachApiProviderPayment, FailApiTopup,
     ApplyApiProviderStatus, ReleaseDeposit, ReverseTopup, NoteStatus,
     RecordAirwallexWalletReversal
<1> QED BY <1>5, <1>6 DEF Next

LEMMA KeysAlways == Spec => []KeysTell
<1>1. Init => KeysTell
  BY DEF Init, KeysTell, RowTells
<1>2. IInv /\ KeysTell /\ [Next]_vars => KeysTell'
  <2> SUFFICES ASSUME IInv, KeysTell, [Next]_vars PROVE KeysTell'
    OBVIOUS
  <2>1. CASE UNCHANGED vars
    BY <2>1 DEF vars, KeysTell, RowTells
  <2>2. CASE Next
    <3>0. TypeOK /\ CreditMeansCredited
      BY DEF IInv
    <3>1. /\ \A t \in Topups : (topup[t].credited => topup'[t].credited) /\ RowTells(topup'[t])
          /\ \A a \in Adjustments : adjusted[a] # 0 => adjusted'[a] # 0
      BY <2>2, <3>0, RowsRemember
    <3>2. \A q \in Requests : hold[q].status \in {"SETTLED", "RELEASED"} => hold'[q] = hold[q]
      BY <2>2, <3>0, ResolvedStep
    <3>3. CASE funded' = funded
      BY <3>1, <3>2, <3>3 DEF KeysTell
    <3>4. ASSUME NEW key, Announces(key), funded' = funded \cup {key} PROVE KeysTell'
      <4>1. \A t \in Topups : <<"topup", t>> \in funded' => topup'[t].credited
        BY <3>1, <3>4 DEF KeysTell, Announces
      <4>2. \A q \in Requests : /\ <<"release", q>> \in funded' => hold'[q].status = "RELEASED"
                                /\ <<"settle", q>> \in funded' => hold'[q].status = "SETTLED"
        <5>1. ASSUME NEW q \in Requests, <<"release", q>> \in funded'
              PROVE  hold'[q].status = "RELEASED"
          <6>1. CASE <<"release", q>> \in funded
            BY <3>2, <6>1 DEF KeysTell
          <6>2. CASE key = <<"release", q>>
            BY <3>4, <6>2 DEF Announces
          <6> QED BY <3>4, <5>1, <6>1, <6>2
        <5>2. ASSUME NEW q \in Requests, <<"settle", q>> \in funded'
              PROVE  hold'[q].status = "SETTLED"
          <6>1. CASE <<"settle", q>> \in funded
            BY <3>2, <6>1 DEF KeysTell
          <6>2. CASE key = <<"settle", q>>
            BY <3>4, <6>2 DEF Announces
          <6> QED BY <3>4, <5>2, <6>1, <6>2
        <5> QED BY <5>1, <5>2
      <4>3. \A a \in Adjustments : <<"manual", a>> \in funded' => adjusted'[a] # 0
        BY <3>1, <3>4 DEF KeysTell, Announces
      <4> QED BY <3>1, <4>1, <4>2, <4>3 DEF KeysTell
    <3> QED BY <2>2, <3>0, <3>3, <3>4, AnnounceStep
  <2> QED BY <2>1, <2>2
<1> QED BY <1>1, <1>2, Invariant, PTL DEF Spec

\* A step that only takes money out, or moves none, makes no wallet spendable.
LEMMA NotWoken ==
  ASSUME wallet \in Wallets, ~Spendable(wallet), NEW w, w.available \in Nat, w.debt \in Nat,
         w.available <= wallet.available, w.debt >= wallet.debt
  PROVE  ~Spendable(w)
BY DEF Spendable, Wallets

LEMMA SameBalance ==
  ASSUME NEW w \in Wallets, NEW x \in Nat
  PROVE  /\ Seeded(w, x) \in Wallets
         /\ Seeded(w, x).available = w.available /\ Seeded(w, x).debt = w.debt
         /\ Unpend(w, x).available = w.available /\ Unpend(w, x).debt = w.debt
BY SeedNet DEF Seeded, Unpend, Wallets

LEMMA LessBalance ==
  ASSUME NEW w \in Wallets, NEW x \in Nat
  PROVE  /\ Owe(w, x).available \in Nat /\ Owe(w, x).debt \in Nat
         /\ Owe(w, x).available <= w.available /\ Owe(w, x).debt >= w.debt
         /\ Defund(w, x).available = Owe(w, x).available /\ Defund(w, x).debt = Owe(w, x).debt
BY LessNat DEF Owe, Defund, Less, Wallets

\* Every step that makes the wallet spendable announces it, or withdraws a dispute.
LEMMA WakeDeposits ==
  ASSUME IInv, KeysTell, EnsureWallet \/ Deposits \/ Manual, ~Spendable(wallet), Spendable(wallet')
  PROVE  funded' # funded \/ \E t \in Topups : Withdrawn(t)
<1>0. /\ TypeOK /\ CreditMeansCredited /\ wallet \in Wallets /\ ReversalsAreApplied
      /\ Money \subseteq Nat /\ \A t \in Topups : Amount[t] \in Nat
      /\ wallet.available \in Nat /\ wallet.debt \in Nat
  BY WalletAssumption DEF IInv, TypeOK, Wallets, Money
<1>1. ASSUME NEW w, w.available \in Nat, w.debt \in Nat, w.available <= wallet.available,
             w.debt >= wallet.debt, wallet' = w
      PROVE  FALSE
  BY <1>0, <1>1, NotWoken
<1>2. ASSUME NEW seed \in Money, NEW t \in Topups,
              wallet' = Unpend(Seeded(wallet, seed), Amount[t])
       PROVE  FALSE
  <2>1. /\ Seeded(wallet, seed) \in Wallets
        /\ Seeded(wallet, seed).available = wallet.available
        /\ Seeded(wallet, seed).debt = wallet.debt
    BY <1>0, SameBalance
  <2>2. /\ wallet'.available = Seeded(wallet, seed).available
        /\ wallet'.debt = Seeded(wallet, seed).debt
    BY <1>0, <1>2, <2>1, SameBalance
  <2> QED BY <2>1, <2>2 DEF Spendable
<1>3. CASE EnsureWallet
  <2>1. PICK seed \in Money : wallet' = Seeded(wallet, seed)
    BY <1>3 DEF EnsureWallet
  <2> QED BY <1>0, <2>1, SameBalance DEF Spendable
<1>4. ASSUME NEW t \in Topups, CreateApiTopup(t) \/ AttachApiProviderPayment(t) \/ FailApiTopup(t)
      PROVE  FALSE
  <2>1. CASE CreateApiTopup(t)
    BY <1>0, <2>1 DEF CreateApiTopup, Spendable, Wallets
  <2>2. CASE AttachApiProviderPayment(t)
    BY <2>2 DEF AttachApiProviderPayment
  <2>3. CASE FailApiTopup(t)
    <3>1. CASE wallet' = wallet
      BY <3>1
    <3>2. ASSUME NEW seed \in Money, wallet' = Unpend(Seeded(wallet, seed), Amount[t])
          PROVE  FALSE
      BY <1>0, <1>2, <3>2
    <3> QED BY <2>3, <3>1, <3>2 DEF FailApiTopup
  <2> QED BY <1>4, <2>1, <2>2, <2>3
<1>5. ASSUME NEW t \in Topups, NEW s \in PaymentStatuses, ApplyApiProviderStatus(t, s)
      PROVE  funded' # funded
  <2>1. CASE CreditTopup(t, s)
    <3>1. <<"topup", t>> \notin funded
      BY <1>0, <2>1, FreshCredit DEF CreditTopup
    <3> QED BY <2>1, <3>1 DEF CreditTopup, Announce
  <2>2. CASE ReleaseDeposit(t, s)
    BY <1>2, <2>2 DEF ReleaseDeposit
  <2>3. CASE ReverseTopup(t, s)
    BY <1>0, <1>1, <2>3, LessBalance DEF ReverseTopup
  <2>4. CASE NoteStatus(t, s)
    BY <2>4 DEF NoteStatus
  <2> QED BY <1>5, <2>1, <2>2, <2>3, <2>4 DEF ApplyApiProviderStatus
<1>6. ASSUME NEW r \in Reversals, NEW active \in BOOLEAN, NEW stamp \in 1 .. MaxStamp,
             RecordAirwallexWalletReversal(r, active, stamp)
      PROVE  Withdrawn(ReversalOf[r])
  <2> DEFINE t == ReversalOf[r]
             wanted == IF active THEN ReversalAmount[r] ELSE 0
             applied == reversal[r].applied
  <2>1. /\ wanted \in Nat /\ applied \in Nat /\ ReversalAmount[r] \in Nat
        /\ applied = IF topup[t].credited /\ reversal[r].active THEN ReversalAmount[r] ELSE 0
    BY <1>0, WalletAssumption DEF TypeOK, ReversalsAreApplied
  <2>2. /\ topup[t].credited
        /\ wallet' = IF wanted > applied THEN Defund(wallet, wanted - applied)
                     ELSE Fund(wallet, applied - wanted)
        /\ reversal' = [reversal EXCEPT ![r] =
             [recorded |-> TRUE, active |-> active, stamp |-> stamp,
              applied |-> IF topup[t].credited THEN wanted ELSE applied]]
    BY <1>6 DEF RecordAirwallexWalletReversal
  <2>3. reversal'[r].active = active
    BY <1>0, <2>2 DEF TypeOK
  <2> HIDE DEF wanted, applied
  <2>4. CASE wanted > applied
    <3>1. wanted - applied \in Nat
      BY <2>1, <2>4
    <3> QED BY <1>0, <1>1, <2>2, <2>4, <3>1, LessBalance
  <2>5. CASE wanted = applied
    <3>1. wallet' = Fund(wallet, 0)
      BY <2>1, <2>2, <2>5
    <3>2. Fund(wallet, 0).available = wallet.available /\ Fund(wallet, 0).debt = wallet.debt
      BY <1>0 DEF Fund, Repay, Less, Wallets
    <3> QED BY <3>1, <3>2 DEF Spendable
  <2>6. CASE wanted < applied
    <3>1. reversal[r].active /\ ~active
      BY <2>1, <2>6 DEF wanted
    <3> QED BY <2>3, <3>1 DEF Withdrawn
  <2> QED BY <2>1, <2>4, <2>5, <2>6
<1>7. ASSUME NEW a \in Adjustments, NEW x \in AdjustAmounts, CreditManually(a, x)
      PROVE  funded' # funded
  <2>1. <<"manual", a>> \notin funded
    BY <1>7 DEF CreditManually, KeysTell
  <2> QED BY <1>7, <2>1 DEF CreditManually, Announce
<1>8. ASSUME NEW a \in Adjustments, NEW x \in AdjustAmounts, DebitManually(a, x)
      PROVE  FALSE
  <2>1. x \in Nat
    BY WalletAssumption
  <2> QED BY <1>0, <1>1, <1>8, <2>1, LessBalance DEF DebitManually
<1>9. \A r \in Reversals : ReversalOf[r] \in Topups
  BY WalletAssumption
<1> QED BY <1>3, <1>4, <1>5, <1>6, <1>7, <1>8, <1>9 DEF Deposits, Manual

LEMMA WakeSpending ==
  ASSUME IInv, KeysTell, Spending, ~Spendable(wallet), Spendable(wallet')
  PROVE  funded' # funded
<1>0. /\ TypeOK /\ wallet \in Wallets /\ Solvent(wallet) /\ Money \subseteq Nat
      /\ wallet.available \in Nat /\ wallet.debt \in Nat
  BY WalletAssumption DEF IInv, MoneyOK, TypeOK, Wallets, Money
<1>1. ASSUME NEW q \in Requests, NEW h \in HoldAmounts, ReserveAiSpend(q, h) PROVE FALSE
  <2>1. h \in Nat
    BY WalletAssumption
  <2> QED BY <1>0, <1>1, <2>1 DEF ReserveAiSpend, Spendable, Wallets
<1>2. ASSUME NEW q \in Requests,
             MarkAiSpendSubmitting(q) \/ MarkAiSpendSubmitted(q) \/ MarkAiSpendAmbiguous(q)
      PROVE  FALSE
  BY <1>2 DEF MarkAiSpendSubmitting, MarkAiSpendSubmitted, MarkAiSpendAmbiguous, SetStatus
<1>3. ASSUME NEW q \in Requests, NEW d, ReleaseAiSpend(q, d) PROVE funded' # funded
  <2>1. <<"release", q>> \notin funded
    BY <1>3 DEF ReleaseAiSpend, Releasable, KeysTell
  <2> QED BY <1>3, <2>1 DEF ReleaseAiSpend, Announce
<1>4. ASSUME NEW q \in Requests, NEW cost \in Costs, SettleAiSpend(q, cost) PROVE funded' # funded
  <2> DEFINE held == hold[q].amount
             charged == Smaller(cost, held)
             unused == held - charged
  <2>1. held \in Nat /\ cost \in Nat
    BY <1>0, WalletAssumption DEF TypeOK
  <2>2. unused \in Nat
    BY <2>1 DEF Smaller
  <2>3. <<"settle", q>> \notin funded
    BY <1>4 DEF SettleAiSpend, KeysTell
  <2>4. /\ wallet' = [Repay(wallet, unused) EXCEPT !.reserved = @ - held, !.spent = @ + charged]
        /\ funded' = IF Less(unused, wallet.debt) > 0 THEN Announce(<<"settle", q>>, wallet')
                     ELSE funded
    BY <1>4 DEF SettleAiSpend
  <2> HIDE DEF unused, charged, held
  <2>5. /\ wallet'.available = wallet.available + Less(unused, wallet.debt)
        /\ wallet'.debt = Less(wallet.debt, unused)
    BY <1>0, <2>4 DEF Repay, Wallets
  <2>6. Less(unused, wallet.debt) > 0
    BY <1>0, <2>2, <2>5 DEF Less, Spendable, Solvent
  <2> QED BY <2>3, <2>4, <2>6 DEF Announce
<1>5. ASSUME NEW u \in Usages, NEW cost \in Costs, DebitApiWallet(u, cost) PROVE FALSE
  <2>0. cost \in Nat
    BY WalletAssumption
  <2>1. PICK seed \in Money :
          wallet' = [Owe(Seeded(wallet, seed), cost) EXCEPT !.spent = @ + cost]
    BY <1>5 DEF DebitApiWallet
  <2> DEFINE w == Seeded(wallet, seed)
  <2>2. w \in Wallets /\ w.available = wallet.available /\ w.debt = wallet.debt
    BY <1>0, SameBalance
  <2> HIDE DEF w
  <2>3. wallet'.available = Owe(w, cost).available /\ wallet'.debt = Owe(w, cost).debt
    BY <2>1, <2>2 DEF w, Owe, Wallets
  <2> QED BY <1>0, <2>0, <2>2, <2>3, LessBalance, NotWoken
<1>6. ASSUME NEW u \in Usages, NEW cost \in Costs, ChargeComposioUsage(u, cost) PROVE FALSE
  <2>1. cost \in Nat
    BY WalletAssumption
  <2> QED BY <1>0, <1>6, <2>1 DEF ChargeComposioUsage, Spendable, Wallets
<1> QED BY <1>1, <1>2, <1>3, <1>4, <1>5, <1>6 DEF Spending

\* Funds that make the wallet spendable again are announced, each time under a
\* key of its own, so that the work paused for want of them is woken.
THEOREM WorkIsWoken == Spec => FundsWakeWork
<1> DEFINE Woken == ~Spendable(wallet) /\ Spendable(wallet')
                      => funded' # funded \/ \E t \in Topups : Withdrawn(t)
<1>1. IInv /\ KeysTell /\ [Next]_vars => [Woken]_vars
  BY WakeDeposits, WakeSpending DEF Next
<1> QED BY <1>1, Invariant, KeysAlways, PTL DEF Spec, FundsWakeWork

-----------------------------------------------------------------------------
(***************************************************************************)
(* The funding entries of the ledger are what is left of the credited      *)
(* top-ups, plus the manual adjustments.  A top-up is credited on any      *)
(* report of success that finds its credit not AVAILABLE, so its row must  *)
(* tell exactly what was credited and taken back: its credit agrees with   *)
(* the time of its credit, its status, and the reversals in force.         *)
(*                                                                         *)
(* Airwallex reports refunds and disputes as resources of their own, and   *)
(* never as the status of a payment; mapStatus would also take them there. *)
(* A provider that did both for one top-up would have it taken twice.      *)
(***************************************************************************)
ReportedOnce == "REFUNDED" \notin PaymentStatuses \/ Reversals = {}

ReversalRows == [recorded : BOOLEAN, active : BOOLEAN, stamp : 0 .. MaxStamp, applied : Nat]

Of(t) == {r \in Reversals : ReversalOf[r] = t}

Active(t, revs) == {r \in Reversals : ReversalOf[r] = t /\ revs[r].active}

\* The reversals of t are taken from its credited row and from no other.
Taken(row, t, revs) ==
  \A r \in Of(t) : revs[r].applied = IF row.credited /\ revs[r].active THEN ReversalAmount[r] ELSE 0

RowFits(row, t, revs) ==
  /\ row.credited <=> row.credit # "NOT_CREDITED"
  /\ row.credit = "REVERSED" => row.status # "SUCCEEDED"
  /\ row.credit = "AVAILABLE" => row.status # "REFUNDED"
  /\ row.credit = "REVERSED" /\ "REFUNDED" \notin PaymentStatuses => ActiveSum(t, revs) >= Amount[t]
  /\ ActiveSum(t, revs) <= Amount[t]

\* Remaining, of any row and reversals.
RowLeft(row, t, revs) ==
  IF ~row.credited \/ row.credit = "REVERSED" THEN 0
  ELSE Amount[t] - SumFunctionOnSet([r \in Reversals |-> revs[r].applied], Of(t))

FundsInv ==
  /\ \A t \in Topups : RowFits(topup[t], t, reversal)
  /\ FundedMatchesTopups

\* The reversals in force add up to an amount, whichever they are.
LEMMA ActiveNat ==
  ASSUME NEW t \in Topups, NEW revs
  PROVE  /\ IsFiniteSet(Of(t)) /\ IsFiniteSet(Active(t, revs))
         /\ ActiveSum(t, revs) = SumFunctionOnSet(ReversalAmount, Active(t, revs))
         /\ ActiveSum(t, revs) \in Nat
<1>1. IsFiniteSet(Of(t)) /\ IsFiniteSet(Active(t, revs))
  BY WalletFinite, FS_Subset DEF Of, Active
<1>2. \A r \in Active(t, revs) : ReversalAmount[r] \in Nat
  BY WalletAssumption DEF Active
<1>3. ActiveSum(t, revs) = SumFunctionOnSet(ReversalAmount, Active(t, revs))
  BY DEF ActiveSum, Active
<1> QED BY <1>1, <1>2, <1>3, SumNats

\* What remains of a top-up is its amount less the reversals in force.
LEMMA LeftOfRow ==
  ASSUME NEW t \in Topups, NEW revs \in [Reversals -> ReversalRows], NEW row,
         Taken(row, t, revs), row.credited \in BOOLEAN, ActiveSum(t, revs) <= Amount[t]
  PROVE  /\ RowLeft(row, t, revs) =
              IF ~row.credited \/ row.credit = "REVERSED" THEN 0 ELSE Amount[t] - ActiveSum(t, revs)
         /\ RowLeft(row, t, revs) \in Nat
<1> DEFINE f == [r \in Reversals |-> revs[r].applied]
<1>1. ActiveSum(t, revs) \in Nat /\ Amount[t] \in Nat
  BY ActiveNat, WalletAssumption
<1>2. ASSUME row.credited
      PROVE  SumFunctionOnSet(f, Of(t)) = ActiveSum(t, revs)
  <2>1. /\ \A r \in Of(t) : f[r] \in Int
        /\ Active(t, revs) \in SUBSET Of(t)
        /\ \A r \in Of(t) \ Active(t, revs) : f[r] = 0
        /\ \A r \in Active(t, revs) : f[r] = ReversalAmount[r]
    BY <1>2 DEF Of, Active, Taken, ReversalRows
  <2> HIDE DEF f
  <2>2. SumFunctionOnSet(f, Of(t)) = SumFunctionOnSet(f, Active(t, revs))
    BY <2>1, ActiveNat, SumDrops
  <2>3. SumFunctionOnSet(f, Active(t, revs)) = SumFunctionOnSet(ReversalAmount, Active(t, revs))
    BY <2>1, ActiveNat, SumSame
  <2> QED BY <2>2, <2>3, ActiveNat
<1> QED BY <1>1, <1>2 DEF RowLeft

\* Only which reversals are in force counts.
LEMMA ActiveSame ==
  ASSUME NEW t \in Topups, NEW revs, NEW others,
         \A r \in Of(t) : revs[r].active = others[r].active
  PROVE  ActiveSum(t, revs) = ActiveSum(t, others)
<1>1. Active(t, revs) = Active(t, others)
  BY DEF Of, Active
<1> QED BY <1>1, ActiveNat

\* One reversal comes into force or is withdrawn.
LEMMA ActiveChange ==
  ASSUME NEW revs \in [Reversals -> ReversalRows], NEW r \in Reversals, NEW new \in ReversalRows,
         NEW t \in Topups, t = ReversalOf[r]
  PROVE  ActiveSum(t, [revs EXCEPT ![r] = new]) =
           ActiveSum(t, revs) - (IF revs[r].active THEN ReversalAmount[r] ELSE 0)
                              + (IF new.active THEN ReversalAmount[r] ELSE 0)
<1> DEFINE after == [revs EXCEPT ![r] = new]
<1>1. /\ after[r] = new /\ \A x \in Reversals \ {r} : after[x] = revs[x]
  OBVIOUS
<1> HIDE DEF after
<1>2. /\ Active(t, revs) \ {r} = Active(t, after) \ {r}
      /\ r \in Active(t, revs) <=> revs[r].active
      /\ r \in Active(t, after) <=> new.active
  BY <1>1 DEF Active
<1>3. \A x \in Reversals : ReversalAmount[x] \in Int
  BY WalletAssumption
<1>4. /\ \A x \in Active(t, revs) : ReversalAmount[x] \in Int
      /\ \A x \in Active(t, after) : ReversalAmount[x] \in Int
  BY <1>3 DEF Active
<1>5. SumFunctionOnSet(ReversalAmount, Active(t, after)) =
        SumFunctionOnSet(ReversalAmount, Active(t, revs))
          - (IF r \in Active(t, revs) THEN ReversalAmount[r] ELSE 0)
          + (IF r \in Active(t, after) THEN ReversalAmount[r] ELSE 0)
  BY <1>2, <1>4, ActiveNat, SumChange
<1> QED BY <1>2, <1>5, ActiveNat DEF after

\* What a step adds to the top-up t, it adds to the ledger and to the funding.
Moves(t) ==
  /\ \A j \in Topups \ {t} : /\ topup'[j] = topup[j]
                             /\ ActiveSum(j, reversal') = ActiveSum(j, reversal)
  /\ RowFits(topup'[t], t, reversal')
  /\ \E a, b \in Nat :
       /\ wallet'.funded = Less(wallet.funded + a, b)
       /\ ledger' = ledger + a - b
       /\ RowLeft(topup'[t], t, reversal') = RowLeft(topup[t], t, reversal) + a - b
  /\ adjusted' = adjusted

\* What remains of every top-up is an amount.
LEMMA RemainingNat ==
  ASSUME NEW tops \in [Topups -> TopupRows], NEW revs \in [Reversals -> ReversalRows],
         \A t \in Topups : RowFits(tops[t], t, revs),
         \A r \in Reversals :
           revs[r].applied =
             IF tops[ReversalOf[r]].credited /\ revs[r].active THEN ReversalAmount[r] ELSE 0
  PROVE  \A t \in Topups :
           /\ RowLeft(tops[t], t, revs) =
                IF ~tops[t].credited \/ tops[t].credit = "REVERSED" THEN 0
                ELSE Amount[t] - ActiveSum(t, revs)
           /\ RowLeft(tops[t], t, revs) \in Nat
<1> SUFFICES ASSUME NEW t \in Topups
             PROVE  /\ RowLeft(tops[t], t, revs) =
                          IF ~tops[t].credited \/ tops[t].credit = "REVERSED" THEN 0
                          ELSE Amount[t] - ActiveSum(t, revs)
                    /\ RowLeft(tops[t], t, revs) \in Nat
  OBVIOUS
<1>1. Taken(tops[t], t, revs)
  BY DEF Taken, Of
<1>2. tops[t].credited \in BOOLEAN
  BY DEF TopupRows
<1>3. ActiveSum(t, revs) <= Amount[t]
  BY DEF RowFits
<1> QED BY <1>1, <1>2, <1>3, LeftOfRow

\* The two totals are amounts unless an administrator has taken money out.
LEMMA TotalNat ==
  ASSUME NEW f \in [Topups -> Nat], NEW g \in [Adjustments -> Int]
  PROVE  /\ SumFunction(f) \in Nat /\ SumFunction(g) \in Int
         /\ (\A a \in Adjustments : g[a] >= 0) => SumFunction(g) \in Nat
<1>1. /\ SumFunction(f) = SumFunctionOnSet(f, Topups)
      /\ SumFunction(g) = SumFunctionOnSet(g, Adjustments)
  BY DEF SumFunction
<1>2. /\ \A t \in Topups : f[t] \in Nat
      /\ \A a \in Adjustments : g[a] \in Int
      /\ (\A a \in Adjustments : g[a] >= 0) => \A a \in Adjustments : g[a] \in Nat
  OBVIOUS
<1>3. SumFunctionOnSet(f, Topups) \in Nat
  BY <1>2, WalletFinite, SumNats
<1>4. SumFunctionOnSet(g, Adjustments) \in Int
  BY <1>2, WalletFinite, SumInts
<1>5. (\A a \in Adjustments : g[a] >= 0) => SumFunctionOnSet(g, Adjustments) \in Nat
  BY <1>2, WalletFinite, SumNats
<1> QED BY <1>1, <1>3, <1>4, <1>5

\* The funding follows the ledger, and stops at 0.
LEMMA FundedFollows ==
  ASSUME NEW n \in Nat, NEW a \in Nat, NEW b \in Nat, NEW m \in Int, m <= n
  PROVE  /\ Less(n + a, b) >= m + a - b
         /\ n = m /\ m + a - b >= 0 => Less(n + a, b) = m + a - b
BY DEF Less

\* A step that moves one top-up keeps the funding entries right.
LEMMA FundsMove ==
  ASSUME IInv, IInv', FundsInv, NEW t \in Topups, Moves(t)
  PROVE  FundsInv'
<1> DEFINE R == [j \in Topups |-> RowLeft(topup[j], j, reversal)]
           Rn == [j \in Topups |-> RowLeft(topup'[j], j, reversal')]
<1>1. /\ topup \in [Topups -> TopupRows] /\ reversal \in [Reversals -> ReversalRows]
      /\ topup' \in [Topups -> TopupRows] /\ reversal' \in [Reversals -> ReversalRows]
      /\ wallet.funded \in Nat /\ ledger \in Int
      /\ adjusted \in [Adjustments -> Int] /\ adjusted' = adjusted
  BY DEF IInv, TypeOK, TopupRows, ReversalRows, Wallets, Moves
<1>2. \A j \in Topups : RowFits(topup[j], j, reversal) /\ RowFits(topup'[j], j, reversal')
  BY DEF FundsInv, Moves, RowFits
<1>3. R \in [Topups -> Nat]
  <2>1. \A r \in Reversals :
           reversal[r].applied =
             IF topup[ReversalOf[r]].credited /\ reversal[r].active THEN ReversalAmount[r] ELSE 0
    BY DEF IInv, ReversalsAreApplied
  <2>2. \A j \in Topups : RowLeft(topup[j], j, reversal) \in Nat
    BY <1>1, <1>2, <2>1, RemainingNat
  <2> QED BY <2>2
<1>4. Rn \in [Topups -> Nat] /\ \A j \in Topups \ {t} : Rn[j] = R[j]
  <2>1. \A r \in Reversals :
           reversal'[r].applied =
             IF topup'[ReversalOf[r]].credited /\ reversal'[r].active THEN ReversalAmount[r] ELSE 0
    BY DEF IInv, ReversalsAreApplied
  <2>2. \A j \in Topups :
          /\ RowLeft(topup'[j], j, reversal') \in Nat
          /\ RowLeft(topup'[j], j, reversal') =
                IF ~topup'[j].credited \/ topup'[j].credit = "REVERSED" THEN 0
                ELSE Amount[j] - ActiveSum(j, reversal')
    BY <1>1, <1>2, <2>1, RemainingNat
  <2>3. \A r \in Reversals :
           reversal[r].applied =
             IF topup[ReversalOf[r]].credited /\ reversal[r].active THEN ReversalAmount[r] ELSE 0
    BY DEF IInv, ReversalsAreApplied
  <2>4. \A j \in Topups : RowLeft(topup[j], j, reversal) =
                IF ~topup[j].credited \/ topup[j].credit = "REVERSED" THEN 0
                ELSE Amount[j] - ActiveSum(j, reversal)
    BY <1>1, <1>2, <2>3, RemainingNat
  <2> QED BY <2>2, <2>4 DEF Moves
<1>5. /\ \A j \in Topups : Remaining(j) = R[j] /\ Remaining(j)' = Rn[j]
      /\ [j \in Topups |-> Remaining(j)] = R /\ [j \in Topups |-> Remaining(j)]' = Rn
  BY DEF Remaining, RowLeft, Of
<1>6. PICK a \in Nat, b \in Nat :
        /\ wallet'.funded = Less(wallet.funded + a, b)
        /\ ledger' = ledger + a - b
        /\ Rn[t] = R[t] + a - b
  BY DEF Moves
<1> HIDE DEF R, Rn
<1>7. SumFunction(Rn) = SumFunction(R) + a - b
  <2>1. SumFunction(R) = SumFunctionOnSet(R, Topups) /\ SumFunction(Rn) = SumFunctionOnSet(Rn, Topups)
    BY <1>3, <1>4 DEF SumFunction
  <2>2. /\ \A j \in Topups : R[j] \in Int /\ Rn[j] \in Int
        /\ \A j \in Topups \ {t} : R[j] = Rn[j]
    BY <1>3, <1>4
  <2>3. /\ SumFunctionOnSet(R, Topups) \in Int
        /\ SumFunctionOnSet(Rn, Topups) =
             SumFunctionOnSet(R, Topups) - (IF t \in Topups THEN R[t] ELSE 0)
                                         + (IF t \in Topups THEN Rn[t] ELSE 0)
    BY <2>2, WalletFinite, SumChange
  <2> QED BY <1>6, <2>1, <2>2, <2>3
<1>8. /\ SumFunction(R) \in Nat /\ SumFunction(Rn) \in Nat /\ SumFunction(adjusted) \in Int
      /\ (\A x \in Adjustments : adjusted[x] >= 0) => SumFunction(adjusted) \in Nat
  BY <1>1, <1>3, <1>4, TotalNat
<1>9. /\ ledger = SumFunction(R) + SumFunction(adjusted)
      /\ wallet.funded >= ledger
      /\ (\A x \in Adjustments : adjusted[x] >= 0) => wallet.funded = ledger
  BY <1>5 DEF FundsInv, FundedMatchesTopups
<1>10. ledger' = SumFunction(Rn) + SumFunction(adjusted)
  BY <1>6, <1>7, <1>8, <1>9
<1>11. /\ wallet'.funded >= ledger'
       /\ (\A x \in Adjustments : adjusted[x] >= 0) => wallet'.funded = ledger'
  <2>1. /\ Less(wallet.funded + a, b) >= ledger + a - b
        /\ wallet.funded = ledger /\ ledger + a - b >= 0 =>
             Less(wallet.funded + a, b) = ledger + a - b
    BY <1>1, <1>9, FundedFollows
  <2> QED BY <1>6, <1>8, <1>9, <1>10, <2>1
<1> QED BY <1>1, <1>2, <1>5, <1>10, <1>11 DEF FundsInv, FundedMatchesTopups

\* Nothing that the funding entries are made of moves.
LEMMA FundsKept ==
  ASSUME FundsInv, UNCHANGED <<topup, reversal, ledger, adjusted>>, wallet'.funded = wallet.funded
  PROVE  FundsInv'
BY DEF FundsInv, FundedMatchesTopups, Remaining, RowFits

\* What the wallet's statements do to the funding.
LEMMA FundingOf ==
  ASSUME NEW w \in Wallets, NEW x \in Nat
  PROVE  /\ Seeded(w, x).funded = w.funded /\ Unpend(w, x).funded = w.funded
         /\ Repay(w, x).funded = w.funded /\ Owe(w, x).funded = w.funded
         /\ Fund(w, x).funded = w.funded + x /\ Defund(w, x).funded = Less(w.funded, x)
         /\ Less(w.funded, 0) = w.funded /\ w.funded \in Nat
BY DEF Seeded, Unpend, Repay, Owe, Fund, Defund, Wallets, Less

\* Manual credits add to both, manual debits take from the funding what is left.
LEMMA ManualFunds ==
  ASSUME IInv, IInv', FundsInv, Manual
  PROVE  FundsInv'
<1>0. /\ wallet \in Wallets /\ wallet.funded \in Nat /\ ledger \in Int
      /\ adjusted \in [Adjustments -> Int] /\ adjusted' \in [Adjustments -> Int]
      /\ topup \in [Topups -> TopupRows] /\ reversal \in [Reversals -> ReversalRows]
  BY DEF IInv, TypeOK, Wallets, TopupRows, ReversalRows
<1>1. PICK a \in Adjustments, x \in AdjustAmounts : CreditManually(a, x) \/ DebitManually(a, x)
  BY DEF Manual
<1>2. x \in Nat /\ x > 0
  BY WalletAssumption
<1> DEFINE R == [j \in Topups |-> RowLeft(topup[j], j, reversal)]
<1>3. R \in [Topups -> Nat]
  <2>1. \A r \in Reversals :
           reversal[r].applied =
             IF topup[ReversalOf[r]].credited /\ reversal[r].active THEN ReversalAmount[r] ELSE 0
    BY DEF IInv, ReversalsAreApplied
  <2>2. \A j \in Topups : RowLeft(topup[j], j, reversal) \in Nat
    BY <1>0, <2>1, RemainingNat DEF FundsInv
  <2> QED BY <2>2
<1>4. topup' = topup /\ reversal' = reversal /\ adjusted[a] = 0
  BY <1>1 DEF CreditManually, DebitManually
<1>5. /\ [j \in Topups |-> Remaining(j)] = R /\ [j \in Topups |-> Remaining(j)]' = R
      /\ \A j \in Topups : RowFits(topup[j], j, reversal) /\ RowFits(topup'[j], j, reversal')
  BY <1>4 DEF Remaining, RowLeft, Of, FundsInv, RowFits
<1> HIDE DEF R
<1>6. PICK y \in Int : /\ adjusted' = [adjusted EXCEPT ![a] = y] /\ ledger' = ledger + y
                       /\ \/ y = x /\ wallet'.funded = wallet.funded + x
                          \/ y = -x /\ wallet'.funded = Less(wallet.funded, x)
  <2>1. CASE CreditManually(a, x)
    <3> DEFINE v == [wallet EXCEPT !.exists = TRUE]
    <3>1. v \in Wallets /\ v.funded = wallet.funded
      BY <1>0 DEF Wallets
    <3>2. wallet' = Fund(v, x) /\ adjusted' = [adjusted EXCEPT ![a] = x] /\ ledger' = ledger + x
      BY <2>1 DEF CreditManually
    <3> HIDE DEF v
    <3>3. wallet'.funded = wallet.funded + x
      BY <1>2, <3>1, <3>2, FundingOf
    <3>4. x \in Int
      BY <1>2
    <3>5. x = x
      OBVIOUS
    <3> QED BY ONLY <3>2, <3>3, <3>4, <3>5, Zenon
  <2>2. CASE DebitManually(a, x)
    <3>1. /\ wallet' = Defund(wallet, x) /\ adjusted' = [adjusted EXCEPT ![a] = -x]
          /\ ledger' = ledger - x
      BY <2>2 DEF DebitManually
    <3>2. wallet'.funded = Less(wallet.funded, x)
      BY <1>0, <1>2, <3>1, FundingOf
    <3>3. -x \in Int /\ ledger - x = ledger + (-x)
      BY <1>0, <1>2
    <3> QED BY <3>1, <3>2, <3>3
  <2> QED BY <1>1, <2>1, <2>2
<1>7. /\ adjusted'[a] = y /\ \A j \in Adjustments \ {a} : adjusted'[j] = adjusted[j]
  BY <1>0, <1>6
<1>8. SumFunction(adjusted') = SumFunction(adjusted) + y
  <2>1. /\ SumFunction(adjusted) = SumFunctionOnSet(adjusted, Adjustments)
        /\ SumFunction(adjusted') = SumFunctionOnSet(adjusted', Adjustments)
    BY <1>0 DEF SumFunction
  <2>2. /\ \A j \in Adjustments : adjusted[j] \in Int /\ adjusted'[j] \in Int
    BY <1>0
  <2>3. /\ SumFunctionOnSet(adjusted, Adjustments) \in Int
        /\ SumFunctionOnSet(adjusted', Adjustments) =
             SumFunctionOnSet(adjusted, Adjustments)
               - (IF a \in Adjustments THEN adjusted[a] ELSE 0)
               + (IF a \in Adjustments THEN adjusted'[a] ELSE 0)
    BY <1>7, <2>2, WalletFinite, SumChange
  <2> QED BY <1>4, <1>7, <2>1, <2>3
<1>9. /\ ledger = SumFunction(R) + SumFunction(adjusted) /\ wallet.funded >= ledger
      /\ (\A j \in Adjustments : adjusted[j] >= 0) => wallet.funded = ledger
  BY <1>5 DEF FundsInv, FundedMatchesTopups
<1>10. SumFunction(R) \in Nat /\ SumFunction(adjusted) \in Int
  BY <1>0, <1>3, TotalNat
<1>11. ledger' = SumFunction(R) + SumFunction(adjusted')
  BY <1>6, <1>8, <1>9, <1>10
<1>12. /\ wallet'.funded >= ledger'
       /\ (\A j \in Adjustments : adjusted'[j] >= 0) => wallet'.funded = ledger'
  <2>1. CASE y = x /\ wallet'.funded = wallet.funded + x
    <3>1. (\A j \in Adjustments : adjusted'[j] >= 0) => \A j \in Adjustments : adjusted[j] >= 0
      BY <1>4, <1>7
    <3> QED BY <1>0, <1>2, <1>6, <1>9, <2>1, <3>1
  <2>2. CASE y = -x /\ wallet'.funded = Less(wallet.funded, x)
    <3>1. ~(adjusted'[a] >= 0)
      BY <1>2, <1>7, <2>2
    <3>2. wallet'.funded >= ledger - x
      BY <1>0, <1>2, <1>9, <2>2 DEF Less
    <3> QED BY <1>0, <1>2, <1>6, <2>2, <3>1, <3>2
  <2> QED BY <1>6, <2>1, <2>2
<1> QED BY <1>5, <1>11, <1>12 DEF FundsInv, FundedMatchesTopups

\* A credit that is noted in the row is not given again.
LEMMA CreditedOnce ==
  ASSUME NEW row \in TopupRows, NEW t \in Topups, NEW revs, RowFits(row, t, revs),
         NEW s \in PaymentStatuses
  PROVE  /\ NewlyCredited(row, s) => /\ ~row.credited /\ Updated(row, s).credited
                                     /\ Updated(row, s).credit = "AVAILABLE"
         /\ ~NewlyCredited(row, s) =>
              /\ Updated(row, s).credited = row.credited
              /\ ~NewlyReversed(row, s) => Updated(row, s).credit = row.credit
              /\ Updated(row, s).credit = "REVERSED" => Updated(row, s).status # "SUCCEEDED"
              /\ Updated(row, s).credit = "AVAILABLE" => Updated(row, s).status # "REFUNDED"
         /\ NewlyReversed(row, s) => /\ s = "REFUNDED" /\ row.credited /\ row.credit = "AVAILABLE"
                                     /\ Updated(row, s).credit = "REVERSED"
BY DEF RowFits, NewlyCredited, NewlyReversed, Updated, Effective, TopupRows

\* A row whose credit stays moves no money.
LEMMA RowNoted ==
  ASSUME IInv, FundsInv, NEW t \in Topups, NEW row, topup' = [topup EXCEPT ![t] = row],
         row.credited = topup[t].credited, row.credit = topup[t].credit,
         row.credit = "REVERSED" => row.status # "SUCCEEDED",
         row.credit = "AVAILABLE" => row.status # "REFUNDED",
         UNCHANGED <<reversal, ledger, adjusted>>,
         \/ wallet' = wallet \/ wallet' = [wallet EXCEPT !.payment = @ + Amount[t]]
         \/ \E seed \in Money : wallet' = Unpend(Seeded(wallet, seed), Amount[t])
  PROVE  Moves(t)
<1>0. /\ topup \in [Topups -> TopupRows] /\ RowFits(topup[t], t, reversal)
      /\ wallet \in Wallets /\ ledger \in Int /\ Amount[t] \in Nat /\ Money \subseteq Nat
      /\ reversal \in [Reversals -> ReversalRows]
  <2>1. Amount[t] \in Nat /\ Money \subseteq Nat
    BY WalletAssumption DEF Money
  <2> QED BY <2>1 DEF IInv, TypeOK, TopupRows, ReversalRows, FundsInv
<1>1. topup'[t] = row /\ \A j \in Topups \ {t} : topup'[j] = topup[j]
  BY <1>0
<1>2. RowFits(topup'[t], t, reversal')
  BY <1>0, <1>1 DEF RowFits
<1>3. RowLeft(topup'[t], t, reversal') = RowLeft(topup[t], t, reversal)
  BY <1>1 DEF RowLeft
<1>4. wallet'.funded = wallet.funded
  <2>1. CASE wallet' = wallet
    BY <2>1
  <2>2. CASE wallet' = [wallet EXCEPT !.payment = @ + Amount[t]]
    BY <1>0, <2>2 DEF Wallets
  <2>3. CASE \E seed \in Money : wallet' = Unpend(Seeded(wallet, seed), Amount[t])
    <3>1. PICK seed \in Nat : wallet' = Unpend(Seeded(wallet, seed), Amount[t])
      BY <1>0, <2>3
    <3>2. Seeded(wallet, seed) \in Wallets /\ Seeded(wallet, seed).funded = wallet.funded
      BY <1>0, SeedNet, FundingOf
    <3> QED BY <1>0, <3>1, <3>2, FundingOf
  <2> QED BY <2>1, <2>2, <2>3
<1>5. RowLeft(topup[t], t, reversal) \in Int
  <2>1. Taken(topup[t], t, reversal)
    BY DEF IInv, ReversalsAreApplied, Taken, Of
  <2>2. topup[t].credited \in BOOLEAN /\ ActiveSum(t, reversal) <= Amount[t]
    BY <1>0 DEF TopupRows, RowFits
  <2> QED BY <1>0, <2>1, <2>2, LeftOfRow
<1>6. /\ wallet'.funded = Less(wallet.funded + 0, 0)
      /\ ledger' = ledger + 0 - 0
      /\ RowLeft(topup'[t], t, reversal') = RowLeft(topup[t], t, reversal) + 0 - 0
  <2>1. Less(wallet.funded, 0) = wallet.funded /\ wallet.funded \in Nat
    BY <1>0, FundingOf
  <2> QED BY <1>0, <1>3, <1>4, <1>5, <2>1
<1> QED BY <1>1, <1>2, <1>6 DEF Moves

\* A report that neither credits nor reverses moves no money.
LEMMA NotedFunds ==
  ASSUME IInv, FundsInv, NEW t \in Topups, NEW s \in PaymentStatuses,
         ReleaseDeposit(t, s) \/ NoteStatus(t, s)
  PROVE  Moves(t)
<1>0. topup[t] \in TopupRows /\ RowFits(topup[t], t, reversal)
  BY DEF IInv, TypeOK, TopupRows, FundsInv
<1> DEFINE row == Updated(topup[t], s)
<1>1. ~NewlyCredited(topup[t], s) /\ ~NewlyReversed(topup[t], s)
  <2>1. CASE ReleaseDeposit(t, s)
    BY <1>0, <2>1 DEF ReleaseDeposit, NewlyReleased, NewlyCredited, NewlyReversed, RowFits, Ended,
       TopupRows
  <2> QED BY <2>1 DEF NoteStatus
<1>2. /\ topup' = [topup EXCEPT ![t] = row]
      /\ UNCHANGED <<reversal, ledger, adjusted>>
      /\ wallet' = wallet \/ \E seed \in Money : wallet' = Unpend(Seeded(wallet, seed), Amount[t])
  BY DEF ReleaseDeposit, NoteStatus
<1>3. /\ row.credited = topup[t].credited /\ row.credit = topup[t].credit
      /\ row.credit = "REVERSED" => row.status # "SUCCEEDED"
      /\ row.credit = "AVAILABLE" => row.status # "REFUNDED"
  BY <1>0, <1>1, CreditedOnce
<1> HIDE DEF row
<1> QED BY <1>2, <1>3, RowNoted

\* The status of a top-up that is overwritten moves no money either: a pending one
\* is not a credited one, nor a refunded one.
LEMMA PendingFunds ==
  ASSUME IInv, FundsInv, NEW t \in Topups,
         CreateApiTopup(t) \/ AttachApiProviderPayment(t) \/ FailApiTopup(t)
  PROVE  Moves(t)
<1>0. /\ topup \in [Topups -> TopupRows] /\ RowFits(topup[t], t, reversal)
  BY DEF IInv, TypeOK, TopupRows, FundsInv
<1>1. PICK status \in {topup[t].status, "CREATED", "FAILED", "PENDING_PAYMENT",
                       "REQUIRES_CUSTOMER_ACTION"} :
          topup' = [topup EXCEPT ![t] = [@ EXCEPT !.status = status]]
  <2>1. CASE topup' = topup
    <3>1. topup = [topup EXCEPT ![t] = [@ EXCEPT !.status = topup[t].status]]
      BY <1>0 DEF TopupRows
    <3> QED BY <2>1, <3>1
  <2>2. CASE topup' # topup
    BY <1>0, <2>2 DEF CreateApiTopup, AttachApiProviderPayment, FailApiTopup
  <2> QED BY <2>1, <2>2
<1> DEFINE row == [topup[t] EXCEPT !.status = status]
<1>2. /\ topup' = [topup EXCEPT ![t] = row]
      /\ UNCHANGED <<reversal, ledger, adjusted>>
      /\ \/ wallet' = wallet \/ wallet' = [wallet EXCEPT !.payment = @ + Amount[t]]
         \/ \E seed \in Money : wallet' = Unpend(Seeded(wallet, seed), Amount[t])
  BY <1>1 DEF CreateApiTopup, AttachApiProviderPayment, FailApiTopup
<1>3. /\ row.credited = topup[t].credited /\ row.credit = topup[t].credit
      /\ row.credit = "REVERSED" => row.status # "SUCCEEDED"
      /\ row.credit = "AVAILABLE" => row.status # "REFUNDED"
  BY <1>0, <1>1 DEF TopupRows, RowFits
<1> HIDE DEF row
<1> QED BY <1>2, <1>3, RowNoted

\* The provider reports the payment itself as refunded: all of it is taken.
LEMMA ReversedFunds ==
  ASSUME ReportedOnce, IInv, FundsInv, NEW t \in Topups, NEW s \in PaymentStatuses,
         ReverseTopup(t, s)
  PROVE  Moves(t)
<1>0. /\ topup \in [Topups -> TopupRows] /\ RowFits(topup[t], t, reversal)
      /\ wallet \in Wallets /\ ledger \in Int
      /\ reversal \in [Reversals -> ReversalRows]
  BY DEF IInv, TypeOK, TopupRows, ReversalRows, FundsInv
<1>1. Amount[t] \in Nat
  BY WalletAssumption
<1> DEFINE row == Updated(topup[t], s)
<1>2. /\ NewlyReversed(topup[t], s) /\ topup' = [topup EXCEPT ![t] = row]
      /\ wallet' = Defund(wallet, Amount[t]) /\ ledger' = ledger - Amount[t]
      /\ UNCHANGED <<reversal, adjusted>>
  BY DEF ReverseTopup
<1>3. /\ s = "REFUNDED" /\ topup[t].credited /\ topup[t].credit = "AVAILABLE"
      /\ row.credit = "REVERSED" /\ row.credited
      /\ row.status # "SUCCEEDED"
  BY <1>0, <1>2 DEF RowFits, NewlyReversed, Updated, Effective, TopupRows
<1>4. "REFUNDED" \in PaymentStatuses /\ Of(t) = {} /\ Active(t, reversal) = {}
  BY <1>3 DEF ReportedOnce, Of, Active
<1>5. ActiveSum(t, reversal) = 0
  BY <1>4, ActiveNat, SumEmpty
<1> HIDE DEF row
<1>6. topup'[t] = row /\ \A j \in Topups \ {t} : topup'[j] = topup[j]
  BY <1>0, <1>2
<1>7. RowFits(topup'[t], t, reversal')
  BY <1>1, <1>2, <1>3, <1>4, <1>5, <1>6 DEF RowFits
<1>8. RowLeft(topup[t], t, reversal) = Amount[t] /\ RowLeft(row, t, reversal) = 0
  <2>1. Taken(topup[t], t, reversal)
    BY <1>4 DEF Taken
  <2>2. RowLeft(topup[t], t, reversal) = Amount[t] - ActiveSum(t, reversal)
    <3>1. topup[t].credited \in BOOLEAN
      BY <1>0 DEF TopupRows
    <3>2. ActiveSum(t, reversal) <= Amount[t]
      BY <1>0 DEF RowFits
    <3> QED BY <1>0, <1>3, <2>1, <3>1, <3>2, LeftOfRow
  <2>3. RowLeft(row, t, reversal) = 0
    BY <1>3 DEF RowLeft
  <2> QED BY <1>1, <1>5, <2>2, <2>3
<1>9. /\ wallet'.funded = Less(wallet.funded + 0, Amount[t])
      /\ ledger' = ledger + 0 - Amount[t]
      /\ RowLeft(topup'[t], t, reversal') = RowLeft(topup[t], t, reversal) + 0 - Amount[t]
  <2>1. wallet'.funded = Less(wallet.funded, Amount[t]) /\ wallet.funded \in Nat
    BY <1>0, <1>1, <1>2, FundingOf
  <2>2. wallet.funded + 0 = wallet.funded
    BY <2>1
  <2> QED BY <1>0, <1>1, <1>2, <1>6, <1>8, <2>1, <2>2
<1> QED BY <1>1, <1>2, <1>6, <1>7, <1>9 DEF Moves

\* What updateTopupAggregateStatus makes of a credited row.
LEMMA AggregatedFits ==
  ASSUME NEW row \in TopupRows, row.credited, NEW t \in Topups, NEW revs,
         ActiveSum(t, revs) <= Amount[t]
  PROVE  LET new == Aggregated(row, t, revs)
         IN /\ RowFits(new, t, revs) /\ new.credited
            /\ ActiveSum(t, revs) = Amount[t] => new.credit = "REVERSED"
            /\ ActiveSum(t, revs) < Amount[t] => new.credit = "AVAILABLE"
<1>1. ActiveSum(t, revs) \in Nat /\ Amount[t] \in Nat
  BY ActiveNat, WalletAssumption
<1>2. CASE ActiveSum(t, revs) >= Amount[t]
  <2>1. Aggregated(row, t, revs) = [row EXCEPT !.status = "REFUNDED", !.credit = "REVERSED"]
    BY <1>2 DEF Aggregated, TopupRows
  <2> QED BY <1>1, <1>2, <2>1 DEF RowFits, TopupRows
<1>3. CASE ~(ActiveSum(t, revs) >= Amount[t])
  <2>1. Aggregated(row, t, revs) = [row EXCEPT !.status = "SUCCEEDED", !.credit = "AVAILABLE"]
    BY <1>3 DEF Aggregated
  <2> QED BY <1>1, <1>3, <2>1 DEF RowFits, TopupRows
<1> QED BY <1>2, <1>3

\* A deposit is credited, less the reversals that arrived before it.
LEMMA CreditFunds ==
  ASSUME IInv, IInv', FundsInv, NEW t \in Topups, NEW s \in PaymentStatuses, CreditTopup(t, s)
  PROVE  Moves(t)
<1>0. /\ topup \in [Topups -> TopupRows] /\ RowFits(topup[t], t, reversal)
      /\ wallet \in Wallets /\ ledger \in Int
      /\ reversal \in [Reversals -> ReversalRows] /\ reversal' \in [Reversals -> ReversalRows]
  BY DEF IInv, TypeOK, TopupRows, ReversalRows, FundsInv
<1>1. Amount[t] \in Nat
  BY WalletAssumption
<1> DEFINE row == Updated(topup[t], s)
           new == Aggregated(row, t, reversal)
           due == PendingDebit(t)
<1>2. /\ NewlyCredited(topup[t], s) /\ reversal' = Reconciled(t)
      /\ ledger' = ledger + Amount[t] - due /\ due \in Money /\ adjusted' = adjusted
      /\ \E seed \in Money :
           wallet' = Defund(Fund(Unpend(Seeded(wallet, seed), Amount[t]), Amount[t]), due)
  BY DEF CreditTopup
<1>3. ~topup[t].credited /\ row.credited /\ row \in TopupRows
  BY <1>0, <1>2, CreditedOnce, UpdatedRow
<1>4. topup' = [topup EXCEPT ![t] = new]
  BY <1>0 DEF CreditTopup
<1> HIDE DEF row
<1>5. ActiveSum(t, reversal) \in Nat /\ ActiveSum(t, reversal) <= Amount[t]
  BY <1>0, ActiveNat DEF RowFits
<1>6. /\ RowFits(new, t, reversal) /\ new.credited
      /\ ActiveSum(t, reversal) = Amount[t] => new.credit = "REVERSED"
      /\ ActiveSum(t, reversal) < Amount[t] => new.credit = "AVAILABLE"
  BY <1>3, <1>5, AggregatedFits
<1> HIDE DEF new
<1>7. topup'[t] = new /\ \A j \in Topups \ {t} : topup'[j] = topup[j]
  BY <1>0, <1>4
<1>8. \A j \in Topups : ActiveSum(j, reversal') = ActiveSum(j, reversal)
  <2>1. \A r \in Reversals : reversal'[r].active = reversal[r].active
    BY <1>0, <1>2 DEF Reconciled, ReversalRows
  <2> QED BY <2>1, ActiveSame DEF Of
<1>9. RowFits(topup'[t], t, reversal')
  BY <1>6, <1>7, <1>8 DEF RowFits
<1>10. due = ActiveSum(t, reversal)
  <2> DEFINE f == [r \in Reversals |-> ReversalAmount[r] - reversal[r].applied]
  <2>1. due = SumFunctionOnSet(f, Active(t, reversal))
    BY DEF PendingDebit, Active
  <2>2. \A r \in Active(t, reversal) : reversal[r].applied = 0
    BY <1>3 DEF IInv, ReversalsAreApplied, Active
  <2>3. \A r \in Active(t, reversal) : f[r] = ReversalAmount[r]
    BY <2>2, WalletAssumption DEF Active
  <2> HIDE DEF f
  <2> QED BY <2>1, <2>3, ActiveNat, SumSame
<1> HIDE DEF due
<1>11. due \in Nat
  BY <1>5, <1>10
<1>12. RowLeft(topup[t], t, reversal) = 0
  BY <1>3 DEF RowLeft
<1>13. RowLeft(topup'[t], t, reversal') = Amount[t] - due
  <2>1. Taken(new, t, reversal')
    BY <1>7 DEF IInv, ReversalsAreApplied, Taken, Of
  <2>2. ActiveSum(t, reversal') <= Amount[t] /\ new.credited \in BOOLEAN
    BY <1>5, <1>6, <1>8
  <2>3. RowLeft(new, t, reversal') =
          IF new.credit = "REVERSED" THEN 0 ELSE Amount[t] - ActiveSum(t, reversal')
    BY <1>0, <1>6, <2>1, <2>2, LeftOfRow
  <2> QED BY <1>1, <1>5, <1>6, <1>7, <1>8, <1>10, <2>3
<1>14. wallet'.funded = Less(wallet.funded + Amount[t], due)
  <2>1. PICK seed \in Nat :
          wallet' = Defund(Fund(Unpend(Seeded(wallet, seed), Amount[t]), Amount[t]), due)
    BY <1>2, WalletAssumption DEF Money
  <2> DEFINE v == Seeded(wallet, seed)
             w == Unpend(v, Amount[t])
             u == Fund(w, Amount[t])
  <2>2. v \in Wallets /\ v.funded = wallet.funded
    BY <1>0, SeedNet, FundingOf
  <2>3. wallet' = Defund(u, due)
    BY <2>1
  <2> HIDE DEF v
  <2>4. w \in Wallets /\ w.funded = wallet.funded
    BY <1>1, <2>2, SeedNet, FundingOf
  <2> HIDE DEF w
  <2>5. u \in Wallets /\ u.funded = wallet.funded + Amount[t]
    <3>1. u \in Wallets
      BY <1>1, <2>4, FundNet
    <3>2. u.funded = w.funded + Amount[t]
      BY <1>1, <2>4, FundingOf
    <3> QED BY <2>4, <3>1, <3>2
  <2> HIDE DEF u
  <2> QED BY <1>11, <2>3, <2>5, FundingOf
<1>15. RowLeft(topup'[t], t, reversal') = RowLeft(topup[t], t, reversal) + Amount[t] - due
  BY <1>1, <1>11, <1>12, <1>13
<1> QED BY <1>1, <1>2, <1>7, <1>8, <1>9, <1>11, <1>14, <1>15 DEF Moves

\* A refund or dispute is taken from a credited top-up, or given back to it.
LEMMA ReversalFunds ==
  ASSUME ReportedOnce, IInv, IInv', FundsInv,
         NEW r \in Reversals, NEW active \in BOOLEAN, NEW stamp \in 1 .. MaxStamp,
         RecordAirwallexWalletReversal(r, active, stamp)
  PROVE  Moves(ReversalOf[r])
<1> DEFINE t == ReversalOf[r]
           wanted == IF active THEN ReversalAmount[r] ELSE 0
           applied == reversal[r].applied
           row == [recorded |-> TRUE, active |-> active, stamp |-> stamp,
                   applied |-> IF topup[t].credited THEN wanted ELSE applied]
           new == Aggregated(topup[t], t, reversal')
<1>0. /\ topup \in [Topups -> TopupRows] /\ wallet \in Wallets /\ ledger \in Int
      /\ reversal \in [Reversals -> ReversalRows] /\ reversal' \in [Reversals -> ReversalRows]
      /\ \A j \in Topups : RowFits(topup[j], j, reversal)
  BY DEF IInv, TypeOK, TopupRows, ReversalRows, FundsInv
<1>1. t \in Topups /\ Amount[t] \in Nat /\ ReversalAmount[r] \in Nat /\ applied \in Nat
  BY <1>0, WalletAssumption DEF ReversalRows
<1>2. /\ reversal' = [reversal EXCEPT ![r] = row] /\ topup' = [topup EXCEPT ![t] = new]
      /\ Allocable(r, active) /\ adjusted' = adjusted
      /\ topup[t].credited => /\ ledger' = ledger - (wanted - applied)
                              /\ wallet' = IF wanted > applied THEN Defund(wallet, wanted - applied)
                                           ELSE Fund(wallet, applied - wanted)
      /\ ~topup[t].credited => UNCHANGED <<wallet, ledger>>
  BY DEF RecordAirwallexWalletReversal
<1>3. /\ row \in ReversalRows /\ row.active = active
      /\ applied = IF topup[t].credited /\ reversal[r].active THEN ReversalAmount[r] ELSE 0
  <2>1. stamp \in 0 .. MaxStamp
    BY WalletAssumption
  <2>2. applied = IF topup[t].credited /\ reversal[r].active THEN ReversalAmount[r] ELSE 0
    BY DEF IInv, ReversalsAreApplied
  <2> QED BY <1>1, <2>1, <2>2 DEF ReversalRows
<1> DEFINE before == ActiveSum(t, reversal)
           after == ActiveSum(t, reversal')
<1>4. /\ before \in Nat /\ after \in Nat /\ before <= Amount[t]
      /\ after = before - (IF reversal[r].active THEN ReversalAmount[r] ELSE 0)
                        + (IF active THEN ReversalAmount[r] ELSE 0)
  <2>1. before <= Amount[t]
    BY <1>0, <1>1 DEF RowFits
  <2>2. ActiveSum(t, [reversal EXCEPT ![r] = row]) =
           before - (IF reversal[r].active THEN ReversalAmount[r] ELSE 0)
                  + (IF row.active THEN ReversalAmount[r] ELSE 0)
    <3> HIDE DEF row
    <3> QED BY <1>0, <1>1, <1>3, ActiveChange
  <2> QED BY <1>1, <1>2, <1>3, <2>1, <2>2, ActiveNat
<1>5. after <= Amount[t]
  <2> DEFINE off == [reversal[r] EXCEPT !.active = FALSE]
             others == [reversal EXCEPT ![r] = off]
  <2>1. off \in ReversalRows /\ off.active = FALSE
    BY <1>0 DEF ReversalRows
  <2>2. others = [reversal EXCEPT ![r].active = FALSE]
    OBVIOUS
  <2>3. ActiveSum(t, others) = before - (IF reversal[r].active THEN ReversalAmount[r] ELSE 0)
    <3>1. ActiveSum(t, others) = before - (IF reversal[r].active THEN ReversalAmount[r] ELSE 0)
                                        + (IF off.active THEN ReversalAmount[r] ELSE 0)
      <4> HIDE DEF off
      <4> QED BY <1>0, <1>1, <2>1, ActiveChange
    <3> QED BY <1>1, <1>4, <2>1, <3>1
  <2>4. active => ReversalAmount[r] + ActiveSum(t, others) <= Amount[t]
    BY <1>2, <2>2 DEF Allocable
  <2> HIDE DEF others
  <2> QED BY <1>1, <1>4, <2>3, <2>4
<1>6. \A j \in Topups \ {t} : topup'[j] = topup[j] /\ ActiveSum(j, reversal') = ActiveSum(j, reversal)
  <2>1. ASSUME NEW j \in Topups \ {t} PROVE ActiveSum(j, reversal') = ActiveSum(j, reversal)
    <3>1. \A x \in Of(j) : reversal'[x] = reversal[x]
      BY <1>0, <1>2 DEF Of
    <3> QED BY <3>1, ActiveSame
  <2> HIDE DEF new
  <2> QED BY <1>0, <1>1, <1>2, <2>1
<1>7. topup'[t] = new
  <2> HIDE DEF new
  <2> QED BY <1>0, <1>1, <1>2
<1>8. Taken(new, t, reversal') /\ Taken(topup[t], t, reversal)
  <2> HIDE DEF new
  <2> QED BY <1>1, <1>7 DEF IInv, ReversalsAreApplied, Taken, Of
<1>9. CASE topup[t].credited
  <2>1. /\ RowFits(new, t, reversal') /\ new.credited
        /\ after = Amount[t] => new.credit = "REVERSED"
        /\ after < Amount[t] => new.credit = "AVAILABLE"
    BY <1>0, <1>1, <1>5, <1>9, AggregatedFits
  <2> HIDE DEF new
  <2>2. RowLeft(new, t, reversal') = Amount[t] - after
    <3>1. RowLeft(new, t, reversal') = IF new.credit = "REVERSED" THEN 0 ELSE Amount[t] - after
      BY <1>0, <1>1, <1>5, <1>8, <2>1, LeftOfRow
    <3> QED BY <1>1, <1>4, <1>5, <2>1, <3>1
  <2>3. RowLeft(topup[t], t, reversal) = Amount[t] - before
    <3>1. RowLeft(topup[t], t, reversal) =
            IF topup[t].credit = "REVERSED" THEN 0 ELSE Amount[t] - before
      BY <1>0, <1>1, <1>4, <1>8, <1>9, LeftOfRow
    <3>2. topup[t].credit = "REVERSED" => before >= Amount[t]
      BY <1>0, <1>1 DEF ReportedOnce, RowFits
    <3> QED BY <1>1, <1>4, <3>1, <3>2
  <2>4. after - before = wanted - applied /\ wanted \in Nat
    BY <1>1, <1>3, <1>4, <1>9
  <2>5. /\ Amount[t] - after = (Amount[t] - before) + 0 - (wanted - applied)
        /\ Amount[t] - after = (Amount[t] - before) + (applied - wanted) - 0
    <3> HIDE DEF wanted, applied, before, after
    <3> QED BY <1>1, <1>4, <2>4
  <2>6. \E a, b \in Nat :
          /\ wallet'.funded = Less(wallet.funded + a, b)
          /\ ledger' = ledger + a - b
          /\ RowLeft(new, t, reversal') = RowLeft(topup[t], t, reversal) + a - b
    <3> HIDE DEF wanted, applied, before, after
    <3>1. CASE wanted > applied
      <4>1. wanted - applied \in Nat /\ wallet' = Defund(wallet, wanted - applied)
        BY <1>1, <1>2, <1>9, <2>4, <3>1
      <4>2. wallet'.funded = Less(wallet.funded, wanted - applied) /\ wallet.funded \in Nat
        BY <1>0, <4>1, FundingOf
      <4>3. /\ wallet'.funded = Less(wallet.funded + 0, wanted - applied)
            /\ ledger' = ledger + 0 - (wanted - applied)
            /\ RowLeft(new, t, reversal') = RowLeft(topup[t], t, reversal) + 0 - (wanted - applied)
        <5>1. wallet'.funded = Less(wallet.funded + 0, wanted - applied)
          BY <4>2
        <5>2. ledger' = ledger + 0 - (wanted - applied)
          BY <1>0, <1>2, <1>9, <4>1
        <5>3. RowLeft(new, t, reversal') = RowLeft(topup[t], t, reversal) + 0 - (wanted - applied)
          BY <2>2, <2>3, <2>5
        <5> QED BY <5>1, <5>2, <5>3
      <4> QED BY <4>1, <4>3
    <3>2. CASE ~(wanted > applied)
      <4>1. applied - wanted \in Nat /\ wallet' = Fund(wallet, applied - wanted)
        BY <1>1, <1>2, <1>9, <2>4, <3>2
      <4>2. wallet'.funded = wallet.funded + (applied - wanted) /\ wallet.funded \in Nat
        BY <1>0, <4>1, FundingOf
      <4>3. /\ wallet'.funded = Less(wallet.funded + (applied - wanted), 0)
            /\ ledger' = ledger + (applied - wanted) - 0
            /\ RowLeft(new, t, reversal') = RowLeft(topup[t], t, reversal) + (applied - wanted) - 0
        <5>1. wallet'.funded = Less(wallet.funded + (applied - wanted), 0)
          BY <4>1, <4>2 DEF Less
        <5>2. ledger' = ledger + (applied - wanted) - 0
          BY <1>0, <1>1, <1>2, <1>9, <2>4, <4>1
        <5>3. RowLeft(new, t, reversal') = RowLeft(topup[t], t, reversal) + (applied - wanted) - 0
          BY <2>2, <2>3, <2>5
        <5> QED BY <5>1, <5>2, <5>3
      <4> QED BY <4>1, <4>3
    <3> QED BY <3>1, <3>2
  <2> QED BY <1>2, <1>6, <1>7, <2>1, <2>6 DEF Moves
<1>10. CASE ~topup[t].credited
  <2>1. topup[t].credit = "NOT_CREDITED"
    BY <1>0, <1>1, <1>10 DEF RowFits, TopupRows
  <2>2. new \in TopupRows /\ ~new.credited /\ new.credit = "NOT_CREDITED"
    BY <1>0, <1>1, <1>10, <2>1 DEF Aggregated, TopupRows, Open, Ended
  <2> HIDE DEF new
  <2>3. RowFits(new, t, reversal')
    BY <1>5, <2>2 DEF RowFits
  <2>4. RowLeft(new, t, reversal') = 0 /\ RowLeft(topup[t], t, reversal) = 0
    BY <1>10, <2>2 DEF RowLeft
  <2>5. /\ wallet'.funded = Less(wallet.funded + 0, 0)
        /\ ledger' = ledger + 0 - 0
        /\ RowLeft(new, t, reversal') = RowLeft(topup[t], t, reversal) + 0 - 0
    <3>1. wallet' = wallet /\ ledger' = ledger
      BY <1>2, <1>10
    <3>2. wallet.funded + 0 = wallet.funded /\ Less(wallet.funded, 0) = wallet.funded
      BY <1>0, FundingOf DEF Wallets
    <3> QED BY <1>0, <2>4, <3>1, <3>2
  <2> QED BY <1>2, <1>6, <1>7, <2>3, <2>5 DEF Moves
<1> QED BY <1>9, <1>10

\* Holds and direct debits touch no funding.
LEMMA SpendingFunds ==
  ASSUME IInv, FundsInv, EnsureWallet \/ Spending
  PROVE  FundsInv'
<1>0. /\ wallet \in Wallets /\ Money \subseteq Nat /\ Costs \subseteq Nat
      /\ \A q \in Requests : hold[q].amount \in Nat
  <2>1. Money \subseteq Nat /\ Costs \subseteq Nat
    BY WalletAssumption DEF Money
  <2> QED BY <2>1 DEF IInv, TypeOK
<1>1. UNCHANGED <<topup, reversal, ledger, adjusted>>
  BY DEF EnsureWallet, Spending, ReserveAiSpend, MarkAiSpendSubmitting, SetStatus,
         MarkAiSpendSubmitted, MarkAiSpendAmbiguous, ReleaseAiSpend, SettleAiSpend,
         DebitApiWallet, ChargeComposioUsage
<1>2. ASSUME NEW w \in Wallets, NEW x, NEW y, w.funded = wallet.funded,
             \/ wallet' = [w EXCEPT !.reserved = x] \/ wallet' = [w EXCEPT !.spent = x]
             \/ wallet' = [w EXCEPT !.reserved = x, !.spent = y]
             \/ wallet' = [w EXCEPT !.available = x, !.reserved = y]
             \/ wallet' = [w EXCEPT !.available = x, !.spent = y]
      PROVE  wallet'.funded = wallet.funded
  BY <1>2 DEF Wallets
<1>3. CASE EnsureWallet
  <2>1. PICK seed \in Nat : wallet' = Seeded(wallet, seed)
    BY <1>0, <1>3 DEF EnsureWallet
  <2> QED BY <1>0, <1>1, <2>1, FundingOf, FundsKept
<1>4. ASSUME NEW q \in Requests, NEW h \in HoldAmounts, ReserveAiSpend(q, h)
      PROVE  wallet'.funded = wallet.funded
  BY <1>0, <1>2, <1>4 DEF ReserveAiSpend
<1>5. ASSUME NEW q \in Requests,
             \/ MarkAiSpendSubmitting(q) \/ MarkAiSpendSubmitted(q) \/ MarkAiSpendAmbiguous(q)
      PROVE  wallet'.funded = wallet.funded
  BY <1>5 DEF MarkAiSpendSubmitting, MarkAiSpendSubmitted, MarkAiSpendAmbiguous, SetStatus
<1>6. ASSUME NEW q \in Requests, NEW d \in {"BEFORE_SUBMISSION", "DEFINITIVE_REJECTION"},
             ReleaseAiSpend(q, d)
      PROVE  wallet'.funded = wallet.funded
  <2> DEFINE w == Repay(wallet, hold[q].amount)
  <2>1. w \in Wallets /\ w.funded = wallet.funded
    BY <1>0, RepayNet, FundingOf
  <2>2. wallet' = [w EXCEPT !.reserved = w.reserved - hold[q].amount]
    BY <1>6 DEF ReleaseAiSpend
  <2> HIDE DEF w
  <2> QED BY <1>2, <2>1, <2>2
<1>7. ASSUME NEW q \in Requests, NEW cost \in Costs, SettleAiSpend(q, cost)
      PROVE  wallet'.funded = wallet.funded
  <2> DEFINE charged == Smaller(cost, hold[q].amount)
             w == Repay(wallet, hold[q].amount - charged)
  <2>1. hold[q].amount - charged \in Nat
    BY <1>0 DEF Smaller
  <2>2. wallet' = [w EXCEPT !.reserved = w.reserved - hold[q].amount, !.spent = w.spent + charged]
    BY <1>7 DEF SettleAiSpend
  <2> HIDE DEF charged
  <2>3. w \in Wallets /\ w.funded = wallet.funded
    BY <1>0, <2>1, RepayNet, FundingOf
  <2> HIDE DEF w
  <2> QED BY <1>2, <2>2, <2>3
<1>8. ASSUME NEW u \in Usages, NEW cost \in Costs, DebitApiWallet(u, cost)
      PROVE  wallet'.funded = wallet.funded
  <2>1. PICK seed \in Nat :
          wallet' = [Owe(Seeded(wallet, seed), cost) EXCEPT !.spent = @ + cost]
    BY <1>0, <1>8 DEF DebitApiWallet
  <2> DEFINE v == Seeded(wallet, seed)
             w == Owe(v, cost)
  <2>2. v \in Wallets /\ v.funded = wallet.funded
    BY <1>0, SeedNet, FundingOf
  <2>3. wallet' = [w EXCEPT !.spent = w.spent + cost]
    BY <2>1
  <2> HIDE DEF v
  <2>4. w \in Wallets /\ w.funded = wallet.funded
    BY <1>0, <2>2, OweNet, FundingOf
  <2> HIDE DEF w
  <2> QED BY <1>2, <2>3, <2>4
<1>9. ASSUME NEW u \in Usages, NEW cost \in Costs, ChargeComposioUsage(u, cost)
      PROVE  wallet'.funded = wallet.funded
  BY <1>0, <1>2, <1>9 DEF ChargeComposioUsage
<1> QED BY <1>1, <1>3, <1>4, <1>5, <1>6, <1>7, <1>8, <1>9, FundsKept DEF Spending

\* The funding entries stay right.
LEMMA FundsStep ==
  ASSUME ReportedOnce, IInv, IInv', FundsInv, [Next]_vars
  PROVE  FundsInv'
<1>1. CASE UNCHANGED vars
  BY <1>1, FundsKept DEF vars
<1>2. CASE EnsureWallet \/ Spending
  BY <1>2, SpendingFunds
<1>3. CASE Manual
  BY <1>3, ManualFunds
<1>4. CASE Deposits
  <2>1. ASSUME NEW t \in Topups, NEW s \in PaymentStatuses, ApplyApiProviderStatus(t, s)
        PROVE  Moves(t)
    BY <2>1, CreditFunds, NotedFunds, ReversedFunds DEF ApplyApiProviderStatus
  <2>2. \A r \in Reversals : ReversalOf[r] \in Topups
    BY WalletAssumption
  <2>3. \E t \in Topups : Moves(t)
    BY <1>4, <2>1, <2>2, PendingFunds, ReversalFunds DEF Deposits
  <2> QED BY <2>3, FundsMove
<1> QED BY <1>1, <1>2, <1>3, <1>4 DEF Next

\* The invariant of the funding entries, for a provider that reports each refund
\* and dispute in one way.
LEMMA FundsAlways ==
  ASSUME ReportedOnce
  PROVE  Spec => []FundsInv
<1>1. Init => FundsInv
  <2> SUFFICES ASSUME Init PROVE FundsInv
    OBVIOUS
  <2>1. /\ topup = [t \in Topups |-> [status |-> "none", credited |-> FALSE,
                                      credit |-> "NOT_CREDITED"]]
        /\ reversal = [r \in Reversals |-> [recorded |-> FALSE, active |-> FALSE,
                                            stamp |-> 0, applied |-> 0]]
        /\ adjusted = [a \in Adjustments |-> 0] /\ ledger = 0 /\ wallet.funded = 0
    BY DEF Init
  <2>2. ASSUME NEW t \in Topups PROVE RowFits(topup[t], t, reversal) /\ Remaining(t) = 0
    <3>1. Active(t, reversal) = {}
      BY <2>1 DEF Active
    <3>2. ActiveSum(t, reversal) = 0 /\ Amount[t] \in Nat
      BY <3>1, ActiveNat, SumEmpty, WalletAssumption
    <3> QED BY <2>1, <3>2 DEF RowFits, Remaining
  <2>3. SumFunction([t \in Topups |-> Remaining(t)]) = 0
    <3> DEFINE R == [t \in Topups |-> Remaining(t)]
    <3>1. DOMAIN R = Topups /\ \A t \in Topups : R[t] = 0
      BY <2>2
    <3> HIDE DEF R
    <3>2. SumFunction(R) = 0
      BY <3>1, WalletFinite, SumZero DEF SumFunction
    <3> QED BY <3>2 DEF R
  <2>4. SumFunction(adjusted) = 0
    <3>1. DOMAIN adjusted = Adjustments /\ \A a \in Adjustments : adjusted[a] = 0
      BY <2>1
    <3> QED BY <3>1, WalletFinite, SumZero DEF SumFunction
  <2>5. FundedMatchesTopups
    <3>1. ledger = 0 /\ wallet.funded = 0 /\ 0 = 0 + 0 /\ 0 >= 0
      BY <2>1
    <3> HIDE <2>1, <2>2
    <3> QED BY <2>3, <2>4, <3>1 DEF FundedMatchesTopups
  <2> QED BY <2>2, <2>5 DEF FundsInv
<1>2. IInv /\ IInv' /\ FundsInv /\ [Next]_vars => FundsInv'
  BY FundsStep
<1> QED BY <1>1, <1>2, Invariant, PTL DEF Spec

\* Each payment is credited once and each reversal and adjustment taken once, for
\* a provider that reports each refund and dispute in one way.
THEOREM FundingMatches ==
  ASSUME ReportedOnce
  PROVE  Spec => []FundedMatchesTopups
<1>1. FundsInv => FundedMatchesTopups
  BY DEF FundsInv
<1> QED BY <1>1, FundsAlways, PTL
\* A row says REFUNDED only while reversals in force cover its top-up.
RefundsCover ==
  \A t \in Topups : topup[t].status = "REFUNDED" => ActiveSum(t, reversal) >= Amount[t]

LEMMA CoverStep ==
  ASSUME "REFUNDED" \notin PaymentStatuses, IInv, IInv', RefundsCover, Next
  PROVE  RefundsCover'
<1>0. /\ topup \in [Topups -> TopupRows] /\ reversal \in [Reversals -> ReversalRows]
      /\ \A t \in Topups : topup[t] \in TopupRows
      /\ \A t \in Topups : topup[t].status = "REFUNDED" => ActiveSum(t, reversal) >= Amount[t]
  BY DEF IInv, TypeOK, TopupRows, ReversalRows, RefundsCover
<1>1. ASSUME NEW t \in Topups, NEW row, topup' = [topup EXCEPT ![t] = row],
             \A j \in Topups \ {t} : ActiveSum(j, reversal') = ActiveSum(j, reversal),
             row.status = "REFUNDED" => ActiveSum(t, reversal') >= Amount[t]
      PROVE  RefundsCover'
  BY <1>0, <1>1 DEF RefundsCover
<1>2. CASE topup' = topup /\ reversal' = reversal
  BY <1>2 DEF RefundsCover
<1>3. ASSUME NEW t \in Topups, NEW s \in PaymentStatuses, ApplyApiProviderStatus(t, s)
      PROVE  RefundsCover'
  <2> DEFINE row == Updated(topup[t], s)
             new == Aggregated(row, t, reversal)
  <2>1. row.status = "REFUNDED" => topup[t].status = "REFUNDED"
    BY DEF Updated, Effective
  <2>2. CASE topup' = [topup EXCEPT ![t] = row] /\ reversal' = reversal
    BY <1>0, <1>1, <2>1, <2>2
  <2>3. CASE CreditTopup(t, s)
    <3>1. topup' = [topup EXCEPT ![t] = new] /\ reversal' = Reconciled(t)
      BY <1>0, <2>3 DEF CreditTopup
    <3>2. \A j \in Topups : ActiveSum(j, reversal') = ActiveSum(j, reversal)
      <4>1. \A r \in Reversals : reversal'[r].active = reversal[r].active
        BY <1>0, <3>1 DEF Reconciled, ReversalRows
      <4> QED BY <4>1, ActiveSame DEF Of
    <3>3. row \in TopupRows /\ row.status = "SUCCEEDED"
      BY <1>0, <2>3, UpdatedRow DEF CreditTopup, NewlyCredited, Updated
    <3>4. new.status = "REFUNDED" => ActiveSum(t, reversal) >= Amount[t]
      BY <3>3 DEF Aggregated, TopupRows
    <3> HIDE DEF new, row
    <3> QED BY <1>1, <3>1, <3>2, <3>4
  <2> QED BY <1>3, <2>2, <2>3 DEF ApplyApiProviderStatus, ReleaseDeposit, ReverseTopup, NoteStatus
<1>4. ASSUME NEW r \in Reversals, NEW active \in BOOLEAN, NEW stamp \in 1 .. MaxStamp,
             RecordAirwallexWalletReversal(r, active, stamp)
      PROVE  RefundsCover'
  <2> DEFINE t == ReversalOf[r]
             new == Aggregated(topup[t], t, reversal')
  <2>1. t \in Topups /\ topup[t] \in TopupRows
    BY <1>0, WalletAssumption
  <2>2. topup' = [topup EXCEPT ![t] = new] /\ \A x \in Reversals \ {r} : reversal'[x] = reversal[x]
    BY <1>0, <1>4 DEF RecordAirwallexWalletReversal
  <2>3. \A j \in Topups \ {t} : ActiveSum(j, reversal') = ActiveSum(j, reversal)
    BY <2>2, ActiveSame DEF Of
  <2>4. new.status = "REFUNDED" => ActiveSum(t, reversal') >= Amount[t]
    BY <2>1 DEF Aggregated, TopupRows
  <2> HIDE DEF new, t
  <2> QED BY <1>1, <2>1, <2>2, <2>3, <2>4
<1>5. ASSUME NEW t \in Topups, CreateApiTopup(t) \/ AttachApiProviderPayment(t) \/ FailApiTopup(t)
      PROVE  RefundsCover'
  <2>1. reversal' = reversal
    BY <1>5 DEF CreateApiTopup, AttachApiProviderPayment, FailApiTopup
  <2>2. CASE \E x \in {"CREATED", "FAILED", "PENDING_PAYMENT", "REQUIRES_CUSTOMER_ACTION"} :
               topup' = [topup EXCEPT ![t].status = x]
    BY <1>0, <2>1, <2>2 DEF RefundsCover, TopupRows
  <2> QED BY <1>2, <1>5, <2>1, <2>2 DEF CreateApiTopup, AttachApiProviderPayment, FailApiTopup
<1>6. CASE EnsureWallet \/ Manual \/ Spending
  BY <1>2, <1>6 DEF EnsureWallet, Manual, Spending, CreditManually, DebitManually,
         ReserveAiSpend, MarkAiSpendSubmitting, MarkAiSpendSubmitted, MarkAiSpendAmbiguous,
         SetStatus, ReleaseAiSpend, SettleAiSpend, DebitApiWallet, ChargeComposioUsage
<1> QED BY <1>3, <1>4, <1>5, <1>6 DEF Next, Deposits

LEMMA CoverAlways ==
  ASSUME "REFUNDED" \notin PaymentStatuses
  PROVE  Spec => []RefundsCover
<1>1. Init => RefundsCover
  BY DEF Init, RefundsCover
<1>2. IInv /\ IInv' /\ RefundsCover /\ [Next]_vars => RefundsCover'
  <2> SUFFICES ASSUME IInv, IInv', RefundsCover, [Next]_vars PROVE RefundsCover'
    OBVIOUS
  <2>1. CASE UNCHANGED vars
    BY <2>1 DEF vars, RefundsCover
  <2> QED BY <2>1, CoverStep
<1> QED BY <1>1, <1>2, Invariant, PTL DEF Spec

\* Reversals that cover a top-up cover it until one of them is withdrawn.
LEMMA RefundStep ==
  ASSUME "REFUNDED" \notin PaymentStatuses, IInv, IInv', FundsInv, FundsInv', RefundsCover,
         NEW t \in Topups, Refunded(t), ~Withdrawn(t)
  PROVE  Remaining(t)' = 0
<1>1. /\ topup[t] \in TopupRows /\ reversal \in [Reversals -> ReversalRows]
      /\ topup' \in [Topups -> TopupRows] /\ reversal' \in [Reversals -> ReversalRows]
  BY DEF IInv, TypeOK, TopupRows, ReversalRows
<1>2. ActiveSum(t, reversal) >= Amount[t]
  BY DEF FundsInv, RowFits, RefundsCover, Refunded
<1>3. ActiveSum(t, reversal) <= ActiveSum(t, reversal')
  <2>1. Active(t, reversal) \subseteq Active(t, reversal')
    BY <1>1 DEF Active, Withdrawn, ReversalRows
  <2>2. \A r \in Active(t, reversal') : ReversalAmount[r] \in Nat
    BY WalletAssumption DEF Active
  <2> QED BY <2>1, <2>2, ActiveNat, SumPart
<1>4. Amount[t] \in Nat /\ ActiveSum(t, reversal) \in Nat /\ ActiveSum(t, reversal') \in Nat
  BY WalletAssumption, ActiveNat
<1>5. ActiveSum(t, reversal') <= Amount[t]
  BY DEF FundsInv, RowFits
<1>6. ActiveSum(t, reversal') = Amount[t]
  BY <1>2, <1>3, <1>4, <1>5
<1>7. Taken(topup'[t], t, reversal') /\ topup'[t].credited \in BOOLEAN
  BY <1>1 DEF IInv, ReversalsAreApplied, Taken, Of, TopupRows
<1>8. RowLeft(topup'[t], t, reversal') = 0
  BY <1>1, <1>4, <1>6, <1>7, LeftOfRow
<1> QED BY <1>8 DEF RowLeft, Remaining, Of

\* A refund is terminal, whether the payment was reported before it or is reported
\* after it: nothing of the top-up is or becomes balance until a reversal is
\* withdrawn.  For a provider that reports refunds as resources of their own.
THEOREM RefundStays ==
  ASSUME "REFUNDED" \notin PaymentStatuses
  PROVE  Spec => RefundIsTerminal
<1> DEFINE Stays == \A t \in Topups : Refunded(t) => Remaining(t)' = 0 \/ Withdrawn(t)
<1>0. ReportedOnce
  BY DEF ReportedOnce
<1>1. IInv /\ IInv' /\ FundsInv /\ FundsInv' /\ RefundsCover /\ [Next]_vars => [Stays]_vars
  BY RefundStep
<1> QED BY <1>0, <1>1, Invariant, FundsAlways, CoverAlways, PTL DEF Spec, RefundIsTerminal

-----------------------------------------------------------------------------
(***************************************************************************)
(* AI requests.                                                            *)
(***************************************************************************)

\* The variables above the wallet, and what a call that settles relies on.
RequestOK ==
  /\ caller \in [Callers -> Stages]
  /\ inflight \in SUBSET Callers
  /\ executed \in SUBSET Callers
  /\ usage \in [Requests \cup Usages -> Costs \cup {0}]
  /\ early \in SUBSET Usages
  /\ \A c \in Callers : caller[c] = "settling" => usage[KeyOf[c]] > 0

\* A hold whose money cannot go back.
Kept(q) == hold[q].status \in {"SUBMITTING", "SUBMITTED", "AMBIGUOUS", "SETTLED"}

\* A call that got past the submitting mark and is not over, or has left work
\* with the provider.
Engaged(c) ==
  caller[c] \in {"calling", "waiting", "answered", "billing", "settling", "rejected",
                 "unknown", "done"} \/ c \in Sent

\* The calls of one key: at most one is engaged, and its hold is kept.
EngagedOK ==
  /\ \A c \in Callers : Engaged(c) => Kept(KeyOf[c])
  /\ \A c, d \in Callers : Engaged(c) /\ Engaged(d) /\ KeyOf[c] = KeyOf[d] => c = d

\* What a call knows about its work.
StagesOK ==
  /\ inflight \cap executed = {}
  /\ \A c \in Callers :
       /\ caller[c] \in {"start", "reserved", "calling", "rejected"} => c \notin Sent
       /\ caller[c] \in {"answered", "billing", "settling", "done"} => c \in executed

CallIInv == CallTypeOK /\ RequestOK /\ EngagedOK /\ StagesOK /\ ChargesAreEvidenced /\ AnswersArePaid

-----------------------------------------------------------------------------
\* The wallet module's view of a step.

\* The stages and usage rows have their types initially.
LEMMA RequestInit == CallInit => RequestOK
BY DEF CallInit, RequestOK, Stages, Ending

\* A statement of call c moves c only, and is its change or no change at all.
LEMMA StageStep ==
  ASSUME RequestOK, NEW c \in Callers, NEW stage \in Stages, Goto(c, stage)
  PROVE  /\ caller' \in [Callers -> Stages]
         /\ caller'[c] = stage
         /\ \A d \in Callers \ {c} : caller'[d] = caller[d]
BY DEF RequestOK, Goto

\* A usage row gets a cost that the provider may charge.
LEMMA InsertStep ==
  ASSUME RequestOK, NEW u \in Requests \cup Usages, InsertUsage(u)
  PROVE  /\ usage' \in [Requests \cup Usages -> Costs \cup {0}]
         /\ usage[u] = 0 /\ usage'[u] > 0
         /\ \A v \in Requests \cup Usages : v # u => usage'[v] = usage[v]
         /\ UNCHANGED vars
BY WalletAssumption DEF RequestOK, InsertUsage

\* Every step keeps those types.
LEMMA RequestStep ==
  ASSUME RequestOK, [CallNext]_callVars
  PROVE  RequestOK'
<1> USE RequestAssumption
<1>1. ASSUME NEW c \in Callers, NEW stage \in Stages \ {"settling"}, Goto(c, stage),
             inflight' \in SUBSET Callers, executed' \in SUBSET Callers,
             UNCHANGED <<usage, early>>
      PROVE  RequestOK'
  BY <1>1, StageStep DEF RequestOK
<1>2. ASSUME NEW c \in Callers, Progress(c) PROVE RequestOK'
  <2>1. CASE RecordUsage(c)
    <3>1. CASE InsertUsage(KeyOf[c]) /\ (Goto(c, "settling") \/ Goto(c, "unknown"))
      <4>1. /\ usage' \in [Requests \cup Usages -> Costs \cup {0}]
            /\ usage'[KeyOf[c]] > 0
            /\ \A v \in Requests \cup Usages : v # KeyOf[c] => usage'[v] = usage[v]
        BY <3>1, InsertStep
      <4>2. PICK stage \in {"settling", "unknown"} : Goto(c, stage)
        BY <3>1
      <4>3. /\ caller' \in [Callers -> Stages]
            /\ \A d \in Callers \ {c} : caller'[d] = caller[d]
        BY <4>2, StageStep DEF Stages
      <4> QED BY <2>1, <4>1, <4>3 DEF RequestOK, RecordUsage
    <3>2. CASE UNCHANGED <<vars, usage>> /\ Goto(c, "unknown")
      BY <1>1, <2>1, <3>2 DEF RecordUsage, RequestOK, Stages
    <3> QED BY <2>1, <3>1, <3>2 DEF RecordUsage, Statement
  <2>2. CASE CallProvider(c)
    BY <1>1, <2>2 DEF CallProvider, RequestOK, Stages
  <2>3. CASE ~RecordUsage(c) /\ ~CallProvider(c)
    <3>1. \E stage \in Stages \ {"settling"} : Goto(c, stage)
      BY <1>2, <2>3 DEF Progress, Reserve, Submit, ProviderAnswers, OutcomeUnknown,
        ReleaseRejected, MarkUnknown, RecordSubmitted, Settle, Statement, Stages, Ending
    <3>2. UNCHANGED requestVars
      BY <1>2, <2>3 DEF Progress, Reserve, Submit, ProviderAnswers, OutcomeUnknown,
        ReleaseRejected, MarkUnknown, RecordSubmitted, Settle
    <3> QED BY <1>1, <3>1, <3>2 DEF RequestOK, requestVars
  <2> QED BY <2>1, <2>2, <2>3
<1>3. ASSUME NEW c \in Callers, ProviderExecutes(c) PROVE RequestOK'
  BY <1>3 DEF ProviderExecutes, RequestOK
<1>4. ASSUME NEW c \in Callers, ProviderRejects(c) PROVE RequestOK'
  BY <1>1, <1>4 DEF ProviderRejects, RequestOK, Stages
<1>5. ASSUME NEW c \in Callers, Dies(c) PROVE RequestOK'
  BY <1>1, <1>5 DEF Dies, RequestOK, Stages, Ending, requestVars
<1>6. ASSUME NEW u \in Usages, RecordMeteredUsage(u) PROVE RequestOK'
  BY <1>6, InsertStep DEF RecordMeteredUsage, RequestOK
<1>7. ASSUME UNCHANGED <<caller, requestVars>> PROVE RequestOK'
  BY <1>7 DEF RequestOK, requestVars
<1>8. ASSUME NEW u \in Usages, SettlePrepaidUsage(u) \/ ReconcileUnsettledApiUsage(u)
      PROVE  RequestOK'
  BY <1>7, <1>8 DEF SettlePrepaidUsage, ReconcileUnsettledApiUsage
<1>9. CASE Elsewhere
  BY <1>7, <1>9 DEF Elsewhere
<1>10. CASE UNCHANGED callVars
  BY <1>7, <1>10 DEF callVars
<1> QED BY <1>2, <1>3, <1>4, <1>5, <1>6, <1>8, <1>9, <1>10 DEF CallNext

\* A step of a call, the provider or the reconciler is a step of the wallet
\* module, or none.
LEMMA WalletStep ==
  ASSUME RequestOK, [CallNext]_callVars
  PROVE  [Next]_vars
<1> USE RequestAssumption
<1>1. ASSUME NEW q \in Requests, NEW cost \in Costs,
             \/ \E h \in HoldAmounts : ReserveAiSpend(q, h)
             \/ MarkAiSpendSubmitting(q) \/ MarkAiSpendSubmitted(q) \/ MarkAiSpendAmbiguous(q)
             \/ ReleaseAiSpend(q, "DEFINITIVE_REJECTION")
             \/ SettleAiSpend(q, cost)
      PROVE  Next
  BY <1>1 DEF Next, Spending
<1>2. ASSUME NEW c \in Callers, Progress(c) PROVE [Next]_vars
  <2>1. CASE Settle(c)
    <3>1. usage[KeyOf[c]] \in Costs
      BY <2>1, WalletAssumption DEF RequestOK, Settle
    <3> QED BY <1>1, <2>1, <3>1 DEF Settle, Statement
  <2>2. CASE RecordUsage(c) \/ CallProvider(c) \/ ProviderAnswers(c) \/ OutcomeUnknown(c)
    BY <2>2 DEF RecordUsage, Statement, InsertUsage, CallProvider, ProviderAnswers, OutcomeUnknown
  <2>3. CASE Reserve(c) \/ Submit(c) \/ ReleaseRejected(c) \/ MarkUnknown(c) \/ RecordSubmitted(c)
    <3>1. \/ UNCHANGED vars
          \/ \E h \in HoldAmounts : ReserveAiSpend(KeyOf[c], h)
          \/ MarkAiSpendSubmitting(KeyOf[c]) \/ MarkAiSpendSubmitted(KeyOf[c])
          \/ MarkAiSpendAmbiguous(KeyOf[c]) \/ ReleaseAiSpend(KeyOf[c], "DEFINITIVE_REJECTION")
      BY <2>3 DEF Reserve, Submit, ReleaseRejected, MarkUnknown, RecordSubmitted, Statement
    <3> QED BY <3>1 DEF Next, Spending
  <2> QED BY <1>2, <2>1, <2>2, <2>3 DEF Progress
<1>3. ASSUME NEW c \in Callers, ProviderExecutes(c) \/ ProviderRejects(c) \/ Dies(c)
      PROVE  UNCHANGED vars
  BY <1>3 DEF ProviderExecutes, ProviderRejects, Dies
<1>4. ASSUME NEW u \in Usages, RecordMeteredUsage(u) PROVE UNCHANGED vars
  BY <1>4 DEF RecordMeteredUsage, InsertUsage
<1>5. ASSUME NEW u \in Usages, SettlePrepaidUsage(u) \/ ReconcileUnsettledApiUsage(u) PROVE Next
  <2>1. usage[u] \in Costs /\ DebitApiWallet(u, usage[u])
    BY <1>5, WalletAssumption DEF RequestOK, SettlePrepaidUsage, ReconcileUnsettledApiUsage
  <2> QED BY <2>1 DEF Next, Spending
<1>6. CASE Elsewhere
  BY <1>6 DEF Elsewhere, Next
<1>7. CASE UNCHANGED callVars
  BY <1>7 DEF callVars
<1> QED BY <1>2, <1>3, <1>4, <1>5, <1>6, <1>7 DEF CallNext

\* Hence they hold in every reachable state.
LEMMA RequestInvariant == CallSpec => []RequestOK
BY RequestInit, RequestStep, PTL DEF CallSpec

\* The wallet seen by itself behaves as the wallet module specifies, so all its
\* theorems hold of it while calls race, die and retry.
THEOREM CallsObeyWallet == CallSpec => Spec
<1>1. CallInit => Init
  BY DEF CallInit
<1> QED BY <1>1, RequestInvariant, WalletStep, PTL DEF CallSpec, Spec

-----------------------------------------------------------------------------
\* What a step of a call does to holds.

\* A step of a call keeps every kept hold, except that a call that was rejected
\* may release its own.
LEMMA KeptStep ==
  ASSUME TypeOK, NEW c \in Callers, Progress(c), NEW p \in Requests,
         Kept(p), p # KeyOf[c] \/ ~ReleaseRejected(c)
  PROVE  Kept(p)'
<1> USE RequestAssumption
<1>1. /\ hold \in [Requests -> [status : {"none", "SETTLED", "RELEASED"} \cup Unresolved,
                                 amount : Nat]]
      /\ KeyOf[c] \in Requests
  BY DEF TypeOK
<1>2. CASE hold' = hold
  BY <1>2 DEF Kept
<1>3. CASE Reserve(c)
  BY <1>1, <1>2, <1>3 DEF Reserve, Statement, ReserveAiSpend, Kept, vars
<1>4. CASE Submit(c) \/ RecordSubmitted(c) \/ MarkUnknown(c)
  <2>1. \/ hold' = hold
        \/ \E s \in {"SUBMITTING", "SUBMITTED", "AMBIGUOUS"} :
             hold' = [hold EXCEPT ![KeyOf[c]].status = s]
    BY <1>4 DEF Submit, RecordSubmitted, MarkUnknown, Statement, MarkAiSpendSubmitting,
         MarkAiSpendSubmitted, MarkAiSpendAmbiguous, SetStatus, vars
  <2> QED BY <1>1, <1>2, <2>1 DEF Kept
<1>5. CASE Settle(c)
  BY <1>1, <1>2, <1>5 DEF Settle, Statement, SettleAiSpend, Kept, vars
<1>6. CASE ReleaseRejected(c)
  BY <1>1, <1>2, <1>6 DEF ReleaseRejected, Statement, ReleaseAiSpend, Kept, vars
<1>7. CASE CallProvider(c) \/ ProviderAnswers(c) \/ OutcomeUnknown(c) \/ RecordUsage(c)
  BY <1>2, <1>7 DEF CallProvider, ProviderAnswers, OutcomeUnknown, RecordUsage, Statement,
       InsertUsage, vars
<1> QED BY <1>3, <1>4, <1>5, <1>6, <1>7 DEF Progress

\* What happens elsewhere, and metered use, touches no hold.
LEMMA HoldUntouched ==
  ASSUME [CallNext]_callVars, \A c \in Callers : ~Progress(c)
  PROVE  hold' = hold
<1>1. CASE Elsewhere
  BY <1>1 DEF Elsewhere, EnsureWallet, Deposits, Manual, CreditManually, DebitManually,
     CreateApiTopup, AttachApiProviderPayment, FailApiTopup, ApplyApiProviderStatus, CreditTopup,
     ReleaseDeposit, ReverseTopup, NoteStatus, RecordAirwallexWalletReversal
<1>2. ASSUME NEW c \in Callers, ProviderExecutes(c) \/ ProviderRejects(c) \/ Dies(c)
      PROVE  hold' = hold
  BY <1>2 DEF ProviderExecutes, ProviderRejects, Dies, vars
<1>3. ASSUME NEW u \in Usages, \/ RecordMeteredUsage(u) \/ SettlePrepaidUsage(u)
                               \/ ReconcileUnsettledApiUsage(u)
      PROVE  hold' = hold
  BY <1>3 DEF RecordMeteredUsage, InsertUsage, SettlePrepaidUsage, ReconcileUnsettledApiUsage,
       DebitApiWallet, vars
<1>4. CASE UNCHANGED callVars
  BY <1>4 DEF callVars, vars
<1> QED BY <1>1, <1>2, <1>3, <1>4 DEF CallNext

-----------------------------------------------------------------------------
\* One engaged call per key, and its hold kept.

\* Nothing happens to it when no call becomes engaged and kept holds are kept.
LEMMA EngagedStays ==
  ASSUME EngagedOK, \A d \in Callers : Engaged(d)' => Engaged(d),
         \A d \in Callers : Engaged(d)' => (Kept(KeyOf[d]) => Kept(KeyOf[d])')
  PROVE  EngagedOK'
BY DEF EngagedOK

\* A call becomes engaged by the one statement that turns RESERVED into SUBMITTING,
\* and the hold of an engaged call stays kept.
LEMMA EngagedStep ==
  ASSUME TypeOK, RequestOK, EngagedOK, StagesOK, [CallNext]_callVars
  PROVE  EngagedOK'
<1> USE RequestAssumption
<1>1. ASSUME NEW c \in Callers, Progress(c) PROVE EngagedOK'
  <2>1. CASE Submit(c)
    <3>1. CASE MarkAiSpendSubmitting(KeyOf[c]) /\ (Goto(c, "calling") \/ Goto(c, "failed"))
      <4>1. /\ hold[KeyOf[c]].status = "RESERVED" /\ KeyOf[c] \in Requests
            /\ hold' = [hold EXCEPT ![KeyOf[c]].status = "SUBMITTING"]
        BY <3>1 DEF MarkAiSpendSubmitting, SetStatus
      <4>2. \A d \in Callers : KeyOf[d] = KeyOf[c] => ~Engaged(d)
        BY <4>1 DEF EngagedOK, Kept
      <4>3. Kept(KeyOf[c])'
        BY <4>1 DEF TypeOK, Kept
      <4>4. \A d \in Callers : KeyOf[d] # KeyOf[c] => hold'[KeyOf[d]] = hold[KeyOf[d]]
        BY <4>1 DEF TypeOK
      <4>5. \A d \in Callers \ {c} : caller'[d] = caller[d]
        BY <3>1 DEF Goto, RequestOK
      <4>6. \A d \in Callers \ {c} : Engaged(d)' = Engaged(d)
        BY <2>1, <4>5 DEF Engaged, Submit, requestVars, Sent
      <4> QED BY <4>2, <4>3, <4>4, <4>6 DEF EngagedOK, Kept
    <3>2. CASE UNCHANGED <<vars, usage>> /\ Goto(c, "failed")
      <4>1. \A d \in Callers : Engaged(d)' => Engaged(d)
        BY <2>1, <3>2 DEF Engaged, Submit, requestVars, Sent, Goto, RequestOK
      <4> QED BY <3>2, <4>1, EngagedStays DEF Kept, vars
    <3> QED BY <2>1, <3>1, <3>2 DEF Submit, Statement
  <2>2. CASE ReleaseRejected(c)
    <3>1. /\ caller[c] = "rejected" /\ Goto(c, "failed") /\ UNCHANGED requestVars
      BY <2>2 DEF ReleaseRejected, Statement
    <3>2. ~Engaged(c)'
      BY <3>1 DEF StagesOK, Goto, RequestOK, Engaged, Sent, requestVars
    <3>3. \A d \in Callers \ {c} : Engaged(d)' => Engaged(d)
      BY <3>1 DEF Goto, RequestOK, Engaged, Sent, requestVars
    <3>4. Engaged(c)
      BY <3>1 DEF Engaged
    <3>5. \A d \in Callers : Engaged(d)' => KeyOf[d] # KeyOf[c]
      BY <3>2, <3>3, <3>4 DEF EngagedOK
    <3> QED BY <1>1, <3>2, <3>3, <3>5, KeptStep, EngagedStays
  <2>3. CASE ~Submit(c) /\ ~ReleaseRejected(c)
    <3>1. \A d \in Callers : Kept(KeyOf[d]) => Kept(KeyOf[d])'
      BY <1>1, <2>3, KeptStep
    <3>2. \A d \in Callers \ {c} : Engaged(d)' => Engaged(d)
      <4>1. inflight' \subseteq inflight \cup {c} /\ executed' = executed
        BY <1>1, <2>3 DEF Progress, Reserve, CallProvider, ProviderAnswers, OutcomeUnknown,
          MarkUnknown, RecordSubmitted, RecordUsage, Settle, requestVars
      <4>2. \E stage : Goto(c, stage)
        BY <1>1, <2>3 DEF Progress, Reserve, CallProvider, ProviderAnswers, OutcomeUnknown,
          MarkUnknown, RecordSubmitted, RecordUsage, Settle, Statement
      <4> QED BY <4>1, <4>2 DEF Engaged, Sent, Goto, RequestOK
    <3>3. Engaged(c)' => Engaged(c)
      <4>1. CASE Reserve(c)
        BY <4>1 DEF Reserve, Statement, Goto, RequestOK, Engaged, Sent, requestVars
      <4>2. CASE CallProvider(c) \/ ProviderAnswers(c) \/ OutcomeUnknown(c) \/ MarkUnknown(c)
                 \/ RecordSubmitted(c) \/ RecordUsage(c) \/ Settle(c)
        BY <4>2 DEF CallProvider, ProviderAnswers, OutcomeUnknown, MarkUnknown, RecordSubmitted,
          RecordUsage, Settle, Engaged
      <4> QED BY <1>1, <2>3, <4>1, <4>2 DEF Progress
    <3> QED BY <3>1, <3>2, <3>3, EngagedStays
  <2> QED BY <2>1, <2>2, <2>3
<1>2. CASE \A c \in Callers : ~Progress(c)
  <2>1. \A d \in Callers : Kept(KeyOf[d]) => Kept(KeyOf[d])'
    BY <1>2, HoldUntouched DEF Kept
  <2>2. \A d \in Callers : Engaged(d)' => Engaged(d)
    <3>1. ASSUME NEW c \in Callers, ProviderExecutes(c) \/ ProviderRejects(c) \/ Dies(c)
          PROVE  \A d \in Callers : Engaged(d)' => Engaged(d)
      BY <3>1 DEF ProviderExecutes, ProviderRejects, Dies, Goto, RequestOK, Engaged, Sent, requestVars
    <3>2. ASSUME UNCHANGED <<caller, inflight, executed>>
          PROVE  \A d \in Callers : Engaged(d)' => Engaged(d)
      BY <3>2 DEF Engaged, Sent
    <3>3. ASSUME NEW u \in Usages, \/ RecordMeteredUsage(u) \/ SettlePrepaidUsage(u)
                                   \/ ReconcileUnsettledApiUsage(u)
          PROVE  UNCHANGED <<caller, inflight, executed>>
      BY <3>3 DEF RecordMeteredUsage, SettlePrepaidUsage, ReconcileUnsettledApiUsage, requestVars
    <3>4. CASE Elsewhere \/ UNCHANGED callVars
      BY <3>2, <3>4 DEF Elsewhere, callVars, requestVars
    <3> QED BY <1>2, <3>1, <3>2, <3>3, <3>4 DEF CallNext
  <2> QED BY <2>1, <2>2, EngagedStays
<1> QED BY <1>1, <1>2

\* A call that stands after its answer was sent by it and done.
LEMMA StagesStep ==
  ASSUME RequestOK, StagesOK, [CallNext]_callVars
  PROVE  StagesOK'
<1>1. ASSUME NEW c \in Callers, Progress(c) PROVE StagesOK'
  <2>1. CASE CallProvider(c)
    BY <2>1 DEF CallProvider, StagesOK, Sent, Goto, RequestOK
  <2>2. CASE ~CallProvider(c)
    <3>1. UNCHANGED <<inflight, executed>>
      BY <1>1, <2>2 DEF Progress, Reserve, Submit, ProviderAnswers, OutcomeUnknown, ReleaseRejected,
        MarkUnknown, RecordSubmitted, RecordUsage, Settle, requestVars
    <3>2. CASE Reserve(c) \/ Submit(c)
      <4>1. /\ caller[c] \in {"start", "reserved"}
            /\ \E stage \in {"reserved", "calling", "failed"} : Goto(c, stage)
        BY <3>2 DEF Reserve, Submit, Statement
      <4> QED BY <3>1, <4>1 DEF StagesOK, Sent, Goto, RequestOK
    <3>3. CASE ProviderAnswers(c)
      BY <3>1, <3>3 DEF ProviderAnswers, StagesOK, Sent, Goto, RequestOK
    <3>4. CASE OutcomeUnknown(c) \/ ReleaseRejected(c) \/ MarkUnknown(c)
      <4>1. \E stage \in {"unknown", "failed"} : Goto(c, stage)
        BY <3>4 DEF OutcomeUnknown, ReleaseRejected, MarkUnknown, Statement
      <4> QED BY <3>1, <4>1 DEF StagesOK, Sent, Goto, RequestOK
    <3>5. CASE RecordSubmitted(c) \/ RecordUsage(c) \/ Settle(c)
      <4>1. /\ caller[c] \in {"answered", "billing", "settling"}
            /\ \E stage \in {"billing", "settling", "done", "unknown"} : Goto(c, stage)
        BY <3>5 DEF RecordSubmitted, RecordUsage, Settle, Statement
      <4> QED BY <3>1, <4>1 DEF StagesOK, Sent, Goto, RequestOK
    <3> QED BY <1>1, <2>2, <3>2, <3>3, <3>4, <3>5 DEF Progress
  <2> QED BY <2>1, <2>2
<1>2. ASSUME NEW c \in Callers, ProviderExecutes(c) PROVE StagesOK'
  BY <1>2 DEF ProviderExecutes, StagesOK, Sent
<1>3. ASSUME NEW c \in Callers, ProviderRejects(c) PROVE StagesOK'
  BY <1>3 DEF ProviderRejects, StagesOK, Sent, Goto, RequestOK
<1>4. ASSUME NEW c \in Callers, Dies(c) PROVE StagesOK'
  BY <1>4 DEF Dies, StagesOK, Sent, Goto, RequestOK, requestVars
<1>5. ASSUME UNCHANGED <<caller, inflight, executed>> PROVE StagesOK'
  BY <1>5 DEF StagesOK, Sent
<1>6. ASSUME NEW u \in Usages, \/ RecordMeteredUsage(u) \/ SettlePrepaidUsage(u)
                               \/ ReconcileUnsettledApiUsage(u)
      PROVE  StagesOK'
  BY <1>5, <1>6 DEF RecordMeteredUsage, SettlePrepaidUsage, ReconcileUnsettledApiUsage, requestVars
<1>7. CASE Elsewhere \/ UNCHANGED callVars
  BY <1>5, <1>7 DEF Elsewhere, callVars, requestVars
<1> QED BY <1>1, <1>2, <1>3, <1>4, <1>6, <1>7 DEF CallNext

-----------------------------------------------------------------------------
\* Evidence and payment.

\* A usage row of a hold is inserted by the call whose work was done.
LEMMA UsageStep ==
  ASSUME RequestOK, StagesOK, [CallNext]_callVars, NEW q \in Requests,
         usage[q] > 0 => \E c \in executed : KeyOf[c] = q
  PROVE  usage'[q] > 0 => \E c \in executed' : KeyOf[c] = q
<1> USE RequestAssumption
<1>1. executed \subseteq executed'
  BY DEF CallNext, Progress, Reserve, Submit, CallProvider, ProviderAnswers, OutcomeUnknown,
    ReleaseRejected, MarkUnknown, RecordSubmitted, RecordUsage, Settle, ProviderExecutes,
    ProviderRejects, Dies, RecordMeteredUsage, SettlePrepaidUsage, ReconcileUnsettledApiUsage,
    Elsewhere, requestVars, callVars
<1>2. ASSUME usage'[q] = usage[q] PROVE usage'[q] > 0 => \E c \in executed' : KeyOf[c] = q
  BY <1>1, <1>2
<1>3. ASSUME NEW c \in Callers, RecordUsage(c)
      PROVE  usage'[q] > 0 => \E d \in executed' : KeyOf[d] = q
  <2>1. c \in executed
    BY <1>3 DEF RecordUsage, StagesOK
  <2>2. CASE KeyOf[c] = q
    BY <1>1, <2>1, <2>2
  <2>3. CASE KeyOf[c] # q
    BY <1>2, <1>3, <2>3, InsertStep DEF RecordUsage, Statement
  <2> QED BY <2>2, <2>3
<1>4. ASSUME NEW u \in Usages, RecordMeteredUsage(u) PROVE usage'[q] = usage[q]
  BY <1>4, InsertStep DEF RecordMeteredUsage
<1>5. CASE usage' = usage
  BY <1>2, <1>5
<1>6. ASSUME NEW c \in Callers, Progress(c), ~RecordUsage(c) PROVE usage' = usage
  BY <1>6 DEF Progress, Reserve, Submit, CallProvider, ProviderAnswers, OutcomeUnknown,
    ReleaseRejected, MarkUnknown, RecordSubmitted, Settle, requestVars
<1> QED BY <1>2, <1>3, <1>4, <1>5, <1>6 DEF CallNext, ProviderExecutes, ProviderRejects, Dies,
      SettlePrepaidUsage, ReconcileUnsettledApiUsage, Elsewhere, requestVars, callVars

\* Holds are settled by calls whose usage row exists, and rows stay.
LEMMA SettledStep ==
  ASSUME TypeOK, RequestOK, [CallNext]_callVars, NEW q \in Requests,
         hold'[q].status = "SETTLED", hold[q].status # "SETTLED"
  PROVE  \E c \in Callers : Settle(c) /\ KeyOf[c] = q
<1> USE RequestAssumption
<1>1. PICK c \in Callers : Progress(c)
  BY HoldUntouched
<1>2. ASSUME NEW new, hold' = [hold EXCEPT ![KeyOf[c]].status = new], new # "SETTLED"
      PROVE  FALSE
  BY <1>2 DEF TypeOK
<1>3. hold' # hold
  OBVIOUS
<1>4. ~Reserve(c)
  <2>1. ASSUME NEW h, hold' = [hold EXCEPT ![KeyOf[c]] = [status |-> "RESERVED", amount |-> h]]
        PROVE  FALSE
    BY <2>1 DEF TypeOK
  <2> QED BY <1>3, <2>1 DEF Reserve, Statement, ReserveAiSpend, vars
<1>5. ~(\/ Submit(c) \/ RecordSubmitted(c) \/ MarkUnknown(c) \/ ReleaseRejected(c))
  BY <1>2, <1>3 DEF Submit, RecordSubmitted, MarkUnknown, ReleaseRejected, Statement,
    MarkAiSpendSubmitting, MarkAiSpendSubmitted, MarkAiSpendAmbiguous, ReleaseAiSpend, SetStatus, vars
<1>6. ~(\/ CallProvider(c) \/ ProviderAnswers(c) \/ OutcomeUnknown(c) \/ RecordUsage(c))
  BY <1>3 DEF CallProvider, ProviderAnswers, OutcomeUnknown, RecordUsage, Statement, InsertUsage, vars
<1>7. CASE Settle(c)
  BY <1>3, <1>7 DEF Settle, Statement, SettleAiSpend, TypeOK, vars
<1> QED BY <1>1, <1>4, <1>5, <1>6, <1>7 DEF Progress

\* The evidence of a charge is kept by every step.
LEMMA EvidenceStep ==
  ASSUME TypeOK, RequestOK, StagesOK, ChargesAreEvidenced, [CallNext]_callVars
  PROVE  ChargesAreEvidenced'
<1> USE RequestAssumption
<1>1. \A q \in Requests : usage'[q] > 0 => \E c \in executed' : KeyOf[c] = q
  BY UsageStep DEF ChargesAreEvidenced
<1>2. ASSUME NEW q \in Requests, usage[q] > 0 PROVE usage'[q] > 0
  <2>1. ASSUME NEW u \in Requests \cup Usages, InsertUsage(u) PROVE usage'[q] > 0
    BY <1>2, <2>1, InsertStep
  <2>2. CASE usage' = usage
    BY <1>2, <2>2
  <2> QED BY <2>1, <2>2 DEF CallNext, Progress, Reserve, Submit, CallProvider, ProviderAnswers,
        OutcomeUnknown, ReleaseRejected, MarkUnknown, RecordSubmitted, RecordUsage, Settle,
        Statement, ProviderExecutes, ProviderRejects, Dies, RecordMeteredUsage,
        SettlePrepaidUsage, ReconcileUnsettledApiUsage, Elsewhere, requestVars, callVars
<1>3. ASSUME NEW q \in Requests, hold'[q].status = "SETTLED" PROVE usage[q] > 0
  <2>1. CASE hold[q].status = "SETTLED"
    BY <2>1 DEF ChargesAreEvidenced
  <2>2. CASE hold[q].status # "SETTLED"
    <3>1. PICK c \in Callers : Settle(c) /\ KeyOf[c] = q
      BY <1>3, <2>2, SettledStep
    <3> QED BY <3>1 DEF Settle, RequestOK
  <2> QED BY <2>1, <2>2
<1> QED BY <1>1, <1>2, <1>3 DEF ChargesAreEvidenced

\* A call ends as done only by settling its hold, which is final.
LEMMA PaidStep ==
  ASSUME TypeOK, RequestOK, StagesOK, StagesOK', AnswersArePaid, [CallNext]_callVars
  PROVE  AnswersArePaid'
<1> USE RequestAssumption
<1>1. ASSUME NEW q \in Requests, hold[q].status = "SETTLED" PROVE hold'[q].status = "SETTLED"
  BY <1>1, WalletStep, ResolvedStep DEF vars
<1>2. ASSUME NEW c \in Callers, caller'[c] = "done", caller[c] # "done"
      PROVE  hold'[KeyOf[c]].status = "SETTLED"
  <2>1. Settle(c) /\ SettleAiSpend(KeyOf[c], usage[KeyOf[c]])
    <3>1. ASSUME NEW d \in Callers, NEW stage, Goto(d, stage) PROVE d = c /\ stage = "done"
      BY <1>2, <3>1 DEF Goto, RequestOK
    <3>2. caller' # caller
      BY <1>2
    <3>3. \E d \in Callers : Progress(d)
      BY <3>1, <3>2 DEF CallNext, ProviderExecutes, ProviderRejects, Dies, RecordMeteredUsage,
        SettlePrepaidUsage, ReconcileUnsettledApiUsage, Elsewhere, callVars
    <3>4. PICK d \in Callers : Progress(d)
      BY <3>3
    <3>5. Settle(d)
      BY <3>1, <3>4 DEF Progress, Reserve, Submit, CallProvider, ProviderAnswers, OutcomeUnknown,
        ReleaseRejected, MarkUnknown, RecordSubmitted, RecordUsage, Statement
    <3> QED BY <3>1, <3>5 DEF Settle, Statement
  <2> QED BY <2>1 DEF SettleAiSpend, TypeOK
<1> QED BY <1>1, <1>2 DEF AnswersArePaid, StagesOK

-----------------------------------------------------------------------------
\* The inductive invariant.
LEMMA CallInvariant == CallSpec => []CallIInv
<1>1. TypeOK /\ CallInit => CallIInv
  <2> SUFFICES ASSUME TypeOK, CallInit PROVE CallIInv
    OBVIOUS
  <2> USE RequestAssumption
  <2>2. RequestOK
    BY RequestInit
  <2>3. EngagedOK /\ StagesOK
    BY DEF CallInit, EngagedOK, StagesOK, Engaged, Sent
  <2>4. ChargesAreEvidenced /\ AnswersArePaid
    BY DEF CallInit, Init, ChargesAreEvidenced, AnswersArePaid
  <2> QED BY <2>2, <2>3, <2>4 DEF CallIInv, CallTypeOK, RequestOK
<1>2. TypeOK' /\ CallIInv /\ [CallNext]_callVars => CallIInv'
  <2> SUFFICES ASSUME TypeOK', CallIInv, [CallNext]_callVars PROVE CallIInv'
    OBVIOUS
  <2>1. RequestOK' /\ StagesOK'
    BY RequestStep, StagesStep DEF CallIInv
  <2>2. EngagedOK'
    BY EngagedStep DEF CallIInv, CallTypeOK
  <2>3. ChargesAreEvidenced' /\ AnswersArePaid'
    BY <2>1, EvidenceStep, PaidStep DEF CallIInv, CallTypeOK
  <2> QED BY <2>1, <2>2, <2>3 DEF CallIInv, CallTypeOK, RequestOK
<1> QED BY <1>1, <1>2, CallsObeyWallet, TypeCorrect, PTL DEF CallSpec

\* The rows and the stages of calls are what the modules say they are.
THEOREM CallTypeCorrect == CallSpec => []CallTypeOK
<1>1. CallIInv => CallTypeOK
  BY DEF CallIInv
<1> QED BY <1>1, CallInvariant, PTL

\* However many calls use a key, the provider works for one of them at most.
THEOREM OneExecutionPerKey == CallSpec => []WorkIsDoneOnce
<1>1. CallIInv => WorkIsDoneOnce
  BY DEF CallIInv, EngagedOK, CallTypeOK, WorkIsDoneOnce, Engaged, Sent
<1> QED BY <1>1, CallInvariant, PTL

\* The hold of work that was done or may be is not released.
THEOREM HoldsOutliveWork == CallSpec => []WorkStaysHeld
<1>1. CallIInv => WorkStaysHeld
  BY DEF CallIInv, EngagedOK, CallTypeOK, WorkStaysHeld, Engaged, Kept, Sent
<1> QED BY <1>1, CallInvariant, PTL

\* Only work that was done and recorded is paid for.
THEOREM ChargedWorkIsDone == CallSpec => []ChargesAreEvidenced
<1>1. CallIInv => ChargesAreEvidenced
  BY DEF CallIInv
<1> QED BY <1>1, CallInvariant, PTL

\* No answer leaves before its hold is settled.
THEOREM AnswersComeAfterPayment == CallSpec => []AnswersArePaid
<1>1. CallIInv => AnswersArePaid
  BY DEF CallIInv
<1> QED BY <1>1, CallInvariant, PTL

-----------------------------------------------------------------------------
\* Voice sessions.

\* What a close call has behind it at each await.
CloserOK(c) ==
  /\ closer[c].at = "metering" => closer[c].cost > 0
  /\ closer[c].at = "settling" => metered > 0
  /\ closer[c].at = "finishing" => metered > 0 /\ debited

\* Calls that were answered have a session.
VoiceTyped ==
  /\ VoiceTypeOK
  /\ Started => session \in {"active", "ended", "deleted"}

VoiceInv == VoiceTyped /\ EndedIsCharged /\ \A c \in Closers : CloserOK(c)

\* A create call that fails after another was answered leaves their row alone.
NoLateFailure ==
  \A k \in Creators :
    Started /\ creator[k] = "failing" /\ creator'[k] = "failed" => session' = session

Creating(k) ==
  \/ InsertSession(k) \/ OpenAiRealtimeAnswer(k) \/ StoreActive(k)
  \/ StoreFailed(k) \/ CreateDies(k)

ClosingStep(c) ==
  \/ FindSession(c) \/ RecordSessionUsage(c) \/ SettleSessionUsage(c)
  \/ FinishSession(c) \/ Fails(c)

Aside ==
  \/ TimePasses \/ DeleteSession \/ ReconcileSessionUsage
  \/ UNCHANGED voiceVars

LEMMA VoiceInvInit == VoiceInit => VoiceInv
<1> SUFFICES ASSUME VoiceInit PROVE VoiceInv
  OBVIOUS
<1> USE DEF VoiceInit
<1>1. minutes \in 1 .. MaxMinutes /\ metered \in 0 .. minutes /\ 0 \in 0 .. minutes
  BY VoiceAssumption
<1>2. VoiceTypeOK
  BY <1>1 DEF VoiceTypeOK, CloseStages, CreateStages
<1>3. ~Started /\ \A c \in Closers : CloserOK(c)
  BY DEF Started, CloserOK
<1> QED BY <1>2, <1>3 DEF VoiceInv, VoiceTyped, EndedIsCharged

\* What a create call leaves alone; only the one that stores an answer is answered.
LEMMA CreateMoves ==
  ASSUME VoiceTyped, NEW k \in Creators, Creating(k)
  PROVE  /\ UNCHANGED <<minutes, metered, debited, closer>>
         /\ VoiceTypeOK'
         /\ Started' => Started \/ session' \in {"active", "deleted"}
         /\ \/ session' = session
            \/ InsertSession(k) /\ session = "none"
            \/ StoreActive(k) /\ session' \in {"active", "deleted"}
            \/ StoreFailed(k) /\ session' \in {"ended", "deleted"}
<1> USE DEF VoiceTyped, Creating, CreateGoto, CreateStages
<1>1. UNCHANGED <<minutes, metered, debited, closer>>
  BY DEF InsertSession, OpenAiRealtimeAnswer, StoreActive, StoreFailed,
         CreateDies
<1>2. VoiceTypeOK'
  BY <1>1 DEF InsertSession, OpenAiRealtimeAnswer, StoreActive, StoreFailed,
              CreateDies, VoiceTypeOK, SetSession
<1>3. \/ session' = session
      \/ InsertSession(k) /\ session = "none"
      \/ StoreActive(k) /\ session' \in {"active", "deleted"}
      \/ StoreFailed(k) /\ session' \in {"ended", "deleted"}
  BY DEF InsertSession, OpenAiRealtimeAnswer, StoreActive, StoreFailed,
         CreateDies, SetSession
<1>4. Started' => Started \/ session' \in {"active", "deleted"}
  BY DEF InsertSession, OpenAiRealtimeAnswer, StoreActive, StoreFailed,
         CreateDies, SetSession, Started, VoiceTypeOK
<1> QED BY <1>1, <1>2, <1>3, <1>4

\* A close call writes the cost it has computed and moves on.
LEMMA CloseMoves ==
  ASSUME VoiceTyped, NEW c \in Closers, ClosingStep(c)
  PROVE  /\ UNCHANGED <<minutes, creator>> /\ VoiceTypeOK'
         /\ \A d \in Closers \ {c} : closer'[d] = closer[d]
         /\ session' = session \/ (closer[c].at = "finishing" /\ SetSession("ended"))
         /\ metered' = metered \/ (closer[c].at = "metering" /\ metered = 0)
         /\ debited => debited'
<1> USE DEF VoiceTyped, ClosingStep
<1>1. /\ UNCHANGED <<minutes, creator>>
      /\ \A d \in Closers \ {c} : closer'[d] = closer[d]
      /\ session' = session \/ (closer[c].at = "finishing" /\ SetSession("ended"))
      /\ metered' = metered \/ (closer[c].at = "metering" /\ metered = 0 /\ metered' = closer[c].cost)
      /\ debited' = debited \/ debited' = TRUE
  BY DEF FindSession, RecordSessionUsage, SettleSessionUsage, FinishSession,
         Fails, CloseGoto, VoiceTypeOK
<1>2. closer' \in [Closers -> [at : CloseStages, cost : 0 .. minutes]]
  <2>1. minutes \in 0 .. minutes /\ 0 \in 0 .. minutes
    BY DEF VoiceTypeOK
  <2>2. CASE FindSession(c)
    <3>1. session \in {"active", "ended", "deleted"}
      BY <2>2 DEF FindSession
    <3>2. \E row \in [at : CloseStages, cost : 0 .. minutes] : closer' = [closer EXCEPT ![c] = row]
      <4>1. CASE session = "active"
        BY <2>1, <2>2, <4>1 DEF FindSession, CloseStages
      <4>2. CASE session = "ended"
        BY <2>1, <2>2, <4>2 DEF FindSession, CloseStages
      <4>3. CASE session = "deleted"
        BY <2>1, <2>2, <4>3 DEF FindSession, CloseStages
      <4> QED BY <3>1, <4>1, <4>2, <4>3
    <3> QED BY <3>2 DEF VoiceTypeOK
  <2>3. CASE ~FindSession(c)
    <3>1. PICK s \in CloseStages : closer' = [closer EXCEPT ![c].at = s]
      BY <2>3 DEF RecordSessionUsage, SettleSessionUsage, FinishSession, Fails,
                  CloseGoto, CloseStages
    <3> QED BY <3>1 DEF VoiceTypeOK
  <2> QED BY <2>2, <2>3
<1>3. VoiceTypeOK'
  <2>1. metered' \in 0 .. minutes /\ debited' \in BOOLEAN
    BY <1>1 DEF VoiceTypeOK
  <2>2. session' \in {"none", "starting", "active", "ended", "deleted"}
    BY <1>1 DEF VoiceTypeOK, SetSession
  <2> QED BY <1>1, <1>2, <2>1, <2>2 DEF VoiceTypeOK
<1> QED BY <1>1, <1>3

LEMMA AsideMoves ==
  ASSUME VoiceTyped, Aside
  PROVE  /\ UNCHANGED <<creator, closer, metered>> /\ VoiceTypeOK'
         /\ debited => debited'
         /\ session' = session \/ session' = "deleted"
<1> USE DEF VoiceTyped
<1>1. /\ UNCHANGED <<creator, closer, metered>>
      /\ debited' = debited \/ debited' = TRUE
      /\ minutes' \in Nat /\ minutes <= minutes' /\ minutes' <= MaxMinutes
      /\ session' = session \/ session' = "deleted"
  BY VoiceAssumption DEF Aside, TimePasses, DeleteSession, ReconcileSessionUsage, voiceVars,
         VoiceTypeOK
<1>2. minutes \in 1 .. MaxMinutes /\ metered \in 0 .. minutes
  BY DEF VoiceTypeOK
<1>3. /\ minutes' \in 1 .. MaxMinutes /\ metered' \in 0 .. minutes'
      /\ \A n \in 0 .. minutes : n \in 0 .. minutes'
  BY <1>1, <1>2, VoiceAssumption
<1>4. closer' \in [Closers -> [at : CloseStages, cost : 0 .. minutes']]
  <2>1. closer' = closer /\ closer \in [Closers -> [at : CloseStages, cost : 0 .. minutes]]
    BY <1>1 DEF VoiceTypeOK
  <2>2. \A c \in Closers : closer[c] \in [at : CloseStages, cost : 0 .. minutes']
    BY <1>3, <2>1
  <2> QED BY <2>1, <2>2
<1>5. VoiceTypeOK'
  BY <1>1, <1>3, <1>4 DEF VoiceTypeOK
<1> QED BY <1>1, <1>5

LEMMA VoiceSteps ==
  ASSUME [VoiceNext]_voiceVars
  PROVE  (\E k \in Creators : Creating(k)) \/ (\E c \in Closers : ClosingStep(c)) \/ Aside
BY DEF VoiceNext, Creating, ClosingStep, Aside

LEMMA VoiceTypedNext == VoiceTyped /\ [VoiceNext]_voiceVars => VoiceTyped'
<1> SUFFICES ASSUME VoiceTyped, [VoiceNext]_voiceVars
             PROVE  VoiceTyped'
  OBVIOUS
<1>1. ASSUME NEW k \in Creators, Creating(k) PROVE VoiceTyped'
  BY <1>1, CreateMoves DEF VoiceTyped
<1>2. ASSUME NEW c \in Closers, ClosingStep(c) PROVE VoiceTyped'
  BY <1>2, CloseMoves DEF VoiceTyped, Started, SetSession
<1>3. CASE Aside
  BY <1>3, AsideMoves DEF VoiceTyped, Started
<1> QED BY <1>1, <1>2, <1>3, VoiceSteps

LEMMA CreateCharged ==
  ASSUME VoiceInv, NoLateFailure, NEW k \in Creators, Creating(k)
  PROVE  EndedIsCharged' /\ \A c \in Closers : CloserOK(c)'
<1> USE DEF VoiceInv
<1>1. \A c \in Closers : CloserOK(c)'
  BY CreateMoves DEF CloserOK
<1>2. Started /\ session' # session => session' \in {"active", "deleted"}
  <2>1. StoreFailed(k) => creator[k] = "failing" /\ creator'[k] = "failed"
    BY DEF StoreFailed, CreateGoto, VoiceTyped, VoiceTypeOK
  <2>2. Started => session # "none"
    BY DEF VoiceTyped
  <2> QED BY <2>1, <2>2, CreateMoves DEF NoLateFailure
<1> QED BY <1>1, <1>2, CreateMoves DEF EndedIsCharged

\* A session is ended by a close call that has metered and settled it.
LEMMA CloseCharged ==
  ASSUME VoiceInv, NEW c \in Closers, ClosingStep(c)
  PROVE  EndedIsCharged' /\ \A d \in Closers : CloserOK(d)'
<1> USE DEF VoiceInv
<1>1. metered > 0 => metered' > 0
  BY CloseMoves
<1>2. debited => debited'
  BY CloseMoves
<1>3. \A d \in Closers \ {c} : CloserOK(d)'
  BY <1>1, <1>2, CloseMoves DEF CloserOK
<1>4. CloserOK(c)'
  <2>1. closer \in [Closers -> [at : CloseStages, cost : 0 .. minutes]] /\ minutes > 0
    BY DEF VoiceTyped, VoiceTypeOK
  <2>2. CASE FindSession(c)
    <3>1. CASE session = "active"
      BY <2>1, <2>2, <3>1 DEF FindSession, CloserOK
    <3>2. CASE session = "ended"
      <4>1. metered > 0 /\ debited /\ UNCHANGED <<metered, debited>>
        BY <2>2, <3>2 DEF FindSession, EndedIsCharged
      <4> QED BY <2>1, <2>2, <3>2, <4>1 DEF FindSession, CloserOK
    <3>3. CASE session = "deleted"
      BY <2>1, <2>2, <3>3 DEF FindSession, CloserOK
    <3> QED BY <2>2, <3>1, <3>2, <3>3 DEF FindSession, VoiceTyped
  <2>3. CASE ~FindSession(c)
    BY <2>1, <2>3 DEF ClosingStep, RecordSessionUsage, SettleSessionUsage,
                      FinishSession, Fails, CloseGoto, CloserOK, VoiceTyped, VoiceTypeOK
  <2> QED BY <2>2, <2>3
<1>5. EndedIsCharged'
  <2>1. CASE session' = session
    BY <1>1, <1>2, <2>1, CloseMoves DEF EndedIsCharged, Started
  <2>2. CASE closer[c].at = "finishing"
    BY <1>1, <1>2, <2>2 DEF CloserOK, EndedIsCharged
  <2> QED BY <2>1, <2>2, CloseMoves
<1> QED BY <1>3, <1>4, <1>5

LEMMA VoiceInvNext ==
  VoiceInv /\ [VoiceNext /\ NoLateFailure]_voiceVars => VoiceInv'
<1> SUFFICES ASSUME VoiceInv, [VoiceNext /\ NoLateFailure]_voiceVars
             PROVE  EndedIsCharged' /\ \A c \in Closers : CloserOK(c)'
  BY VoiceTypedNext DEF VoiceInv
<1>1. CASE Aside
  BY <1>1, AsideMoves DEF VoiceInv, Started, EndedIsCharged, CloserOK
<1>2. CASE VoiceNext /\ NoLateFailure
  BY <1>1, <1>2, CreateCharged, CloseCharged, VoiceSteps
<1> QED BY <1>1, <1>2 DEF Aside

\* Types of the row and of the calls; what a session is metered for never exceeds
\* its minutes, however many create and close calls there are.
THEOREM VoiceTypesHold == VoiceSpec => []VoiceTypeOK
<1>1. VoiceInit => VoiceTyped
  BY VoiceInvInit DEF VoiceInv
<1>2. VoiceTyped => VoiceTypeOK
  BY DEF VoiceTyped
<1>3. VoiceTyped /\ [VoiceNext]_voiceVars => VoiceTyped'
  BY VoiceTypedNext
<1> QED BY <1>1, <1>2, <1>3, PTL DEF VoiceSpec

\* However many create calls share a session and close calls race, fail and die:
\* an ended session that was handed out is metered and debited, unless a create
\* call that failed ended the row of one that was answered (README, section 5).
THEOREM EndedSessionsAreCharged ==
  VoiceSpec /\ [][NoLateFailure]_voiceVars => []EndedIsCharged
<1>1. VoiceInv => EndedIsCharged
  BY DEF VoiceInv
<1>2. VoiceInit => VoiceInv
  BY VoiceInvInit
<1>3. VoiceInv /\ [VoiceNext /\ NoLateFailure]_voiceVars => VoiceInv'
  BY VoiceInvNext
<1>4. [VoiceNext]_voiceVars /\ [NoLateFailure]_voiceVars
         => [VoiceNext /\ NoLateFailure]_voiceVars
  OBVIOUS
<1> QED BY <1>1, <1>2, <1>3, <1>4, PTL DEF VoiceSpec

\* One create call cannot fail after it was answered.
THEOREM EndedSessionsOfOneCallAreCharged ==
  ASSUME \A j, k \in Creators : j = k
  PROVE  VoiceSpec => []EndedIsCharged
<1>1. NoLateFailure
  BY DEF NoLateFailure, Started
<1> QED BY <1>1, EndedSessionsAreCharged, PTL
=============================================================================
