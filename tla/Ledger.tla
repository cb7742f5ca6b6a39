------------------------------- MODULE Ledger -------------------------------
(***************************************************************************)
(* The shadow account (ledger/service.py, ledger/accounts.py): a           *)
(* double-entry ledger in memory.  A debit is positive, a credit negative, *)
(* and post() refuses a transaction that does not sum to zero, overdraws   *)
(* cash or over-releases the reserves; a refused call changes nothing, so  *)
(* it is no step here.  Beside the books the model keeps what really moved *)
(* between the account and the outside (wallet), and the capital-time that *)
(* really passed (integral), to judge the books by.                        *)
(***************************************************************************)
EXTENDS Totals

CONSTANTS
  Ticker,          (* contracts a position can be held in                   *)
  Amount,          (* sums of money the callers use, in the model's unit    *)
  Cent,            (* units in a cent: costs and fees carry fractions of one *)
  MaxTransactions, (* bound on the transactions posted                      *)
  MaxNow           (* bound on the clock                                    *)

ASSUME LedgerConstants ==
  /\ IsFiniteSet(Ticker)
  /\ Amount \subseteq Nat
  /\ Cent \in Nat \ {0}
  /\ MaxTransactions \in Nat
  /\ MaxNow \in Nat

(* The fixed accounts; a position per ticker comes beside them. *)
AccountKind == {"cash", "opening_capital", "reserved", "fees", "realized_pnl", "unwind_loss"}

VARIABLES
  balances,        (* the fixed accounts                                    *)
  position,        (* what each ticker's position cost                      *)
  transactions,    (* how many have been posted                             *)
  capitalDays,     (* CapitalLedger.capital_days                            *)
  committedSince,  (* _committed_since; -1 before the first transaction     *)
  now,             (* the time the callers stamp their transactions with    *)
  paidIn,          (* history: what the owner deposited                     *)
  wallet,          (* history: the money really there                       *)
  integral         (* history: committed capital, added up tick by tick     *)

vars == <<balances, position, transactions, capitalDays, committedSince, now,
          paidIn, wallet, integral>>

Init ==
  /\ balances = [a \in AccountKind |-> 0]
  /\ position = [t \in Ticker |-> 0]
  /\ transactions = 0
  /\ capitalDays = 0
  /\ committedSince = -1
  /\ now = 0
  /\ paidIn = 0
  /\ wallet = 0
  /\ integral = 0

-----------------------------------------------------------------------------
(* Reading the books. *)

Committed == balances["reserved"] + Total(position)

\* Mutant: the unwinds are left out of the profit.
PnlWithoutUnwinds == - balances["realized_pnl"] - balances["fees"]

RealizedPnl == - balances["realized_pnl"] - balances["fees"] - balances["unwind_loss"]

(* Rounding against the account: a cost or a fee up to the cent. *)
\* Mutant: a fraction of a cent is dropped.
CostRoundedDown(amount) == (amount \div Cent) * Cent

QuantizeCost(amount) == ((amount + Cent - 1) \div Cent) * Cent

-----------------------------------------------------------------------------
(* Writing them. *)

\* Mutant: accrued on what the transaction leaves committed.
AccrueFromEntry ==
  /\ capitalDays' = IF committedSince >= 0 /\ Committed > 0
                    THEN capitalDays + Committed' * (now - committedSince)
                    ELSE capitalDays
  /\ committedSince' = now

(* _accrue_capital_days: the stretch that ends now, on the capital committed *)
(* during it, before the transaction changes it.                             *)
Accrue ==
  /\ capitalDays' = IF committedSince >= 0 /\ Committed > 0
                    THEN capitalDays + Committed * (now - committedSince)
                    ELSE capitalDays
  /\ committedSince' = now

(* The sum of a transaction's postings; `held' is the posting to a position. *)
PostingTotal(cash, opening, reserved, fees, pnl, unwound, held) ==
  cash + opening + reserved + fees + pnl + unwound + held

Post(cash, opening, reserved, fees, pnl, unwound, held, ticker) ==
  /\ transactions < MaxTransactions
  /\ PostingTotal(cash, opening, reserved, fees, pnl, unwound, held) = 0
  /\ balances["cash"] + cash >= 0
  /\ balances["reserved"] + reserved >= 0
  /\ balances' = [balances EXCEPT !["cash"] = @ + cash,
                                  !["opening_capital"] = @ + opening,
                                  !["reserved"] = @ + reserved,
                                  !["fees"] = @ + fees,
                                  !["realized_pnl"] = @ + pnl,
                                  !["unwind_loss"] = @ + unwound]
  /\ position' = [position EXCEPT ![ticker] = @ + held]
  /\ transactions' = transactions + 1
  /\ Accrue
  /\ UNCHANGED <<now, integral>>

Deposit(amount) ==
  /\ amount > 0
  /\ \E t \in Ticker : Post(amount, - amount, 0, 0, 0, 0, 0, t)
  /\ paidIn' = paidIn + amount
  /\ wallet' = wallet + amount

Reserve(amount) ==
  /\ amount > 0
  /\ \E t \in Ticker : Post(- amount, 0, amount, 0, 0, 0, 0, t)
  /\ UNCHANGED <<paidIn, wallet>>

(* No sign is checked here: a negative release reserves. *)
Release(amount) ==
  /\ \E t \in Ticker : Post(amount, 0, - amount, 0, 0, 0, 0, t)
  /\ UNCHANGED <<paidIn, wallet>>

Fill(t, cost, fee, fromReserved) ==
  LET paid == QuantizeCost(cost)
      charged == QuantizeCost(fee)
      outlay == paid + charged
  IN  /\ IF fromReserved
         THEN Post(0, 0, - outlay, charged, 0, 0, paid, t)
         ELSE Post(- outlay, 0, 0, charged, 0, 0, paid, t)
      /\ wallet' = wallet - cost - fee
      /\ UNCHANGED paidIn

Settle(t, proceeds) ==
  LET held == position[t]
  IN  /\ held > 0
      /\ Post(proceeds, 0, 0, 0, held - proceeds, 0, - held, t)
      /\ wallet' = wallet + proceeds
      /\ UNCHANGED paidIn

Unwind(t, proceeds, fee) ==
  LET held == position[t]
      charged == QuantizeCost(fee)
  IN  /\ held > 0
      /\ Post(proceeds - charged, 0, 0, charged, 0, held - proceeds, - held, t)
      /\ wallet' = wallet + proceeds - fee
      /\ UNCHANGED paidIn

(* Time passes between two transactions. *)
Tick ==
  /\ now < MaxNow
  /\ now' = now + 1
  /\ integral' = integral + Committed
  /\ UNCHANGED <<balances, position, transactions, capitalDays, committedSince, paidIn, wallet>>

Next ==
  \/ \E a \in Amount : Deposit(a) \/ Reserve(a) \/ Release(a) \/ Release(- a)
  \/ \E t \in Ticker, cost, fee \in Amount, fromReserved \in BOOLEAN :
       Fill(t, cost, fee, fromReserved)
  \/ \E t \in Ticker, proceeds \in Amount : Settle(t, proceeds)
  \/ \E t \in Ticker, proceeds, fee \in Amount : Unwind(t, proceeds, fee)
  \/ Tick

Spec == Init /\ [][Next]_vars

-----------------------------------------------------------------------------

(* The books are numbers; cash and reserves are never below zero.          *)
TypeOK ==
  /\ balances \in [AccountKind -> Int]
  /\ balances["cash"] \in Nat /\ balances["reserved"] \in Nat
  /\ position \in [Ticker -> Nat]
  /\ transactions \in Nat
  /\ capitalDays \in Int
  /\ committedSince \in Nat \cup {-1}
  /\ now \in Nat
  /\ committedSince <= now
  /\ paidIn \in Int /\ wallet \in Int /\ integral \in Int

(* The account is worth what was paid in plus the profit it reports,       *)
(* whatever mix of fills, settlements and unwinds came before: no loss, fee *)
(* or rounding goes missing from realized_pnl (accounts.py: a sign the     *)
(* wrong way round would balance and still print money).                   *)
ProfitIsMeasured ==
  balances["cash"] + Committed = paidIn + RealizedPnl

(* The books never show more money than there is: what rounding leaves over *)
(* is on the safe side, over any number of fills and unwinds.              *)
NoMoneyFromNothing ==
  balances["cash"] + balances["reserved"] <= wallet

(* Capital-days, accrued only when something is posted, are exactly the    *)
(* capital that was committed in each tick that passed, the stretch since  *)
(* the last transaction aside.                                             *)
CapitalDaysExact ==
  capitalDays + (IF committedSince >= 0 THEN Committed * (now - committedSince) ELSE 0)
    = integral
=============================================================================
