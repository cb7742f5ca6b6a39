---------------------------- MODULE LedgerProofs ----------------------------
(***************************************************************************)
(* The shadow account's books, for every set of contracts and sums of      *)
(* money.  Every operation that writes goes through Post, so each fact is  *)
(* proved of Post once and of each operation by what it posts.             *)
(***************************************************************************)
EXTENDS Ledger, TotalsProofs

\* Rounding a cost up to the cent never pays less than the cost.
LEMMA CostRoundsUp ==
  ASSUME NEW amount \in Nat
  PROVE  QuantizeCost(amount) \in Nat /\ QuantizeCost(amount) >= amount
<1>1. Cent \in Nat /\ Cent > 0
  BY LedgerConstants
<1> DEFINE n == amount + Cent - 1
           q == n \div Cent
<1>2. n \in Nat
  BY <1>1
<1>3. q \in Nat /\ n % Cent \in 0 .. (Cent - 1) /\ n = Cent * q + (n % Cent)
  BY <1>1, <1>2
<1>4. q * Cent \in Nat /\ q * Cent = Cent * q
  BY <1>1, <1>3
<1> HIDE DEF q
<1>5. q * Cent >= amount
  BY <1>1, <1>3, <1>4
<1> QED BY <1>4, <1>5 DEF q, QuantizeCost

\* What any balanced posting does to the books.
LEMMA PostEffect ==
  ASSUME TypeOK,
         NEW cash \in Int, NEW opening \in Int, NEW reserved \in Int, NEW fee \in Int,
         NEW pnl \in Int, NEW unwound \in Int, NEW held \in Int, NEW t \in Ticker,
         position[t] + held \in Nat,
         Post(cash, opening, reserved, fee, pnl, unwound, held, t)
  PROVE  /\ balances' \in [AccountKind -> Int]
         /\ balances'["cash"] = balances["cash"] + cash
         /\ balances'["reserved"] = balances["reserved"] + reserved
         /\ balances'["cash"] \in Nat /\ balances'["reserved"] \in Nat
         /\ balances'["fees"] = balances["fees"] + fee
         /\ balances'["realized_pnl"] = balances["realized_pnl"] + pnl
         /\ balances'["unwind_loss"] = balances["unwind_loss"] + unwound
         /\ cash + opening + reserved + fee + pnl + unwound + held = 0
         /\ position' \in [Ticker -> Nat]
         /\ Total(position) \in Nat /\ Total(position') \in Nat
         /\ Total(position') = Total(position) + held
         /\ transactions' = transactions + 1
         /\ committedSince' = now /\ now' = now /\ integral' = integral
<1>1. /\ balances' = [balances EXCEPT !["cash"] = @ + cash,
                                      !["opening_capital"] = @ + opening,
                                      !["reserved"] = @ + reserved,
                                      !["fees"] = @ + fee,
                                      !["realized_pnl"] = @ + pnl,
                                      !["unwind_loss"] = @ + unwound]
      /\ balances \in [AccountKind -> Int]
  BY DEF Post, TypeOK
<1>2. /\ balances' \in [AccountKind -> Int]
      /\ balances'["cash"] = balances["cash"] + cash
      /\ balances'["reserved"] = balances["reserved"] + reserved
      /\ balances'["fees"] = balances["fees"] + fee
      /\ balances'["realized_pnl"] = balances["realized_pnl"] + pnl
      /\ balances'["unwind_loss"] = balances["unwind_loss"] + unwound
  BY <1>1 DEF AccountKind
<1>3. balances'["cash"] \in Nat /\ balances'["reserved"] \in Nat
  BY <1>2 DEF Post, TypeOK
<1>4. /\ position \in [Ticker -> Nat] /\ IsFiniteSet(Ticker)
      /\ position' = [position EXCEPT ![t] = position[t] + held]
  BY LedgerConstants DEF Post, TypeOK
<1>5. position' \in [Ticker -> Nat]
  BY <1>4
<1>6. Total(position') = Total(position) - position[t] + (position[t] + held)
  BY <1>4, TotalSet
<1>7. Total(position) \in Nat /\ Total(position') \in Nat /\ position[t] \in Nat
  BY <1>4, <1>5, TotalType
<1>8. Total(position') = Total(position) + held
  BY <1>6, <1>7
<1>9. cash + opening + reserved + fee + pnl + unwound + held = 0
  BY DEF Post, PostingTotal
<1> QED BY <1>2, <1>3, <1>5, <1>7, <1>8, <1>9 DEF Post, Accrue

\* The clock of capital-days: before the first transaction nothing is committed.
ClockStarted == committedSince = -1 => Committed = 0

BooksInv == TypeOK /\ ProfitIsMeasured /\ NoMoneyFromNothing /\ CapitalDaysExact /\ ClockStarted

\* What a posting keeps, given what it moves beside the books.
LEMMA PostKeepsBooks ==
  ASSUME BooksInv,
         NEW cash \in Int, NEW opening \in Int, NEW reserved \in Int, NEW fee \in Int,
         NEW pnl \in Int, NEW unwound \in Int, NEW held \in Int, NEW t \in Ticker,
         position[t] + held \in Nat,
         Post(cash, opening, reserved, fee, pnl, unwound, held, t),
         paidIn' = paidIn - opening,
         wallet' \in Int, wallet' - wallet >= cash + reserved
  PROVE  BooksInv'
<1>1. TypeOK
  BY DEF BooksInv
<1> DEFINE effect ==
       /\ balances' \in [AccountKind -> Int]
       /\ balances'["cash"] = balances["cash"] + cash
       /\ balances'["reserved"] = balances["reserved"] + reserved
       /\ balances'["cash"] \in Nat /\ balances'["reserved"] \in Nat
       /\ balances'["fees"] = balances["fees"] + fee
       /\ balances'["realized_pnl"] = balances["realized_pnl"] + pnl
       /\ balances'["unwind_loss"] = balances["unwind_loss"] + unwound
       /\ cash + opening + reserved + fee + pnl + unwound + held = 0
       /\ position' \in [Ticker -> Nat]
       /\ Total(position) \in Nat /\ Total(position') \in Nat
       /\ Total(position') = Total(position) + held
       /\ transactions' = transactions + 1
       /\ committedSince' = now /\ now' = now /\ integral' = integral
<1>2. effect
  BY <1>1, PostEffect
<1>3. /\ balances["cash"] \in Nat /\ balances["reserved"] \in Nat
      /\ balances["fees"] \in Int /\ balances["realized_pnl"] \in Int
      /\ balances["unwind_loss"] \in Int
      /\ now \in Nat /\ paidIn \in Int /\ wallet \in Int /\ capitalDays \in Int
      /\ committedSince \in Nat \cup {-1} /\ integral \in Int /\ transactions \in Nat
      /\ committedSince <= now
  BY <1>1 DEF TypeOK, AccountKind
<1>4. capitalDays' = integral /\ capitalDays' \in Int
  <2>1. Committed \in Nat /\ now - committedSince \in Int
    BY <1>2, <1>3 DEF Committed
  <2>2. /\ capitalDays' = IF committedSince >= 0 /\ Committed > 0
                          THEN capitalDays + Committed * (now - committedSince)
                          ELSE capitalDays
        /\ capitalDays + (IF committedSince >= 0 THEN Committed * (now - committedSince) ELSE 0)
             = integral
    BY DEF Post, Accrue, BooksInv, CapitalDaysExact
  <2>3. Committed * (now - committedSince) \in Int
    BY <2>1
  <2>4. CASE committedSince >= 0 /\ Committed > 0
    BY <2>2, <2>3, <2>4, <1>3
  <2>5. CASE committedSince >= 0 /\ Committed = 0
    <3>1. Committed * (now - committedSince) = 0
      BY <2>1, <2>5
    <3> QED BY <3>1, <2>2, <2>5, <1>3
  <2>6. CASE ~ committedSince >= 0
    BY <2>2, <2>6, <1>3
  <2> QED BY <2>1, <2>4, <2>5, <2>6
<1>5. TypeOK'
  BY <1>2, <1>3, <1>4 DEF TypeOK
<1>6. ProfitIsMeasured'
  <2>1. balances["cash"] + (balances["reserved"] + Total(position))
          = paidIn + (- balances["realized_pnl"] - balances["fees"] - balances["unwind_loss"])
    BY DEF BooksInv, ProfitIsMeasured, Committed, RealizedPnl
  <2>2. balances'["cash"] + (balances'["reserved"] + Total(position'))
          = paidIn' + (- balances'["realized_pnl"] - balances'["fees"] - balances'["unwind_loss"])
    <3>1. /\ balances'["cash"] = balances["cash"] + cash
          /\ balances'["reserved"] = balances["reserved"] + reserved
          /\ balances'["fees"] = balances["fees"] + fee
          /\ balances'["realized_pnl"] = balances["realized_pnl"] + pnl
          /\ balances'["unwind_loss"] = balances["unwind_loss"] + unwound
          /\ Total(position') = Total(position) + held
          /\ paidIn' = paidIn - opening
      BY <1>2
    <3>3. cash + opening + reserved + fee + pnl + unwound + held = 0
      BY <1>2
    <3>4. /\ balances["cash"] \in Int /\ balances["reserved"] \in Int /\ Total(position) \in Int
          /\ paidIn \in Int /\ balances["realized_pnl"] \in Int /\ balances["fees"] \in Int
          /\ balances["unwind_loss"] \in Int
      BY <1>2, <1>3
    <3>5. balances["cash"] + balances["reserved"] + Total(position) + balances["realized_pnl"]
            + balances["fees"] + balances["unwind_loss"] = paidIn
      BY <2>1, <3>4
    <3>6. (balances["cash"] + cash) + (balances["reserved"] + reserved) + (Total(position) + held)
            + (balances["realized_pnl"] + pnl) + (balances["fees"] + fee)
            + (balances["unwind_loss"] + unwound) = paidIn - opening
      BY <3>3, <3>4, <3>5
    <3>7. balances'["cash"] + balances'["reserved"] + Total(position') + balances'["realized_pnl"]
            + balances'["fees"] + balances'["unwind_loss"] = paidIn'
      BY <3>1, <3>6
    <3>8. /\ balances'["cash"] \in Int /\ balances'["reserved"] \in Int /\ Total(position') \in Int
          /\ paidIn' \in Int /\ balances'["realized_pnl"] \in Int /\ balances'["fees"] \in Int
          /\ balances'["unwind_loss"] \in Int
      BY <3>1, <3>4, <1>2
    <3> QED BY <3>7, <3>8
  <2> QED BY <2>2 DEF ProfitIsMeasured, Committed, RealizedPnl
<1>7. NoMoneyFromNothing'
  <2>1. balances["cash"] + balances["reserved"] <= wallet
    BY DEF BooksInv, NoMoneyFromNothing
  <2>2. \A c, r, dc, dr, w, v \in Int :
           c + r <= w /\ v - w >= dc + dr => (c + dc) + (r + dr) <= v
    OBVIOUS
  <2>3. balances["cash"] \in Int /\ balances["reserved"] \in Int /\ wallet \in Int
    BY <1>3
  <2>4. (balances["cash"] + cash) + (balances["reserved"] + reserved) <= wallet'
    BY ZenonT(30), <2>1, <2>2, <2>3
  <2>5. balances'["cash"] + balances'["reserved"] <= wallet'
    BY <1>2, <2>4
  <2> QED BY <2>5 DEF NoMoneyFromNothing
<1>8. CapitalDaysExact'
  <2>1. Committed' \in Nat
    BY <1>2 DEF Committed
  <2>2. Committed' * (now' - committedSince') = 0
    <3>1. now' = committedSince' /\ now' \in Int
      BY <1>2, <1>3
    <3>2. \A c \in Nat, n \in Int : c * (n - n) = 0
      OBVIOUS
    <3>3. Committed' * (now' - now') = 0
      BY <2>1, <3>1, <3>2
    <3> QED BY <3>1, <3>3
  <2> QED BY <1>2, <1>3, <1>4, <2>2 DEF CapitalDaysExact
<1>9. ClockStarted'
  BY <1>2, <1>3 DEF ClockStarted
<1> QED BY <1>5, <1>6, <1>7, <1>8, <1>9 DEF BooksInv

LEMMA BooksInit == Init => BooksInv
<1> SUFFICES ASSUME Init PROVE BooksInv
  OBVIOUS
<1>1. Total(position) = 0
  BY TotalZero DEF Init
<1>2. TypeOK
  BY DEF Init, TypeOK, AccountKind
<1>3. /\ balances["cash"] = 0 /\ balances["reserved"] = 0 /\ balances["fees"] = 0
      /\ balances["realized_pnl"] = 0 /\ balances["unwind_loss"] = 0
  BY DEF Init, AccountKind
<1>4. ProfitIsMeasured /\ NoMoneyFromNothing /\ CapitalDaysExact /\ ClockStarted
  BY <1>1, <1>3 DEF Init, ProfitIsMeasured, NoMoneyFromNothing, CapitalDaysExact, ClockStarted,
                    Committed, RealizedPnl
<1> QED BY <1>2, <1>4 DEF BooksInv

LEMMA Conversions ==
  ASSUME NEW a \in Amount
  PROVE  a \in Nat /\ a \in Int /\ - a \in Int
         /\ QuantizeCost(a) \in Nat /\ QuantizeCost(a) \in Int /\ QuantizeCost(a) >= a
<1>1. a \in Nat
  BY LedgerConstants
<1> QED BY <1>1, CostRoundsUp

LEMMA DepositKeepsBooks ==
  ASSUME BooksInv, NEW a \in Amount, Deposit(a) PROVE BooksInv'
<1>1. PICK t \in Ticker : Post(a, - a, 0, 0, 0, 0, 0, t)
  BY DEF Deposit
<1>2. /\ a \in Int /\ - a \in Int /\ 0 \in Int /\ position[t] \in Nat
      /\ paidIn \in Int /\ wallet \in Int
  BY Conversions DEF BooksInv, TypeOK
<1>3. /\ position[t] + 0 \in Nat /\ paidIn' = paidIn - (- a) /\ wallet' \in Int
      /\ wallet' - wallet >= a + 0
  BY <1>2 DEF Deposit
<1> QED BY <1>1, <1>2, <1>3, PostKeepsBooks

LEMMA ReserveKeepsBooks ==
  ASSUME BooksInv, NEW a \in Amount, Reserve(a) PROVE BooksInv'
<1>1. PICK t \in Ticker : Post(- a, 0, a, 0, 0, 0, 0, t)
  BY DEF Reserve
<1>2. /\ a \in Int /\ - a \in Int /\ 0 \in Int /\ position[t] \in Nat
      /\ paidIn \in Int /\ wallet \in Int
  BY Conversions DEF BooksInv, TypeOK
<1>3. /\ position[t] + 0 \in Nat /\ paidIn' = paidIn - 0 /\ wallet' \in Int
      /\ wallet' - wallet >= - a + a
  BY <1>2 DEF Reserve
<1> QED BY <1>1, <1>2, <1>3, PostKeepsBooks

LEMMA ReleaseKeepsBooks ==
  ASSUME BooksInv, NEW a \in Int, Release(a) PROVE BooksInv'
<1>1. PICK t \in Ticker : Post(a, 0, - a, 0, 0, 0, 0, t)
  BY DEF Release
<1>2. /\ - a \in Int /\ 0 \in Int /\ position[t] \in Nat /\ paidIn \in Int /\ wallet \in Int
  BY DEF BooksInv, TypeOK
<1>3. /\ position[t] + 0 \in Nat /\ paidIn' = paidIn - 0 /\ wallet' \in Int
      /\ wallet' - wallet >= a + - a
  BY <1>2 DEF Release
<1> QED BY <1>1, <1>2, <1>3, PostKeepsBooks

LEMMA FillKeepsBooks ==
  ASSUME BooksInv, NEW t \in Ticker, NEW cost \in Amount, NEW fee \in Amount,
         NEW fromReserved \in BOOLEAN, Fill(t, cost, fee, fromReserved)
  PROVE  BooksInv'
<1> DEFINE paid == QuantizeCost(cost)
           charged == QuantizeCost(fee)
           outlay == paid + charged
<1>1. /\ cost \in Nat /\ paid \in Nat /\ paid >= cost
      /\ fee \in Nat /\ charged \in Nat /\ charged >= fee
  BY Conversions
<1>2. IF fromReserved THEN Post(0, 0, - outlay, charged, 0, 0, paid, t)
                      ELSE Post(- outlay, 0, 0, charged, 0, 0, paid, t)
  BY DEF Fill
<1>3. wallet' = wallet - cost - fee /\ paidIn' = paidIn
  BY DEF Fill
<1> HIDE DEF paid, charged
<1>4. /\ charged \in Int /\ paid \in Int /\ - outlay \in Int /\ 0 \in Int
      /\ position[t] \in Nat /\ paidIn \in Int /\ wallet \in Int
  BY <1>1 DEF BooksInv, TypeOK
<1>5. /\ position[t] + paid \in Nat /\ paidIn' = paidIn - 0 /\ wallet' \in Int
      /\ wallet' - wallet >= 0 + - outlay /\ wallet' - wallet >= - outlay + 0
  BY <1>1, <1>3, <1>4
<1>6. CASE fromReserved
  <2>1. Post(0, 0, - outlay, charged, 0, 0, paid, t)
    BY <1>2, <1>6
  <2> HIDE DEF outlay
  <2> QED BY <2>1, <1>4, <1>5, PostKeepsBooks
<1>7. CASE ~ fromReserved
  <2>1. Post(- outlay, 0, 0, charged, 0, 0, paid, t)
    BY <1>2, <1>7
  <2> HIDE DEF outlay
  <2> QED BY <2>1, <1>4, <1>5, PostKeepsBooks
<1> QED BY <1>6, <1>7

LEMMA SettleKeepsBooks ==
  ASSUME BooksInv, NEW t \in Ticker, NEW proceeds \in Amount, Settle(t, proceeds)
  PROVE  BooksInv'
<1> DEFINE held == position[t]
<1>1. /\ proceeds \in Int /\ held \in Nat /\ held - proceeds \in Int /\ - held \in Int /\ 0 \in Int
      /\ paidIn \in Int /\ wallet \in Int
  BY Conversions DEF BooksInv, TypeOK
<1>2. Post(proceeds, 0, 0, 0, held - proceeds, 0, - held, t)
  BY DEF Settle
<1>3. /\ position[t] + - held \in Nat /\ paidIn' = paidIn - 0 /\ wallet' \in Int
      /\ wallet' - wallet >= proceeds + 0
  BY <1>1 DEF Settle
<1> QED BY <1>1, <1>2, <1>3, PostKeepsBooks

LEMMA UnwindKeepsBooks ==
  ASSUME BooksInv, NEW t \in Ticker, NEW proceeds \in Amount, NEW fee \in Amount,
         Unwind(t, proceeds, fee)
  PROVE  BooksInv'
<1> DEFINE held == position[t]
           charged == QuantizeCost(fee)
<1>1. /\ proceeds \in Int /\ fee \in Nat /\ charged \in Nat /\ charged >= fee /\ held \in Nat
      /\ paidIn \in Int /\ wallet \in Int
  BY Conversions DEF BooksInv, TypeOK
<1>2. Post(proceeds - charged, 0, 0, charged, 0, held - proceeds, - held, t)
  BY DEF Unwind
<1>3. wallet' = wallet + proceeds - fee /\ paidIn' = paidIn
  BY DEF Unwind
<1> HIDE DEF charged
<1>4. /\ proceeds - charged \in Int /\ charged \in Int /\ held - proceeds \in Int
      /\ - held \in Int /\ 0 \in Int
  BY <1>1
<1>5. /\ position[t] + - held \in Nat /\ paidIn' = paidIn - 0 /\ wallet' \in Int
      /\ wallet' - wallet >= (proceeds - charged) + 0
  BY <1>1, <1>3
<1> QED BY <1>2, <1>4, <1>5, PostKeepsBooks

LEMMA TickKeepsBooks == BooksInv /\ Tick => BooksInv'
<1> SUFFICES ASSUME BooksInv, Tick PROVE BooksInv'
  OBVIOUS
<1>1. /\ TypeOK /\ ProfitIsMeasured /\ NoMoneyFromNothing /\ CapitalDaysExact /\ ClockStarted
  BY DEF BooksInv
<1>2. UNCHANGED <<balances, position, transactions, capitalDays, committedSince, paidIn, wallet>>
  BY DEF Tick
<1>3. Total(position) \in Nat
  BY <1>1, TotalType, LedgerConstants DEF TypeOK
<1>4. Committed \in Nat /\ Committed' = Committed
  BY <1>1, <1>2, <1>3 DEF Committed, TypeOK
<1>5. /\ now \in Nat /\ integral \in Int /\ committedSince \in Nat \cup {-1}
      /\ committedSince <= now /\ now' = now + 1 /\ integral' = integral + Committed
      /\ capitalDays \in Int
  BY <1>1 DEF TypeOK, Tick
<1>6. TypeOK'
  BY <1>1, <1>2, <1>4, <1>5 DEF TypeOK
<1>7. ProfitIsMeasured' /\ NoMoneyFromNothing' /\ ClockStarted'
  BY <1>1, <1>2, <1>4 DEF ProfitIsMeasured, NoMoneyFromNothing, ClockStarted, RealizedPnl
<1>8. CapitalDaysExact'
  <2>1. capitalDays + (IF committedSince >= 0 THEN Committed * (now - committedSince) ELSE 0)
          = integral
    BY <1>1 DEF CapitalDaysExact
  <2>2. CASE committedSince >= 0
    <3>1. \A c \in Nat, d \in Int : c * (d + 1) = c * d + c /\ c * d \in Int
      OBVIOUS
    <3>2. now - committedSince \in Int /\ now' - committedSince = (now - committedSince) + 1
      BY <1>5
    <3>3. /\ Committed * (now' - committedSince) = Committed * (now - committedSince) + Committed
          /\ Committed * (now - committedSince) \in Int
      BY <3>1, <3>2, <1>4
    <3>4. capitalDays + Committed * (now' - committedSince) = integral'
      BY <2>1, <2>2, <3>3, <1>4, <1>5
    <3> QED BY <2>2, <3>4, <1>2, <1>4 DEF CapitalDaysExact
  <2>3. CASE committedSince = -1
    BY <2>1, <2>3, <1>1, <1>2, <1>4, <1>5 DEF CapitalDaysExact, ClockStarted
  <2> QED BY <2>2, <2>3, <1>5
<1> QED BY <1>6, <1>7, <1>8 DEF BooksInv

LEMMA BooksStep == BooksInv /\ [Next]_vars => BooksInv'
<1> SUFFICES ASSUME BooksInv, [Next]_vars PROVE BooksInv'
  OBVIOUS
<1>1. CASE \E a \in Amount : Deposit(a) \/ Reserve(a) \/ Release(a) \/ Release(- a)
  <2>1. PICK a \in Amount : Deposit(a) \/ Reserve(a) \/ Release(a) \/ Release(- a)
    BY <1>1
  <2>2. a \in Int /\ - a \in Int
    BY Conversions
  <2> QED BY <2>1, <2>2, DepositKeepsBooks, ReserveKeepsBooks, ReleaseKeepsBooks
<1>2. CASE \E t \in Ticker, cost, fee \in Amount, fromReserved \in BOOLEAN :
             Fill(t, cost, fee, fromReserved)
  BY <1>2, FillKeepsBooks
<1>3. CASE \E t \in Ticker, proceeds \in Amount : Settle(t, proceeds)
  BY <1>3, SettleKeepsBooks
<1>4. CASE \E t \in Ticker, proceeds, fee \in Amount : Unwind(t, proceeds, fee)
  BY <1>4, UnwindKeepsBooks
<1>5. CASE Tick
  BY <1>5, TickKeepsBooks
<1>6. CASE UNCHANGED vars
  BY <1>6 DEF vars, BooksInv, TypeOK, ProfitIsMeasured, NoMoneyFromNothing, CapitalDaysExact,
              ClockStarted, Committed, RealizedPnl
<1> QED BY <1>1, <1>2, <1>3, <1>4, <1>5, <1>6 DEF Next

-----------------------------------------------------------------------------

\* The account is worth what was paid in plus the reported profit, its books never show more
\* money than there is, and capital-days are exact: post() and the operations on it.
THEOREM BooksAreSound == Spec => []BooksInv
  BY BooksInit, BooksStep, PTL DEF Spec

\* Profit as reported accounts for every cost, fee, settlement and unwind (realized_pnl).
THEOREM ProfitMeasured == Spec => []ProfitIsMeasured
<1>1. BooksInv => ProfitIsMeasured
  BY DEF BooksInv
<1> QED BY <1>1, BooksAreSound, PTL

\* Rounding and posting never show money that is not there (quantize_cost, post).
THEOREM NothingInvented == Spec => []NoMoneyFromNothing
<1>1. BooksInv => NoMoneyFromNothing
  BY DEF BooksInv
<1> QED BY <1>1, BooksAreSound, PTL

\* Accruing at each posting measures every tick of committed capital (_accrue_capital_days).
THEOREM CapitalDaysMeasured == Spec => []CapitalDaysExact
<1>1. BooksInv => CapitalDaysExact
  BY DEF BooksInv
<1> QED BY <1>1, BooksAreSound, PTL
=============================================================================
