------------------------------- MODULE Trades -------------------------------
(***************************************************************************)
(* The positions of a trading strategy (shared/strategy/position.py) and   *)
(* its daily loss limit (TradingStrategy.can_trade and record_trade in     *)
(* shared/strategy/base_strategy.py).                                      *)
(*                                                                         *)
(* The program that trades is not part of the repository.  It asks         *)
(* can_trade before it opens a position, holds one at a time, tells it     *)
(* prices, closes it when it likes and records what the closing returned.  *)
(* Prices are whole numbers, sizes one; stops are in hundredths of a price *)
(* so that percentages of it are exact.                                    *)
(***************************************************************************)
EXTENDS Integers

CONSTANTS
  Prices,
  StopLosses,     \* given at the opening; 0 is falsy: none
  TrailingStops,  \* in percent; 0 is falsy: none
  MaxDailyLoss,   \* config["max_daily_loss"]; 0 is falsy: no limit
  None,
  MaxDay,         \* bound: days of a behaviour
  MaxTrades       \* bound: positions opened

ASSUME TradeAssumption ==
  /\ Prices \subseteq Nat \ {0}
  /\ StopLosses \subseteq Nat
  /\ TrailingStops \subseteq 0..100
  /\ {MaxDailyLoss, MaxDay, MaxTrades} \subseteq Nat
  /\ None \notin Int

VARIABLES
  position,    \* None before the first
  unrecorded,  \* what closing it returned, until that is recorded
  daily_pnl,
  last_reset_date,
  today,       \* datetime.now().date()
  answer,      \* of can_trade: "yes" or "no", "stale" when unknown or used up
  (* History: read by no action, only by the properties.                   *)
  seen,        \* prices the position was told
  first_stop,  \* its stop when it was opened
  today_pnl,   \* all that was recorded today
  wiped,       \* the part of it that a reset of daily_pnl has wiped out
  trades       \* positions opened

object == <<position, seen, first_stop, trades>>
books == <<daily_pnl, last_reset_date, today_pnl, wiped>>
tradevars == <<object, unrecorded, books, today, answer>>

Long == "long"
Short == "short"
Open == position # None /\ position.status = "open"
-----------------------------------------------------------------------------
TradeInit ==
  /\ position = None
  /\ unrecorded = None
  /\ daily_pnl = 0
  /\ last_reset_date = None
  /\ today = 0
  /\ answer = "stale"
  /\ seen = {}
  /\ first_stop = None
  /\ today_pnl = 0
  /\ wiped = 0
  /\ trades = 0

(* float(x) if x else None, in hundredths.                                 *)
Optional(x) == IF x = 0 THEN None ELSE 100 * x

(* Position.__init__; the program opens one only when it may and has none. *)
OpenPosition(side, price, stop, trail) ==
  /\ answer = "yes"
  /\ ~Open /\ unrecorded = None
  /\ trades < MaxTrades
  /\ position' = [side |-> side, entry_price |-> price, status |-> "open",
                  stop_loss |-> Optional(stop), trailing_stop |-> trail,
                  highest_price |-> price, lowest_price |-> price]
  /\ answer' = "stale"
  /\ seen' = {}
  /\ first_stop' = Optional(stop)
  /\ trades' = trades + 1
  /\ UNCHANGED <<unrecorded, books, today>>

(* Where the trailing stop of a position would be, given its best price.   *)
(* Mutated: the other extreme.                                             *)
TrailWorst(side, high, low, trail) ==
  IF side = Long THEN low * (100 - trail) ELSE high * (100 + trail)

Trail(side, high, low, trail) ==
  IF side = Long THEN high * (100 - trail) ELSE low * (100 + trail)

Tighter(side, new, old) == IF side = Long THEN new > old ELSE new < old

Ratchet(side, new, old) ==
  IF old = None \/ Tighter(side, new, old) THEN new ELSE old

UpdatePrice(price) ==
  /\ Open
  /\ LET high == IF price > position.highest_price THEN price
                 ELSE position.highest_price
         low == IF price < position.lowest_price THEN price
                ELSE position.lowest_price
     IN  position' = [position EXCEPT
           !.highest_price = high,
           !.lowest_price = low,
           !.stop_loss = IF position.trailing_stop = 0 THEN @
                         ELSE Ratchet(position.side,
                                Trail(position.side, high, low,
                                      position.trailing_stop), @)]
  /\ seen' = seen \cup {price}
  /\ UNCHANGED <<first_stop, trades, unrecorded, books, today, answer>>

(* calculate_unrealized_pnl.                                               *)
Pnl(p, price) ==
  IF p.side = Long THEN price - p.entry_price ELSE p.entry_price - price

Reached(side, price, stop) ==
  IF side = Long THEN 100 * price <= stop ELSE 100 * price >= stop

ShouldStopLoss(p, price) ==
  p.stop_loss # None /\ Reached(p.side, price, p.stop_loss)

(* close itself does not ask whether the position is open; the program     *)
(* closes it once, at a price at which it must or by a signal of its own.  *)
Close(price) ==
  /\ Open
  /\ position' = [position EXCEPT !.status = "closed"]
  /\ unrecorded' = Pnl(position, price)
  /\ UNCHANGED <<seen, first_stop, trades, books, today, answer>>

RecordTrade ==
  /\ unrecorded # None
  /\ daily_pnl' = daily_pnl + unrecorded
  /\ today_pnl' = today_pnl + unrecorded
  /\ unrecorded' = None
  /\ answer' = "stale"
  /\ UNCHANGED <<object, last_reset_date, wiped, today>>

(* Mutated: only the first call of all resets.                             *)
NeverResetYet == last_reset_date = None

(* The first call of a day; None is no day.                                *)
NewDay == last_reset_date # today

WithinLimit(pnl) == MaxDailyLoss = 0 \/ pnl > -MaxDailyLoss

(* can_trade.                                                              *)
CanTrade ==
  LET pnl == IF NewDay THEN 0 ELSE daily_pnl
  IN  /\ daily_pnl' = pnl
      /\ last_reset_date' = IF NewDay THEN today ELSE last_reset_date
      /\ wiped' = IF NewDay THEN today_pnl ELSE wiped
      /\ answer' = IF WithinLimit(pnl) THEN "yes" ELSE "no"
      /\ UNCHANGED <<object, unrecorded, today_pnl, today>>

Midnight ==
  /\ today < MaxDay
  /\ today' = today + 1
  /\ today_pnl' = 0
  /\ wiped' = 0
  /\ answer' = "stale"
  /\ UNCHANGED <<object, unrecorded, daily_pnl, last_reset_date>>

TradeNext ==
  \/ \E side \in {Long, Short}, price \in Prices, stop \in StopLosses,
        trail \in TrailingStops : OpenPosition(side, price, stop, trail)
  \/ \E price \in Prices : UpdatePrice(price) \/ Close(price)
  \/ RecordTrade
  \/ CanTrade
  \/ Midnight

TradeSpec == TradeInit /\ [][TradeNext]_tradevars
-----------------------------------------------------------------------------
(* The fields have their types; the stop of a position, once it has one,   *)
(* is a number.                                                            *)
TradeTypes ==
  /\ position = None \/
     position \in [side : {Long, Short}, entry_price : Nat,
                   status : {"open", "closed"}, stop_loss : Nat \cup {None},
                   trailing_stop : 0..100, highest_price : Nat,
                   lowest_price : Nat]
  /\ unrecorded \in Int \cup {None}
  /\ {daily_pnl, today_pnl, wiped} \subseteq Int
  /\ last_reset_date \in 0..today \cup {None}
  /\ today \in 0..MaxDay
  /\ answer \in {"yes", "no", "stale"}
  /\ seen \subseteq Prices
  /\ first_stop \in Nat \cup {None}
  /\ trades \in 0..MaxTrades

(* A stop never loosens: from one price to the next an open position can   *)
(* only be stopped earlier, and is never left without the stop it had.     *)
StopRatchets ==
  [][Open /\ Open' /\ position.stop_loss # None =>
       /\ position'.stop_loss # None
       /\ ~Tighter(position.side, position.stop_loss, position'.stop_loss)
    ]_tradevars

(* A position is stopped exactly when the price reaches the stop it was    *)
(* opened with or has come back from any price since the entry by the      *)
(* trailing percentage, in whatever order the prices came.                 *)
StopFollows ==
  position # None =>
    LET trail == position.trailing_stop
        trailed == IF trail = 0 \/ seen = {} THEN {}
                   ELSE seen \cup {position.entry_price}
        stops == {Trail(position.side, q, q, trail) : q \in trailed}
                   \cup ({first_stop} \ {None})
    IN  \A p \in Prices :
          ShouldStopLoss(position, p) <=>
            \E stop \in stops : Reached(position.side, p, stop)

(* The loss limit is about the day: what was lost and earned on other days *)
(* has no part in the answer, and all that was recorded today has, except  *)
(* what was recorded before the first question of the day (wiped).         *)
LimitIsDaily ==
  answer # "stale" =>
    (answer = "yes" <=> WithinLimit(today_pnl - wiped))
=============================================================================
