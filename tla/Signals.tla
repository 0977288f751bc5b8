------------------------------ MODULE Signals ------------------------------
(***************************************************************************)
(* The memory of a trading strategy and the detectors that read it         *)
(* (shared/strategy/base_strategy.py, indicator_based_strategy.py).  A     *)
(* strategy sees one bar after the other, each with the value of some of   *)
(* its indicators; it remembers the last bar for the detectors of one step *)
(* and a bounded history per indicator for those of a window.              *)
(*                                                                         *)
(* The strategies themselves are generated elsewhere.  The code does not   *)
(* settle whether they call _update_previous_values after the detectors,   *)
(* as its own doc says, or before, as the comments of the window detectors *)
(* say ("including current which was just added"): both orders are here.   *)
(*                                                                         *)
(* A value is a number or NaN, the value of an indicator that is still     *)
(* warming up; every comparison with NaN is false.                         *)
(***************************************************************************)
EXTENDS Integers, Sequences, FiniteSets

CONSTANTS
  Names,       \* of indicators and price fields
  Values,      \* the numbers they may have
  NaN,
  Missing,     \* no value of that name
  Periods,     \* of the window detectors
  Thresholds,  \* of the crossing of a fixed level
  MaxHistory,  \* _max_history_length
  MaxBars      \* bound: bars of a behaviour

ASSUME SignalAssumption ==
  /\ Values \cup Thresholds \subseteq Int
  /\ {NaN, Missing} \cap Int = {} /\ NaN # Missing
  /\ Periods \subseteq Nat \ {0}
  /\ MaxHistory \in Nat \ {0}
  /\ MaxBars \in Nat

VARIABLES
  update_first,       \* the order in which the strategy calls its base class
  prev_indicators,    \* the last bar
  indicator_history,  \* per name
  signals,            \* what the detectors say of the last bar
  (* History: read by no action, only by the properties.                   *)
  bars                \* all of them

memory == <<prev_indicators, indicator_history>>
sigvars == <<update_first, memory, signals, bars>>

Reading == Values \cup {NaN}
Bars == [Names -> Reading \cup {Missing}]
-----------------------------------------------------------------------------
(* Python's comparisons: false when a side is NaN, and a missing value is  *)
(* asked for before it is compared or raises TypeError, which is caught.   *)
Numbers(x, y) == {x, y} \subseteq Int
Lt(x, y) == Numbers(x, y) /\ x < y
Le(x, y) == Numbers(x, y) /\ x <= y

LastOf(s, n) == SubSeq(s, Len(s) - n + 1, Len(s))
Front(s) == SubSeq(s, 1, Len(s) - 1)

(* max and min keep the first element until another one compares greater   *)
(* (smaller): a NaN in front stays, a later one is passed over.            *)
NumbersIn(s) == {s[i] : i \in DOMAIN s} \cap Int

PyMin(s) ==
  IF s[1] \notin Int THEN s[1]
  ELSE CHOOSE x \in NumbersIn(s) : \A y \in NumbersIn(s) : x <= y

PyMax(s) ==
  IF s[1] \notin Int THEN s[1]
  ELSE CHOOSE x \in NumbersIn(s) : \A y \in NumbersIn(s) : y <= x
-----------------------------------------------------------------------------
(* The detectors, over the memory prev, hist and the current bar b.        *)

(* The last n values, when the history of the name has as many.            *)
HasWindow(hist, name, n) == Len(hist[name]) >= n

IsHighest(hist, b, name, n) ==
  /\ HasWindow(hist, name, n)
  /\ b[name] \in Int /\ b[name] = PyMax(LastOf(hist[name], n))

IsLowest(hist, b, name, n) ==
  /\ HasWindow(hist, name, n)
  /\ b[name] \in Int /\ b[name] = PyMin(LastOf(hist[name], n))

IsRising(prev, b, name) == Lt(prev[name], b[name])
IsFalling(prev, b, name) == Lt(b[name], prev[name])

(* Refuted by a step that does not rise, which one to or from NaN is not.  *)
(* Mutated: one value too few.                                             *)
RisingForShort(hist, name, n) ==
  /\ HasWindow(hist, name, n + 1)
  /\ LET w == LastOf(hist[name], n)
     IN  \A i \in 2..n : ~Le(w[i], w[i - 1])

IsRisingFor(hist, name, n) ==
  /\ HasWindow(hist, name, n + 1)
  /\ LET w == LastOf(hist[name], n + 1)
     IN  \A i \in 2..(n + 1) : ~Le(w[i], w[i - 1])

IsFallingFor(hist, name, n) ==
  /\ HasWindow(hist, name, n + 1)
  /\ LET w == LastOf(hist[name], n + 1)
     IN  \A i \in 2..(n + 1) : ~Le(w[i - 1], w[i])

(* The window without its last value, "the current one"; a window of one   *)
(* value leaves min and max nothing, a ValueError that means no.           *)
Earlier(hist, name, n) == Front(LastOf(hist[name], n))

DivergenceBullish(hist, b, price, name, n) ==
  /\ HasWindow(hist, price, n) /\ HasWindow(hist, name, n) /\ n > 1
  /\ Lt(b[price], PyMin(Earlier(hist, price, n)))
  /\ Lt(PyMin(Earlier(hist, name, n)), b[name])

DivergenceBearish(hist, b, price, name, n) ==
  /\ HasWindow(hist, price, n) /\ HasWindow(hist, name, n) /\ n > 1
  /\ Lt(PyMax(Earlier(hist, price, n)), b[price])
  /\ Lt(b[name], PyMax(Earlier(hist, name, n)))

(* Mutated: the bar before must be strictly below.                         *)
CrossesAboveStrictly(prev, b, left, right) ==
  Lt(prev[left], prev[right]) /\ Lt(b[right], b[left])

CrossesAbove(prev, b, left, right) ==
  Le(prev[left], prev[right]) /\ Lt(b[right], b[left])

CrossesBelow(prev, b, left, right) ==
  Le(prev[right], prev[left]) /\ Lt(b[left], b[right])

(* Mutated: wherever the value was before.                                 *)
AboveThreshold(prev, b, name, level) == Lt(level, b[name])

CrossesAboveThreshold(prev, b, name, level) ==
  Le(prev[name], level) /\ Lt(level, b[name])

CrossesBelowThreshold(prev, b, name, level) ==
  Le(level, prev[name]) /\ Lt(b[name], level)

Detected(prev, hist, b) ==
  LET Pairs == {p \in Names \X Names : p[1] # p[2]}
      Windows == Names \X Periods
      Levels == Names \X Thresholds
      Doubles == {d \in Names \X Names \X Periods : d[1] # d[2]}
  IN  [rising     |-> {n \in Names : IsRising(prev, b, n)},
       falling    |-> {n \in Names : IsFalling(prev, b, n)},
       highest    |-> {w \in Windows : IsHighest(hist, b, w[1], w[2])},
       lowest     |-> {w \in Windows : IsLowest(hist, b, w[1], w[2])},
       rising_for |-> {w \in Windows : IsRisingFor(hist, w[1], w[2])},
       falling_for |-> {w \in Windows : IsFallingFor(hist, w[1], w[2])},
       bullish    |-> {d \in Doubles :
                         DivergenceBullish(hist, b, d[1], d[2], d[3])},
       bearish    |-> {d \in Doubles :
                         DivergenceBearish(hist, b, d[1], d[2], d[3])},
       above      |-> {p \in Pairs : CrossesAbove(prev, b, p[1], p[2])},
       below      |-> {p \in Pairs : CrossesBelow(prev, b, p[1], p[2])},
       over       |-> {l \in Levels : CrossesAboveThreshold(prev, b, l[1], l[2])},
       under      |-> {l \in Levels : CrossesBelowThreshold(prev, b, l[1], l[2])}]

Nothing == [n \in Names |-> Missing]
-----------------------------------------------------------------------------
SignalInit ==
  /\ update_first \in BOOLEAN
  /\ prev_indicators = Nothing
  /\ indicator_history = [n \in Names |-> <<>>]
  /\ signals = Detected(Nothing, [n \in Names |-> <<>>], Nothing)
  /\ bars = <<>>

(* Mutated: the newest value is dropped.                                   *)
RememberOldest(h, x) == IF Len(h) < MaxHistory THEN Append(h, x) ELSE h

(* Append, and pop the oldest when there are too many.                     *)
Remember(h, x) ==
  LET longer == Append(h, x)
  IN  IF Len(longer) > MaxHistory THEN Tail(longer) ELSE longer

(* _update_previous_values: names without a value keep their history but   *)
(* lose their previous value.                                              *)
Updated(b) ==
  [n \in Names |-> IF b[n] = Missing THEN indicator_history[n]
                   ELSE Remember(indicator_history[n], b[n])]

(* One bar: the strategy consults the detectors and updates its memory, or *)
(* the other way round.                                                    *)
Bar(b) ==
  /\ Len(bars) < MaxBars
  /\ prev_indicators' = b
  /\ indicator_history' = Updated(b)
  /\ signals' = IF update_first
                  THEN Detected(b, indicator_history', b)
                  ELSE Detected(prev_indicators, indicator_history, b)
  /\ bars' = Append(bars, b)
  /\ UNCHANGED update_first

SignalNext == \E b \in Bars : Bar(b)

SignalSpec == SignalInit /\ [][SignalNext]_sigvars
-----------------------------------------------------------------------------
(* The memory has its types and the histories their limit.                 *)
SignalTypes ==
  /\ update_first \in BOOLEAN
  /\ prev_indicators \in Bars
  /\ \A n \in Names :
       /\ indicator_history[n] \in Seq(Reading)
       /\ Len(indicator_history[n]) <= MaxHistory

(* The bars that had a value of that name, and how many of them came after *)
(* the bar t.                                                              *)
Given(n) == {t \in DOMAIN bars : bars[t][n] # Missing}
Since(n, t) == Cardinality({u \in Given(n) : u > t})

(* The history of a name is its last values, as many as fit, in order, and *)
(* skips the bars that have none.                                          *)
MemoryIsRecent ==
  \A n \in Names :
    LET hist == indicator_history[n]
        all == Cardinality(Given(n))
    IN  /\ Len(hist) = IF all < MaxHistory THEN all ELSE MaxHistory
        /\ \A t \in Given(n) :
             Since(n, t) < MaxHistory => hist[Len(hist) - Since(n, t)] = bars[t][n]

Now == Len(bars)

(* Over the bars from s to the last but one, left was below right once and *)
(* not above it since, with both values there all the time.                *)
WasBelow(s, left, right) ==
  /\ Lt(bars[s][left], bars[s][right])
  /\ \A t \in s..(Now - 1) : Le(bars[t][left], bars[t][right])

(* No crossing is missed by a strategy that updates its memory last:       *)
(* however long two values touch in between, the first bar on the other    *)
(* side is reported, as a crossing of either by the other.                 *)
CrossingsSeen ==
  ~update_first =>
    \A l \in Names, r \in Names, s \in 1..(Now - 1) :
      l # r /\ WasBelow(s, l, r) /\ Lt(bars[Now][r], bars[Now][l]) =>
        <<l, r>> \in signals.above /\ <<r, l>> \in signals.below

(* Nor is one made up, of two names or of a level: what is reported came   *)
(* about between the bar before and this one.  A strategy that updates its *)
(* memory first compares a bar with itself and is told of none at all.     *)
CrossingsTrue ==
  /\ \A l \in Names, r \in Names :
       <<l, r>> \in signals.above \/ <<r, l>> \in signals.below =>
         /\ ~update_first /\ 1 < Now
         /\ Le(bars[Now - 1][l], bars[Now - 1][r])
         /\ Lt(bars[Now][r], bars[Now][l])
  /\ \A n \in Names, level \in Thresholds :
       /\ <<n, level>> \in signals.over <=>
            /\ ~update_first /\ 1 < Now
            /\ Le(bars[Now - 1][n], level) /\ Lt(level, bars[Now][n])
       /\ <<n, level>> \in signals.under <=>
            /\ ~update_first /\ 1 < Now
            /\ Le(level, bars[Now - 1][n]) /\ Lt(bars[Now][n], level)

(* The last n bars have a number for that name.                            *)
Whole(name, n) ==
  Now >= n /\ \A t \in (Now - n + 1)..Now : bars[t][name] \in Int

(* A strategy that updates its memory first is told the truth about the    *)
(* windows that end with the current bar, as far as the history reaches:   *)
(* the extremes, the runs, and the divergences of two names.               *)
WindowsRight ==
  update_first =>
    \A n \in Names, k \in Periods :
      LET from == Now - k
          v(t) == bars[t][n]
      IN  /\ Whole(n, k) /\ k <= MaxHistory =>
               /\ <<n, k>> \in signals.highest <=>
                    \A t \in (from + 1)..Now : v(t) <= v(Now)
               /\ <<n, k>> \in signals.lowest <=>
                    \A t \in (from + 1)..Now : v(t) >= v(Now)
          /\ Whole(n, k + 1) /\ k < MaxHistory =>
               /\ <<n, k>> \in signals.rising_for <=>
                    \A t \in (from + 1)..Now : v(t - 1) < v(t)
               /\ <<n, k>> \in signals.falling_for <=>
                    \A t \in (from + 1)..Now : v(t - 1) > v(t)
          /\ \A p \in Names \ {n} :
               Whole(n, k) /\ Whole(p, k) /\ 1 < k /\ k <= MaxHistory =>
                 /\ <<p, n, k>> \in signals.bullish <=>
                      /\ \A t \in (from + 1)..(Now - 1) :
                           bars[Now][p] < bars[t][p]
                      /\ \E t \in (from + 1)..(Now - 1) :
                           /\ v(t) < v(Now)
                           /\ \A u \in (from + 1)..(Now - 1) : v(t) <= v(u)
                 /\ <<p, n, k>> \in signals.bearish <=>
                      /\ \A t \in (from + 1)..(Now - 1) :
                           bars[Now][p] > bars[t][p]
                      /\ \E t \in (from + 1)..(Now - 1) :
                           /\ v(t) > v(Now)
                           /\ \A u \in (from + 1)..(Now - 1) : v(t) >= v(u)

(* What is remembered is what was shown; in either order of calls no       *)
(* crossing is made up, and in the order that it is written for each of    *)
(* these detectors misses nothing.  In the other order crossings are never *)
(* reported, and what windows report is not constrained.                   *)
DetectorsRight ==
  MemoryIsRecent /\ CrossingsSeen /\ CrossingsTrue /\ WindowsRight
=============================================================================
