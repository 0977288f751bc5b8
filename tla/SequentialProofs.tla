-------------------------- MODULE SequentialProofs --------------------------
(***************************************************************************)
(* What holds of the parts that do one thing after the other: a trading    *)
(* strategy, its detectors and its trades, and the test runner.            *)
(*                                                                         *)
(* The memory of a strategy keeps within its bounds, and its detectors     *)
(* tell the truth in the order of calls each is written for.  A strategy   *)
(* that updates its memory last remembers the bar before (Remembered), so  *)
(* that the crossings reported are those of the last two bars (Compared).  *)
(* One that updates it first consults histories that hold the last values  *)
(* (MemoryIsRecent, Consulted), so that a window over bars that all have a *)
(* value is these bars' (WindowIs), and its extremes exist (HasLeast).     *)
(*                                                                         *)
(* Stops only tighten and follow the best price, and the loss limit is     *)
(* about the day: for all prices, stops, percentages and limits.  The stop *)
(* of a position is the tightest of the one it was opened with and of the  *)
(* one that trails its best price (StopIsTightest), which is one that was  *)
(* told (Extremes).  The loss limit holds because the counter is the day's *)
(* sum less what its reset has wiped out, from the first question of the   *)
(* day on (BooksOK).                                                       *)
(*                                                                         *)
(* The exit code of the test runner is true because a process's result is  *)
(* a failure exactly if something in it went wrong (ProcessTells), no file *)
(* is run twice (EachOnce), and until a failure every file asked for is on *)
(* its way (TestsTold); of lint, because what it is done with stays as it  *)
(* was found (LintTold).                                                   *)
(***************************************************************************)
EXTENDS Signals, Trades, Laborant, FiniteSetTheorems, WellFoundedInduction,
        TLAPS
-----------------------------------------------------------------------------
(* The detectors.                                                          *)
USE SignalAssumption DEF SignalAssumption

Remembered ==
  /\ bars \in Seq(Bars)
  /\ prev_indicators = IF Now > 0 THEN bars[Now] ELSE Nothing

Compared ==
  ~update_first /\ Now > 1 =>
    \A l \in Names, r \in Names :
      l # r => /\ CrossesAbove(bars[Now - 1], bars[Now], l, r) =>
                    <<l, r>> \in signals.above
               /\ CrossesBelow(bars[Now - 1], bars[Now], l, r) =>
                    <<l, r>> \in signals.below

(* A strategy that updates its memory first consults the memory that has   *)
(* the bar.                                                                *)
Consulted ==
  update_first /\ Now > 0 =>
    signals = Detected(bars[Now], indicator_history, bars[Now])

(* In either order, the detectors of one step compare the current bar with *)
(* the one before or with itself.                                          *)
Current == IF Now > 0 THEN bars[Now] ELSE Nothing
BarBefore ==
  IF update_first THEN Current ELSE IF Now > 1 THEN bars[Now - 1] ELSE Nothing

Stepped == \E hist : signals = Detected(BarBefore, hist, Current)

SignalInv ==
  /\ SignalTypes /\ Remembered /\ Compared /\ MemoryIsRecent /\ Consulted
  /\ Stepped
-----------------------------------------------------------------------------
(* Remembering a value keeps a history within its limit.                   *)
LEMMA RememberBounded ==
  ASSUME NEW h \in Seq(Reading), Len(h) <= MaxHistory, NEW x \in Reading
  PROVE  Remember(h, x) \in Seq(Reading) /\ Len(Remember(h, x)) <= MaxHistory
<1>1. Append(h, x) \in Seq(Reading) /\ Len(Append(h, x)) = Len(h) + 1
  OBVIOUS
<1>2. Append(h, x) # <<>>
  BY <1>1
<1>3. /\ Tail(Append(h, x)) \in Seq(Reading)
      /\ Len(Tail(Append(h, x))) = Len(h)
  BY <1>1, <1>2
<1>. QED  BY <1>1, <1>3 DEF Remember

(* How many values of a name there were, and after each, as bars come.     *)
LEMMA GivenGrows ==
  ASSUME bars \in Seq(Bars), NEW b \in Bars, bars' = Append(bars, b),
         NEW n \in Names
  PROVE  /\ IsFiniteSet(Given(n)) /\ Cardinality(Given(n)) \in Nat
         /\ \A t \in Given(n) :
              /\ Since(n, t) \in Nat /\ Since(n, t) < Cardinality(Given(n))
              /\ t \in DOMAIN bars /\ bars'[t] = bars[t]
         /\ b[n] = Missing =>
              /\ Given(n)' = Given(n)
              /\ \A t \in Given(n) : Since(n, t)' = Since(n, t)
         /\ b[n] # Missing =>
              /\ Given(n)' = Given(n) \cup {Now + 1}
              /\ Cardinality(Given(n)') = Cardinality(Given(n)) + 1
              /\ \A t \in Given(n) : Since(n, t)' = Since(n, t) + 1
              /\ \A t : t = Now + 1 => Since(n, t)' = 0 /\ bars'[t] = b
<1>. DEFINE G == Given(n)
            After(t) == {u \in G : u > t}
<1>1. /\ Now \in Nat /\ DOMAIN bars = 1..Now /\ DOMAIN bars' = 1..(Now + 1)
      /\ \A t \in 1..Now : bars'[t] = bars[t]
      /\ bars'[Now + 1] = b
  BY DEF Now
<1>2. G \subseteq 1..Now
  BY <1>1 DEF Given
<1>3. IsFiniteSet(G) /\ Cardinality(G) \in Nat
  <2>1. IsFiniteSet(1..Now)
    BY <1>1, FS_Interval
  <2>2. IsFiniteSet(G)
    <3>. HIDE DEF G
    <3>. QED  BY <1>2, <2>1, FS_Subset
  <2>. QED  BY <2>2, FS_CardinalityType
<1>4. ASSUME NEW t \in G
      PROVE  /\ IsFiniteSet(After(t)) /\ Cardinality(After(t)) \in Nat
             /\ Cardinality(After(t)) < Cardinality(G)
             /\ t \in 1..Now
  <2>1. IsFiniteSet(G \ {t}) /\ Cardinality(G \ {t}) = Cardinality(G) - 1
    BY <1>3, FS_RemoveElement
  <2>2. t \in Nat /\ After(t) \subseteq G \ {t}
    BY <1>2
  <2>. QED  BY <1>2, <1>3, <2>1, <2>2, FS_Subset, FS_CardinalityType
<1>5. ASSUME b[n] = Missing PROVE Given(n)' = G
  BY <1>1, <1>5 DEF Given
<1>6. ASSUME b[n] # Missing
      PROVE  /\ Given(n)' = G \cup {Now + 1}
             /\ Cardinality(Given(n)') = Cardinality(G) + 1
  <2>1. Given(n)' = G \cup {Now + 1}
    BY <1>1, <1>6 DEF Given
  <2>2. Now + 1 \notin G
    BY <1>1, <1>2
  <2>3. Cardinality(G \cup {Now + 1}) = Cardinality(G) + 1
    BY <1>3, <2>2, FS_AddElement
  <2>. QED  BY <2>1, <2>3
<1>7. ASSUME b[n] # Missing, NEW t \in G
      PROVE  Cardinality({u \in Given(n)' : u > t}) = Cardinality(After(t)) + 1
  <2>1. /\ {u \in Given(n)' : u > t} = After(t) \cup {Now + 1}
        /\ Now + 1 \notin After(t)
    BY <1>1, <1>2, <1>6, <1>7
  <2>. QED  BY <1>4, <2>1, FS_AddElement
<1>8. ASSUME b[n] # Missing, NEW t, t = Now + 1
      PROVE  Cardinality({u \in Given(n)' : u > t}) = 0
  <2>1. {u \in Given(n)' : u > t} = {}
    BY <1>1, <1>2, <1>6, <1>8
  <2>. QED  BY <2>1, FS_EmptySet
<1>9. /\ \A t : Since(n, t) = Cardinality(After(t))
      /\ \A t : Since(n, t)' = Cardinality({u \in Given(n)' : u > t})
  BY DEF Since
<1>10. ASSUME b[n] = Missing, NEW t \in G PROVE Since(n, t)' = Since(n, t)
  BY <1>5, <1>9, <1>10
<1>11. ASSUME b[n] # Missing, NEW t \in G PROVE Since(n, t)' = Since(n, t) + 1
  BY <1>7, <1>9, <1>11
<1>12. ASSUME b[n] # Missing, NEW t, t = Now + 1
       PROVE  Since(n, t)' = 0 /\ bars'[t] = b
  BY <1>1, <1>8, <1>9, <1>12
<1>13. \A t \in G : /\ Since(n, t) \in Nat /\ Since(n, t) < Cardinality(G)
                    /\ t \in DOMAIN bars /\ bars'[t] = bars[t]
  BY <1>1, <1>4, <1>9
<1>. QED  BY <1>3, <1>5, <1>6, <1>10, <1>11, <1>12, <1>13

(* A value is remembered last, and nobody in front of it is lost who fits. *)
LEMMA Remembering ==
  ASSUME NEW h \in Seq(Reading), Len(h) <= MaxHistory, NEW x \in Reading
  PROVE  \A g : g = Remember(h, x) =>
           /\ Len(g) = IF Len(h) < MaxHistory THEN Len(h) + 1 ELSE MaxHistory
           /\ g[Len(g)] = x
           /\ \A j \in Nat : j < Len(h) /\ j + 1 < MaxHistory =>
                g[Len(g) - (j + 1)] = h[Len(h) - j]
<1>. SUFFICES ASSUME NEW g, g = Remember(h, x)
              PROVE  /\ Len(g) = IF Len(h) < MaxHistory THEN Len(h) + 1
                                 ELSE MaxHistory
                     /\ g[Len(g)] = x
                     /\ \A j \in Nat : j < Len(h) /\ j + 1 < MaxHistory =>
                          g[Len(g) - (j + 1)] = h[Len(h) - j]
  OBVIOUS
<1>. DEFINE a == Append(h, x)
<1>1. /\ a \in Seq(Reading) /\ Len(a) = Len(h) + 1 /\ a[Len(h) + 1] = x
      /\ \A i \in 1..Len(h) : a[i] = h[i]
  OBVIOUS
<1>2. Len(h) \in Nat /\ a # <<>>
  BY <1>1
<1>. HIDE DEF a
<1>3. CASE Len(h) < MaxHistory
  <2>1. g = a
    BY <1>1, <1>2, <1>3 DEF Remember, a
  <2>. QED  BY <1>1, <1>2, <1>3, <2>1
<1>4. CASE Len(h) = MaxHistory
  <2>1. g = Tail(a)
    BY <1>1, <1>2, <1>4 DEF Remember, a
  <2>2. Len(g) = Len(h) /\ \A i \in 1..Len(h) : g[i] = a[i + 1]
    BY <1>1, <1>2, <2>1
  <2>. QED  BY <1>1, <1>2, <1>4, <2>2
<1>. QED  BY <1>2, <1>3, <1>4

(* What is reported as crossing is what the detectors find.                *)
LEMMA CrossingsReported ==
  ASSUME NEW prev, NEW hist, NEW b, NEW l \in Names, NEW r \in Names, l # r
  PROVE  /\ CrossesAbove(prev, b, l, r) =>
              <<l, r>> \in Detected(prev, hist, b).above
         /\ CrossesBelow(prev, b, l, r) =>
              <<l, r>> \in Detected(prev, hist, b).below
BY DEF Detected

(* The memory after a bar has its types.                                   *)
LEMMA UpdatedTypes ==
  ASSUME SignalTypes, NEW b \in Bars, NEW n \in Names
  PROVE  /\ Updated(b)[n] \in Seq(Reading)
         /\ Len(Updated(b)[n]) <= MaxHistory
<1>1. /\ indicator_history[n] \in Seq(Reading)
      /\ Len(indicator_history[n]) <= MaxHistory
  BY DEF SignalTypes
<1>2. CASE b[n] = Missing
  BY <1>1, <1>2 DEF Updated
<1>3. CASE b[n] # Missing
  <2>1. b[n] \in Reading
    BY <1>3 DEF Bars
  <2>. QED  BY <1>1, <1>3, <2>1, RememberBounded DEF Updated
<1>. QED  BY <1>2, <1>3
-----------------------------------------------------------------------------
LEMMA SignalInitInv == SignalInit => SignalInv
<1>. SUFFICES ASSUME SignalInit PROVE SignalInv
  OBVIOUS
<1>1. Nothing \in Bars
  BY DEF Nothing, Bars
<1>2. SignalTypes
  BY <1>1 DEF SignalInit, SignalTypes
<1>3. Remembered /\ Compared
  BY DEF SignalInit, Remembered, Compared, Now
<1>4. Consulted /\ MemoryIsRecent
  <2>1. ASSUME NEW n \in Names PROVE Given(n) = {}
    BY DEF SignalInit, Given
  <2>2. \A n \in Names : Cardinality(Given(n)) = 0 /\ Len(indicator_history[n]) = 0
    BY <2>1, FS_EmptySet DEF SignalInit
  <2>. QED  BY <2>1, <2>2 DEF SignalInit, Consulted, Now, MemoryIsRecent
<1>5. Stepped
  BY DEF SignalInit, Stepped, BarBefore, Current, Now
<1>. QED  BY <1>2, <1>3, <1>4, <1>5 DEF SignalInv

(* The history of a name is recent after a bar, too.                       *)
LEMMA RecentStays ==
  ASSUME SignalTypes, MemoryIsRecent, bars \in Seq(Bars),
         NEW b \in Bars, bars' = Append(bars, b),
         indicator_history' = Updated(b)
  PROVE  MemoryIsRecent'
<1>. DEFINE Least(x) == IF x < MaxHistory THEN x ELSE MaxHistory
<1>. SUFFICES ASSUME NEW n \in Names
              PROVE  /\ Len(indicator_history[n])' = Least(Cardinality(Given(n))')
                     /\ \A t \in Given(n)' :
                          Since(n, t)' < MaxHistory =>
                            indicator_history[n]'[Len(indicator_history[n])' - Since(n, t)']
                              = bars'[t][n]
  BY DEF MemoryIsRecent
<1>. DEFINE h == indicator_history[n]
            m == Cardinality(Given(n))
<1>1. /\ h \in Seq(Reading) /\ Len(h) \in Nat /\ m \in Nat
      /\ Len(h) = Least(m)
      /\ \A t \in Given(n) :
           /\ Since(n, t) \in Nat /\ Since(n, t) < m /\ bars'[t] = bars[t]
           /\ Since(n, t) < MaxHistory => h[Len(h) - Since(n, t)] = bars[t][n]
  BY GivenGrows DEF SignalTypes, MemoryIsRecent
<1>2. CASE b[n] = Missing
  <2>1. /\ indicator_history[n]' = h
        /\ Given(n)' = Given(n)
        /\ \A t \in Given(n) : Since(n, t)' = Since(n, t)
    BY <1>2, GivenGrows DEF Updated
  <2>. QED  BY <1>1, <2>1
<1>3. CASE b[n] # Missing
  <2>. DEFINE g == indicator_history[n]'
  <2>1. b[n] \in Reading /\ g = Remember(h, b[n])
    BY <1>3 DEF Bars, Updated
  <2>2. Len(h) <= MaxHistory
    BY <1>1
  <2>3. /\ Len(g) = IF Len(h) < MaxHistory THEN Len(h) + 1 ELSE MaxHistory
        /\ g[Len(g)] = b[n]
        /\ \A j \in Nat : j < Len(h) /\ j + 1 < MaxHistory =>
             g[Len(g) - (j + 1)] = h[Len(h) - j]
    <3>. HIDE DEF h
    <3>1. h \in Seq(Reading) /\ b[n] \in Reading
      BY <1>1, <2>1
    <3>2. \A r : r = Remember(h, b[n]) =>
            /\ Len(r) = IF Len(h) < MaxHistory THEN Len(h) + 1 ELSE MaxHistory
            /\ r[Len(r)] = b[n]
            /\ \A j \in Nat : j < Len(h) /\ j + 1 < MaxHistory =>
                 r[Len(r) - (j + 1)] = h[Len(h) - j]
      BY <2>2, <3>1, Remembering
    <3>. QED  BY <2>1, <3>2
  <2>4. Len(g) = Least(m + 1) /\ Len(g) \in Nat
    BY <1>1, <2>3
  <2>5. /\ Given(n)' = Given(n) \cup {Now + 1}
        /\ Cardinality(Given(n))' = m + 1
        /\ \A t \in Given(n) : Since(n, t)' = Since(n, t) + 1
        /\ \A t : t = Now + 1 => Since(n, t)' = 0 /\ bars'[t] = b
    BY <1>3, GivenGrows
  <2>6. ASSUME NEW t \in Given(n), Since(n, t)' < MaxHistory
        PROVE  g[Len(g) - Since(n, t)'] = bars'[t][n]
    <3>1. Since(n, t)' = Since(n, t) + 1
      BY <2>5
    <3>2. /\ Since(n, t) \in Nat /\ Since(n, t) < m
          /\ Since(n, t) + 1 < MaxHistory
      BY <1>1, <2>6, <3>1
    <3>3. /\ h[Len(h) - Since(n, t)] = bars[t][n] /\ bars'[t] = bars[t]
          /\ Since(n, t) < Len(h)
      <4>1. Since(n, t) < Len(h) /\ Since(n, t) < MaxHistory
        BY <1>1, <3>2
      <4>. QED  BY <1>1, <4>1
    <3>4. g[Len(g) - (Since(n, t) + 1)] = h[Len(h) - Since(n, t)]
      BY <2>3, <3>2, <3>3
    <3>. QED  BY <3>1, <3>3, <3>4
  <2>7. ASSUME NEW t, t = Now + 1 PROVE g[Len(g) - Since(n, t)'] = bars'[t][n]
    <3>1. Since(n, t)' = 0 /\ bars'[t] = b
      BY <2>5, <2>7
    <3>2. Len(g) - 0 = Len(g)
      BY <2>4
    <3>. QED  BY <2>3, <3>1, <3>2
  <2>8. Len(g) = Least(Cardinality(Given(n))')
    BY <2>4, <2>5
  <2>. HIDE DEF Least
  <2>. QED  BY <2>5, <2>6, <2>7, <2>8
<1>. QED  BY <1>2, <1>3

(* A bar keeps the memory in its types, is remembered, and is compared     *)
(* with the one before.                                                    *)
LEMMA BarInv ==
  ASSUME SignalInv, NEW b \in Bars, Bar(b)
  PROVE  SignalInv'
<1>1. /\ prev_indicators' = b /\ update_first' = update_first
      /\ indicator_history' = Updated(b)
      /\ bars' = Append(bars, b)
      /\ bars \in Seq(Bars)
  BY DEF Bar, SignalInv, Remembered
<1>2. SignalTypes'
  <2>1. update_first' \in BOOLEAN /\ prev_indicators' \in Bars
    BY <1>1 DEF SignalInv, SignalTypes
  <2>2. \A n \in Names :
          /\ indicator_history'[n] \in Seq(Reading)
          /\ Len(indicator_history'[n]) <= MaxHistory
    BY <1>1, UpdatedTypes DEF SignalInv
  <2>. QED  BY <2>1, <2>2 DEF SignalTypes
<1>3. /\ bars' \in Seq(Bars) /\ Now \in Nat /\ Now' = Now + 1
      /\ bars'[Now'] = b
      /\ Now > 0 => bars'[Now] = bars[Now]
  BY <1>1 DEF Now
<1>4. Remembered'
  BY <1>1, <1>3 DEF Remembered
<1>5. Compared'
  <2>. SUFFICES ASSUME ~update_first, Now > 0,
                       NEW l \in Names, NEW r \in Names, l # r
                PROVE  /\ CrossesAbove(bars'[Now], b, l, r) =>
                            <<l, r>> \in signals'.above
                       /\ CrossesBelow(bars'[Now], b, l, r) =>
                            <<l, r>> \in signals'.below
    <3>1. Now' - 1 = Now /\ (Now' > 1 <=> Now > 0)
      BY <1>3
    <3>. QED  BY <1>1, <1>3, <3>1 DEF Compared
  <2>1. bars'[Now] = prev_indicators
    BY <1>3 DEF SignalInv, Remembered
  <2>2. signals' = Detected(prev_indicators, indicator_history, b)
    BY DEF Bar
  <2>. QED  BY <2>1, <2>2, CrossingsReported
<1>6. MemoryIsRecent'
  BY <1>1, RecentStays DEF SignalInv
<1>7. Consulted'
  BY <1>1, <1>3 DEF Bar, Consulted
<1>8. Stepped'
  <2>1. Current' = b /\ BarBefore' = IF update_first THEN b ELSE prev_indicators
    <3>1. Now' > 0 /\ (Now' > 1 <=> Now > 0) /\ Now' - 1 = Now
      BY <1>3
    <3>2. Current' = b
      BY <1>3, <3>1 DEF Current
    <3>3. prev_indicators = IF Now > 0 THEN bars[Now] ELSE Nothing
      BY DEF SignalInv, Remembered
    <3>. QED  BY <1>1, <1>3, <3>1, <3>2, <3>3 DEF BarBefore, Nothing
  <2>2. \E hist : signals' = Detected(IF update_first THEN b ELSE prev_indicators,
                                     hist, b)
    BY DEF Bar
  <2>. QED  BY <2>1, <2>2 DEF Stepped
<1>. QED  BY <1>2, <1>4, <1>5, <1>6, <1>7, <1>8 DEF SignalInv

LEMMA SignalNextInv == SignalInv /\ [SignalNext]_sigvars => SignalInv'
<1>. SUFFICES ASSUME SignalInv, [SignalNext]_sigvars PROVE SignalInv'
  OBVIOUS
<1>1. CASE SignalNext
  BY <1>1, BarInv DEF SignalNext
<1>2. CASE UNCHANGED sigvars
  <2>. USE <1>2 DEF sigvars, memory
  <2>1. SignalTypes'
    BY DEF SignalInv, SignalTypes
  <2>2. Remembered'
    BY DEF SignalInv, Remembered, Now
  <2>3. Compared'
    BY DEF SignalInv, Compared, Now
  <2>4. MemoryIsRecent'
    BY DEF SignalInv, MemoryIsRecent, Given, Since, Now
  <2>5. Consulted'
    BY DEF SignalInv, Consulted, Now
  <2>6. Stepped'
    BY DEF SignalInv, Stepped, BarBefore, Current, Now
  <2>. QED  BY <2>1, <2>2, <2>3, <2>4, <2>5, <2>6 DEF SignalInv
<1>. QED  BY <1>1, <1>2

(* The bars compared last are the two that any crossing ends with.         *)
LEMMA InvCrossings == SignalInv => CrossingsSeen
<1>. SUFFICES ASSUME SignalInv, ~update_first,
                     NEW l \in Names, NEW r \in Names, NEW s \in 1..(Now - 1),
                     l # r, WasBelow(s, l, r),
                     Lt(bars[Now][r], bars[Now][l])
              PROVE  <<l, r>> \in signals.above /\ <<r, l>> \in signals.below
  BY DEF CrossingsSeen
<1>1. Now \in Nat /\ Now > 1 /\ Now - 1 \in s..(Now - 1)
  BY DEF SignalInv, Remembered, Now
<1>2. Le(bars[Now - 1][l], bars[Now - 1][r])
  BY <1>1 DEF WasBelow
<1>3. /\ CrossesAbove(bars[Now - 1], bars[Now], l, r)
      /\ CrossesBelow(bars[Now - 1], bars[Now], r, l)
  BY <1>2 DEF CrossesAbove, CrossesBelow
<1>. QED  BY <1>1, <1>3 DEF SignalInv, Compared

(* What the detectors of one step say of two bars.                         *)
LEMMA StepsReported ==
  ASSUME NEW prev, NEW hist, NEW b, NEW told, told = Detected(prev, hist, b)
  PROVE  /\ \A l \in Names, r \in Names :
              /\ <<l, r>> \in told.above => CrossesAbove(prev, b, l, r)
              /\ <<l, r>> \in told.below => CrossesBelow(prev, b, l, r)
         /\ \A n \in Names, level \in Thresholds :
              /\ <<n, level>> \in told.over <=>
                   CrossesAboveThreshold(prev, b, n, level)
              /\ <<n, level>> \in told.under <=>
                   CrossesBelowThreshold(prev, b, n, level)
BY DEF Detected

(* A bar neither crosses anything by itself nor after nothing.             *)
LEMMA InvSteps == SignalInv => CrossingsTrue
<1>. SUFFICES ASSUME SignalInv PROVE CrossingsTrue
  OBVIOUS
<1>. DEFINE compares == ~update_first /\ 1 < Now
<1>1. /\ Missing \notin Int /\ update_first \in BOOLEAN /\ Now \in Nat
      /\ compares => BarBefore = bars[Now - 1] /\ Current = bars[Now]
      /\ ~compares => BarBefore = Current \/ BarBefore = Nothing
  BY DEF SignalInv, SignalTypes, Remembered, BarBefore, Current, Now
<1>2. PICK hist : signals = Detected(BarBefore, hist, Current)
  BY DEF SignalInv, Stepped
<1>3. ASSUME NEW l \in Names, NEW r \in Names,
             Le(BarBefore[l], BarBefore[r]), Lt(Current[r], Current[l])
      PROVE  compares
  BY <1>1, <1>3 DEF Le, Lt, Numbers, Nothing
<1>4. ASSUME NEW n \in Names, NEW level \in Thresholds,
             \/ Le(BarBefore[n], level) /\ Lt(level, Current[n])
             \/ Le(level, BarBefore[n]) /\ Lt(Current[n], level)
      PROVE  compares
  BY <1>1, <1>4 DEF Le, Lt, Numbers, Nothing
<1>5. ASSUME NEW l \in Names, NEW r \in Names,
             <<l, r>> \in signals.above \/ <<r, l>> \in signals.below
      PROVE  /\ compares
             /\ Le(bars[Now - 1][l], bars[Now - 1][r])
             /\ Lt(bars[Now][r], bars[Now][l])
  <2>1. Le(BarBefore[l], BarBefore[r]) /\ Lt(Current[r], Current[l])
    BY <1>2, <1>5, StepsReported DEF CrossesAbove, CrossesBelow
  <2>. QED  BY <1>1, <1>3, <2>1
<1>6. ASSUME NEW n \in Names, NEW level \in Thresholds
      PROVE  /\ <<n, level>> \in signals.over <=>
                  /\ compares
                  /\ Le(bars[Now - 1][n], level) /\ Lt(level, bars[Now][n])
             /\ <<n, level>> \in signals.under <=>
                  /\ compares
                  /\ Le(level, bars[Now - 1][n]) /\ Lt(bars[Now][n], level)
  <2>1. /\ <<n, level>> \in signals.over <=>
             Le(BarBefore[n], level) /\ Lt(level, Current[n])
        /\ <<n, level>> \in signals.under <=>
             Le(level, BarBefore[n]) /\ Lt(Current[n], level)
    BY <1>2, StepsReported DEF CrossesAboveThreshold, CrossesBelowThreshold
  <2>. QED  BY <1>1, <1>4, <2>1
<1>. QED  BY <1>5, <1>6 DEF CrossingsTrue

LEMMA AlwaysInv == SignalSpec => []SignalInv
BY SignalInitInv, SignalNextInv, PTL DEF SignalSpec

(* Every window of numbers has a least and a greatest.                     *)
LEMMA LeastElement ==
  ASSUME NEW T \in SUBSET Nat, T # {}
  PROVE  \E x \in T : \A y \in T : x <= y
<1>. DEFINE R == {ss \in Nat \X Nat : ss[1] < ss[2]}
<1>1. IsWellFoundedOn(R, Nat)
  BY NatLessThanWellFounded DEF OpToRel
<1>2. \A y \in Nat, x \in Nat : <<y, x>> \notin R => x <= y
  OBVIOUS
<1>. HIDE DEF R
<1>3. PICK x \in T : \A y \in T : <<y, x>> \notin R
  BY <1>1, WFMin
<1>. QED  BY <1>2, <1>3

LEMMA HasLeast ==
  ASSUME NEW k \in Nat \ {0}, NEW w \in [1..k -> Int]
  PROVE  \E i \in 1..k : \A j \in 1..k : w[i] <= w[j]
<1>. DEFINE Has(m) == \E i \in 1..m : \A j \in 1..m : w[i] <= w[j]
            Without == {m \in 1..k : ~Has(m)}
<1>. SUFFICES ASSUME Without # {} PROVE FALSE
  <2>1. k \notin Without => Has(k)
    BY DEF Without
  <2>. QED  BY <2>1
<1>1. PICK m \in Without : \A j \in Without : m <= j
  <2>1. Without \in SUBSET Nat
    OBVIOUS
  <2>. HIDE DEF Without
  <2>. QED  BY <2>1, LeastElement
<1>2. m # 1
  <2>1. Has(1)
    OBVIOUS
  <2>. QED  BY <2>1
<1>3. m \in 2..k /\ m - 1 \in 1..k
  BY <1>2
<1>4. PICK i \in 1..(m - 1) : \A j \in 1..(m - 1) : w[i] <= w[j]
  <2>1. m - 1 \notin Without
    <3>. HIDE DEF Without
    <3>. QED  BY <1>1, <1>3
  <2>2. Has(m - 1)
    <3>. HIDE DEF Has
    <3>. QED  BY <1>3, <2>1
  <2>. QED  BY <2>2
<1>5. /\ i \in 1..m /\ m \in 1..m /\ w[i] \in Int /\ w[m] \in Int
      /\ \A j \in 1..m : (j \in 1..(m - 1) \/ j = m) /\ w[j] \in Int
  BY <1>3, <1>4
<1>6. Has(m)
  <2>1. CASE w[i] <= w[m]
    <3>1. \A j \in 1..m : w[i] <= w[j]
      BY <1>4, <1>5, <2>1
    <3>. QED  BY <1>5, <3>1
  <2>2. CASE w[m] <= w[i]
    <3>1. ASSUME NEW j \in 1..m PROVE w[m] <= w[j]
      <4>1. CASE j \in 1..(m - 1)
        <5>1. w[i] <= w[j] /\ w[j] \in Int
          BY <1>4, <1>5, <4>1
        <5>. QED  BY <1>5, <2>2, <5>1
      <4>2. CASE j = m
        BY <1>5, <4>2
      <4>. QED  BY <1>5, <4>1, <4>2
    <3>. QED  BY <1>5, <3>1
  <2>. QED  BY <1>5, <2>1, <2>2
<1>. QED  BY <1>6

(* Of numbers, min and max are the least and the greatest.                 *)
LEMMA MinIs ==
  ASSUME NEW k \in Nat \ {0}, NEW w \in [1..k -> Int]
  PROVE  /\ PyMin(w) \in Int
         /\ \E i \in 1..k : PyMin(w) = w[i]
         /\ \A j \in 1..k : PyMin(w) <= w[j]
<1>1. PICK i \in 1..k : \A j \in 1..k : w[i] <= w[j]
  BY HasLeast
<1>2. /\ w[1] \in Int /\ w[i] \in NumbersIn(w)
      /\ \A y \in NumbersIn(w) : \E j \in 1..k : y = w[j]
      /\ \A j \in 1..k : w[j] \in NumbersIn(w)
      /\ NumbersIn(w) \subseteq Int
  BY DEF NumbersIn
<1>3. \A y \in NumbersIn(w) : w[i] <= y
  BY <1>1, <1>2
<1>4. PyMin(w) = CHOOSE x \in NumbersIn(w) : \A y \in NumbersIn(w) : x <= y
  BY <1>2 DEF PyMin
<1>5. /\ PyMin(w) \in NumbersIn(w)
      /\ \A y \in NumbersIn(w) : PyMin(w) <= y
  BY <1>2, <1>3, <1>4
<1>. QED  BY <1>2, <1>5

LEMMA MaxIs ==
  ASSUME NEW k \in Nat \ {0}, NEW w \in [1..k -> Int]
  PROVE  /\ PyMax(w) \in Int
         /\ \E i \in 1..k : PyMax(w) = w[i]
         /\ \A j \in 1..k : w[j] <= PyMax(w)
<1>. DEFINE u == [i \in 1..k |-> 0 - w[i]]
<1>1. PICK i \in 1..k : \A j \in 1..k : w[j] <= w[i]
  <2>1. u \in [1..k -> Int]
    OBVIOUS
  <2>2. PICK i \in 1..k : \A j \in 1..k : u[i] <= u[j]
    <3>. HIDE DEF u
    <3>. QED  BY <2>1, HasLeast
  <2>3. ASSUME NEW j \in 1..k PROVE w[j] <= w[i]
    <3>1. 0 - w[i] <= 0 - w[j] /\ w[i] \in Int /\ w[j] \in Int
      BY <2>2
    <3>. QED  BY <3>1
  <2>. QED  BY <2>3
<1>2. /\ w[1] \in Int /\ w[i] \in NumbersIn(w)
      /\ \A y \in NumbersIn(w) : \E j \in 1..k : y = w[j]
      /\ \A j \in 1..k : w[j] \in NumbersIn(w)
      /\ NumbersIn(w) \subseteq Int
  BY DEF NumbersIn
<1>3. \A y \in NumbersIn(w) : y <= w[i]
  BY <1>1, <1>2
<1>4. PyMax(w) = CHOOSE x \in NumbersIn(w) : \A y \in NumbersIn(w) : y <= x
  BY <1>2 DEF PyMax
<1>5. /\ PyMax(w) \in NumbersIn(w)
      /\ \A y \in NumbersIn(w) : y <= PyMax(w)
  BY <1>2, <1>3, <1>4
<1>. QED  BY <1>2, <1>5

(* A window over whole bars is what these bars had.                        *)
LEMMA WindowIs ==
  ASSUME SignalInv, NEW n \in Names, NEW k \in Nat \ {0}, Whole(n, k),
         k <= MaxHistory
  PROVE  /\ HasWindow(indicator_history, n, k)
         /\ LastOf(indicator_history[n], k)
              = [i \in 1..k |-> bars[Now - k + i][n]]
         /\ LastOf(indicator_history[n], k) \in [1..k -> Int]
<1>. DEFINE h == indicator_history[n]
<1>1. /\ Now \in Nat /\ k <= Now /\ DOMAIN bars = 1..Now
      /\ \A t \in (Now - k + 1)..Now : t \in 1..Now /\ bars[t][n] \in Int
      /\ h \in Seq(Reading) /\ Len(h) \in Nat
  BY DEF Whole, SignalInv, Remembered, SignalTypes, Now
<1>2. (Now - k + 1)..Now \subseteq Given(n)
  BY <1>1 DEF Given
<1>3. Given(n) \subseteq 1..Now /\ IsFiniteSet(Given(n))
  <2>1. Given(n) \subseteq 1..Now
    BY <1>1 DEF Given
  <2>2. IsFiniteSet(1..Now)
    BY <1>1, FS_Interval
  <2>. QED  BY <2>1, <2>2, FS_Subset
<1>4. Len(h) >= k
  <2>1. Cardinality((Now - k + 1)..Now) = k
    <3>1. Now - k + 1 \in Int /\ Now \in Int /\ Now - (Now - k + 1) + 1 = k
          /\ ~(Now - k + 1 > Now)
      BY <1>1
    <3>. QED  BY <3>1, FS_Interval
  <2>2. Cardinality(Given(n)) \in Nat /\ Cardinality(Given(n)) >= k
    <3>1. Cardinality((Now - k + 1)..Now) <= Cardinality(Given(n))
      BY <1>2, <1>3, FS_Subset
    <3>2. Cardinality(Given(n)) \in Nat
      BY <1>3, FS_CardinalityType
    <3>. QED  BY <2>1, <3>1, <3>2
  <2>. QED  BY <2>2 DEF SignalInv, MemoryIsRecent
<1>5. ASSUME NEW t \in (Now - k + 1)..Now
      PROVE  h[Len(h) - (Now - t)] = bars[t][n]
  <2>1. {u \in Given(n) : u > t} = (t + 1)..Now
    BY <1>1, <1>2, <1>3
  <2>2. Since(n, t) = Now - t
    <3>1. /\ t + 1 \in Int /\ Now \in Int /\ Now - (t + 1) + 1 = Now - t
          /\ t + 1 > Now => Now - t = 0
      BY <1>1
    <3>2. Cardinality((t + 1)..Now) = Now - t
      BY <3>1, FS_Interval
    <3>. QED  BY <2>1, <3>2 DEF Since
  <2>3. Since(n, t) < MaxHistory /\ t \in Given(n)
    BY <1>1, <1>2, <2>2
  <2>. QED  BY <2>2, <2>3 DEF SignalInv, MemoryIsRecent
<1>6. LastOf(h, k) = [i \in 1..k |-> h[Len(h) - k + i]]
  <2>1. LastOf(h, k) = [i \in 1..(Len(h) - (Len(h) - k + 1) + 1)
                         |-> h[Len(h) - k + 1 + i - 1]]
    <3>. HIDE DEF h
    <3>. QED  BY <1>1, <1>4 DEF LastOf
  <2>. HIDE DEF h
  <2>. QED  BY <1>1, <1>4, <2>1
<1>7. ASSUME NEW i \in 1..k PROVE h[Len(h) - k + i] = bars[Now - k + i][n]
  <2>1. /\ Now - k + i \in (Now - k + 1)..Now
        /\ Len(h) - (Now - (Now - k + i)) = Len(h) - k + i
    BY <1>1
  <2>. QED  BY <1>5, <2>1
<1>8. LastOf(h, k) = [i \in 1..k |-> bars[Now - k + i][n]]
  BY <1>6, <1>7
<1>9. \A i \in 1..k : bars[Now - k + i][n] \in Int
  BY <1>1
<1>. QED  BY <1>4, <1>8, <1>9 DEF HasWindow

(* A window without its last value.                                        *)
LEMMA EarlierIs ==
  ASSUME SignalInv, NEW n \in Names, NEW k \in Nat, k > 1, Whole(n, k),
         k <= MaxHistory
  PROVE  /\ Earlier(indicator_history, n, k)
              = [i \in 1..(k - 1) |-> bars[Now - k + i][n]]
         /\ Earlier(indicator_history, n, k) \in [1..(k - 1) -> Int]
<1>. DEFINE w == LastOf(indicator_history[n], k)
<1>1. w = [i \in 1..k |-> bars[Now - k + i][n]] /\ w \in [1..k -> Int]
  BY WindowIs
<1>. HIDE DEF w
<1>2. w \in Seq(Int) /\ Len(w) = k
  BY <1>1
<1>3. Front(w) = [i \in 1..(k - 1) |-> w[i]]
  BY <1>2 DEF Front
<1>4. Front(w) = [i \in 1..(k - 1) |-> bars[Now - k + i][n]]
      /\ Front(w) \in [1..(k - 1) -> Int]
  <2>1. \A i \in 1..(k - 1) : i \in 1..k
    OBVIOUS
  <2>2. \A i \in 1..(k - 1) : w[i] \in Int /\ w[i] = bars[Now - k + i][n]
    BY <1>1, <2>1
  <2>. QED  BY <1>3, <2>2
<1>. QED  BY <1>4 DEF Earlier, w

(* The extremes.                                                           *)
LEMMA ExtremesTold ==
  ASSUME SignalInv, NEW n \in Names, NEW k \in Nat \ {0}, Whole(n, k),
         k <= MaxHistory
  PROVE  /\ IsHighest(indicator_history, bars[Now], n, k) <=>
              \A t \in (Now - k + 1)..Now : bars[t][n] <= bars[Now][n]
         /\ IsLowest(indicator_history, bars[Now], n, k) <=>
              \A t \in (Now - k + 1)..Now : bars[t][n] >= bars[Now][n]
<1>. DEFINE w == LastOf(indicator_history[n], k)
            v(t) == bars[t][n]
<1>1. /\ HasWindow(indicator_history, n, k)
      /\ w = [i \in 1..k |-> v(Now - k + i)] /\ w \in [1..k -> Int]
  BY WindowIs
<1>2. /\ Now \in Nat /\ k <= Now
      /\ \A t \in (Now - k + 1)..Now : v(t) \in Int
  BY DEF Whole, SignalInv, Remembered, Now
<1>. HIDE DEF w
<1>. HIDE DEF v
<1>3. /\ \A i \in 1..k : Now - k + i \in (Now - k + 1)..Now
                          /\ w[i] = v(Now - k + i)
      /\ \A t \in (Now - k + 1)..Now : t - (Now - k) \in 1..k
                                      /\ v(t) = w[t - (Now - k)]
      /\ Now \in (Now - k + 1)..Now /\ v(Now) \in Int
  <2>1. \A i \in 1..k : Now - k + i \in (Now - k + 1)..Now
                          /\ w[i] = v(Now - k + i)
    BY <1>1, <1>2
  <2>2. ASSUME NEW t \in (Now - k + 1)..Now
        PROVE  t - (Now - k) \in 1..k /\ v(t) = w[t - (Now - k)]
    <3>1. t - (Now - k) \in 1..k /\ Now - k + (t - (Now - k)) = t
      BY <1>2
    <3>. QED  BY <2>1, <3>1
  <2>3. Now \in (Now - k + 1)..Now
    BY <1>2
  <2>. QED  BY <1>2, <2>1, <2>2, <2>3
<1>4. v(Now) = PyMax(w) <=> \A t \in (Now - k + 1)..Now : v(t) <= v(Now)
  <2>1. /\ PyMax(w) \in Int
        /\ \E i \in 1..k : PyMax(w) = w[i]
        /\ \A j \in 1..k : w[j] <= PyMax(w)
    BY <1>1, MaxIs
  <2>2. /\ \E t \in (Now - k + 1)..Now : PyMax(w) = v(t)
        /\ \A t \in (Now - k + 1)..Now : v(t) <= PyMax(w)
    BY <1>3, <2>1
  <2>. QED  BY <1>2, <1>3, <2>1, <2>2
<1>5. v(Now) = PyMin(w) <=> \A t \in (Now - k + 1)..Now : v(t) >= v(Now)
  <2>1. /\ PyMin(w) \in Int
        /\ \E i \in 1..k : PyMin(w) = w[i]
        /\ \A j \in 1..k : PyMin(w) <= w[j]
    BY <1>1, MinIs
  <2>2. /\ \E t \in (Now - k + 1)..Now : PyMin(w) = v(t)
        /\ \A t \in (Now - k + 1)..Now : PyMin(w) <= v(t)
    BY <1>3, <2>1
  <2>. QED  BY <1>2, <1>3, <2>1, <2>2
<1>. QED  BY <1>1, <1>3, <1>4, <1>5 DEF IsHighest, IsLowest, w, v

(* The runs.                                                               *)
LEMMA RunsTold ==
  ASSUME SignalInv, NEW n \in Names, NEW k \in Nat \ {0}, Whole(n, k + 1),
         k < MaxHistory
  PROVE  /\ IsRisingFor(indicator_history, n, k) <=>
              \A t \in (Now - k + 1)..Now : bars[t - 1][n] < bars[t][n]
         /\ IsFallingFor(indicator_history, n, k) <=>
              \A t \in (Now - k + 1)..Now : bars[t - 1][n] > bars[t][n]
<1>. DEFINE w == LastOf(indicator_history[n], k + 1)
            v(t) == bars[t][n]
<1>1. /\ HasWindow(indicator_history, n, k + 1)
      /\ w = [i \in 1..(k + 1) |-> v(Now - (k + 1) + i)]
      /\ w \in [1..(k + 1) -> Int]
  <2>1. k + 1 \in Nat \ {0} /\ k + 1 <= MaxHistory
    OBVIOUS
  <2>. QED  BY <2>1, WindowIs
<1>2. Now \in Nat /\ k + 1 <= Now
  BY DEF Whole, SignalInv, Remembered, Now
<1>. HIDE DEF w
<1>. HIDE DEF v
<1>. DEFINE from == Now - k - 1
<1>3. ASSUME NEW i \in 2..(k + 1), NEW t, t = from + i
      PROVE  /\ t \in (Now - k + 1)..Now
             /\ ~Le(w[i], w[i - 1]) <=> v(t - 1) < v(t)
             /\ ~Le(w[i - 1], w[i]) <=> v(t - 1) > v(t)
  <2>1. /\ i \in 1..(k + 1) /\ i - 1 \in 1..(k + 1)
        /\ Now - (k + 1) + i = t /\ Now - (k + 1) + (i - 1) = t - 1
        /\ t \in (Now - k + 1)..Now
    BY <1>2, <1>3
  <2>2. /\ w[i] \in Int /\ w[i - 1] \in Int
        /\ w[i] = v(t) /\ w[i - 1] = v(t - 1)
    BY <1>1, <2>1
  <2>. QED  BY <2>1, <2>2 DEF Le, Numbers
<1>4. ASSUME NEW t \in (Now - k + 1)..Now
      PROVE  \E i \in 2..(k + 1) : t = from + i
  <2>1. t - from \in 2..(k + 1) /\ t = from + (t - from)
    BY <1>2
  <2>. QED  BY <2>1
<1>. HIDE DEF from
<1>5. (\A i \in 2..(k + 1) : ~Le(w[i], w[i - 1])) <=>
        \A t \in (Now - k + 1)..Now : v(t - 1) < v(t)
  BY <1>3, <1>4
<1>6. (\A i \in 2..(k + 1) : ~Le(w[i - 1], w[i])) <=>
        \A t \in (Now - k + 1)..Now : v(t - 1) > v(t)
  BY <1>3, <1>4
<1>. QED  BY <1>1, <1>5, <1>6 DEF IsRisingFor, IsFallingFor, w, v

(* The best of the bars before the current one.                            *)
LEMMA BestBefore ==
  ASSUME SignalInv, NEW n \in Names, NEW k \in Nat, k > 1, Whole(n, k),
         k <= MaxHistory
  PROVE  LET span == (Now - k + 1)..(Now - 1)
             least == PyMin(Earlier(indicator_history, n, k))
             most == PyMax(Earlier(indicator_history, n, k))
         IN  /\ bars[Now][n] \in Int /\ \A t \in span : bars[t][n] \in Int
             /\ least \in Int /\ \E t \in span : least = bars[t][n]
             /\ \A t \in span : least <= bars[t][n]
             /\ most \in Int /\ \E t \in span : most = bars[t][n]
             /\ \A t \in span : bars[t][n] <= most
<1>. DEFINE w == Earlier(indicator_history, n, k)
            v(t) == bars[t][n]
            span == (Now - k + 1)..(Now - 1)
<1>1. /\ w = [i \in 1..(k - 1) |-> v(Now - k + i)] /\ w \in [1..(k - 1) -> Int]
  BY EarlierIs
<1>2. /\ Now \in Nat /\ k <= Now /\ v(Now) \in Int
      /\ \A t \in span : v(t) \in Int
  <2>1. Now \in Nat /\ k <= Now /\ \A t \in (Now - k + 1)..Now : v(t) \in Int
    BY DEF Whole, SignalInv, Remembered, Now
  <2>. QED  BY <2>1
<1>. HIDE DEF w
<1>. HIDE DEF v
<1>3. ASSUME NEW i \in 1..(k - 1)
      PROVE  Now - k + i \in span /\ w[i] = v(Now - k + i)
  BY <1>1, <1>2
<1>4. ASSUME NEW t \in span
      PROVE  \E i \in 1..(k - 1) : v(t) = w[i]
  <2>1. t - (Now - k) \in 1..(k - 1) /\ Now - k + (t - (Now - k)) = t
    BY <1>2
  <2>. QED  BY <1>3, <2>1
<1>. HIDE DEF span
<1>5. k - 1 \in Nat \ {0}
  OBVIOUS
<1>6. /\ PyMin(w) \in Int /\ \E t \in span : PyMin(w) = v(t)
      /\ \A t \in span : PyMin(w) <= v(t)
  BY <1>1, <1>3, <1>4, <1>5, MinIs
<1>7. /\ PyMax(w) \in Int /\ \E t \in span : PyMax(w) = v(t)
      /\ \A t \in span : v(t) <= PyMax(w)
  BY <1>1, <1>3, <1>4, <1>5, MaxIs
<1>. QED  BY <1>2, <1>6, <1>7 DEF w, v, span

(* The divergences of two names.                                           *)
LEMMA DivergencesTold ==
  ASSUME SignalInv, NEW p \in Names, NEW n \in Names, NEW k \in Nat, k > 1,
         Whole(n, k), Whole(p, k), k <= MaxHistory
  PROVE  LET span == (Now - k + 1)..(Now - 1)
         IN  /\ DivergenceBullish(indicator_history, bars[Now], p, n, k) <=>
                  /\ \A t \in span : bars[Now][p] < bars[t][p]
                  /\ \E t \in span :
                       /\ bars[t][n] < bars[Now][n]
                       /\ \A u \in span : bars[t][n] <= bars[u][n]
             /\ DivergenceBearish(indicator_history, bars[Now], p, n, k) <=>
                  /\ \A t \in span : bars[Now][p] > bars[t][p]
                  /\ \E t \in span :
                       /\ bars[t][n] > bars[Now][n]
                       /\ \A u \in span : bars[t][n] >= bars[u][n]
<1>. DEFINE span == (Now - k + 1)..(Now - 1)
            Least(m) == PyMin(Earlier(indicator_history, m, k))
            Most(m) == PyMax(Earlier(indicator_history, m, k))
            v(m, t) == bars[t][m]
<1>1. ASSUME NEW m \in {n, p}
      PROVE  /\ v(m, Now) \in Int /\ \A t \in span : v(m, t) \in Int
             /\ Least(m) \in Int /\ \E t \in span : Least(m) = v(m, t)
             /\ \A t \in span : Least(m) <= v(m, t)
             /\ Most(m) \in Int /\ \E t \in span : Most(m) = v(m, t)
             /\ \A t \in span : v(m, t) <= Most(m)
  <2>1. m \in Names /\ Whole(m, k)
    OBVIOUS
  <2>. QED  BY <2>1, BestBefore
<1>2. /\ HasWindow(indicator_history, n, k)
      /\ HasWindow(indicator_history, p, k)
  <2>1. k \in Nat \ {0}
    OBVIOUS
  <2>. QED  BY <2>1, WindowIs
<1>. HIDE DEF span
<1>. HIDE DEF Least
<1>. HIDE DEF Most
<1>. HIDE DEF v
<1>3. Lt(v(p, Now), Least(p)) <=> \A t \in span : v(p, Now) < v(p, t)
  <2>1. Lt(v(p, Now), Least(p)) <=> v(p, Now) < Least(p)
    BY <1>1 DEF Lt, Numbers
  <2>. QED  BY <1>1, <2>1
<1>4. Lt(Least(n), v(n, Now)) <=>
        \E t \in span : /\ v(n, t) < v(n, Now)
                        /\ \A u \in span : v(n, t) <= v(n, u)
  <2>1. Lt(Least(n), v(n, Now)) <=> Least(n) < v(n, Now)
    BY <1>1 DEF Lt, Numbers
  <2>. QED  BY <1>1, <2>1
<1>5. Lt(Most(p), v(p, Now)) <=> \A t \in span : v(p, Now) > v(p, t)
  <2>1. Lt(Most(p), v(p, Now)) <=> Most(p) < v(p, Now)
    BY <1>1 DEF Lt, Numbers
  <2>. QED  BY <1>1, <2>1
<1>6. Lt(v(n, Now), Most(n)) <=>
        \E t \in span : /\ v(n, t) > v(n, Now)
                        /\ \A u \in span : v(n, t) >= v(n, u)
  <2>1. Lt(v(n, Now), Most(n)) <=> v(n, Now) < Most(n)
    BY <1>1 DEF Lt, Numbers
  <2>. QED  BY <1>1, <2>1
<1>. QED  BY <1>2, <1>3, <1>4, <1>5, <1>6
          DEF DivergenceBullish, DivergenceBearish, span, Least, Most, v

(* What is reported is what the detectors of windows find.                 *)
LEMMA WindowsReported ==
  ASSUME NEW prev, NEW hist, NEW b, NEW n \in Names, NEW k \in Periods
  PROVE  LET told == Detected(prev, hist, b)
         IN  /\ <<n, k>> \in told.highest <=> IsHighest(hist, b, n, k)
             /\ <<n, k>> \in told.lowest <=> IsLowest(hist, b, n, k)
             /\ <<n, k>> \in told.rising_for <=> IsRisingFor(hist, n, k)
             /\ <<n, k>> \in told.falling_for <=> IsFallingFor(hist, n, k)
             /\ \A p \in Names \ {n} :
                  /\ <<p, n, k>> \in told.bullish <=>
                       DivergenceBullish(hist, b, p, n, k)
                  /\ <<p, n, k>> \in told.bearish <=>
                       DivergenceBearish(hist, b, p, n, k)
BY DEF Detected

LEMMA InvWindows == SignalInv => WindowsRight
<1>. SUFFICES ASSUME SignalInv, update_first PROVE WindowsRight
  BY DEF WindowsRight
<1>1. ASSUME NEW n \in Names, NEW k \in Nat \ {0}, Whole(n, k)
      PROVE  signals = Detected(bars[Now], indicator_history, bars[Now])
  BY <1>1 DEF SignalInv, Remembered, Consulted, Whole, Now
<1>2. ASSUME NEW n \in Names, NEW k \in Periods, Whole(n, k), k <= MaxHistory
      PROVE  /\ <<n, k>> \in signals.highest <=>
                  \A t \in (Now - k + 1)..Now : bars[t][n] <= bars[Now][n]
             /\ <<n, k>> \in signals.lowest <=>
                  \A t \in (Now - k + 1)..Now : bars[t][n] >= bars[Now][n]
  BY <1>1, <1>2, WindowsReported, ExtremesTold
<1>3. ASSUME NEW n \in Names, NEW k \in Periods, Whole(n, k + 1), k < MaxHistory
      PROVE  /\ <<n, k>> \in signals.rising_for <=>
                  \A t \in (Now - k + 1)..Now : bars[t - 1][n] < bars[t][n]
             /\ <<n, k>> \in signals.falling_for <=>
                  \A t \in (Now - k + 1)..Now : bars[t - 1][n] > bars[t][n]
  <2>1. k \in Nat \ {0} /\ k + 1 \in Nat \ {0}
    OBVIOUS
  <2>. QED  BY <1>1, <1>3, <2>1, WindowsReported, RunsTold
<1>4. ASSUME NEW n \in Names, NEW k \in Periods, NEW p \in Names \ {n},
             Whole(n, k), Whole(p, k), 1 < k, k <= MaxHistory
      PROVE  LET span == (Now - k + 1)..(Now - 1)
             IN  /\ <<p, n, k>> \in signals.bullish <=>
                      /\ \A t \in span : bars[Now][p] < bars[t][p]
                      /\ \E t \in span :
                           /\ bars[t][n] < bars[Now][n]
                           /\ \A u \in span : bars[t][n] <= bars[u][n]
                 /\ <<p, n, k>> \in signals.bearish <=>
                      /\ \A t \in span : bars[Now][p] > bars[t][p]
                      /\ \E t \in span :
                           /\ bars[t][n] > bars[Now][n]
                           /\ \A u \in span : bars[t][n] >= bars[u][n]
  BY <1>1, <1>4, WindowsReported, DivergencesTold
<1>. QED  BY <1>2, <1>3, <1>4 DEF WindowsRight

(* Whatever bars a strategy is shown, its memory has its types, and no     *)
(* history outgrows _max_history_length.                                   *)
THEOREM SignalTypesHold == SignalSpec => []SignalTypes
<1>1. SignalInv => SignalTypes
  BY DEF SignalInv
<1>. QED  BY <1>1, AlwaysInv, PTL

(* A strategy that updates its memory last misses no crossing, for any     *)
(* names, values and length of the behaviour.                              *)
THEOREM CrossingsAlwaysSeen == SignalSpec => []CrossingsSeen
BY InvCrossings, AlwaysInv, PTL

(* The detectors make no crossing up in either order of calls, and tell    *)
(* the truth about what was shown in the order each is written for, for    *)
(* any names, values, periods and histories.                               *)
THEOREM DetectorsAlwaysRight == SignalSpec => []DetectorsRight
<1>1. SignalInv => DetectorsRight
  BY InvCrossings, InvSteps, InvWindows DEF SignalInv, DetectorsRight
<1>. QED  BY <1>1, AlwaysInv, PTL
-----------------------------------------------------------------------------
(* The trades.                                                             *)
HIDE SignalAssumption DEF SignalAssumption

USE TradeAssumption DEF TradeAssumption

Told == seen \cup {position.entry_price}

(* highest_price and lowest_price are prices that were told, and bound     *)
(* them all.                                                               *)
Extremes ==
  /\ position.highest_price \in Told
  /\ position.lowest_price \in Told
  /\ \A q \in Told : position.lowest_price <= q /\ q <= position.highest_price

Trailing == position.trailing_stop # 0 /\ seen # {}

BestTrail == Trail(position.side, position.highest_price,
                   position.lowest_price, position.trailing_stop)

(* Where nothing trails the stop is the first one.  Else it is the trail   *)
(* or the first one, and neither is tighter.                               *)
StopIsTightest ==
  IF Trailing
    THEN /\ position.stop_loss \in Nat
         /\ position.stop_loss \in {BestTrail, first_stop}
         /\ ~Tighter(position.side, BestTrail, position.stop_loss)
         /\ first_stop # None =>
              ~Tighter(position.side, first_stop, position.stop_loss)
    ELSE position.stop_loss = first_stop

StopOK == position # None => Extremes /\ StopIsTightest

BooksOK ==
  /\ last_reset_date = today => daily_pnl = today_pnl - wiped
  /\ answer # "stale" =>
       /\ last_reset_date = today
       /\ answer = "yes" <=> WithinLimit(daily_pnl)

TradeInv == TradeTypes /\ StopOK /\ BooksOK
-----------------------------------------------------------------------------
(* The trail of a higher price is not lower.                               *)
LEMMA TrailMonotone ==
  ASSUME NEW q \in Nat, NEW r \in Nat, NEW t \in 0..100, q <= r
  PROVE  /\ q * (100 - t) \in Nat /\ r * (100 - t) \in Nat
         /\ q * (100 + t) \in Nat /\ r * (100 + t) \in Nat
         /\ q * (100 - t) <= r * (100 - t)
         /\ q * (100 + t) <= r * (100 + t)
<1>1. \A n \in Nat : q * n \in Nat /\ r * n \in Nat /\ q * n <= r * n
  <2>. TAKE n \in Nat
  <2>1. PICK d \in Nat : r = q + d
    <3>. WITNESS r - q \in Nat
    <3>. QED
      OBVIOUS
  <2>2. r * n = q * n + d * n /\ q * n \in Nat /\ d * n \in Nat
    BY <2>1
  <2>. QED
    BY <2>2
<1>2. 100 - t \in Nat /\ 100 + t \in Nat
  OBVIOUS
<1>. QED
  BY <1>1, <1>2

LEMMA OptionalType == ASSUME NEW x \in Nat PROVE Optional(x) \in Nat \cup {None}
BY DEF Optional

THEOREM TradeInitInv == TradeInit => TradeInv
BY DEF TradeInit, TradeInv, TradeTypes, StopOK, BooksOK
-----------------------------------------------------------------------------
LEMMA OpenStep ==
  ASSUME TradeInv, NEW side \in {Long, Short}, NEW price \in Prices,
         NEW stop \in StopLosses, NEW trail \in TrailingStops,
         OpenPosition(side, price, stop, trail)
  PROVE  TradeInv'
<1>1. Optional(stop) \in Nat \cup {None}
  BY OptionalType
<1>2. TradeTypes'
  BY <1>1 DEF TradeInv, TradeTypes, OpenPosition, books, Long, Short
<1>3. StopOK'
  <2>1. Extremes'
    BY DEF OpenPosition, Extremes, Told
  <2>2. StopIsTightest'
    BY DEF OpenPosition, StopIsTightest, Trailing
  <2>. QED
    BY <2>1, <2>2 DEF StopOK
<1>4. BooksOK'
  BY DEF TradeInv, TradeTypes, BooksOK, OpenPosition, books
<1>. QED
  BY <1>2, <1>3, <1>4 DEF TradeInv

(* What a new price does to the extremes and to the stop.                  *)
LEMMA UpdateStep ==
  ASSUME TradeInv, NEW price \in Prices, UpdatePrice(price)
  PROVE  /\ TradeInv'
         /\ position.stop_loss # None =>
              /\ position'.stop_loss # None
              /\ ~Tighter(position.side, position.stop_loss,
                          position'.stop_loss)
<1> DEFINE high == IF price > position.highest_price THEN price
                   ELSE position.highest_price
           low == IF price < position.lowest_price THEN price
                  ELSE position.lowest_price
           side == position.side
           t == position.trailing_stop
           old == position.stop_loss
           new == Trail(side, high, low, t)
<1>1. /\ position # None /\ position.status = "open"
      /\ position \in [side : {Long, Short}, entry_price : Nat,
                       status : {"open", "closed"}, stop_loss : Nat \cup {None},
                       trailing_stop : 0..100, highest_price : Nat,
                       lowest_price : Nat]
  BY DEF TradeInv, TradeTypes, UpdatePrice, Open
<1>2. /\ side \in {Long, Short} /\ t \in 0..100 /\ old \in Nat \cup {None}
      /\ position.highest_price \in Nat /\ position.lowest_price \in Nat
      /\ position.entry_price \in Nat /\ price \in Nat
      /\ high \in Nat /\ low \in Nat
  BY <1>1
<1>3. /\ position'.side = side /\ position'.trailing_stop = t
      /\ position'.entry_price = position.entry_price
      /\ position'.status = "open"
      /\ position'.highest_price = high /\ position'.lowest_price = low
      /\ position'.stop_loss = IF t = 0 THEN old ELSE Ratchet(side, new, old)
  BY <1>1 DEF UpdatePrice
<1>4. position' \in [side : {Long, Short}, entry_price : Nat,
                     status : {"open", "closed"}, stop_loss : {position'.stop_loss},
                     trailing_stop : 0..100, highest_price : Nat,
                     lowest_price : Nat]
  BY <1>1, <1>2 DEF UpdatePrice
<1>5. /\ seen' = seen \cup {price} /\ first_stop' = first_stop
      /\ UNCHANGED <<trades, unrecorded, daily_pnl, last_reset_date, today_pnl,
                     wiped, today, answer>>
  BY DEF UpdatePrice, books
<1>6. Extremes /\ StopIsTightest
  BY <1>1 DEF TradeInv, StopOK
<1>7. Extremes'
  <2>1. Told' = Told \cup {price}
    BY <1>3, <1>5 DEF Told
  <2>2. Told \subseteq Nat
    BY <1>2 DEF Told, TradeInv, TradeTypes
  <2>. QED
    BY <1>2, <1>3, <1>6, <2>1, <2>2 DEF Extremes
<1>8. /\ new \in Nat
      /\ ~Tighter(side, BestTrail, new)
      /\ BestTrail \in Nat
  <2>1. /\ position.highest_price <= high
        /\ low <= position.lowest_price
    BY <1>2
  <2>2. CASE side = Long
    <3>1. /\ high * (100 - t) \in Nat
          /\ position.highest_price * (100 - t) \in Nat
          /\ position.highest_price * (100 - t) <= high * (100 - t)
      BY <1>2, <2>1, TrailMonotone
    <3>. QED
      BY <2>2, <3>1 DEF Trail, BestTrail, Tighter
  <2>3. CASE side = Short
    <3>1. /\ low * (100 + t) \in Nat
          /\ position.lowest_price * (100 + t) \in Nat
          /\ low * (100 + t) <= position.lowest_price * (100 + t)
      BY <1>2, <2>1, TrailMonotone
    <3>2. side # Long
      BY <2>3 DEF Long, Short
    <3>. QED
      BY <3>1, <3>2 DEF Trail, BestTrail, Tighter
  <2>. QED
    BY <1>2, <2>2, <2>3
<1>9. first_stop \in Nat \cup {None}
  BY DEF TradeInv, TradeTypes
<1>10. /\ position'.stop_loss \in Nat \cup {None}
       /\ old # None => /\ position'.stop_loss # None
                        /\ ~Tighter(side, old, position'.stop_loss)
  <2>. HIDE DEF new
  <2>. QED
    BY <1>2, <1>3, <1>8 DEF Ratchet, Tighter
<1>11. StopIsTightest'
  <2>1. BestTrail' = new
    BY <1>3 DEF BestTrail
  <2>2. Trailing' <=> t # 0
    BY <1>3, <1>5 DEF Trailing
  <2>3. CASE t = 0
    BY <1>3, <1>5, <1>6, <2>2, <2>3 DEF StopIsTightest, Trailing
  <2>4. CASE t # 0
    <3>1. position'.stop_loss = Ratchet(side, new, old)
      BY <1>3, <2>4
    <3>2. CASE seen = {}
      <4>1. old = first_stop
        BY <1>6, <3>2 DEF StopIsTightest, Trailing
      <4>2. /\ position'.stop_loss \in Nat
            /\ position'.stop_loss \in {new, first_stop}
            /\ ~Tighter(side, new, position'.stop_loss)
            /\ first_stop # None =>
                 ~Tighter(side, first_stop, position'.stop_loss)
        <5>. HIDE DEF new
        <5>. QED
          BY <1>2, <1>8, <1>9, <3>1, <4>1 DEF Ratchet, Tighter
      <4>. QED
        BY <1>3, <1>5, <2>1, <2>2, <2>4, <4>2 DEF StopIsTightest
    <3>3. CASE seen # {}
      <4>1. /\ old \in Nat /\ old \in {BestTrail, first_stop}
            /\ ~Tighter(side, BestTrail, old)
            /\ first_stop # None => ~Tighter(side, first_stop, old)
        BY <1>6, <2>4, <3>3 DEF StopIsTightest, Trailing
      <4>2. /\ position'.stop_loss \in Nat
            /\ position'.stop_loss \in {new, first_stop}
            /\ ~Tighter(side, new, position'.stop_loss)
            /\ first_stop # None =>
                 ~Tighter(side, first_stop, position'.stop_loss)
        <5>. HIDE DEF new
        <5>. QED
          BY <1>2, <1>8, <1>9, <3>1, <4>1 DEF Ratchet, Tighter
      <4>. QED
        BY <1>3, <1>5, <2>1, <2>2, <2>4, <4>2 DEF StopIsTightest
    <3>. QED
      BY <3>2, <3>3
  <2>. QED
    BY <2>3, <2>4
<1>12. TradeTypes'
  BY <1>4, <1>5, <1>10 DEF TradeInv, TradeTypes
<1>13. BooksOK'
  BY <1>5 DEF TradeInv, BooksOK, WithinLimit
<1>. QED
  BY <1>7, <1>10, <1>11, <1>12, <1>13 DEF TradeInv, StopOK

LEMMA CloseStep ==
  ASSUME TradeInv, NEW price \in Prices, Close(price)
  PROVE  TradeInv'
<1>1. /\ position # None
      /\ position \in [side : {Long, Short}, entry_price : Nat,
                       status : {"open", "closed"}, stop_loss : Nat \cup {None},
                       trailing_stop : 0..100, highest_price : Nat,
                       lowest_price : Nat]
  BY DEF TradeInv, TradeTypes, Close, Open
<1>2. /\ position' \in [side : {Long, Short}, entry_price : Nat,
                        status : {"open", "closed"}, stop_loss : Nat \cup {None},
                        trailing_stop : 0..100, highest_price : Nat,
                        lowest_price : Nat]
      /\ \A f \in {"side", "entry_price", "stop_loss", "trailing_stop",
                   "highest_price", "lowest_price"} : position'[f] = position[f]
  BY <1>1 DEF Close
<1>3. Pnl(position, price) \in Int
  <2>1. position.entry_price \in Nat /\ price \in Nat
    BY <1>1
  <2>2. QED
    BY <2>1 DEF Pnl
<1>4. TradeTypes'
  BY <1>2, <1>3 DEF TradeInv, TradeTypes, Close, books
<1>5. StopOK'
  BY <1>1, <1>2 DEF TradeInv, StopOK, Close, Extremes, StopIsTightest, Told,
                   Trailing, BestTrail
<1>6. BooksOK'
  BY DEF TradeInv, BooksOK, Close, books, WithinLimit
<1>. QED
  BY <1>4, <1>5, <1>6 DEF TradeInv
-----------------------------------------------------------------------------
(* Steps that leave the position alone keep all that is said of it.        *)
LEMMA StopKept ==
  ASSUME TradeInv, UNCHANGED object
  PROVE  StopOK'
BY DEF TradeInv, object, StopOK, Extremes, StopIsTightest, Told, Trailing, BestTrail

LEMMA RecordStep == ASSUME TradeInv, RecordTrade PROVE TradeInv'
<1>1. TradeTypes'
  BY DEF TradeInv, TradeTypes, RecordTrade, object
<1>2. BooksOK'
  BY DEF TradeInv, TradeTypes, BooksOK, RecordTrade, WithinLimit
<1>. QED
  BY <1>1, <1>2, StopKept DEF TradeInv, RecordTrade

LEMMA CanTradeStep == ASSUME TradeInv, CanTrade PROVE TradeInv'
<1>1. TradeTypes'
  BY DEF TradeInv, TradeTypes, CanTrade, NewDay, object
<1>2. BooksOK'
  BY DEF TradeInv, TradeTypes, BooksOK, CanTrade, NewDay, WithinLimit
<1>. QED
  BY <1>1, <1>2, StopKept DEF TradeInv, CanTrade

LEMMA MidnightStep == ASSUME TradeInv, Midnight PROVE TradeInv'
<1>1. TradeTypes'
  BY DEF TradeInv, TradeTypes, Midnight, object
<1>2. BooksOK'
  BY DEF TradeInv, TradeTypes, BooksOK, Midnight
<1>. QED
  BY <1>1, <1>2, StopKept DEF TradeInv, Midnight

THEOREM TradeNextInv == TradeInv /\ [TradeNext]_tradevars => TradeInv'
<1>. SUFFICES ASSUME TradeInv, [TradeNext]_tradevars PROVE TradeInv'
  OBVIOUS
<1>1. CASE UNCHANGED tradevars
  <2>1. TradeTypes' /\ BooksOK'
    BY <1>1 DEF TradeInv, TradeTypes, BooksOK, WithinLimit, tradevars, object, books
  <2>. QED
    BY <1>1, <2>1, StopKept DEF TradeInv, tradevars
<1>. QED
  BY <1>1, OpenStep, UpdateStep, CloseStep, RecordStep, CanTradeStep,
     MidnightStep DEF TradeNext
-----------------------------------------------------------------------------
(* Positions, books and stops keep their types, however the program calls. *)
THEOREM TradeTypesHold == TradeSpec => []TradeTypes
<1>1. TradeInv => TradeTypes
  BY DEF TradeInv
<1>. QED
  BY TradeInitInv, TradeNextInv, <1>1, PTL DEF TradeSpec

(* The answer to can_trade is about what was recorded today, except before *)
(* the first question of the day.                                          *)
THEOREM LimitIsAlwaysDaily == TradeSpec => []LimitIsDaily
<1>1. TradeInv => LimitIsDaily
  BY DEF TradeInv, TradeTypes, BooksOK, LimitIsDaily
<1>. QED
  BY TradeInitInv, TradeNextInv, <1>1, PTL DEF TradeSpec

(* The stop of an open position never loosens.                             *)
THEOREM StopsAlwaysRatchet == TradeSpec => StopRatchets
<1> DEFINE Ratchets ==
      Open /\ Open' /\ position.stop_loss # None =>
        /\ position'.stop_loss # None
        /\ ~Tighter(position.side, position.stop_loss, position'.stop_loss)
<1>1. TradeInv /\ [TradeNext]_tradevars => [Ratchets]_tradevars
  <2>. SUFFICES ASSUME TradeInv, TradeNext, Open, Open', position.stop_loss # None
                PROVE  Ratchets
    OBVIOUS
  <2>1. ASSUME position' = position PROVE Ratchets
    <3>1. position.stop_loss \in Nat
      BY DEF TradeInv, TradeTypes, Open
    <3>. QED
      BY <2>1, <3>1 DEF Tighter
  <2>2. ASSUME NEW side \in {Long, Short}, NEW price \in Prices,
               NEW stop \in StopLosses, NEW trail \in TrailingStops,
               OpenPosition(side, price, stop, trail)
        PROVE  FALSE
    BY <2>2 DEF OpenPosition
  <2>3. ASSUME NEW price \in Prices, UpdatePrice(price) PROVE Ratchets
    BY <2>3, UpdateStep
  <2>4. ASSUME NEW price \in Prices, Close(price) PROVE FALSE
    BY <2>4 DEF Close, Open, TradeInv, TradeTypes
  <2>5. CASE RecordTrade \/ CanTrade \/ Midnight
    BY <2>1, <2>5 DEF RecordTrade, CanTrade, Midnight, object
  <2>. QED
    BY <2>2, <2>3, <2>4, <2>5 DEF TradeNext
<1>. QED
  BY TradeInitInv, TradeNextInv, <1>1, PTL DEF TradeSpec, StopRatchets

(* A position is stopped exactly at its first stop or when the price has   *)
(* come back by the trailing percentage from any price it was told.        *)
THEOREM StopsAlwaysFollow == TradeSpec => []StopFollows
<1>1. TradeInv => StopFollows
  <2>. SUFFICES ASSUME TradeInv, position # None PROVE StopFollows
    BY DEF StopFollows
  <2> DEFINE side == position.side
             t == position.trailing_stop
             stop == position.stop_loss
             trailed == IF t = 0 \/ seen = {} THEN {}
                        ELSE seen \cup {position.entry_price}
             stops == {Trail(side, q, q, t) : q \in trailed}
                        \cup ({first_stop} \ {None})
  <2>1. /\ side \in {Long, Short} /\ t \in 0..100 /\ stop \in Nat \cup {None}
        /\ position.highest_price \in Nat /\ position.lowest_price \in Nat
        /\ position.entry_price \in Nat /\ first_stop \in Nat \cup {None}
        /\ Told \subseteq Nat
    BY DEF TradeInv, TradeTypes, Told
  <2>2. Extremes /\ StopIsTightest
    BY DEF TradeInv, StopOK
  <2>3. ASSUME NEW p \in Prices
        PROVE  ShouldStopLoss(position, p) <=>
                 \E s \in stops : Reached(side, p, s)
    <3>1. CASE ~Trailing
      BY <2>1, <2>2, <3>1 DEF Trailing, StopIsTightest, ShouldStopLoss
    <3>2. CASE Trailing
      <4>1. trailed = Told
        BY <3>2 DEF Trailing, Told
      <4>2. BestTrail \in stops
        <5>1. CASE side = Long
          BY <4>1, <2>2, <5>1 DEF Extremes, BestTrail, Trail
        <5>2. CASE side # Long
          BY <4>1, <2>2, <5>2 DEF Extremes, BestTrail, Trail
        <5>. QED
          BY <5>1, <5>2
      <4>3. stop \in Nat /\ stop \in stops
        BY <2>1, <2>2, <3>2, <4>2 DEF StopIsTightest
      <4>4. \A s \in stops : s \in Nat /\ ~Tighter(side, s, stop)
        <5>1. ASSUME NEW q \in Told
              PROVE  /\ Trail(side, q, q, t) \in Nat
                     /\ BestTrail \in Nat
                     /\ ~Tighter(side, Trail(side, q, q, t), BestTrail)
          <6>1. /\ q \in Nat /\ position.lowest_price <= q
                /\ q <= position.highest_price
            BY <2>1, <2>2 DEF Extremes
          <6>2. CASE side = Long
            <7>1. /\ q * (100 - t) \in Nat
                  /\ position.highest_price * (100 - t) \in Nat
                  /\ q * (100 - t) <= position.highest_price * (100 - t)
              BY <2>1, <6>1, TrailMonotone
            <7>. QED
              BY <6>2, <7>1 DEF Trail, BestTrail, Tighter
          <6>3. CASE side # Long
            <7>1. /\ q * (100 + t) \in Nat
                  /\ position.lowest_price * (100 + t) \in Nat
                  /\ position.lowest_price * (100 + t) <= q * (100 + t)
              BY <2>1, <6>1, TrailMonotone
            <7>. QED
              BY <6>3, <7>1 DEF Trail, BestTrail, Tighter
          <6>. QED
            BY <6>2, <6>3
        <5>2. ASSUME NEW q \in Told
              PROVE  ~Tighter(side, Trail(side, q, q, t), stop)
          <6>1. ~Tighter(side, BestTrail, stop)
            BY <2>2, <3>2 DEF StopIsTightest
          <6>. QED
            BY <4>3, <5>1, <6>1 DEF Tighter
        <5>3. first_stop # None => ~Tighter(side, first_stop, stop)
          BY <2>2, <3>2 DEF StopIsTightest
        <5>. QED
          BY <2>1, <4>1, <5>1, <5>2, <5>3
      <4>5. \A s \in stops : Reached(side, p, s) => Reached(side, p, stop)
        <5>. HIDE DEF stops
        <5>. QED
          BY <2>1, <4>3, <4>4 DEF Tighter, Reached
      <4>. HIDE DEF stops
      <4>. QED
        BY <4>3, <4>5 DEF ShouldStopLoss
    <3>. QED
      BY <3>1, <3>2
  <2>. QED
    BY <2>3 DEF StopFollows
<1>. QED
  BY TradeInitInv, TradeNextInv, <1>1, PTL DEF TradeSpec
HIDE TradeAssumption DEF TradeAssumption
-----------------------------------------------------------------------------
(* The test runner.                                                        *)

(* What the runner makes of what a process prints.                         *)
AllPass(tests) == \A i \in DOMAIN tests : tests[i] = "pass"

LEMMA CountIsNone ==
  ASSUME NEW tests \in Seq(Status), NEW s
  PROVE  /\ Count(tests, s) \in Nat
         /\ Count(tests, s) = 0 <=> \A i \in DOMAIN tests : tests[i] # s
<1> DEFINE those == {i \in DOMAIN tests : tests[i] = s}
<1>1. IsFiniteSet(1..Len(tests)) /\ DOMAIN tests = 1..Len(tests)
  BY FS_Interval
<1>2. IsFiniteSet(those)
  BY <1>1, FS_Subset
<1>3. Cardinality(those) \in Nat /\ (Cardinality(those) = 0 <=> those = {})
  BY <1>2, FS_CardinalityType, FS_EmptySet
<1>4. QED
  BY <1>3 DEF Count

LEMMA NothingPrinted ==
  /\ ResultOf({}) = CreateErrorResult
  /\ ResultOf({SetupFailed}) = CreateErrorResult
<1>1. ~Valid(SetupFailed)
  <2>1. SetupFailed.total = 0 /\ Len(SetupFailed.tests) = 1
    BY DEF SetupFailed
  <2>2. QED
    BY <2>1 DEF Valid
<1>2. QED
  BY <1>1 DEF ResultOf

LEMMA ResultPrinted ==
  ASSUME NEW tests \in Seq(Status)
  PROVE  /\ ResultOf({Message(tests)}).failed = Count(tests, "fail")
         /\ ResultOf({Message(tests)}).errors = Count(tests, "error")
<1> DEFINE m == Message(tests)
<1>1. /\ m.total = Len(tests) /\ m.tests = tests
      /\ m.failed = Count(tests, "fail") /\ m.errors = Count(tests, "error")
  BY DEF Message
<1>2. Valid(m)
  BY <1>1 DEF Valid
<1> HIDE DEF m
<1>3. {n \in {m} : Valid(n)} = {m}
  BY <1>2
<1>4. (CHOOSE n \in {m} : TRUE) = m
  OBVIOUS
<1>5. ResultOf({m}) = [k \in {"failed", "errors"} |-> m[k]]
  BY <1>3, <1>4 DEF ResultOf
<1>6. QED
  BY <1>1, <1>5 DEF m

(* It is a success exactly if there is a result and all tests passed.      *)
LEMMA ResultTells ==
  ASSUME NEW tests \in Seq(Status),
         NEW output \in {{}, {SetupFailed}, {Message(tests)}}
  PROVE  /\ ResultOf(output).failed \in Nat /\ ResultOf(output).errors \in Nat
         /\ Success(ResultOf(output)) <=>
              output = {Message(tests)} /\ AllPass(tests)
<1>1. SetupFailed # Message(tests)
  <2>1. SetupFailed.total = 0 /\ Len(SetupFailed.tests) = 1
    BY DEF SetupFailed
  <2>2. Message(tests).total = Len(Message(tests).tests)
    BY DEF Message
  <2>3. QED
    BY <2>1, <2>2
<1>3. CASE output = {Message(tests)}
  <2>1. ResultOf(output).failed = Count(tests, "fail")
        /\ ResultOf(output).errors = Count(tests, "error")
    BY <1>3, ResultPrinted
  <2>2. AllPass(tests) <=> \A i \in DOMAIN tests :
                             tests[i] # "fail" /\ tests[i] # "error"
    BY DEF AllPass, Status
  <2>3. QED
    BY <1>3, <2>1, <2>2, CountIsNone DEF Success
<1>4. CASE output = {} \/ output = {SetupFailed}
  <2>1. ResultOf(output) = CreateErrorResult
    BY <1>4, NothingPrinted
  <2>2. CreateErrorResult.failed = 0 /\ CreateErrorResult.errors = 1
    BY DEF CreateErrorResult
  <2>3. output # {Message(tests)}
    BY <1>1, <1>4
  <2>4. QED
    BY <2>1, <2>2, <2>3 DEF Success
<1>5. QED
  BY <1>3, <1>4
-----------------------------------------------------------------------------
(* The invariant.                                                          *)

(* A process prints one thing at most.                                     *)
Processes ==
  [step : {"setup", "tests", "ended"}, file : TestFile, results : Seq(Status),
   held : BOOLEAN,
   output : SUBSET ({SetupFailed} \cup {Message(s) : s \in Seq(Status)})]

RunnerFields ==
  /\ command \in Commands
  /\ exit \in {"running", "success", "failure", "fatal"}
  /\ targets \subseteq Targets(command)
  /\ unit \subseteq Component
  /\ step \in 0..5 /\ todo \subseteq TestFile
  /\ result \in [{"failed", "errors"} -> Nat]
  /\ all_passed \in BOOLEAN
  /\ proc # NoProc =>
       /\ proc \in Processes
       /\ proc.output \in {{}, {SetupFailed}, {Message(proc.results)}}
  /\ hooks \subseteq Hooks /\ installed \subseteq Tool
  /\ flaws \in [Component -> 0..MaxFlaws]
  /\ finished \cup broken \cup left \cup silent \subseteq TestFile

InHand == IF proc = NoProc THEN {} ELSE {proc.file}

(* What a process prints makes a failure of its file exactly if something  *)
(* in it went wrong.                                                       *)
ProcessTells ==
  proc # NoProc =>
    /\ proc.step \in {"setup", "tests"} => proc.output = {}
    /\ proc.step = "setup" =>
         proc.results = << >> /\ ~proc.held /\ proc.file \notin broken
    /\ proc.step = "tests" => (proc.file \notin broken <=> AllPass(proc.results))
    /\ proc.step = "ended" =>
         (proc.file \notin broken <=> Success(ResultOf(proc.output)))

(* No file is run twice: it waits, or runs, or is finished, and that only  *)
(* once its component has been begun.                                      *)
EachOnce ==
  /\ InHand \cap (finished \cup todo) = {}
  /\ todo \cap finished = {}
  /\ broken \subseteq finished \cup InHand
  /\ command.name = "test" =>
       \A f \in finished \cup todo \cup InHand : {Home[f]} \notin targets
  /\ command.name # "test" => todo = {} /\ proc = NoProc

Good == all_passed /\ Success(result)

Waiting(f) == \E u \in targets : \E c \in u : f \in Selected(c)

(* As long as no result was a failure, every file asked for is on its way  *)
(* and only the one at hand may be broken; after one, some file is.        *)
TestsTold ==
  command.name = "test" =>
    /\ step = 0 =>
         todo = {} /\ proc = NoProc /\ (all_passed => Success(result))
    /\ Good => \A f \in Asked : f \in finished \cup todo \cup InHand \/ Waiting(f)
    /\ Good => broken \subseteq InHand
    /\ ~Good => broken # {}

Linted == (UNION Targets(command)) \cap Sources

Done == Linted \ UNION targets

(* What lint is done with is clean, or lint knows that it is not.          *)
LintTold ==
  command.name = "lint" =>
    /\ step # 0 => unit \in targets
    /\ all_passed => \A c \in Done : flaws[c] = 0
    /\ ~all_passed => "flake8" \notin installed \/ \E c \in Done : flaws[c] # 0

(* The hooks of the classes come in pairs.                                 *)
Paired ==
  \A scope \in {"class", "test"}, kind \in Kinds :
    <<"setup", scope, kind>> \in hooks <=> <<"teardown", scope, kind>> \in hooks

LeftForCause ==
  Paired =>
    /\ left # {} => Does("setup", "class", "async")
    /\ \A f \in left :
         \/ f \in broken \cup silent
         \/ f \notin finished /\ proc # NoProc /\ proc.step = "tests"
              /\ proc.file = f

HeldForCause ==
  Paired => (proc # NoProc /\ proc.step = "tests" /\ proc.held =>
               ~AllPass(proc.results))

Underway ==
  /\ ProcessTells /\ EachOnce /\ TestsTold /\ LintTold
  /\ LeftForCause /\ HeldForCause

RunnerInv ==
  /\ RunnerFields
  /\ IF exit = "running" THEN Underway ELSE ExitTrue /\ LeftoversHaveCause
-----------------------------------------------------------------------------
USE CommandsAssumption DEF CommandsAssumption

LEMMA TargetsKnown ==
  ASSUME NEW cmd \in Commands
  PROVE  /\ Targets(cmd) \subseteq SUBSET Component
         /\ \A u \in Targets(cmd), v \in Targets(cmd) : u \cap v # {} => u = v
         /\ cmd.name = "test" => \A u \in Targets(cmd) : \E c \in Component : u = {c}
<1>1. /\ cmd.components \subseteq Component
      /\ cmd.mode \in {"auto", "all", "named"}
      /\ cmd.name \in {"test", "lint", "format"}
  BY DEF Command
<1>2. CASE cmd.mode = "named"
  <2>1. Targets(cmd) = {{c} : c \in cmd.components}
    BY <1>2 DEF Targets
  <2>2. QED
    BY <1>1, <2>1
<1>3. CASE cmd.mode = "all"
  <2>1. Targets(cmd) = {{c} : c \in Tested}
    BY <1>3 DEF Targets
  <2>2. QED
    BY <2>1
<1>4. CASE cmd.mode = "auto"
  <2>1. Targets(cmd) = IF cmd.name = "test" THEN {} ELSE {Sources}
    BY <1>4 DEF Targets
  <2>2. QED
    BY <2>1
<1>5. QED
  BY <1>1, <1>2, <1>3, <1>4

LEMMA ProcessKnown ==
  ASSUME RunnerFields, proc # NoProc
  PROVE  /\ proc \in Processes /\ proc.file \in TestFile
         /\ proc.results \in Seq(Status)
         /\ InHand = {proc.file}
         /\ proc.step \in {"setup", "tests", "ended"}
BY DEF RunnerFields, Processes, InHand

LEMMA NoProcess == NoProc.step = "none" /\ NoProc \notin Processes
BY DEF NoProc, Processes

LEMMA RunnerInitInv == RunnerInit => RunnerInv
<1> SUFFICES ASSUME RunnerInit PROVE RunnerInv
  OBVIOUS
<1>1. /\ command \in Commands /\ exit = "running" /\ targets = Targets(command)
      /\ unit = {} /\ step = 0 /\ todo = {} /\ all_passed = TRUE
      /\ result = NoFailures /\ proc = NoProc
      /\ finished = {} /\ broken = {} /\ left = {} /\ silent = {}
  BY DEF RunnerInit
<1>2. Success(result)
  BY <1>1 DEF Success, NoFailures
<1>3. RunnerFields
  BY <1>1 DEF RunnerInit, RunnerFields, NoFailures
<1>4. ProcessTells /\ EachOnce
  BY <1>1 DEF ProcessTells, EachOnce, InHand
<1>5. TestsTold
  BY <1>1, <1>2 DEF TestsTold, Good, Waiting, Asked, InHand
<1>6. LintTold /\ LeftForCause /\ HeldForCause
  BY <1>1 DEF LintTold, Done, Linted, LeftForCause, HeldForCause
<1>7. QED
  BY <1>1, <1>3, <1>4, <1>5, <1>6 DEF RunnerInv, Underway

(* What is under way stays told when a step is one of the process at hand. *)
LEMMA ProcessStep ==
  ASSUME RunnerFields, Underway, proc # NoProc,
         proc' \in Processes, proc'.file = proc.file,
         broken' \in {broken, broken \cup {proc.file}},
         UNCHANGED <<command, exit, progress, todo, result, hooks, installed,
                     flaws, finished>>
  PROVE  EachOnce' /\ TestsTold' /\ LintTold'
<1>1. proc' # NoProc /\ InHand' = {proc.file} /\ InHand = {proc.file}
  BY NoProcess DEF InHand
<1>2. EachOnce'
  BY <1>1 DEF Underway, EachOnce, progress
<1>3. TestsTold'
  <2>1. (Good' <=> Good) /\ Asked' = Asked /\ \A f : Waiting(f)' <=> Waiting(f)
    BY DEF Good, Asked, Waiting, Selected, Targets, progress
  <2>2. QED
    BY <1>1, <2>1 DEF Underway, TestsTold, progress
<1>4. LintTold'
  BY DEF Underway, LintTold, Done, Linted, Targets, progress
<1>5. QED
  BY <1>2, <1>3, <1>4

(* ...or leaves the fields of a process with their types.                  *)
LEMMA ProcessFields ==
  ASSUME RunnerFields, proc # NoProc,
         proc' \in Processes,
         proc'.output \in {{}, {SetupFailed}, {Message(proc'.results)}},
         broken' \in {broken, broken \cup {proc.file}},
         left' \subseteq left \cup {proc.file},
         silent' \subseteq silent \cup {proc.file},
         UNCHANGED <<command, exit, progress, todo, result, hooks, installed,
                     flaws, finished>>
  PROVE  RunnerFields'
BY ProcessKnown DEF RunnerFields, progress

LEMMA PairedDoes ==
  ASSUME Paired, NEW scope \in {"class", "test"}, NEW kind \in Kinds
  PROVE  Does("setup", scope, kind) <=> Does("teardown", scope, kind)
<1>1. \A k \in Kinds : <<"setup", scope, k>> \in hooks
                         <=> <<"teardown", scope, k>> \in hooks
  BY DEF Paired
<1>2. "sync" \in Kinds /\ "async" \in Kinds
  BY DEF Kinds
<1>3. CASE kind = "async" /\ <<"setup", scope, "async">> \in hooks
  BY <1>1, <1>2, <1>3 DEF Does, Hook
<1>4. CASE ~(kind = "async" /\ <<"setup", scope, "async">> \in hooks)
  BY <1>1, <1>2, <1>4 DEF Does, Hook
<1>5. QED
  BY <1>3, <1>4

LEMMA ClassSetupStep ==
  ASSUME RunnerInv, exit = "running", ClassSetup
  PROVE  RunnerInv'
<1> DEFINE made == IF Does("setup", "class", "async") THEN {proc.file} ELSE {}
<1>1. RunnerFields /\ Underway
  BY DEF RunnerInv
<1>2. proc.step = "setup" /\ proc # NoProc
  BY NoProcess DEF ClassSetup
<1>3. /\ proc \in Processes /\ proc.file \in TestFile
      /\ proc.results \in Seq(Status)
  BY <1>1, <1>2, ProcessKnown
<1>4. /\ proc.output = {} /\ proc.results = << >> /\ ~proc.held
      /\ proc.file \notin broken /\ proc.file \notin finished
  BY <1>1, <1>2 DEF Underway, ProcessTells, EachOnce, InHand
<1>5. UNCHANGED <<command, exit, progress, todo, result, hooks, installed,
                  flaws, finished, silent>>
  BY DEF ClassSetup
<1>paired. Paired' = Paired /\ Does("setup", "class", "async")' = Does("setup", "class", "async")
  BY <1>5 DEF Paired, Does, Hook
<1>6. CASE /\ proc' = [proc EXCEPT !.step = "tests"]
           /\ left' = left \cup made /\ UNCHANGED broken
  <2>1. /\ proc' \in Processes /\ proc'.file = proc.file /\ proc' # NoProc
        /\ proc'.step = "tests" /\ proc'.results = << >> /\ ~proc'.held
        /\ proc'.output = {}
    BY <1>3, <1>4, <1>6, NoProcess DEF Processes
  <2>2. RunnerFields'
    BY <1>1, <1>2, <1>5, <1>6, <2>1, ProcessFields
  <2>3. EachOnce' /\ TestsTold' /\ LintTold'
    BY <1>1, <1>2, <1>5, <1>6, <2>1, ProcessStep
  <2>4. ProcessTells' /\ HeldForCause'
    BY <1>4, <1>6, <2>1 DEF ProcessTells, HeldForCause, AllPass
  <2>5. LeftForCause'
    BY <1>1, <1>2, <1>4, <1>5, <1>6, <1>paired, <2>1
    DEF Underway, LeftForCause
  <2>6. QED
    BY <1>5, <2>2, <2>3, <2>4, <2>5 DEF RunnerInv, Underway
<1>7. CASE /\ proc' = [proc EXCEPT !.step = "ended", !.output = {SetupFailed}]
           /\ made # {} /\ left' \in {left, left \cup made}
           /\ broken' = broken \cup {proc.file}
  <2>1. /\ proc' \in Processes /\ proc'.file = proc.file /\ proc' # NoProc
        /\ proc'.step = "ended" /\ proc'.output = {SetupFailed}
    BY <1>3, <1>7, NoProcess DEF Processes
  <2>2. RunnerFields'
    BY <1>1, <1>2, <1>5, <1>7, <2>1, ProcessFields
  <2>3. EachOnce' /\ TestsTold' /\ LintTold'
    BY <1>1, <1>2, <1>5, <1>7, <2>1, ProcessStep
  <2>4. ~Success(ResultOf(proc'.output))
    BY <2>1, NothingPrinted DEF Success, CreateErrorResult
  <2>5. ProcessTells' /\ HeldForCause'
    BY <1>7, <2>1, <2>4 DEF ProcessTells, HeldForCause
  <2>6. LeftForCause'
    BY <1>1, <1>2, <1>4, <1>5, <1>7, <1>paired, <2>1
    DEF Underway, LeftForCause
  <2>7. QED
    BY <1>5, <2>2, <2>3, <2>5, <2>6 DEF RunnerInv, Underway
<1>8. QED
  BY <1>6, <1>7 DEF ClassSetup

LEMMA RunTestStep ==
  ASSUME RunnerInv, exit = "running", RunTest
  PROVE  RunnerInv'
<1> DEFINE kind == Suite[proc.file][Len(proc.results) + 1]
           made == proc.held \/ Does("setup", "test", kind)
           kept == made /\ ~Does("teardown", "test", kind)
<1>1. RunnerFields /\ Underway
  BY DEF RunnerInv
<1>2. proc.step = "tests" /\ proc # NoProc
  BY NoProcess DEF RunTest
<1>3. /\ proc \in Processes /\ proc.file \in TestFile
      /\ proc.results \in Seq(Status) /\ proc.held \in BOOLEAN
  BY <1>1, <1>2, ProcessKnown DEF Processes
<1>4. /\ proc.output = {}
      /\ proc.file \notin broken <=> AllPass(proc.results)
  BY <1>1, <1>2 DEF Underway, ProcessTells
<1>5. UNCHANGED <<command, exit, progress, todo, result, hooks, installed,
                  flaws, finished, left, silent>>
  BY DEF RunTest
<1>6. kind \in Kinds
  <2>1. Suite[proc.file] \in Seq(Kinds) /\ Len(proc.results) \in Nat
    BY <1>3
  <2>2. Len(proc.results) + 1 \in 1..Len(Suite[proc.file])
    BY <2>1 DEF RunTest
  <2>3. QED
    BY <2>1, <2>2
<1>7. PICK status \in Status, h \in BOOLEAN :
        /\ proc' = [proc EXCEPT !.results = Append(@, status), !.held = h]
        /\ broken' = IF status = "pass" THEN broken ELSE broken \cup {proc.file}
        /\ status = "pass" => h = kept
  <2>1. CASE /\ proc' = [proc EXCEPT !.results = Append(@, "pass"), !.held = kept]
             /\ UNCHANGED broken
    <3>1. "pass" \in Status /\ kept \in BOOLEAN
      BY <1>3 DEF Status
    <3> HIDE DEF kept
    <3>2. QED
      BY <2>1, <3>1
  <2>2. CASE /\ \E status \in {"fail", "error"}, h \in {proc.held, made, kept} :
                  proc' = [proc EXCEPT !.results = Append(@, status), !.held = h]
             /\ broken' = broken \cup {proc.file}
    <3>1. proc.held \in BOOLEAN /\ made \in BOOLEAN /\ kept \in BOOLEAN
      BY <1>3
    <3> HIDE DEF made, kept
    <3>2. QED
      BY <2>2, <3>1 DEF Status
  <2>3. QED
    BY <2>1, <2>2 DEF RunTest
<1> DEFINE results == Append(proc.results, status)
<1>grown. results \in Seq(Status)
  BY <1>3
<1>8. /\ proc' \in Processes /\ proc'.file = proc.file /\ proc' # NoProc
      /\ proc'.step = "tests" /\ proc'.results = results /\ proc'.held = h
      /\ proc'.output = {}
  <2>1. proc' = [proc EXCEPT !.results = results, !.held = h]
    BY <1>7
  <2> HIDE DEF results
  <2>2. QED
    BY <1>2, <1>3, <1>4, <1>grown, <2>1, NoProcess DEF Processes
<1>9. AllPass(results) <=> AllPass(proc.results) /\ status = "pass"
  <2> DEFINE n == Len(proc.results)
  <2>1. /\ n \in Nat
        /\ DOMAIN results = 1..(n + 1) /\ DOMAIN proc.results = 1..n
        /\ results[n + 1] = status
        /\ \A i \in 1..n : results[i] = proc.results[i]
    BY <1>3
  <2> HIDE DEF results, n
  <2>2. \A i : i \in 1..(n + 1) <=> i \in 1..n \/ i = n + 1
    BY <2>1
  <2>3. QED
    BY <2>1, <2>2 DEF AllPass
<1> HIDE DEF results
<1>10. broken' \in {broken, broken \cup {proc.file}}
  BY <1>7
<1>11. RunnerFields'
  BY <1>1, <1>2, <1>5, <1>8, <1>10, ProcessFields
<1>12. EachOnce' /\ TestsTold' /\ LintTold'
  BY <1>1, <1>2, <1>5, <1>8, <1>10, ProcessStep
<1>13. ProcessTells'
  <2>1. proc.file \notin broken' <=> AllPass(results)
    BY <1>4, <1>7, <1>9
  <2>2. QED
    BY <1>8, <2>1 DEF ProcessTells
<1>14. HeldForCause'
  <2> SUFFICES ASSUME Paired', h, AllPass(results) PROVE FALSE
    BY <1>8 DEF HeldForCause
  <2>1. Paired
    BY <1>5 DEF Paired
  <2>2. status = "pass" /\ AllPass(proc.results) /\ kept
    BY <1>7, <1>9
  <2>3. ~proc.held
    BY <1>1, <1>2, <2>1, <2>2 DEF Underway, HeldForCause
  <2>4. Does("setup", "test", kind) /\ ~Does("teardown", "test", kind)
    BY <2>2, <2>3
  <2>5. QED
    BY <1>6, <2>1, <2>4, PairedDoes
<1>15. LeftForCause'
  BY <1>1, <1>2, <1>5, <1>8, <1>10
  DEF Underway, LeftForCause, Paired, Does, Hook
<1>16. QED
  BY <1>5, <1>11, <1>12, <1>13, <1>14, <1>15 DEF RunnerInv, Underway

LEMMA ClassTeardownStep ==
  ASSUME RunnerInv, exit = "running", ClassTeardown
  PROVE  RunnerInv'
<1> DEFINE printed == {Message(proc.results)}
<1>1. RunnerFields /\ Underway
  BY DEF RunnerInv
<1>2. proc.step = "tests" /\ proc # NoProc
  BY NoProcess DEF ClassTeardown
<1>3. /\ proc \in Processes /\ proc.file \in TestFile
      /\ proc.results \in Seq(Status)
  BY <1>1, <1>2, ProcessKnown
<1>4. proc.file \notin broken <=> AllPass(proc.results)
  BY <1>1, <1>2 DEF Underway, ProcessTells
<1>5. UNCHANGED <<command, exit, progress, todo, result, hooks, installed,
                  flaws, finished, broken>>
  BY DEF ClassTeardown
<1>6. proc' = [proc EXCEPT !.step = "ended", !.output = printed]
  BY DEF ClassTeardown
<1>7. /\ proc' \in Processes /\ proc'.file = proc.file /\ proc' # NoProc
      /\ proc'.step = "ended" /\ proc'.results = proc.results
      /\ proc'.output = printed
  BY <1>3, <1>6, NoProcess DEF Processes
<1>8. left' \subseteq left \cup {proc.file} /\ silent' \subseteq silent \cup {proc.file}
  BY DEF ClassTeardown
<1>9. RunnerFields'
  BY <1>1, <1>2, <1>5, <1>7, <1>8, ProcessFields
<1>10. EachOnce' /\ TestsTold' /\ LintTold'
  BY <1>1, <1>2, <1>5, <1>7, ProcessStep
<1>11. Success(ResultOf(printed)) <=> AllPass(proc.results)
  BY <1>3, ResultTells
<1>12. ProcessTells' /\ HeldForCause'
  BY <1>4, <1>5, <1>7, <1>11 DEF ProcessTells, HeldForCause
<1>13. LeftForCause'
  <2> SUFFICES ASSUME Paired'
               PROVE  /\ left' # {} => Does("setup", "class", "async")
                      /\ \A f \in left' : f \in broken \cup silent'
    BY <1>5 DEF LeftForCause, Does, Hook
  <2>1. Paired
    BY <1>5 DEF Paired
  <2>2. Does("setup", "class", "async") <=> Does("teardown", "class", "async")
    BY <2>1, PairedDoes DEF Kinds
  <2>3. /\ left # {} => Does("setup", "class", "async")
        /\ \A f \in left : f \in broken \cup silent \/ proc.file = f
    BY <1>1, <1>2, <2>1 DEF Underway, LeftForCause
  <2>4. QED
    BY <2>2, <2>3 DEF ClassTeardown
<1>14. QED
  BY <1>5, <1>9, <1>10, <1>12, <1>13 DEF RunnerInv, Underway

LEMMA EndsStep ==
  ASSUME RunnerInv, exit = "running", Dies \/ Timeout
  PROVE  RunnerInv'
<1>1. RunnerFields /\ Underway
  BY DEF RunnerInv
<1>2. proc # NoProc
  BY NoProcess DEF Dies, Timeout, Alive
<1>3. /\ proc \in Processes /\ proc.file \in TestFile
      /\ proc.results \in Seq(Status)
  BY <1>1, <1>2, ProcessKnown
<1>4. UNCHANGED <<command, exit, progress, todo, result, hooks, installed,
                  flaws, finished, left, silent>>
  BY DEF Dies, Timeout
<1>5. broken' = broken \cup {proc.file}
  BY DEF Dies, Timeout
<1>6. /\ proc' \in Processes /\ proc'.file = proc.file /\ proc' # NoProc
      /\ proc'.step = "ended" /\ proc'.output = {}
  <2>1. CASE Dies
    <3>1. proc.output = {}
      BY <1>1, <1>2, <2>1 DEF Dies, Alive, Underway, ProcessTells
    <3>2. QED
      BY <1>3, <2>1, <3>1, NoProcess DEF Dies, Processes
  <2>2. CASE Timeout
    BY <1>3, <2>2, NoProcess DEF Timeout, Processes
  <2>3. QED
    BY <2>1, <2>2
<1>7. RunnerFields'
  BY <1>1, <1>2, <1>4, <1>5, <1>6, ProcessFields
<1>8. EachOnce' /\ TestsTold' /\ LintTold'
  BY <1>1, <1>2, <1>4, <1>5, <1>6, ProcessStep
<1>9. ~Success(ResultOf({}))
  BY NothingPrinted DEF Success, CreateErrorResult
<1>10. ProcessTells' /\ HeldForCause'
  BY <1>5, <1>6, <1>9 DEF ProcessTells, HeldForCause
<1>11. LeftForCause'
  BY <1>1, <1>2, <1>4, <1>5, <1>6
  DEF Underway, LeftForCause, Paired, Does, Hook
<1>12. QED
  BY <1>4, <1>7, <1>8, <1>10, <1>11 DEF RunnerInv, Underway

LEMMA StartComponentStep ==
  ASSUME RunnerInv, exit = "running", StartComponent
  PROVE  RunnerInv'
<1>1. RunnerFields /\ Underway /\ command.name = "test" /\ step = 0
  BY DEF RunnerInv, StartComponent
<1>2. todo = {} /\ proc = NoProc /\ (all_passed => Success(result)) /\ InHand = {}
  BY <1>1 DEF Underway, TestsTold, InHand
<1>3. PICK u \in targets : targets' = targets \ {u} /\ unit' = u
  BY DEF StartComponent
<1>4. PICK c \in Component : u = {c}
  BY <1>1, TargetsKnown DEF RunnerFields
<1>5. todo' = Selected(c)
  BY <1>3, <1>4 DEF StartComponent
<1>6. \A f \in todo' : f \in TestFile /\ Home[f] = c
  <2>1. command.matching \subseteq TestFile
    BY <1>1 DEF RunnerFields, Command
  <2>2. QED
    BY <1>5, <2>1 DEF Selected
<1>7. /\ UNCHANGED <<command, exit, all_passed, proc, hooks, installed, flaws,
                     history>>
      /\ step' = 1 /\ result' = NoFailures
  BY DEF StartComponent
<1>8. RunnerFields'
  BY <1>1, <1>2, <1>3, <1>4, <1>6, <1>7
  DEF RunnerFields, NoFailures, history
<1>9. EachOnce'
  BY <1>1, <1>2, <1>3, <1>4, <1>6, <1>7
  DEF Underway, EachOnce, InHand, history
<1>10. TestsTold'
  <2>1. Good' <=> Good
    BY <1>2, <1>7 DEF Good, Success, NoFailures
  <2>2. Asked' = Asked
    BY <1>7 DEF Asked, Targets, Selected
  <2>3. ASSUME NEW f, Waiting(f) PROVE f \in todo' \/ Waiting(f)'
    BY <1>3, <1>4, <1>5, <1>7, <2>3 DEF Waiting, Selected
  <2>4. InHand' = {}
    BY <1>2, <1>7 DEF InHand
  <2>5. QED
    BY <1>1, <1>2, <1>7, <2>1, <2>2, <2>3, <2>4
    DEF Underway, TestsTold, history
<1>11. ProcessTells' /\ LintTold' /\ HeldForCause'
  BY <1>1, <1>2, <1>7 DEF ProcessTells, LintTold, HeldForCause
<1>12. LeftForCause'
  BY <1>1, <1>7 DEF Underway, LeftForCause, Paired, Does, Hook, history
<1>13. QED
  BY <1>7, <1>8, <1>9, <1>10, <1>11, <1>12 DEF RunnerInv, Underway

LEMMA StartFileStep ==
  ASSUME RunnerInv, exit = "running", StartFile
  PROVE  RunnerInv'
<1>1. RunnerFields /\ Underway /\ proc = NoProc /\ InHand = {}
  BY DEF RunnerInv, StartFile, InHand
<1>2. PICK f \in todo :
        /\ todo' = todo \ {f}
        /\ proc' = [step |-> "setup", file |-> f, results |-> << >>,
                    held |-> FALSE, output |-> {}]
  BY DEF StartFile
<1>3. f \in TestFile /\ f \notin finished /\ f \notin broken
  BY <1>1, <1>2 DEF RunnerFields, Underway, EachOnce
<1>4. /\ proc' \in Processes /\ proc'.file = f /\ proc' # NoProc
      /\ proc'.step = "setup" /\ proc'.results = << >> /\ proc'.held = FALSE
      /\ proc'.output = {} /\ InHand' = {f}
  BY <1>2, <1>3, NoProcess DEF Processes, InHand
<1>5. UNCHANGED <<command, exit, progress, result, hooks, installed, flaws,
                  history>>
  BY DEF StartFile
<1>6. RunnerFields'
  BY <1>1, <1>2, <1>4, <1>5 DEF RunnerFields, progress, history
<1>7. command.name = "test"
  BY <1>1, <1>2 DEF Underway, EachOnce
<1>8. EachOnce'
  BY <1>1, <1>2, <1>3, <1>4, <1>5, <1>7
  DEF Underway, EachOnce, progress, history
<1>9. TestsTold'
  <2>1. (Good' <=> Good) /\ Asked' = Asked /\ \A g : Waiting(g)' <=> Waiting(g)
    BY <1>5 DEF Good, Asked, Waiting, Selected, Targets, progress
  <2>2. step # 0
    BY <1>1, <1>2, <1>7 DEF Underway, TestsTold
  <2>3. QED
    BY <1>1, <1>2, <1>4, <1>5, <1>7, <2>1, <2>2
    DEF Underway, TestsTold, progress, history
<1>10. ProcessTells' /\ LintTold' /\ HeldForCause'
  BY <1>3, <1>4, <1>5, <1>7
  DEF ProcessTells, LintTold, HeldForCause, history
<1>11. LeftForCause'
  BY <1>1, <1>3, <1>5 DEF Underway, LeftForCause, Paired, Does, Hook, history
<1>12. QED
  BY <1>5, <1>6, <1>8, <1>9, <1>10, <1>11 DEF RunnerInv, Underway

LEMMA CollectStep ==
  ASSUME RunnerInv, exit = "running", Collect
  PROVE  RunnerInv'
<1> DEFINE r == ResultOf(proc.output)
<1>1. RunnerFields /\ Underway /\ proc.step = "ended" /\ proc # NoProc
  BY NoProcess DEF RunnerInv, Collect
<1>2. /\ proc.file \in TestFile /\ proc.results \in Seq(Status)
      /\ proc.output \in {{}, {SetupFailed}, {Message(proc.results)}}
      /\ InHand = {proc.file}
  BY <1>1, ProcessKnown DEF RunnerFields
<1>3. r.failed \in Nat /\ r.errors \in Nat
  BY <1>2, ResultTells
<1>4. proc.file \notin broken <=> Success(r)
  BY <1>1 DEF Underway, ProcessTells
<1>5. /\ result' = AddResult(result, r)
      /\ todo' = IF ~Success(r) /\ command.fail_fast THEN {} ELSE todo
      /\ proc' = NoProc /\ InHand' = {}
      /\ finished' = finished \cup {proc.file}
      /\ UNCHANGED <<command, exit, progress, hooks, installed, flaws, broken,
                     left, silent>>
  BY DEF Collect, InHand
<1> HIDE DEF r
<1>6. result.failed \in Nat /\ result.errors \in Nat
  BY <1>1 DEF RunnerFields
<1>7. result'.failed = result.failed + r.failed
      /\ result'.errors = result.errors + r.errors
      /\ result' \in [{"failed", "errors"} -> Nat]
  BY <1>3, <1>5, <1>6 DEF AddResult
<1>8. RunnerFields'
  BY <1>1, <1>2, <1>5, <1>7 DEF RunnerFields, progress
<1>9. EachOnce'
  BY <1>1, <1>2, <1>5 DEF Underway, EachOnce, progress
<1>10. TestsTold'
  <2> DEFINE a == result.failed  b == result.errors
             x == r.failed       y == r.errors
  <2>5. a + x = 0 /\ b + y = 0 <=> (a = 0 /\ b = 0) /\ (x = 0 /\ y = 0)
    <3> HIDE DEF a, b, x, y
    <3>1. a \in Nat /\ b \in Nat /\ x \in Nat /\ y \in Nat
      BY <1>3, <1>6 DEF a, b, x, y
    <3>2. QED
      BY <3>1
  <2>6. Success(result') <=> Success(result) /\ Success(r)
    BY <1>7, <2>5 DEF Success
  <2> HIDE DEF a, b, x, y
  <2>1. Good' <=> Good /\ Success(r)
    BY <1>5, <2>6 DEF Good, progress
  <2>2. Asked' = Asked /\ \A g : Waiting(g)' <=> Waiting(g)
    BY <1>5 DEF Asked, Waiting, Selected, Targets, progress
  <2>3. command.name = "test" => step # 0
    BY <1>1 DEF Underway, TestsTold
  <2>4. QED
    BY <1>1, <1>2, <1>4, <1>5, <2>1, <2>2, <2>3
    DEF Underway, TestsTold, progress
<1>11. ProcessTells' /\ HeldForCause'
  BY <1>5 DEF ProcessTells, HeldForCause
<1>12. LintTold'
  BY <1>1, <1>5 DEF Underway, LintTold, Done, Linted, Targets, progress
<1>13. LeftForCause'
  BY <1>1, <1>5 DEF Underway, LeftForCause, Paired, Does, Hook
<1>14. QED
  BY <1>5, <1>8, <1>9, <1>10, <1>11, <1>12, <1>13 DEF RunnerInv, Underway

LEMMA EndComponentStep ==
  ASSUME RunnerInv, exit = "running", EndComponent
  PROVE  RunnerInv'
<1>1. RunnerFields /\ Underway /\ command.name = "test" /\ todo = {}
      /\ proc = NoProc
  BY DEF RunnerInv, EndComponent
<1>2. /\ UNCHANGED <<command, exit, unit, todo, result, proc, hooks, installed,
                     flaws, history>>
      /\ step' = 0 /\ all_passed' = (all_passed /\ Success(result))
      /\ targets' = IF ~Success(result) /\ command.fail_fast THEN {}
                    ELSE targets
  BY DEF EndComponent
<1>3. RunnerFields'
  BY <1>1, <1>2 DEF RunnerFields, history
<1>4. EachOnce'
  BY <1>1, <1>2 DEF Underway, EachOnce, InHand, history
<1>5. TestsTold'
  <2>1. (Good' <=> Good) /\ (all_passed' => Success(result'))
    BY <1>2 DEF Good, Success
  <2>2. Asked' = Asked
    BY <1>2 DEF Asked, Selected, Targets
  <2>3. Good => \A g : Waiting(g)' <=> Waiting(g)
    BY <1>2 DEF Good, Waiting, Selected
  <2>4. InHand' = InHand
    BY <1>2 DEF InHand
  <2>5. QED
    BY <1>1, <1>2, <2>1, <2>2, <2>3, <2>4 DEF Underway, TestsTold, history
<1>6. ProcessTells' /\ HeldForCause' /\ LintTold'
  BY <1>1, <1>2 DEF ProcessTells, HeldForCause, LintTold
<1>7. LeftForCause'
  BY <1>1, <1>2 DEF Underway, LeftForCause, Paired, Does, Hook, history
<1>8. QED
  BY <1>2, <1>3, <1>4, <1>5, <1>6, <1>7 DEF RunnerInv, Underway
-----------------------------------------------------------------------------
(* Linting and formatting leave the files of tests alone.                  *)
LEMMA ToolStep ==
  ASSUME RunnerFields, Underway, command.name # "test", targets' \subseteq targets,
         UNCHANGED <<command, exit, todo, result, proc, hooks, history>>
  PROVE  /\ ProcessTells' /\ EachOnce' /\ TestsTold'
         /\ LeftForCause' /\ HeldForCause'
<1>1. todo = {} /\ proc = NoProc
  BY DEF Underway, EachOnce
<1>2. ProcessTells' /\ HeldForCause' /\ TestsTold'
  BY <1>1 DEF ProcessTells, HeldForCause, TestsTold
<1>3. EachOnce'
  BY <1>1 DEF Underway, EachOnce, InHand, history
<1>4. LeftForCause'
  BY DEF Underway, LeftForCause, Paired, Does, Hook, history
<1>5. QED
  BY <1>2, <1>3, <1>4

(* What a check says is known of the components it was done with.          *)
LEMMA CheckStep ==
  ASSUME RunnerFields, Underway, command.name = "lint", step' = 0,
         NEW u \in targets, targets' = targets \ {u},
         all_passed' = (all_passed /\ RunFlake8(u)),
         UNCHANGED <<command, installed, flaws>>
  PROVE  LintTold'
<1>1. u \in Targets(command)
  BY DEF RunnerFields
<1>2. command \in Commands
  BY DEF RunnerFields
<1>3. Linted' = Linted
  BY DEF Linted, Targets
<1>4. Done' = Done \cup (u \cap Sources)
  <2>1. \A v \in targets : v \in Targets(command)
    BY DEF RunnerFields
  <2>2. \A v \in targets : v \cap u # {} => v = u
    BY <1>1, <1>2, <2>1, TargetsKnown
  <2>3. ASSUME NEW c
        PROVE  c \in UNION targets' <=> c \in UNION targets /\ c \notin u
    BY <2>2
  <2>4. ASSUME NEW c \in u \cap Sources PROVE c \in Linted
    <3>1. c \in UNION Targets(command)
      BY <1>1
    <3>2. QED
      BY <3>1 DEF Linted
  <2>5. ASSUME NEW c PROVE c \in Done' <=> c \in Done \cup (u \cap Sources)
    <3>1. Done' = Linted \ UNION targets'
      BY <1>3 DEF Done
    <3>2. c \in u => c \in UNION targets
      OBVIOUS
    <3>3. QED
      BY <2>3, <2>4, <3>1, <3>2 DEF Done, Linted
  <2>6. QED
    BY <2>5
<1>5. RunFlake8(u) => \A c \in u \cap Sources : flaws[c] = 0
  BY DEF RunFlake8
<1>6. ~RunFlake8(u) => "flake8" \notin installed
                         \/ \E c \in u \cap Sources : flaws[c] # 0
  BY DEF RunFlake8
<1>7. QED
  BY <1>4, <1>5, <1>6 DEF Underway, LintTold

LEMMA ScanStep ==
  ASSUME RunnerInv, exit = "running", Scan
  PROVE  RunnerInv'
<1>1. RunnerFields /\ Underway /\ command.name = "lint" /\ step = 0
  BY DEF RunnerInv, Scan
<1>2. PICK u \in targets :
        /\ unit' = u
        /\ IF RunFlake8(u)
           THEN targets' = targets \ {u} /\ UNCHANGED step
           ELSE UNCHANGED targets /\ step' = 1
  BY DEF Scan
<1>3. UNCHANGED <<command, exit, todo, result, all_passed, proc, hooks,
                  installed, flaws, history>>
  BY DEF Scan
<1>4. targets' \subseteq targets /\ step' \in 0..5
  BY <1>1, <1>2
<1>5. u \subseteq Component
  BY <1>1, TargetsKnown DEF RunnerFields
<1>6. RunnerFields'
  BY <1>1, <1>2, <1>3, <1>4, <1>5 DEF RunnerFields, history
<1>7. LintTold'
  <2>1. CASE RunFlake8(u)
    BY <1>1, <1>2, <1>3, <2>1, CheckStep DEF RunnerFields
  <2>2. CASE ~RunFlake8(u)
    BY <1>1, <1>2, <1>3, <2>2 DEF Underway, LintTold, Done, Linted, Targets
  <2>3. QED
    BY <2>1, <2>2
<1>8. QED
  BY <1>1, <1>3, <1>4, <1>6, <1>7, ToolStep DEF RunnerInv, Underway

LEMMA VerifyStep ==
  ASSUME RunnerInv, exit = "running", Verify
  PROVE  RunnerInv'
<1>1. RunnerFields /\ Underway /\ command.name = "lint" /\ step = 5
  BY DEF RunnerInv, Verify
<1>2. unit \in targets
  BY <1>1 DEF Underway, LintTold
<1>3. /\ step' = 0 /\ targets' = targets \ {unit}
      /\ all_passed' = (all_passed /\ RunFlake8(unit))
      /\ UNCHANGED <<command, exit, unit, todo, result, proc, hooks, installed,
                     flaws, history>>
  BY DEF Verify
<1>4. LintTold'
  BY <1>1, <1>2, <1>3, CheckStep
<1>5. RunnerFields'
  BY <1>1, <1>3 DEF RunnerFields, history
<1>6. QED
  BY <1>1, <1>3, <1>4, <1>5, ToolStep DEF RunnerInv, Underway

LEMMA FormatStep ==
  ASSUME RunnerInv, exit = "running", Format
  PROVE  RunnerInv'
<1>1. RunnerFields /\ Underway /\ command.name = "format"
  BY DEF RunnerInv, Format
<1>2. PICK u \in targets : unit' = u
  BY DEF Format
<1>3. step' = 3 /\ UNCHANGED <<command, exit, targets, todo, result, all_passed,
                               proc, hooks, installed, flaws, history>>
  BY DEF Format
<1>4. u \subseteq Component
  BY <1>1, TargetsKnown DEF RunnerFields
<1>5. RunnerFields'
  BY <1>1, <1>2, <1>3, <1>4 DEF RunnerFields, history
<1>6. LintTold'
  BY <1>1, <1>3 DEF LintTold
<1>7. QED
  BY <1>1, <1>3, <1>5, <1>6, ToolStep DEF RunnerInv, Underway

LEMMA FixStep ==
  ASSUME RunnerInv, exit = "running", Fix
  PROVE  RunnerInv'
<1> DEFINE files == unit \cap Sources
<1>1. RunnerFields /\ Underway /\ command.name # "test" /\ step \in 1..4
  BY DEF RunnerInv, Fix
<1>2. UNCHANGED <<command, exit, unit, todo, result, proc, hooks, installed,
                  history>>
  BY DEF Fix
<1>3. /\ flaws' \in [Component -> 0..MaxFlaws]
      /\ \A c \in Component \ files : flaws'[c] = flaws[c]
  <2>1. CASE UNCHANGED flaws
    BY <1>1, <2>1 DEF RunnerFields
  <2>2. CASE \E n \in [files -> 0..MaxFlaws] :
               flaws' = [c \in Component |->
                           IF c \in files THEN n[c] ELSE flaws[c]]
    BY <1>1, <2>2 DEF RunnerFields
  <2>3. QED
    BY <2>1, <2>2 DEF Fix
<1>4. /\ step' \in 0..5 /\ targets' \subseteq targets
      /\ command.name = "lint" => step' # 0 /\ targets' = targets
  BY <1>1 DEF Fix
<1>5. all_passed' \in BOOLEAN /\ (command.name = "lint" => all_passed' = all_passed)
  BY <1>1 DEF Fix, RunnerFields
<1>6. RunnerFields'
  BY <1>1, <1>2, <1>3, <1>4, <1>5 DEF RunnerFields, history
<1>7. LintTold'
  <2> SUFFICES ASSUME command.name = "lint" PROVE LintTold'
    BY <1>2 DEF LintTold
  <2>1. unit \in targets /\ Done' = Done
    BY <1>1, <1>2, <1>4 DEF Underway, LintTold, Done, Linted, Targets
  <2>2. \A c \in Done : c \in Component \ files
    <3> SUFFICES ASSUME NEW c \in Done PROVE c \in Component \ files
      OBVIOUS
    <3>1. c \in Sources /\ c \notin UNION targets
      BY DEF Done, Linted
    <3>2. c \notin unit
      BY <2>1, <3>1
    <3>3. QED
      BY <3>1, <3>2
  <2>3. QED
    BY <1>1, <1>2, <1>3, <1>4, <1>5, <2>1, <2>2 DEF Underway, LintTold
<1>8. QED
  BY <1>1, <1>2, <1>4, <1>6, <1>7, ToolStep DEF RunnerInv, Underway
-----------------------------------------------------------------------------
(* The end.                                                                *)
LEMMA KeptPaired ==
  LET Kept(what) == {<<h[2], h[3]>> : h \in {g \in hooks : g[1] = what}}
  IN  RunnerFields /\ Kept("setup") = Kept("teardown") => Paired
<1> DEFINE Kept(what) == {<<h[2], h[3]>> : h \in {g \in hooks : g[1] = what}}
<1> SUFFICES ASSUME RunnerFields, Kept("setup") = Kept("teardown") PROVE Paired
  OBVIOUS
<1>1. ASSUME NEW what \in {"setup", "teardown"}, NEW scope \in {"class", "test"},
             NEW kind \in Kinds
      PROVE  <<what, scope, kind>> \in hooks <=> <<scope, kind>> \in Kept(what)
  <2>1. \A h \in hooks : h = <<h[1], h[2], h[3]>>
    BY DEF RunnerFields, Hooks
  <2>2. ASSUME NEW h \in hooks, h[1] = what, <<h[2], h[3]>> = <<scope, kind>>
        PROVE  h = <<what, scope, kind>>
    BY <2>1, <2>2
  <2>3. ASSUME <<what, scope, kind>> \in hooks
        PROVE  <<scope, kind>> \in Kept(what)
    <3> DEFINE h == <<what, scope, kind>>
    <3>1. h \in {g \in hooks : g[1] = what} /\ <<h[2], h[3]>> = <<scope, kind>>
      BY <2>3
    <3>2. QED
      BY <3>1
  <2>4. QED
    BY <2>2, <2>3
<1> HIDE DEF Kept
<1>2. QED
  BY <1>1 DEF Paired

LEMMA LeftoversTold ==
  ASSUME RunnerFields, LeftForCause, HeldForCause
  PROVE  LeftoversHaveCause
<1> DEFINE Kept(what) == {<<h[2], h[3]>> : h \in {g \in hooks : g[1] = what}}
<1>1. Kept("setup") = Kept("teardown") => Paired
  BY KeptPaired
<1> HIDE DEF Kept
<1>2. ASSUME Paired
      PROVE  /\ proc.step = "tests" /\ proc.held =>
                  \E i \in DOMAIN proc.results : proc.results[i] # "pass"
             /\ \A f \in left \cap finished : f \in broken \cup silent
  BY <1>2, NoProcess DEF LeftForCause, HeldForCause, AllPass
<1>3. QED
  BY <1>1, <1>2 DEF LeftoversHaveCause, Kept

LEMMA EndStep ==
  ASSUME RunnerInv, exit = "running", AutoDetect \/ Finish \/ Interrupt
  PROVE  RunnerInv'
<1>1. RunnerFields /\ Underway
  BY DEF RunnerInv
<1>2. UNCHANGED <<command, progress, todo, result, hooks, installed, flaws,
                  history>> /\ proc' \in {proc, NoProc}
  BY DEF AutoDetect, Finish, Interrupt
<1>3. exit' \in {"success", "failure", "fatal"}
  BY DEF AutoDetect, Finish, Interrupt
<1>4. RunnerFields'
  BY <1>1, <1>2, <1>3, NoProcess DEF RunnerFields, progress, history
<1>5. LeftoversHaveCause'
  <2>1. LeftoversHaveCause
    BY <1>1, LeftoversTold DEF Underway
  <2>2. QED
    BY <1>2, <2>1, NoProcess DEF LeftoversHaveCause, history
<1>6. ExitTrue'
  <2>1. CASE exit' = "fatal"
    BY <2>1 DEF ExitTrue
  <2>2. CASE Finish
    <3>1. /\ step = 0 /\ targets = {} /\ (command.name = "test" => command.mode # "auto")
          /\ exit' = IF all_passed THEN "success" ELSE "failure"
      BY <2>2 DEF Finish
    <3>2. Asked' = Asked /\ (UNION Targets(command))' = UNION Targets(command)
      BY <1>2 DEF Asked, Targets, Selected
    <3>3. ASSUME command.name = "test"
          PROVE  /\ all_passed => Asked \subseteq finished \ broken
                 /\ ~all_passed => broken # {}
      <4>1. todo = {} /\ InHand = {} /\ (all_passed => Success(result))
        BY <1>1, <3>1, <3>3 DEF Underway, TestsTold, InHand
      <4>2. \A f : ~Waiting(f)
        BY <3>1 DEF Waiting
      <4>3. QED
        BY <1>1, <3>3, <4>1, <4>2 DEF Underway, TestsTold, Good
    <3>4. ASSUME command.name = "lint"
          PROVE  /\ all_passed => \A c \in Linted : flaws[c] = 0
                 /\ ~all_passed => "flake8" \notin installed
                                     \/ \E c \in Linted : flaws[c] # 0
      <4>1. Done = Linted
        BY <3>1 DEF Done
      <4>2. QED
        BY <1>1, <3>4, <4>1 DEF Underway, LintTold
    <3>5. QED
      BY <1>2, <3>1, <3>2, <3>3, <3>4 DEF ExitTrue, Linted, history
  <2>3. QED
    BY <2>1, <2>2 DEF AutoDetect, Interrupt
<1>7. QED
  BY <1>3, <1>4, <1>5, <1>6 DEF RunnerInv

LEMMA RunnerNextInv == RunnerInv /\ [RunnerNext]_runvars => RunnerInv'
<1> SUFFICES ASSUME RunnerInv, [RunnerNext]_runvars PROVE RunnerInv'
  OBVIOUS
<1>1. CASE UNCHANGED runvars
  <2>1. UNCHANGED <<command, exit, targets, unit, step, all_passed, todo, result,
                    proc, hooks, installed, flaws, finished, broken, left,
                    silent>>
    BY <1>1 DEF runvars, progress, history
  <2>2. RunnerFields' <=> RunnerFields
    BY <2>1 DEF RunnerFields
  <2>3. Asked' = Asked /\ \A f : Waiting(f)' <=> Waiting(f)
    BY <2>1 DEF Asked, Waiting, Selected, Targets
  <2>4. Underway' <=> Underway
    <3>1. ProcessTells' <=> ProcessTells
      BY <2>1 DEF ProcessTells
    <3>2. EachOnce' <=> EachOnce
      BY <2>1 DEF EachOnce, InHand
    <3>3. TestsTold' <=> TestsTold
      BY <2>1, <2>3 DEF TestsTold, InHand, Good
    <3>4. LintTold' <=> LintTold
      BY <2>1 DEF LintTold, Linted, Done, Targets
    <3>5. (LeftForCause' <=> LeftForCause) /\ (HeldForCause' <=> HeldForCause)
      BY <2>1 DEF LeftForCause, HeldForCause, Paired, Does, Hook
    <3>6. QED
      BY <3>1, <3>2, <3>3, <3>4, <3>5 DEF Underway
  <2>5. ExitTrue' <=> ExitTrue
    BY <2>1, <2>3 DEF ExitTrue, Targets
  <2>6. LeftoversHaveCause' <=> LeftoversHaveCause
    BY <2>1 DEF LeftoversHaveCause
  <2>7. QED
    BY <2>1, <2>2, <2>4, <2>5, <2>6 DEF RunnerInv
<1>2. CASE RunnerNext
  <2>1. exit = "running"
    BY <1>2 DEF RunnerNext, AutoDetect, StartComponent, StartFile, ClassSetup,
                RunTest, ClassTeardown, Dies, Alive, Timeout, Collect,
                EndComponent, Scan, Format, Fix, Verify, Finish, Interrupt
  <2>2. QED
    BY <1>2, <2>1, StartComponentStep, StartFileStep, ClassSetupStep,
       RunTestStep, ClassTeardownStep, EndsStep, CollectStep,
       EndComponentStep, ScanStep, FormatStep, FixStep, VerifyStep, EndStep
    DEF RunnerNext
<1>3. QED
  BY <1>1, <1>2

LEMMA AlwaysRunnerInv == RunnerSpec => []RunnerInv
BY RunnerInitInv, RunnerNextInv, PTL DEF RunnerSpec

(* The exit code tells the truth of every command line, whatever becomes   *)
(* of the processes in between.                                            *)
THEOREM ExitIsTrue == RunnerSpec => []ExitTrue
<1>1. RunnerInv => ExitTrue
  BY DEF RunnerInv, ExitTrue
<1>2. QED
  BY <1>1, AlwaysRunnerInv, PTL

(* With hooks in pairs a test or a file meets another's leftovers only     *)
(* after a failure.                                                        *)
THEOREM LeftoversAlwaysHaveCause == RunnerSpec => []LeftoversHaveCause
<1>1. RunnerInv => LeftoversHaveCause
  BY LeftoversTold DEF RunnerInv, Underway
<1>2. QED
  BY <1>1, AlwaysRunnerInv, PTL
=============================================================================
