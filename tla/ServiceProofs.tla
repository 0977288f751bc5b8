---------------------------- MODULE ServiceProofs ---------------------------
(***************************************************************************)
(* What holds of what every service runs on: the circuit breaker around    *)
(* its calls, and the life of its process.                                 *)
(*                                                                         *)
(* What holds of the circuit breaker for every number of callers and every *)
(* configuration, and what it takes of the configuration; and when it      *)
(* protects a service that is called through a retry, for every number of  *)
(* attempts and every set of errors.                                       *)
(***************************************************************************)
EXTENDS ResilientCall, Lifecycle, FiniteSetTheorems, SequenceTheorems, TLAPS

USE BreakerAssumption DEF BreakerAssumption

(* The fields have their types in every reachable state.                   *)
LEMMA TypeInvariant == Spec => []TypeOK
<1>1. Init => TypeOK
  BY DEF Init, TypeOK
<1>2. TypeOK /\ [Next]_breaker => TypeOK'
  <2> SUFFICES ASSUME TypeOK, [Next]_breaker PROVE TypeOK'
    OBVIOUS
  <2> USE DEF TypeOK
  <2>1. ASSUME NEW c \in Callers, Admit(c) PROVE TypeOK'
    BY <2>1 DEF Admit, RoomForProbe
  <2>2. ASSUME NEW c \in Callers, Succeed(c) PROVE TypeOK'
    <3>1. CASE state = "HALF_OPEN" /\ ~EnoughSuccesses
      BY <2>2, <3>1 DEF Succeed, Returns, ToClosed, EnoughSuccesses
    <3>2. CASE ~(state = "HALF_OPEN" /\ ~EnoughSuccesses)
      BY <2>2, <3>2 DEF Succeed, Returns, ToClosed
    <3>3. QED
      BY <3>1, <3>2
  <2>3. ASSUME NEW c \in Callers, Fail(c) PROVE TypeOK'
    BY <2>3 DEF Fail, Returns, Stamp, Opens, ToOpen
  <2>4. ASSUME NEW c \in Callers, Ignore(c) PROVE TypeOK'
    BY <2>4 DEF Ignore, Returns
  <2>5. CASE Reset
    BY <2>5 DEF Reset, ToClosed
  <2>6. CASE Trip
    BY <2>6 DEF Trip, ToOpen
  <2>7. CASE Tick
    BY <2>7 DEF Tick, Older
  <2>8. CASE UNCHANGED breaker
    BY <2>8 DEF breaker
  <2>9. QED
    BY <2>1, <2>2, <2>3, <2>4, <2>5, <2>6, <2>7, <2>8 DEF Next
<1>3. QED
  BY <1>1, <1>2, PTL DEF Spec

(* The clocks agree: the circuit half-opens only after Timeout of rest.    *)
LEMMA Clocks == Spec => []ClocksAgree
<1>1. Init => ClocksAgree
  BY DEF Init, ClocksAgree
<1>2. TypeOK /\ ClocksAgree /\ [Next]_breaker => ClocksAgree'
  <2> SUFFICES ASSUME TypeOK, ClocksAgree, [Next]_breaker PROVE ClocksAgree'
    OBVIOUS
  <2> USE DEF TypeOK, ClocksAgree
  <2>1. ASSUME NEW c \in Callers, Admit(c) PROVE ClocksAgree'
    BY <2>1 DEF Admit, ShouldAttemptReset
  <2>2. ASSUME NEW c \in Callers, Succeed(c) PROVE ClocksAgree'
    BY <2>2 DEF Succeed, ToClosed
  <2>3. ASSUME NEW c \in Callers, Fail(c) PROVE ClocksAgree'
    BY <2>3 DEF Fail, Stamp, Opens, ToOpen
  <2>4. ASSUME NEW c \in Callers, Ignore(c) PROVE ClocksAgree'
    BY <2>4 DEF Ignore
  <2>5. CASE Reset
    BY <2>5 DEF Reset, ToClosed
  <2>6. CASE Trip
    BY <2>6 DEF Trip, ToOpen
  <2>7. CASE Tick
    BY <2>7 DEF Tick, Older
  <2>8. CASE UNCHANGED breaker
    BY <2>8 DEF breaker
  <2>9. QED
    BY <2>1, <2>2, <2>3, <2>4, <2>5, <2>6, <2>7, <2>8 DEF Next
<1>3. QED
  BY <1>1, <1>2, TypeInvariant, PTL DEF Spec

(* An open circuit admits nobody for Timeout after it opened, whatever the *)
(* calls still inside report: _can_attempt, on the clock that only failures *)
(* and trips set.                                                          *)
THEOREM OpenCircuitProtects == Spec => OpenProtects
<1>1. TypeOK /\ ClocksAgree /\ [Next]_breaker
        => [running \subseteq running' /\ running' # running =>
              state = "CLOSED" \/ open_age >= Timeout]_breaker
  <2> SUFFICES ASSUME TypeOK, ClocksAgree, Next,
                      running \subseteq running', running' # running
               PROVE  state = "CLOSED" \/ open_age >= Timeout
    OBVIOUS
  <2>1. PICK c \in Callers : Admit(c)
    <3>1. ASSUME NEW c \in Callers, Succeed(c) \/ Fail(c) \/ Ignore(c)
          PROVE  FALSE
      BY <3>1 DEF Succeed, Fail, Ignore, Returns
    <3>2. ~(Reset \/ Trip \/ Tick)
      BY DEF Reset, Trip, Tick
    <3>3. QED
      BY <3>1, <3>2 DEF Next
  <2>2. QED
    BY <2>1 DEF Admit, ShouldAttemptReset, TypeOK, ClocksAgree
<1>2. QED
  BY <1>1, TypeInvariant, Clocks, PTL DEF Spec, OpenProtects

(* What leaving the protected function does to the probes that run.        *)
LEMMA ProbesCounted ==
  ASSUME TypeOK, NEW c \in Callers
  PROVE  /\ Cardinality(probes) \in Nat
         /\ Cardinality(probes \ {c}) \in Nat
         /\ Cardinality(probes \ {c}) + 1 >= Cardinality(probes)
         /\ c \notin running => Cardinality(probes \cup {c})
                                  = Cardinality(probes) + 1
         /\ Cardinality({c}) = 1
<1>1. IsFiniteSet(probes)
  BY FS_Subset DEF TypeOK
<1>2. Cardinality(probes) \in Nat /\ Cardinality(probes \ {c}) \in Nat
  BY <1>1, FS_CardinalityType, FS_RemoveElement
<1>3. Cardinality(probes \ {c}) + 1 >= Cardinality(probes)
  <2>1. Cardinality(probes \ {c}) =
          IF c \in probes THEN Cardinality(probes) - 1 ELSE Cardinality(probes)
    BY <1>1, FS_RemoveElement, Zenon
  <2>2. QED
    BY <1>2, <2>1
<1>4. c \notin running => c \notin probes
  BY DEF TypeOK
<1>5. c \notin running => Cardinality(probes \cup {c})
                           = Cardinality(probes) + 1
  BY <1>1, <1>4, FS_AddElement
<1>6. Cardinality({c}) = 1
  BY FS_Singleton
<1>7. QED
  BY <1>2, <1>3, <1>5, <1>6

(* Every half-open call is accounted for, if every outcome is reported.    *)
LEMMA HalfOpenCallsAccounted ==
  ASSUME "ignored" \notin Endings
  PROVE  Spec => []ProbesAccounted
<1>1. Init => ProbesAccounted
  BY DEF Init, ProbesAccounted
<1>2. TypeOK /\ ProbesAccounted /\ [Next]_breaker => ProbesAccounted'
  <2> SUFFICES ASSUME TypeOK, ProbesAccounted, [Next]_breaker
               PROVE  ProbesAccounted'
    OBVIOUS
  <2>0. ASSUME NEW c \in Callers
        PROVE  /\ Cardinality(probes) \in Nat
               /\ Cardinality(probes \ {c}) \in Nat
               /\ Cardinality(probes \ {c}) + 1 >= Cardinality(probes)
               /\ c \notin running => Cardinality(probes \cup {c})
                                        = Cardinality(probes) + 1
               /\ Cardinality({c}) = 1
    BY ProbesCounted, Zenon
  <2> USE DEF TypeOK, ProbesAccounted
  <2>1. ASSUME NEW c \in Callers, Admit(c) PROVE ProbesAccounted'
    <3>1. CASE state = "HALF_OPEN"
      <4>1. Cardinality(probes') = Cardinality(probes) + 1
        BY <2>0, <2>1, <3>1 DEF Admit
      <4>2. QED
        <5> DEFINE now == Cardinality(probes)
                   next == Cardinality(probes')
        <5>1. /\ state' = state /\ half_open_calls' = half_open_calls + 1
              /\ success_count' = success_count
          BY <2>1, <3>1 DEF Admit
        <5>2. now \in Nat /\ next = now + 1
          BY <2>0, <2>1, <4>1
        <5>3. half_open_calls <= now + success_count
          BY <3>1
        <5> HIDE DEF now, next
        <5>4. half_open_calls' <= next + success_count'
          BY <5>1, <5>2, <5>3
        <5>5. QED
          BY <5>4 DEF next
    <3>2. CASE state = "OPEN"
      <4>1. Cardinality(probes') = 1
        BY <2>0, <2>1, <3>2 DEF Admit
      <4>2. QED
        BY <2>1, <3>2, <4>1 DEF Admit
    <3>3. CASE state = "CLOSED"
      BY <2>1, <3>3 DEF Admit
    <3>4. QED
      BY <3>1, <3>2, <3>3
  <2>2. ASSUME NEW c \in Callers, Succeed(c) PROVE ProbesAccounted'
    <3>1. CASE state = "HALF_OPEN" /\ ~EnoughSuccesses
      <4>1. Cardinality(probes') + 1 >= Cardinality(probes)
        BY <2>0, <2>2, <3>1 DEF Succeed
      <4>2. Cardinality(probes') \in Nat
        BY <2>0, <2>2, <3>1 DEF Succeed
      <4>3. QED
        <5> DEFINE now == Cardinality(probes)
                   next == Cardinality(probes')
        <5>1. /\ half_open_calls' = half_open_calls
              /\ success_count' = success_count + 1
          BY <2>2, <3>1 DEF Succeed, ToClosed
        <5>2. now \in Nat /\ next \in Nat /\ next + 1 >= now
          BY <2>0, <2>2, <4>1, <4>2
        <5>3. half_open_calls <= now + success_count
          BY <3>1
        <5> HIDE DEF now, next
        <5>4. half_open_calls' <= next + success_count'
          BY <5>1, <5>2, <5>3
        <5>5. QED
          BY <5>4 DEF next
    <3>2. CASE ~(state = "HALF_OPEN" /\ ~EnoughSuccesses)
      BY <2>2, <3>2 DEF Succeed, ToClosed
    <3>3. QED
      BY <3>1, <3>2
  <2>3. ASSUME NEW c \in Callers, Fail(c) PROVE ProbesAccounted'
    BY <2>3 DEF Fail, Opens, ToOpen
  <2>4. ASSUME NEW c \in Callers, Ignore(c) PROVE ProbesAccounted'
    BY <2>4 DEF Ignore
  <2>5. CASE Reset
    BY <2>5 DEF Reset, ToClosed
  <2>6. CASE Trip
    BY <2>6 DEF Trip, ToOpen
  <2>7. CASE Tick
    BY <2>7 DEF Tick
  <2>8. CASE UNCHANGED breaker
    BY <2>8 DEF breaker
  <2>9. QED
    BY <2>1, <2>2, <2>3, <2>4, <2>5, <2>6, <2>7, <2>8 DEF Next
<1>3. QED
  BY <1>1, <1>2, TypeInvariant, PTL DEF Spec

(* A half-open circuit never ends with its calls used up and none running: *)
(* true only if every outcome is reported and the probes allowed are as    *)
(* many as the successes asked for.  (passeur may be configured to ask for *)
(* more than its probes allow, and a cancelled call is not reported.)      *)
THEOREM NeverWedged ==
  ASSUME "ignored" \notin Endings, SuccessThreshold <= HalfOpenMaxCalls
  PROVE  Spec => []NotWedged
<1>1. TypeOK /\ ProbesAccounted => NotWedged
  <2> SUFFICES ASSUME TypeOK, ProbesAccounted, state = "HALF_OPEN",
                      ~RoomForProbe, probes = {}
               PROVE  FALSE
    BY DEF NotWedged
  <2>1. Cardinality(probes) = 0
    BY FS_EmptySet
  <2>2. QED
    BY <2>1 DEF TypeOK, ProbesAccounted, RoomForProbe
<1>2. QED
  BY <1>1, TypeInvariant, HalfOpenCallsAccounted, PTL

-----------------------------------------------------------------------------
(* Retrying inside the breaker.                                            *)

USE RetryAssumption DEF RetryAssumption

(* Retrying inside the breaker takes only steps that the breaker takes, so *)
(* that what is proved of the breaker holds of the calls.                  *)
THEOREM CallsFollowBreaker == CSpec => Spec
<1>1. CInit => Init
  BY DEF CInit
<1>2. [CNext]_callvars => [Next]_breaker
  <2> SUFFICES ASSUME [CNext]_callvars PROVE [Next]_breaker
    OBVIOUS
  <2>1. ASSUME NEW c \in Callers, Begin(c) PROVE Next
    BY <2>1 DEF Begin, Next
  <2>2. ASSUME NEW c \in Callers, AttemptSucceeds(c) PROVE Next
    BY <2>2 DEF AttemptSucceeds, Next
  <2>3. ASSUME NEW c \in Callers, NEW e \in Errors, AttemptFails(c, e)
        PROVE  Next \/ UNCHANGED breaker
    BY <2>3 DEF AttemptFails, Raise, Next
  <2>4. ASSUME NEW c \in Callers, Cancel(c) PROVE Next
    BY <2>4 DEF Cancel, Next
  <2>5. CASE Administer
    BY <2>5 DEF Administer, Next
  <2>6. CASE Tick /\ UNCHANGED retrying
    BY <2>6 DEF Next
  <2>7. CASE UNCHANGED callvars
    BY <2>7 DEF callvars
  <2>8. QED
    BY <2>1, <2>2, <2>3, <2>4, <2>5, <2>6, <2>7 DEF CNext
<1>3. QED
  BY <1>1, <1>2, PTL DEF CSpec, Spec

(* A closed circuit has counted at least the calls that raised in a row,   *)
(* and fewer than the threshold.                                           *)
Counted ==
  /\ unserved \in Nat
  /\ state = "CLOSED" => /\ unserved <= failure_count
                         /\ failure_count < FailureThreshold
  /\ state # "CLOSED" => unserved = 0

(* A step of the breaker that does not count a raise keeps the account.    *)
LEMMA UncountedStep ==
  ASSUME TypeOK, Counted, Observe(FALSE),
         state' = "CLOSED" =>
           /\ failure_count' \in Nat
           /\ failure_count' < FailureThreshold
  PROVE  Counted'
BY DEF TypeOK, Counted, Observe

(* An outage opens the circuit, provided every exception that can leave    *)
(* the retry is among those the breaker expects: RetryError, when the      *)
(* attempts are exhausted, and whatever is not retried.                    *)
THEOREM OutageAlwaysOpens ==
  ASSUME RetryError \in Expected, Errors \ RetryOn \subseteq Expected
  PROVE  CSpec => []OutageOpens
<1>1. CInit => Counted
  BY DEF CInit, Init, Counted
<1>2. TypeOK /\ Counted /\ [CNext]_callvars => Counted'
  <2> SUFFICES ASSUME TypeOK, Counted, [CNext]_callvars PROVE Counted'
    OBVIOUS
  <2>1. ASSUME NEW c \in Callers, Begin(c) PROVE Counted'
    BY <2>1 DEF Begin, Admit, Counted, TypeOK
  <2>2. ASSUME NEW c \in Callers, AttemptSucceeds(c) PROVE Counted'
    <3>1. Succeed(c) /\ Observe(FALSE)
      BY <2>2 DEF AttemptSucceeds
    <3>2. state' = "CLOSED" => failure_count' = 0
      BY <3>1 DEF Succeed, ToClosed
    <3>3. QED
      BY <3>1, <3>2, UncountedStep
  <2>3. ASSUME NEW c \in Callers, NEW e \in Errors, AttemptFails(c, e)
        PROVE  Counted'
    <3>1. CASE UNCHANGED <<breaker, unserved>>
      BY <3>1 DEF breaker, Counted
    <3>2. CASE \E x \in Expected : Raise(c, x)
      <4>1. Fail(c) /\ Observe(TRUE)
        BY <3>2 DEF Raise
      <4>2. CASE Opens
        BY <4>1, <4>2 DEF Fail, ToOpen, Observe, Counted
      <4>3. CASE ~Opens
        <5>1. /\ state' = state
              /\ failure_count' = failure_count + 1
          BY <4>1, <4>3 DEF Fail, Opens, ToOpen
        <5>2. CASE state = "CLOSED"
          BY <4>1, <4>3, <5>1, <5>2 DEF Opens, Observe, Counted, TypeOK
        <5>3. CASE state # "CLOSED"
          BY <4>1, <5>1, <5>3 DEF Observe, Counted
        <5>4. QED
          BY <5>2, <5>3
      <4>4. QED
        BY <4>2, <4>3
    <3>3. QED
      BY <2>3, <3>1, <3>2 DEF AttemptFails
  <2>4. ASSUME NEW c \in Callers, Cancel(c) PROVE Counted'
    BY <2>4 DEF Cancel, Ignore, retrying, Counted
  <2>5. CASE Administer
    <3>1. CASE Reset
      BY <2>5, <3>1, UncountedStep DEF Administer, Reset, ToClosed
    <3>2. CASE Trip
      BY <2>5, <3>2, UncountedStep DEF Administer, Trip, ToOpen
    <3>3. QED
      BY <2>5, <3>1, <3>2 DEF Administer
  <2>6. CASE Tick /\ UNCHANGED retrying
    BY <2>6 DEF Tick, retrying, Counted
  <2>7. CASE UNCHANGED callvars
    BY <2>7 DEF callvars, breaker, retrying, Counted
  <2>8. QED
    BY <2>1, <2>2, <2>3, <2>4, <2>5, <2>6, <2>7 DEF CNext
<1>3. TypeOK /\ Counted => OutageOpens
  <2> SUFFICES ASSUME TypeOK, Counted PROVE unserved < FailureThreshold
    BY DEF OutageOpens
  <2>1. CASE state = "CLOSED"
    BY <2>1 DEF TypeOK, Counted
  <2>2. CASE state # "CLOSED"
    BY <2>2 DEF Counted
  <2>3. QED
    BY <2>1, <2>2
<1>4. CSpec => []TypeOK
  BY CallsFollowBreaker, TypeInvariant, PTL
<1>5. QED
  BY <1>1, <1>2, <1>3, <1>4, PTL DEF CSpec
-----------------------------------------------------------------------------

(* The attempts that the calls inside the breaker have left.               *)
Left ==
  {p \in Callers \X (1..(MaxAttempts - 1)) :
     p[1] \in running /\ attempt[p[1]] < p[2]}

(* Since the circuit opened, an attempt is either still left to a call     *)
(* that was inside, or has been made, once.                                *)
Spent ==
  /\ attempt \in [Callers -> 0..(MaxAttempts - 1)]
  /\ leaked \in Nat
  /\ state = "OPEN" =>
       leaked + Cardinality(Left) <= Cardinality(Callers) * (MaxAttempts - 1)

LEMMA LeftIsBounded ==
  /\ IsFiniteSet(Left)
  /\ Cardinality(Left) \in Nat
  /\ Cardinality(Left) <= Cardinality(Callers) * (MaxAttempts - 1)
<1> DEFINE all == Callers \X (1..(MaxAttempts - 1))
<1>max. 1 \in Int /\ MaxAttempts - 1 \in Int /\ MaxAttempts - 1 >= 0
  BY RetryAssumption
<1>1. /\ IsFiniteSet(1..(MaxAttempts - 1))
      /\ Cardinality(1..(MaxAttempts - 1)) = MaxAttempts - 1
  <2> DEFINE b == MaxAttempts - 1
  <2>1. b \in Int /\ b >= 0
    BY <1>max
  <2> HIDE DEF b
  <2>2. IsFiniteSet(1..b) /\ Cardinality(1..b) = IF 1 > b THEN 0 ELSE b - 1 + 1
    BY <1>max, <2>1, FS_Interval, Zenon
  <2>3. IsFiniteSet(1..b) /\ Cardinality(1..b) = b
    BY <2>1, <2>2
  <2>4. QED
    BY <2>3 DEF b
<1>2. /\ IsFiniteSet(all)
      /\ Cardinality(all) = Cardinality(Callers) * (MaxAttempts - 1)
  BY <1>1, FS_Product
<1>3. Left \subseteq all
  BY DEF Left
<1>4. QED
  BY <1>2, <1>3, FS_Subset, FS_CardinalityType

(* A retry takes one from what is left; nothing else adds to it but a call *)
(* that is admitted, which an open circuit does not do.                    *)
LEMMA LeftShrinks ==
  ASSUME Left' \subseteq Left
  PROVE  Cardinality(Left') \in Nat /\ Cardinality(Left') <= Cardinality(Left)
BY LeftIsBounded, FS_Subset, FS_CardinalityType

LEMMA NoRetryStep ==
  ASSUME TypeOK, Spent, running' \subseteq running, attempt' = attempt,
         state' \in {"CLOSED", "OPEN", "HALF_OPEN"},
         leaked' = IF state' = "OPEN" /\ state # "OPEN" THEN 0 ELSE leaked
  PROVE  Spent'
<1>1. Left' \subseteq Left
  BY DEF Left
<1>2. /\ Cardinality(Left') \in Nat /\ Cardinality(Left') <= Cardinality(Left)
      /\ Cardinality(Left) \in Nat
      /\ Cardinality(Left) <= Cardinality(Callers) * (MaxAttempts - 1)
  BY <1>1, LeftShrinks, LeftIsBounded
<1>3. Cardinality(Callers) * (MaxAttempts - 1) \in Nat
  BY FS_CardinalityType
<1>4. QED
  BY <1>2, <1>3 DEF Spent

LEMMA OneRetryStep ==
  ASSUME TypeOK, Spent, NEW c \in Callers, c \in running, AttemptsLeft(c),
         attempt' = [attempt EXCEPT ![c] = @ + 1], UNCHANGED breaker,
         leaked' = IF state = "OPEN" THEN leaked + 1 ELSE leaked
  PROVE  Spent'
<1> DEFINE x == <<c, attempt[c] + 1>>
<1>1. x \in Left
  BY DEF Left, Spent, AttemptsLeft
<1>2. Left' \subseteq Left \ {x}
  BY DEF Left, Spent, breaker
<1>3. /\ IsFiniteSet(Left \ {x})
      /\ Cardinality(Left \ {x}) = Cardinality(Left) - 1
      /\ Cardinality(Left) \in Nat
  BY <1>1, LeftIsBounded, FS_RemoveElement
<1>4. Cardinality(Left') <= Cardinality(Left) - 1 /\ Cardinality(Left') \in Nat
  BY <1>2, <1>3, FS_Subset, FS_CardinalityType
<1>5. attempt' \in [Callers -> 0..(MaxAttempts - 1)] /\ leaked' \in Nat
  BY DEF Spent, AttemptsLeft
<1>6. Cardinality(Callers) * (MaxAttempts - 1) \in Nat
  BY FS_CardinalityType
<1>7. QED
  BY <1>3, <1>4, <1>5, <1>6 DEF Spent, breaker

(* For any number of callers and attempts: since it opened, an open        *)
(* circuit has let through no more requests than the retries of the calls  *)
(* that may have been inside.                                              *)
THEOREM LoadIsBounded == CSpec => []LoadBounded
<1>1. CInit => Spent
  BY DEF CInit, Init, Spent
<1>2. TypeOK /\ TypeOK' /\ Spent /\ [CNext]_callvars => Spent'
  <2> SUFFICES ASSUME TypeOK, TypeOK', Spent, [CNext]_callvars PROVE Spent'
    OBVIOUS
  <2>types. state' \in {"CLOSED", "OPEN", "HALF_OPEN"}
    BY DEF TypeOK
  <2>1. ASSUME NEW c \in Callers, Begin(c) PROVE Spent'
    BY <2>1 DEF Begin, Admit, Spent
  <2>2. ASSUME NEW c \in Callers, AttemptSucceeds(c) PROVE Spent'
    BY <2>2, <2>types, NoRetryStep DEF AttemptSucceeds, Succeed, Returns, Observe
  <2>3. ASSUME NEW c \in Callers, NEW e \in Errors \cup {RetryError}, Raise(c, e)
        PROVE  Spent'
    BY <2>3, <2>types, NoRetryStep DEF Raise, Fail, Ignore, Returns, Observe
  <2>4. ASSUME NEW c \in Callers, NEW e \in Errors, AttemptFails(c, e)
        PROVE  Spent'
    BY <2>3, <2>4, OneRetryStep DEF AttemptFails
  <2>5. ASSUME NEW c \in Callers, Cancel(c) PROVE Spent'
    BY <2>5, <2>types, NoRetryStep DEF Cancel, Ignore, Returns, retrying
  <2>6. CASE Administer
    BY <2>6, <2>types, NoRetryStep DEF Administer, Reset, Trip, Observe
  <2>7. CASE Tick /\ UNCHANGED retrying
    BY <2>7, <2>types, NoRetryStep DEF Tick, retrying
  <2>8. CASE UNCHANGED callvars
    BY <2>8, <2>types, NoRetryStep DEF callvars, breaker, retrying
  <2>9. QED
    BY <2>1, <2>2, <2>4, <2>5, <2>6, <2>7, <2>8 DEF CNext
<1>3. Spent => LoadBounded
  <2> SUFFICES ASSUME Spent, state = "OPEN"
               PROVE  leaked <= Cardinality(Callers) * (MaxAttempts - 1)
    BY DEF LoadBounded
  <2>1. Cardinality(Callers) * (MaxAttempts - 1) \in Nat
    BY FS_CardinalityType
  <2>2. QED
    BY <2>1, LeftIsBounded DEF Spent
<1>4. CSpec => []TypeOK
  BY CallsFollowBreaker, TypeInvariant, PTL
<1>5. QED
  BY <1>1, <1>2, <1>3, <1>4, PTL DEF CSpec

HIDE BreakerAssumption DEF BreakerAssumption

(***************************************************************************)
(* The life of a service's process.                                        *)
(*                                                                         *)
(* Two sequences close things and requests open them meanwhile. Passed     *)
(* says what a sequence has behind it: each place it has passed is closed, *)
(* or was used when its turn had come.                                     *)
(***************************************************************************)
USE LifecycleAssumption DEF LifecycleAssumption

LifeTypes ==
  /\ service \in {"pourtier", "passeur"}
  /\ stage \in Nat \ {0}
  /\ conn \in [Resource -> {"none", "open", "closing"}]
  /\ threads \in [Monitor ->
                    {"none", "starting", "open", "failed", "closed"}]
  /\ turn \in [Closer -> [at : Nat, waits : BOOLEAN, ok : BOOLEAN]]
  /\ visit \in [Visit -> [state : {"new", "session", "calling", "refused",
                                   "broken", "done"},
                          client : {"none"} \cup Resource]]

(* Before a sequence begins, the service has opened what it opens in       *)
(* starting.                                                               *)
BegunAfterOpening ==
  /\ service = "pourtier" /\ trapped => stage > 3
  /\ Begun("signal") => service = "pourtier" /\ trapped
  /\ Begun("lifespan") => up \in {"leaving", "ended"}
  /\ up \in {"serving", "leaving"} => stage > 3

(* The things of the other service are never open.                         *)
OnlyItsOwn ==
  /\ service = "pourtier" => conn["redis"] # "open"
  /\ service = "passeur" =>
       \A c \in Resource \ {"redis", "clients"} : conn[c] # "open"

(* What is closed, or being closed, a sequence has come to.                *)
ClosedHasCause ==
  /\ \A c \in Resource : conn[c] = "closing" => CameTo(c)
  /\ service = "pourtier" /\ stage > 1 =>
       conn["database"] = "open" \/ CameTo("database")

Gone(c, used, ts, cs) ==
  \/ c \in used
  \/ IF c \in Monitor THEN ts[c] \notin {"starting", "open"}
                      ELSE cs[c] # "open"

IsGone(c) == Gone(c, late, threads, conn)
WillBeGone(c) == Gone(c, late', threads', conn')

(* A sequence leaves nothing open behind it, but for what was used, or     *)
(* still starting, when its turn had come.                                 *)
Passed ==
  \A k \in Closer :
    /\ \A i \in DOMAIN Sequence(k) :
         turn[k].at > i /\ turn[k].ok => IsGone(Sequence(k)[i])
    /\ turn[k].waits => /\ turn[k].at \in DOMAIN Sequence(k)
                       /\ Current(k) \in Resource /\ IsGone(Current(k))

LInv ==
  /\ LifeTypes
  /\ BegunAfterOpening
  /\ OnlyItsOwn
  /\ ClosedHasCause
  /\ Passed
  /\ lost \subseteq late
  /\ RefusedHasCause
-----------------------------------------------------------------------------
Join(s, t) == s \o t

LEMMA JoinProperties ==
  ASSUME NEW S, NEW s \in Seq(S), NEW t \in Seq(S)
  PROVE  /\ Join(s, t) \in Seq(S)
         /\ Len(Join(s, t)) = Len(s) + Len(t)
         /\ \A i \in 1..(Len(s) + Len(t)) :
              Join(s, t)[i] = IF i <= Len(s) THEN s[i] ELSE t[i - Len(s)]
BY ConcatProperties, Zenon DEF Join

LEMMA TheSequences ==
  ASSUME service \in {"pourtier", "passeur"}, NEW k \in Closer
  PROVE  /\ Len(Sequence(k)) \in Nat
         /\ DOMAIN Sequence(k) = 1..Len(Sequence(k))
         /\ \A i \in DOMAIN Sequence(k) :
              /\ Sequence(k)[i] \in Resource \cup Monitor
              /\ Sequence(k)[i] \in Monitor => k = "lifespan"
         /\ service = "pourtier" =>
              \A c \in {"database", "cache", "bridge", "verifier", "query"} :
                \E i \in DOMAIN Sequence(k) : Sequence(k)[i] = c
         /\ service = "passeur" /\ k = "lifespan" =>
              \E i \in DOMAIN Sequence(k) : Sequence(k)[i] = "redis"
         /\ k = "lifespan" => 
              \A c \in Monitor : \E i \in DOMAIN Sequence(k) : Sequence(k)[i] = c
<1>1. CASE service = "pourtier" /\ k = "signal"
  <2>1. Sequence(k) = <<"database", "cache", "bridge", "bridge", "verifier",
                        "query">>
    BY <1>1 DEF Sequence, Container
  <2>2. /\ Sequence(k)[1] = "database" /\ Sequence(k)[2] = "cache"
        /\ Sequence(k)[3] = "bridge" /\ Sequence(k)[5] = "verifier"
        /\ Sequence(k)[6] = "query" /\ Len(Sequence(k)) = 6
        /\ DOMAIN Sequence(k) = 1..6
    BY <2>1
  <2>3. \A i \in 1..6 : Sequence(k)[i] \in Resource
    BY <2>1 DEF Resource
  <2>4. Resource \cap Monitor = {}
    BY DEF Resource, Monitor
  <2>5. QED
    BY <1>1, <2>2, <2>3, <2>4
<1>2. CASE service = "pourtier" /\ k = "lifespan"
  <2> DEFINE s == <<"metrics", "health">>
             t == <<"database", "cache", "bridge", "bridge", "verifier",
                    "query">>
  <2>1. Sequence(k) = Join(s, t)
    BY <1>2, Zenon DEF Sequence, Container, Join
  <2>2. s \in Seq(Resource \cup Monitor) /\ t \in Seq(Resource \cup Monitor)
        /\ Len(s) = 2 /\ Len(t) = 6
    BY DEF Resource, Monitor
  <2>3. /\ s[1] = "metrics" /\ s[2] = "health" /\ t[1] = "database"
        /\ t[2] = "cache" /\ t[3] = "bridge" /\ t[5] = "verifier"
        /\ t[6] = "query"
    OBVIOUS
  <2> HIDE DEF s, t
  <2>4. /\ Join(s, t) \in Seq(Resource \cup Monitor)
        /\ Len(Join(s, t)) = Len(s) + Len(t)
        /\ \A i \in 1..(Len(s) + Len(t)) :
             Join(s, t)[i] = IF i <= Len(s) THEN s[i] ELSE t[i - Len(s)]
    BY <2>2, JoinProperties, Zenon
  <2>5. /\ Len(Sequence(k)) = 8 /\ Sequence(k) \in Seq(Resource \cup Monitor)
        /\ \A i \in 1..8 :
             Sequence(k)[i] = IF i <= 2 THEN s[i] ELSE t[i - 2]
    BY <2>1, <2>2, <2>4
  <2>6. /\ DOMAIN Sequence(k) = 1..8
        /\ \A i \in 1..8 : Sequence(k)[i] \in Resource \cup Monitor
    <3>1. 1..8 = 1..Len(Sequence(k)) /\ DOMAIN Sequence(k) = 1..Len(Sequence(k))
      BY <2>5
    <3>2. QED
      BY <2>5, <3>1, ElementOfSeq
  <2>7. /\ Sequence(k)[1] = "metrics" /\ Sequence(k)[2] = "health"
        /\ Sequence(k)[3] = "database" /\ Sequence(k)[4] = "cache"
        /\ Sequence(k)[5] = "bridge" /\ Sequence(k)[7] = "verifier"
        /\ Sequence(k)[8] = "query"
    BY <2>3, <2>5
  <2>8. QED
    BY <1>2, <2>5, <2>6, <2>7 DEF Monitor
<1>3. CASE service = "passeur" /\ k = "signal"
  BY <1>3 DEF Sequence
<1>4. CASE service = "passeur" /\ k = "lifespan"
  <2>1. Sequence(k) = <<"redis", "metrics", "health">>
    BY <1>4 DEF Sequence
  <2>2. /\ Sequence(k)[1] = "redis" /\ Sequence(k)[2] = "metrics"
        /\ Sequence(k)[3] = "health" /\ Len(Sequence(k)) = 3
        /\ DOMAIN Sequence(k) = 1..3
    BY <2>1
  <2>3. QED
    BY <1>4, <2>2 DEF Resource, Monitor
<1>5. QED
  BY <1>1, <1>2, <1>3, <1>4 DEF Closer

LEMMA LifeInitInv == LifeInit => LInv
<1> SUFFICES ASSUME LifeInit PROVE LInv
  OBVIOUS
<1>1. LifeTypes
  BY DEF LifeInit, LifeTypes
<1>2. \A k \in Closer : turn[k].at = 0 /\ ~turn[k].waits
  BY DEF LifeInit
<1>3. BegunAfterOpening /\ OnlyItsOwn /\ ClosedHasCause /\ RefusedHasCause
  BY <1>2 DEF LifeInit, BegunAfterOpening, Begun, OnlyItsOwn, ClosedHasCause,
              RefusedHasCause, Resource, Closer
<1>4. Passed
  BY <1>1, <1>2, TheSequences DEF LifeTypes, Passed
<1>5. QED
  BY <1>1, <1>3, <1>4 DEF LifeInit, LInv

(* What a sequence has come to stays so.                                   *)
LEMMA CameToStays ==
  ASSUME LInv, service' = service, \A k \in Closer : turn'[k].at >= turn[k].at,
         turn' \in [Closer -> [at : Nat, waits : BOOLEAN, ok : BOOLEAN]],
         NEW c, CameTo(c)
  PROVE  CameTo(c)'
<1>0. PICK k \in Closer :
        \E i \in DOMAIN Sequence(k) : Sequence(k)[i] = c /\ turn[k].at >= i
  BY DEF CameTo
<1>1. PICK i \in DOMAIN Sequence(k) : Sequence(k)[i] = c /\ turn[k].at >= i
  BY <1>0
<1>2. i \in Nat /\ turn[k].at \in Nat /\ turn'[k].at \in Nat
  BY TheSequences DEF LInv, LifeTypes
<1>3. Sequence(k)' = Sequence(k)
  BY DEF Sequence, Container
<1>4. QED
  BY <1>1, <1>2, <1>3 DEF CameTo

LEMMA TurnIsCome ==
  ASSUME LInv, NEW k \in Closer, Goes(k)
  PROVE  /\ turn[k].at \in DOMAIN Sequence(k) /\ CameTo(Current(k))
         /\ Current(k) \in Resource \cup Monitor
<1>1. turn[k].at \in DOMAIN Sequence(k)
  BY TheSequences DEF LInv, LifeTypes, Goes, Begun, Over
<1>2. turn[k].at >= turn[k].at
  BY DEF LInv, LifeTypes
<1>3. QED
  BY <1>1, <1>2, TheSequences DEF LInv, LifeTypes, CameTo, Current

LEMMA LifeStep ==
  ASSUME LInv, service' = service, LifeTypes', BegunAfterOpening', OnlyItsOwn',
         \A k \in Closer : turn'[k].at >= turn[k].at,
         \A c \in Resource :
           conn'[c] = "closing" /\ conn[c] # "closing" => CameTo(c),
         service = "pourtier" /\ stage' > 1 =>
           conn'["database"] = "open" \/ CameTo("database"),
         \A k \in Closer : \A i \in DOMAIN Sequence(k) :
           turn'[k].at > i /\ turn'[k].ok =>
             \/ turn[k].at > i /\ turn[k].ok
             \/ WillBeGone(Sequence(k)[i]),
         \A k \in Closer :
           turn'[k].waits =>
             \/ turn[k].waits /\ turn'[k].at = turn[k].at
             \/ /\ turn'[k].at \in DOMAIN Sequence(k)
                /\ Sequence(k)[turn'[k].at] \in Resource
                /\ WillBeGone(Sequence(k)[turn'[k].at]),
         \A c \in Resource \cup Monitor : CameTo(c) /\ IsGone(c) => WillBeGone(c),
         lost' \subseteq late',
         \A v \in Visit :
           /\ visit'[v].state = "refused" =>
                visit[v].state = "refused" \/ CameTo("database")
           /\ visit'[v].state = "broken" =>
                visit[v].state = "broken" \/ CameTo("query")
  PROVE  LInv'
<1>1. \A k \in Closer : Sequence(k)' = Sequence(k)
  BY DEF Sequence, Container
<1>2. \A c : CameTo(c) => CameTo(c)'
  BY CameToStays DEF LifeTypes
<1>3. ClosedHasCause'
  <2>1. \A c \in Resource : conn'[c] = "closing" => CameTo(c)'
    BY <1>2 DEF LInv, ClosedHasCause
  <2>2. QED
    BY <1>2, <2>1 DEF ClosedHasCause
<1>4. RefusedHasCause'
  BY <1>2 DEF LInv, RefusedHasCause
<1>5. Passed'
  <2> SUFFICES ASSUME NEW k \in Closer
               PROVE  /\ \A i \in DOMAIN Sequence(k) :
                           turn'[k].at > i /\ turn'[k].ok =>
                             WillBeGone(Sequence(k)[i])
                      /\ turn'[k].waits =>
                           /\ turn'[k].at \in DOMAIN Sequence(k)
                           /\ Sequence(k)[turn'[k].at] \in Resource
                           /\ WillBeGone(Sequence(k)[turn'[k].at])
    BY <1>1 DEF Passed, Current, IsGone, WillBeGone
  <2>1. ASSUME NEW i \in DOMAIN Sequence(k), turn[k].at >= i,
               IsGone(Sequence(k)[i])
        PROVE  WillBeGone(Sequence(k)[i])
    BY <2>1, TheSequences DEF LInv, LifeTypes, CameTo
  <2>2. \A i \in DOMAIN Sequence(k) : i \in Nat /\ turn[k].at \in Nat
    BY TheSequences DEF LInv, LifeTypes
  <2>3. \A i \in DOMAIN Sequence(k) :
          turn'[k].at > i /\ turn'[k].ok => WillBeGone(Sequence(k)[i])
    <3> SUFFICES ASSUME NEW i \in DOMAIN Sequence(k), turn'[k].at > i,
                        turn'[k].ok
                 PROVE  WillBeGone(Sequence(k)[i])
      OBVIOUS
    <3>1. CASE turn[k].at > i /\ turn[k].ok
      <4>1. IsGone(Sequence(k)[i]) /\ turn[k].at >= i
        BY <2>2, <3>1 DEF LInv, Passed
      <4>2. QED
        BY <2>1, <4>1
    <3>2. CASE ~(turn[k].at > i /\ turn[k].ok)
      BY <3>2
    <3>3. QED
      BY <3>1, <3>2
  <2>4. ASSUME turn'[k].waits
        PROVE  /\ turn'[k].at \in DOMAIN Sequence(k)
               /\ Sequence(k)[turn'[k].at] \in Resource
               /\ WillBeGone(Sequence(k)[turn'[k].at])
    <3>1. CASE turn[k].waits /\ turn'[k].at = turn[k].at
      <4>1. /\ turn[k].at \in DOMAIN Sequence(k)
            /\ Sequence(k)[turn[k].at] \in Resource
            /\ IsGone(Sequence(k)[turn[k].at])
        BY <3>1 DEF LInv, Passed, Current
      <4>2. turn[k].at >= turn[k].at
        BY DEF LInv, LifeTypes
      <4>3. WillBeGone(Sequence(k)[turn[k].at])
        <5>1. \A i \in DOMAIN Sequence(k) :
                turn[k].at >= i /\ IsGone(Sequence(k)[i]) =>
                  WillBeGone(Sequence(k)[i])
          BY <2>1
        <5>2. PICK i \in DOMAIN Sequence(k) : i = turn[k].at
          BY <4>1
        <5>3. WillBeGone(Sequence(k)[i])
          BY <4>1, <4>2, <5>1, <5>2
        <5>4. QED
          BY <3>1, <5>2, <5>3
      <4>4. QED
        BY <3>1, <4>1, <4>3
    <3>2. CASE ~(turn[k].waits /\ turn'[k].at = turn[k].at)
      BY <2>4, <3>2
    <3>3. QED
      BY <3>1, <3>2
  <2>5. QED
    BY <2>3, <2>4
<1>6. QED
  BY <1>3, <1>4, <1>5 DEF LInv
-----------------------------------------------------------------------------
(* A step that opens and closes nothing, and moves no sequence.            *)
LEMMA QuietStep ==
  ASSUME LInv, LifeTypes', BegunAfterOpening',
         service' = service, stage' = stage, turn' = turn, conn' = conn,
         threads' = threads, lost' = lost, late' = late,
         \A v \in Visit :
           /\ visit'[v].state = "refused" =>
                visit[v].state = "refused" \/ CameTo("database")
           /\ visit'[v].state = "broken" =>
                visit[v].state = "broken" \/ CameTo("query")
  PROVE  LInv'
<1>1. OnlyItsOwn'
  BY DEF LInv, OnlyItsOwn
<1>2. \A k \in Closer : turn'[k].at >= turn[k].at
  BY DEF LInv, LifeTypes
<1>3. service = "pourtier" /\ stage' > 1 =>
        conn'["database"] = "open" \/ CameTo("database")
  BY DEF LInv, ClosedHasCause
<1>4. \A c : IsGone(c) => WillBeGone(c)
  BY DEF IsGone, WillBeGone
<1>5. lost' \subseteq late'
  BY DEF LInv
<1>6. QED
  BY <1>1, <1>2, <1>3, <1>4, <1>5, LifeStep

LEMMA StartFailsInv == LInv /\ StartFails => LInv'
<1> SUFFICES ASSUME LInv, StartFails PROVE LInv'
  OBVIOUS
<1>1. LifeTypes'
  BY DEF LInv, LifeTypes, StartFails
<1>2. BegunAfterOpening'
  BY DEF LInv, BegunAfterOpening, Begun, StartFails
<1>3. QED
  BY <1>1, <1>2, QuietStep DEF StartFails

LEMMA StartupCompleteInv == LInv /\ StartupComplete => LInv'
<1> SUFFICES ASSUME LInv, StartupComplete PROVE LInv'
  OBVIOUS
<1>1. LifeTypes'
  BY DEF LInv, LifeTypes, StartupComplete
<1>2. stage > 3
  <2>1. \A i \in 1..3 : i \in DOMAIN Startup
    BY DEF Startup
  <2>2. stage \in Nat \ {0} /\ stage \notin DOMAIN Startup
    BY DEF LInv, LifeTypes, StartupComplete
  <2>3. QED
    BY <2>1, <2>2
<1>3. BegunAfterOpening'
  BY <1>2 DEF LInv, BegunAfterOpening, Begun, StartupComplete
<1>4. QED
  BY <1>1, <1>3, QuietStep DEF StartupComplete

LEMMA ExitInv == LInv /\ Exit => LInv'
<1> SUFFICES ASSUME LInv, Exit PROVE LInv'
  OBVIOUS
<1>1. LifeTypes'
  BY DEF LInv, LifeTypes, Exit
<1>2. BegunAfterOpening'
  BY DEF LInv, BegunAfterOpening, Begun, Exit
<1>3. QED
  BY <1>1, <1>2, QuietStep DEF Exit

LEMMA BeginVisitInv == ASSUME NEW v \in Visit, LInv, BeginVisit(v) PROVE LInv'
<1>1. LifeTypes'
  BY DEF LInv, LifeTypes, BeginVisit
<1>2. BegunAfterOpening'
  BY DEF LInv, BegunAfterOpening, Begun, BeginVisit
<1>3. service = "pourtier" /\ conn["database"] = "none" => CameTo("database")
  BY DEF LInv, LifeTypes, BegunAfterOpening, ClosedHasCause, BeginVisit, Accepts
<1>4. \A w \in Visit :
        /\ visit'[w].state = "refused" =>
             visit[w].state = "refused" \/ CameTo("database")
        /\ visit'[w].state = "broken" =>
             visit[w].state = "broken" \/ CameTo("query")
  BY <1>3 DEF LInv, LifeTypes, BeginVisit
<1>5. QED
  BY <1>1, <1>2, <1>4, QuietStep DEF BeginVisit

LEMMA CallReturnsInv ==
  ASSUME NEW v \in Visit, LInv, CallReturns(v) PROVE LInv'
<1>1. LifeTypes'
  BY DEF LInv, LifeTypes, CallReturns
<1>2. BegunAfterOpening'
  BY DEF LInv, BegunAfterOpening, Begun, CallReturns
<1>3. \A w \in Visit :
        /\ visit'[w].state = "refused" => visit[w].state = "refused"
        /\ visit'[w].state = "broken" => visit[w].state = "broken"
  BY DEF LInv, LifeTypes, CallReturns
<1>4. QED
  BY <1>1, <1>2, <1>3, QuietStep DEF CallReturns

LEMMA StartNextInv == LInv /\ StartNext => LInv'
<1> SUFFICES ASSUME LInv, StartNext PROVE LInv'
  OBVIOUS
<1> DEFINE s == Startup[stage]
<1>1. /\ stage \in Nat /\ up = "starting" /\ stage' = stage + 1
      /\ service' = service /\ turn' = turn /\ visit' = visit
      /\ lost' = lost /\ late' = late /\ up' = up
      /\ trapped' = (trapped \/ s = "handlers")
      /\ threads' = IF s \in Monitor THEN [threads EXCEPT ![s] = "starting"]
                    ELSE threads
      /\ \/ conn' = conn
         \/ /\ conn' = [conn EXCEPT ![s] = "open"]
            /\ s \in {"database", "cache"}
      /\ s = "database" => conn' = [conn EXCEPT ![s] = "open"]
  BY DEF LInv, LifeTypes, StartNext
<1>2. /\ service = "pourtier" =>
           /\ s = "handlers" => stage = 3
           /\ stage = 1 <=> s = "database"
           /\ s = "cache" => stage = 2
      /\ service = "passeur" => s \notin {"database", "cache"}
  <2>1. CASE service = "pourtier"
    <3>1. Startup = <<"database", "cache", "handlers", "metrics", "health">>
      BY <2>1 DEF Startup
    <3>2. stage \in {1, 2, 3, 4, 5}
      BY <3>1 DEF StartNext
    <3>3. QED
      BY <2>1, <3>1, <3>2
  <2>2. CASE service = "passeur"
    <3>1. Startup = <<"health", "metrics", "handlers">>
      BY <2>2 DEF Startup
    <3>2. stage \in {1, 2, 3}
      BY <3>1 DEF StartNext
    <3>3. QED
      BY <2>2, <3>1, <3>2
  <2>3. QED
    BY <2>1, <2>2 DEF LInv, LifeTypes
<1> HIDE DEF s
<1>3. LifeTypes'
  <2>1. conn' \in [Resource -> {"none", "open", "closing"}]
    BY <1>1 DEF LInv, LifeTypes
  <2>2. threads' \in [Monitor ->
                        {"none", "starting", "open", "failed", "closed"}]
    BY <1>1 DEF LInv, LifeTypes
  <2>3. stage' \in Nat \ {0}
    BY <1>1
  <2>4. service' = service /\ turn' = turn /\ visit' = visit
    BY <1>1
  <2>5. QED
    BY <2>1, <2>2, <2>3, <2>4 DEF LInv, LifeTypes
<1>4. BegunAfterOpening'
  <2>1. trapped' => trapped \/ s = "handlers"
    BY <1>1, Zenon
  <2>2. /\ service = "pourtier" /\ s = "handlers" => stage' > 3
        /\ stage > 3 => stage' > 3
    BY <1>1, <1>2
  <2>3. trapped => trapped'
    BY <1>1, Zenon
  <2>4. service' = service /\ turn' = turn /\ up' = up
    BY <1>1
  <2>5. service = "pourtier" /\ trapped' => stage' > 3
    BY <2>1, <2>2 DEF LInv, BegunAfterOpening
  <2>6. QED
    BY <2>2, <2>3, <2>4, <2>5 DEF LInv, BegunAfterOpening, Begun
<1>5. OnlyItsOwn'
  BY <1>1, <1>2 DEF LInv, LifeTypes, OnlyItsOwn, Resource
<1>6. \A c \in Resource :
        conn'[c] = "closing" /\ conn[c] # "closing" => CameTo(c)
  BY <1>1 DEF LInv, LifeTypes
<1>7. service = "pourtier" /\ stage' > 1 =>
        conn'["database"] = "open" \/ CameTo("database")
  BY <1>1, <1>2 DEF LInv, LifeTypes, ClosedHasCause, Resource
<1>8. ASSUME NEW c \in Resource \cup Monitor, CameTo(c)
      PROVE  stage > 3 /\ service = "pourtier" /\ c \notin Monitor
  <2>1. PICK k \in Closer :
          \E i \in DOMAIN Sequence(k) : Sequence(k)[i] = c /\ turn[k].at >= i
    BY <1>8 DEF CameTo
  <2>2. PICK i \in DOMAIN Sequence(k) : Sequence(k)[i] = c /\ turn[k].at >= i
    BY <2>1
  <2>3. i \in 1..Len(Sequence(k)) /\ Len(Sequence(k)) \in Nat
        /\ turn[k].at \in Nat
    BY TheSequences DEF LInv, LifeTypes
  <2>4. Begun(k)
    BY <2>2, <2>3 DEF Begun
  <2>5. k = "signal"
    BY <1>1, <2>4 DEF LInv, BegunAfterOpening, Closer
  <2>6. QED
    BY <2>2, <2>4, <2>5, TheSequences DEF LInv, LifeTypes, BegunAfterOpening
<1>9. \A c \in Resource \cup Monitor : CameTo(c) /\ IsGone(c) => WillBeGone(c)
  <2> SUFFICES ASSUME NEW c \in Resource \cup Monitor, CameTo(c), IsGone(c)
               PROVE  WillBeGone(c)
    OBVIOUS
  <2>1. s \notin {"database", "cache"} /\ c \notin Monitor
    BY <1>1, <1>2, <1>8
  <2>2. conn' = conn /\ late' = late
    BY <1>1, <2>1
  <2>3. QED
    BY <2>1, <2>2 DEF IsGone, WillBeGone, Gone
<1>10. \A k \in Closer : turn'[k].at >= turn[k].at
  BY <1>1 DEF LInv, LifeTypes
<1>11. lost' \subseteq late'
  BY <1>1 DEF LInv
<1>12. QED
  BY <1>1, <1>3, <1>4, <1>5, <1>6, <1>7, <1>9, <1>10, <1>11, LifeStep

LEMMA ThreadStartsInv ==
  ASSUME NEW m \in Monitor, LInv, ThreadStarts(m) PROVE LInv'
<1>1. /\ threads[m] = "starting"
      /\ \E s \in {"open", "failed"} :
           threads' = [threads EXCEPT ![m] = s]
      /\ service' = service /\ stage' = stage /\ up' = up
      /\ trapped' = trapped /\ conn' = conn /\ turn' = turn
      /\ visit' = visit /\ lost' = lost /\ late' = late
  BY DEF ThreadStarts
<1>2. LifeTypes'
  BY <1>1 DEF LInv, LifeTypes
<1>3. BegunAfterOpening' /\ OnlyItsOwn' /\ lost' \subseteq late'
  BY <1>1 DEF LInv, BegunAfterOpening, Begun, OnlyItsOwn
<1>4. service = "pourtier" /\ stage' > 1 =>
        conn'["database"] = "open" \/ CameTo("database")
  BY <1>1 DEF LInv, ClosedHasCause
<1>5. \A c : IsGone(c) => WillBeGone(c)
  BY <1>1, <1>2 DEF LInv, LifeTypes, IsGone, WillBeGone, Gone
<1>6. \A k \in Closer : turn'[k].at >= turn[k].at
  BY <1>1 DEF LInv, LifeTypes
<1>7. QED
  BY <1>1, <1>2, <1>3, <1>4, <1>5, <1>6, LifeStep

(* A sequence begins.                                                      *)
LEMMA BeginStep ==
  ASSUME LInv, LifeTypes', BegunAfterOpening', NEW k \in Closer,
         service' = service, stage' = stage, conn' = conn, visit' = visit,
         threads' = threads, lost' = lost, late' = late,
         turn' = [turn EXCEPT ![k].at = 1], turn[k].at \in {0, 1},
         ~turn[k].waits
  PROVE  LInv'
<1>1. OnlyItsOwn' /\ lost' \subseteq late'
  BY DEF LInv, OnlyItsOwn
<1>2. /\ turn'[k].at = 1 /\ ~turn'[k].waits
      /\ \A j \in Closer \ {k} : turn'[j] = turn[j]
  BY DEF LInv, LifeTypes
<1>3. \A j \in Closer : turn'[j].at >= turn[j].at
  BY <1>2 DEF LInv, LifeTypes
<1>4. service = "pourtier" /\ stage' > 1 =>
        conn'["database"] = "open" \/ CameTo("database")
  BY DEF LInv, ClosedHasCause
<1>5. \A c : IsGone(c) => WillBeGone(c)
  BY DEF IsGone, WillBeGone
<1>6. \A j \in Closer : \A i \in DOMAIN Sequence(j) :
        turn'[j].at > i /\ turn'[j].ok =>
          \/ turn[j].at > i /\ turn[j].ok
          \/ WillBeGone(Sequence(j)[i])
  <2> SUFFICES ASSUME NEW j \in Closer, NEW i \in DOMAIN Sequence(j),
                      turn'[j].at > i
               PROVE  turn'[j] = turn[j]
    OBVIOUS
  <2>1. i \in Nat /\ i >= 1
    BY TheSequences DEF LInv, LifeTypes
  <2>2. QED
    BY <1>2, <2>1
<1>7. \A j \in Closer :
        turn'[j].waits =>
          \/ turn[j].waits /\ turn'[j].at = turn[j].at
          \/ /\ turn'[j].at \in DOMAIN Sequence(j)
             /\ Sequence(j)[turn'[j].at] \in Resource
             /\ WillBeGone(Sequence(j)[turn'[j].at])
  BY <1>2
<1>8. QED
  BY <1>1, <1>3, <1>4, <1>5, <1>6, <1>7, LifeStep

LEMMA SignalArrivesInv == LInv /\ SignalArrives => LInv'
<1> SUFFICES ASSUME LInv, SignalArrives PROVE LInv'
  OBVIOUS
<1>1. CASE ~trapped
  <2>1. LifeTypes' /\ BegunAfterOpening'
    BY <1>1 DEF LInv, LifeTypes, BegunAfterOpening, Begun, SignalArrives
  <2>2. QED
    BY <1>1, <2>1, QuietStep DEF SignalArrives
<1>2. CASE trapped
  <2>1. /\ service = "pourtier" /\ ~Begun("signal") /\ "signal" \in Closer
        /\ turn' = [turn EXCEPT !["signal"].at = 1]
        /\ service' = service /\ stage' = stage /\ up' = up
        /\ trapped' = trapped /\ conn' = conn /\ threads' = threads
        /\ visit' = visit /\ lost' = lost /\ late' = late
    BY <1>2 DEF SignalArrives, Closer
  <2>2. LifeTypes'
    BY <2>1 DEF LInv, LifeTypes
  <2>3. BegunAfterOpening'
    BY <1>2, <2>1 DEF LInv, LifeTypes, BegunAfterOpening, Begun, Closer
  <2>4. turn["signal"].at = 0
    BY <2>1 DEF LInv, LifeTypes, Begun
  <2>5. ~turn["signal"].waits
    BY <2>1, <2>4, TheSequences DEF LInv, LifeTypes, Passed
  <2>6. QED
    BY <2>1, <2>2, <2>3, <2>4, <2>5, BeginStep
<1>3. QED
  BY <1>1, <1>2

LEMMA LifespanEndsInv == LInv /\ LifespanEnds => LInv'
<1> SUFFICES ASSUME LInv, LifespanEnds PROVE LInv'
  OBVIOUS
<1>1. /\ up = "serving" /\ up' = "leaving" /\ "lifespan" \in Closer
      /\ turn' = [turn EXCEPT !["lifespan"].at = 1]
      /\ service' = service /\ stage' = stage
      /\ trapped' = trapped /\ conn' = conn /\ threads' = threads
      /\ visit' = visit /\ lost' = lost /\ late' = late
  BY DEF LifespanEnds, Closer
<1>2. LifeTypes'
  BY <1>1 DEF LInv, LifeTypes
<1>3. BegunAfterOpening'
  BY <1>1 DEF LInv, LifeTypes, BegunAfterOpening, Begun, Closer
<1>4. turn["lifespan"].at = 0
  BY <1>1 DEF LInv, LifeTypes, BegunAfterOpening, Begun
<1>5. ~turn["lifespan"].waits
  BY <1>1, <1>4, TheSequences DEF LInv, LifeTypes, Passed
<1>6. QED
  BY <1>1, <1>2, <1>3, <1>4, <1>5, BeginStep
-----------------------------------------------------------------------------
(* A sequence takes a step: it goes on from its place, leaving what is     *)
(* there gone, or giving up; or it waits there for what is gone.           *)
LEMMA CloserStep ==
  ASSUME LInv, LifeTypes', OnlyItsOwn', NEW k \in Closer, Goes(k),
         service' = service, stage' = stage, up' = up, trapped' = trapped,
         turn'[k].at >= turn[k].at,
         \A j \in Closer \ {k} : turn'[j] = turn[j],
         turn'[k].ok => /\ turn[k].ok
                        /\ \/ turn'[k].at = turn[k].at
                           \/ /\ turn'[k].at = turn[k].at + 1
                              /\ WillBeGone(Current(k)),
         turn'[k].waits => /\ turn'[k].at = turn[k].at
                           /\ Current(k) \in Resource /\ WillBeGone(Current(k)),
         \A c \in Resource \cup Monitor : IsGone(c) => WillBeGone(c),
         \A c \in Resource : conn'[c] = conn[c] \/ c = Current(k),
         lost' \subseteq late',
         \A v \in Visit :
           /\ visit'[v].state = "refused" => visit[v].state = "refused"
           /\ visit'[v].state = "broken" =>
                visit[v].state = "broken" \/ Current(k) = "query"
  PROVE  LInv'
<1>1. /\ turn[k].at \in DOMAIN Sequence(k) /\ CameTo(Current(k))
      /\ turn[k].at \in Nat /\ turn'[k].at \in Nat
      /\ \A i \in DOMAIN Sequence(k) : i \in Nat
  BY TurnIsCome, TheSequences DEF LInv, LifeTypes
<1>2. \A j \in Closer : turn'[j].at >= turn[j].at
  BY DEF LInv, LifeTypes
<1>3. BegunAfterOpening'
  <2>1. \A j \in Closer : Begun(j)' => Begun(j)
    BY <1>1 DEF Begun, Goes
  <2>2. QED
    BY <2>1 DEF LInv, BegunAfterOpening, Closer
<1>4. service = "pourtier" /\ stage' > 1 =>
        conn'["database"] = "open" \/ CameTo("database")
  BY <1>1 DEF LInv, ClosedHasCause, Resource
<1>5. \A c \in Resource :
        conn'[c] = "closing" /\ conn[c] # "closing" => CameTo(c)
  BY <1>1
<1>6. \A j \in Closer : \A i \in DOMAIN Sequence(j) :
        turn'[j].at > i /\ turn'[j].ok =>
          \/ turn[j].at > i /\ turn[j].ok
          \/ WillBeGone(Sequence(j)[i])
  <2> SUFFICES ASSUME NEW j \in Closer, NEW i \in DOMAIN Sequence(j),
                      turn'[j].at > i, turn'[j].ok
               PROVE  \/ turn[j].at > i /\ turn[j].ok
                      \/ WillBeGone(Sequence(j)[i])
    OBVIOUS
  <2>1. CASE j = k
    <3>1. turn[k].at > i \/ (turn[k].at = i /\ turn'[k].at = turn[k].at + 1)
      BY <1>1, <2>1
    <3>2. turn[k].ok
      BY <2>1
    <3>3. CASE turn[k].at > i
      BY <2>1, <3>2, <3>3
    <3>4. CASE turn[k].at = i /\ turn'[k].at = turn[k].at + 1
      <4>1. WillBeGone(Current(k)) /\ Current(k) = Sequence(k)[i]
        BY <1>1, <2>1, <3>4 DEF Current
      <4>2. QED
        BY <2>1, <4>1
    <3>5. QED
      BY <3>1, <3>3, <3>4
  <2>2. CASE j # k
    BY <2>2
  <2>3. QED
    BY <2>1, <2>2
<1>7. \A j \in Closer :
        turn'[j].waits =>
          \/ turn[j].waits /\ turn'[j].at = turn[j].at
          \/ /\ turn'[j].at \in DOMAIN Sequence(j)
             /\ Sequence(j)[turn'[j].at] \in Resource
             /\ WillBeGone(Sequence(j)[turn'[j].at])
  BY <1>1 DEF Current
<1>8. \A v \in Visit :
        /\ visit'[v].state = "refused" =>
             visit[v].state = "refused" \/ CameTo("database")
        /\ visit'[v].state = "broken" =>
             visit[v].state = "broken" \/ CameTo("query")
  BY <1>1
<1>9. QED
  BY <1>2, <1>3, <1>4, <1>5, <1>6, <1>7, <1>8, LifeStep

LEMMA Disjoint == Resource \cap Monitor = {}
BY DEF Resource, Monitor

LEMMA StopMonitorInv ==
  ASSUME NEW k \in Closer, LInv, StopMonitor(k) PROVE LInv'
<1> DEFINE m == Current(k)
<1>1. /\ Goes(k) /\ m \in Monitor
      /\ threads' = [threads EXCEPT ![m] = IF threads[m] = "open" THEN "closed"
                                           ELSE threads[m]]
      /\ late' = late \cup IF threads[m] = "starting" THEN {m} ELSE {}
      /\ turn' = [turn EXCEPT ![k].at = turn[k].at + 1]
      /\ service' = service /\ stage' = stage /\ up' = up
      /\ trapped' = trapped /\ conn' = conn /\ visit' = visit /\ lost' = lost
  BY DEF StopMonitor
<1>2. ~turn[k].waits
  BY <1>1, Disjoint DEF LInv, Passed
<1>3. /\ turn'[k].at = turn[k].at + 1 /\ turn'[k].ok = turn[k].ok
      /\ ~turn'[k].waits /\ turn[k].at \in Nat
      /\ \A j \in Closer \ {k} : turn'[j] = turn[j]
  BY <1>1, <1>2 DEF LInv, LifeTypes
<1> HIDE DEF m
<1>4. LifeTypes'
  BY <1>1 DEF LInv, LifeTypes
<1>5. OnlyItsOwn' /\ lost' \subseteq late'
  BY <1>1 DEF LInv, OnlyItsOwn
<1>6. \A c \in Resource \cup Monitor : IsGone(c) => WillBeGone(c)
  BY <1>1 DEF LInv, LifeTypes, IsGone, WillBeGone, Gone
<1>7. WillBeGone(m)
  BY <1>1 DEF LInv, LifeTypes, WillBeGone, Gone
<1>8. turn'[k].at >= turn[k].at
  BY <1>3
<1>9. QED
  BY <1>1, <1>3, <1>4, <1>5, <1>6, <1>7, <1>8, CloserStep DEF m

LEMMA SkipInv == ASSUME NEW k \in Closer, LInv, Skip(k) PROVE LInv'
<1> DEFINE c == Current(k)
<1>1. /\ Goes(k) /\ c \notin Monitor /\ conn[c] # "open" /\ ~turn[k].waits
      /\ turn' = [turn EXCEPT ![k].at = turn[k].at + 1]
      /\ service' = service /\ stage' = stage /\ up' = up
      /\ trapped' = trapped /\ conn' = conn /\ visit' = visit
      /\ threads' = threads /\ lost' = lost /\ late' = late
  BY DEF Skip, Closes
<1>2. /\ turn'[k].at = turn[k].at + 1 /\ turn'[k].ok = turn[k].ok
      /\ ~turn'[k].waits /\ turn[k].at \in Nat
      /\ \A j \in Closer \ {k} : turn'[j] = turn[j]
  BY <1>1 DEF LInv, LifeTypes
<1> HIDE DEF c
<1>3. LifeTypes'
  BY <1>1 DEF LInv, LifeTypes
<1>4. OnlyItsOwn' /\ lost' \subseteq late'
  BY <1>1 DEF LInv, OnlyItsOwn
<1>5. \A d \in Resource \cup Monitor : IsGone(d) => WillBeGone(d)
  BY <1>1 DEF IsGone, WillBeGone
<1>6. WillBeGone(c)
  BY <1>1 DEF WillBeGone, Gone
<1>7. turn'[k].at >= turn[k].at
  BY <1>2
<1>8. QED
  BY <1>1, <1>2, <1>3, <1>4, <1>5, <1>6, <1>7, CloserStep DEF c

LEMMA CloseBeginsInv ==
  ASSUME NEW k \in Closer, LInv, CloseBegins(k) PROVE LInv'
<1> DEFINE c == Current(k)
<1>1. /\ Goes(k) /\ c \in Resource /\ c \notin Monitor
      /\ turn' = [turn EXCEPT ![k].waits = TRUE]
      /\ conn' = [conn EXCEPT ![c] = "closing"]
      /\ visit' = [v \in Visit |->
                     IF visit[v].client # c THEN visit[v]
                     ELSE [state |-> IF c = "query" THEN "broken"
                                     ELSE "session",
                           client |-> "none"]]
      /\ service' = service /\ stage' = stage /\ up' = up
      /\ trapped' = trapped /\ threads' = threads
      /\ lost' = lost /\ late' = late
  BY TurnIsCome DEF CloseBegins
<1>2. /\ turn'[k].at = turn[k].at /\ turn'[k].ok = turn[k].ok
      /\ turn[k].at \in Nat
      /\ \A j \in Closer \ {k} : turn'[j] = turn[j]
  BY <1>1 DEF LInv, LifeTypes
<1> HIDE DEF c
<1>3. LifeTypes'
  <2>1. visit' \in [Visit -> [state : {"new", "session", "calling", "refused",
                                       "broken", "done"},
                              client : {"none"} \cup Resource]]
    BY <1>1 DEF LInv, LifeTypes
  <2>2. turn' \in [Closer -> [at : Nat, waits : BOOLEAN, ok : BOOLEAN]]
    BY <1>1 DEF LInv, LifeTypes
  <2>3. QED
    BY <1>1, <2>1, <2>2 DEF LInv, LifeTypes
<1>4. OnlyItsOwn' /\ lost' \subseteq late'
  BY <1>1 DEF LInv, LifeTypes, OnlyItsOwn, Resource
<1>5. \A d \in Resource \cup Monitor : IsGone(d) => WillBeGone(d)
  BY <1>1, Disjoint DEF LInv, LifeTypes, IsGone, WillBeGone, Gone
<1>6. WillBeGone(c)
  BY <1>1 DEF LInv, LifeTypes, WillBeGone, Gone
<1>7. \A v \in Visit :
        /\ visit'[v].state = "refused" => visit[v].state = "refused"
        /\ visit'[v].state = "broken" =>
             visit[v].state = "broken" \/ c = "query"
  BY <1>1
<1>8. \A d \in Resource : conn'[d] = conn[d] \/ d = c
  BY <1>1 DEF LInv, LifeTypes
<1>9. turn'[k].at >= turn[k].at
  BY <1>2
<1>10. QED
  BY <1>1, <1>2, <1>3, <1>4, <1>5, <1>6, <1>7, <1>8, <1>9, CloserStep DEF c

LEMMA CloseEndsInv == ASSUME NEW k \in Closer, LInv, CloseEnds(k) PROVE LInv'
<1> DEFINE c == Current(k)
           a == [turn EXCEPT ![k].at = turn[k].at + 1]
<1>1. /\ Goes(k) /\ turn[k].waits
      /\ conn' = [conn EXCEPT ![c] = "none"]
      /\ lost' = lost \cup IF conn[c] = "open" THEN {c} ELSE {}
      /\ service' = service /\ stage' = stage /\ up' = up
      /\ trapped' = trapped /\ threads' = threads
      /\ visit' = visit /\ late' = late
  BY DEF CloseEnds
<1>2. c \in Resource /\ c \notin Monitor /\ IsGone(c)
  BY <1>1, Disjoint DEF LInv, Passed
<1>3. /\ turn'[k].at = turn[k].at + 1 /\ turn'[k].ok = turn[k].ok
      /\ ~turn'[k].waits /\ turn[k].at \in Nat
      /\ \A j \in Closer \ {k} : turn'[j] = turn[j]
      /\ turn' \in [Closer -> [at : Nat, waits : BOOLEAN, ok : BOOLEAN]]
  BY DEF LInv, LifeTypes, CloseEnds
<1> HIDE DEF c
<1>4. LifeTypes'
  BY <1>1, <1>3 DEF LInv, LifeTypes
<1>5. OnlyItsOwn'
  BY <1>1, <1>2 DEF LInv, LifeTypes, OnlyItsOwn, Resource
<1>6. lost' \subseteq late'
  BY <1>1, <1>2 DEF LInv, IsGone, Gone
<1>7. \A d \in Resource \cup Monitor : IsGone(d) => WillBeGone(d)
  BY <1>1, <1>2, Disjoint DEF LInv, LifeTypes, IsGone, WillBeGone, Gone
<1>8. WillBeGone(c)
  BY <1>2, <1>7
<1>9. \A d \in Resource : conn'[d] = conn[d] \/ d = c
  BY <1>1 DEF LInv, LifeTypes
<1>10. turn'[k].at >= turn[k].at
  BY <1>3
<1>11. QED
  BY <1>1, <1>3, <1>4, <1>5, <1>6, <1>7, <1>8, <1>9, <1>10, CloserStep DEF c

LEMMA CloseFailsInv ==
  ASSUME NEW k \in Closer, LInv, CloseFails(k) PROVE LInv'
<1>1. /\ Goes(k) /\ turn[k].waits
      /\ service' = service /\ stage' = stage /\ up' = up
      /\ trapped' = trapped /\ threads' = threads /\ conn' = conn
      /\ visit' = visit /\ late' = late /\ lost' = lost
  BY DEF CloseFails
<1>2. /\ turn[k].at \in Nat /\ Len(Sequence(k)) \in Nat
      /\ turn[k].at <= Len(Sequence(k))
  BY <1>1, TurnIsCome, TheSequences DEF LInv, LifeTypes
<1>3. /\ turn'[k].at \in {turn[k].at + 1, Len(Sequence(k)) + 1}
      /\ ~turn'[k].ok /\ ~turn'[k].waits
      /\ \A j \in Closer \ {k} : turn'[j] = turn[j]
      /\ turn' \in [Closer -> [at : Nat, waits : BOOLEAN, ok : BOOLEAN]]
  BY <1>2 DEF LInv, LifeTypes, CloseFails
<1>4. LifeTypes'
  BY <1>1, <1>3 DEF LInv, LifeTypes
<1>5. OnlyItsOwn' /\ lost' \subseteq late'
  BY <1>1 DEF LInv, OnlyItsOwn
<1>6. \A d \in Resource \cup Monitor : IsGone(d) => WillBeGone(d)
  BY <1>1 DEF IsGone, WillBeGone
<1>7. turn'[k].at >= turn[k].at
  BY <1>2, <1>3
<1>8. QED
  BY <1>1, <1>3, <1>4, <1>5, <1>6, <1>7, CloserStep
-----------------------------------------------------------------------------
(* A request uses a client, or ends.                                       *)
LEMMA UseClientInv ==
  ASSUME NEW v \in Visit, NEW c \in Lazy, LInv, UseClient(v, c) PROVE LInv'
<1>1. /\ service' = service /\ stage' = stage /\ up' = up
      /\ trapped' = trapped /\ threads' = threads /\ turn' = turn
      /\ lost' = lost
  BY DEF UseClient
<1>2. BegunAfterOpening'
  BY <1>1 DEF LInv, BegunAfterOpening, Begun
<1>3. CASE c = "query" /\ conn[c] = "closing"
  <2>1. /\ visit' = [visit EXCEPT ![v].state = "broken"]
        /\ conn' = conn /\ late' = late
    BY <1>3 DEF UseClient
  <2>2. LifeTypes'
    BY <1>1, <2>1 DEF LInv, LifeTypes
  <2>3. CameTo("query")
    BY <1>3 DEF LInv, ClosedHasCause, Resource
  <2>4. \A w \in Visit :
          /\ visit'[w].state = "refused" => visit[w].state = "refused"
          /\ visit'[w].state = "broken" =>
               visit[w].state = "broken" \/ CameTo("query")
    BY <2>1, <2>3 DEF LInv, LifeTypes
  <2>5. QED
    BY <1>1, <1>2, <2>1, <2>2, <2>4, QuietStep
<1>4. CASE ~(c = "query" /\ conn[c] = "closing")
  <2>1. /\ visit' = [visit EXCEPT ![v] = [state |-> "calling", client |-> c]]
        /\ conn' = [conn EXCEPT ![c] = "open"]
        /\ late' = late \cup IF CameTo(c) THEN {c} ELSE {}
    BY <1>4, Zenon DEF UseClient
  <2>2. /\ c \in Resource /\ c # "database"
        /\ service = "pourtier" => c \notin {"redis", "clients"}
        /\ service = "passeur" => c \in {"redis", "clients"}
    BY DEF Lazy, Resource
  <2>3. LifeTypes'
    BY <1>1, <2>1, <2>2 DEF LInv, LifeTypes
  <2>4. OnlyItsOwn'
    BY <1>1, <2>1, <2>2 DEF LInv, LifeTypes, OnlyItsOwn, Resource
  <2>5. \A d \in Resource :
          conn'[d] = "closing" /\ conn[d] # "closing" => CameTo(d)
    BY <2>1, <2>2 DEF LInv, LifeTypes
  <2>6. service = "pourtier" /\ stage' > 1 =>
          conn'["database"] = "open" \/ CameTo("database")
    BY <1>1, <2>1, <2>2 DEF LInv, LifeTypes, ClosedHasCause, Resource
  <2>7. late \subseteq late' /\ (CameTo(c) => c \in late')
    BY <2>1
  <2>8. ASSUME NEW d \in Resource \cup Monitor, CameTo(d), IsGone(d)
        PROVE  WillBeGone(d)
    <3>1. CASE d = c
      BY <2>7, <2>8, <3>1 DEF WillBeGone, Gone
    <3>2. CASE d # c
      <4>1. d \notin Monitor => conn'[d] = conn[d]
        BY <2>1, <2>2, <3>2 DEF LInv, LifeTypes
      <4>2. QED
        BY <1>1, <2>7, <2>8, <4>1 DEF IsGone, WillBeGone, Gone
    <3>3. QED
      BY <3>1, <3>2
  <2>9. \A k \in Closer : turn'[k].at >= turn[k].at
    BY <1>1 DEF LInv, LifeTypes
  <2>10. lost' \subseteq late'
    BY <1>1, <2>7 DEF LInv
  <2>11. \A w \in Visit :
           /\ visit'[w].state = "refused" => visit[w].state = "refused"
           /\ visit'[w].state = "broken" => visit[w].state = "broken"
    BY <2>1 DEF LInv, LifeTypes
  <2>12. QED
    BY <1>1, <1>2, <2>3, <2>4, <2>5, <2>6, <2>8, <2>9, <2>10, <2>11, LifeStep
<1>5. QED
  BY <1>3, <1>4

LEMMA EndVisitInv == ASSUME NEW v \in Visit, LInv, EndVisit(v) PROVE LInv'
<1>1. /\ visit' = [visit EXCEPT ![v].state = "done"]
      /\ service' = service /\ stage' = stage /\ up' = up
      /\ trapped' = trapped /\ threads' = threads /\ turn' = turn
      /\ conn' = conn
      /\ \E orphan \in {{}, {"database"}} :
           lost' = lost \cup orphan /\ late' = late \cup orphan
  BY DEF EndVisit
<1>2. late \subseteq late' /\ lost' \subseteq late'
  BY <1>1 DEF LInv
<1>3. LifeTypes'
  BY <1>1 DEF LInv, LifeTypes
<1>4. BegunAfterOpening' /\ OnlyItsOwn'
  BY <1>1 DEF LInv, BegunAfterOpening, Begun, OnlyItsOwn
<1>5. service = "pourtier" /\ stage' > 1 =>
        conn'["database"] = "open" \/ CameTo("database")
  BY <1>1 DEF LInv, ClosedHasCause
<1>6. \A d : IsGone(d) => WillBeGone(d)
  BY <1>1, <1>2 DEF IsGone, WillBeGone, Gone
<1>7. \A k \in Closer : turn'[k].at >= turn[k].at
  BY <1>1 DEF LInv, LifeTypes
<1>8. \A w \in Visit :
        /\ visit'[w].state = "refused" => visit[w].state = "refused"
        /\ visit'[w].state = "broken" => visit[w].state = "broken"
  BY <1>1 DEF LInv, LifeTypes
<1>9. QED
  BY <1>1, <1>2, <1>3, <1>4, <1>5, <1>6, <1>7, <1>8, LifeStep
-----------------------------------------------------------------------------
(* A sequence that closes the service's things leaves none of them open    *)
(* behind it, but for what was used, or was still starting, when its turn  *)
(* had come.                                                               *)
THEOREM LifeInvariant == LifeSpec => []LInv
<1>1. LInv /\ [LifeNext]_lifevars => LInv'
  <2> SUFFICES ASSUME LInv, [LifeNext]_lifevars PROVE LInv'
    OBVIOUS
  <2>1. CASE StartNext \/ StartFails \/ StartupComplete
    BY <2>1, StartNextInv, StartFailsInv, StartupCompleteInv
  <2>2. CASE SignalArrives \/ LifespanEnds \/ Exit
    BY <2>2, SignalArrivesInv, LifespanEndsInv, ExitInv
  <2>3. ASSUME NEW m \in Monitor, ThreadStarts(m) PROVE LInv'
    BY <2>3, ThreadStartsInv
  <2>4. ASSUME NEW k \in Closer, StopMonitor(k) \/ Skip(k) PROVE LInv'
    BY <2>4, StopMonitorInv, SkipInv
  <2>5. ASSUME NEW k \in Closer, CloseBegins(k) \/ CloseEnds(k) \/ CloseFails(k)
        PROVE  LInv'
    BY <2>5, CloseBeginsInv, CloseEndsInv, CloseFailsInv
  <2>6. ASSUME NEW v \in Visit, BeginVisit(v) \/ CallReturns(v) \/ EndVisit(v)
        PROVE  LInv'
    BY <2>6, BeginVisitInv, CallReturnsInv, EndVisitInv
  <2>7. ASSUME NEW v \in Visit, NEW c \in Lazy, UseClient(v, c) PROVE LInv'
    BY <2>7, UseClientInv
  <2>8. CASE UNCHANGED lifevars
    <3>1. LifeTypes' /\ BegunAfterOpening'
      BY <2>8 DEF lifevars, LInv, LifeTypes, BegunAfterOpening, Begun
    <3>2. QED
      BY <2>8, <3>1, QuietStep DEF lifevars
  <2>9. QED
    BY <2>1, <2>2, <2>3, <2>4, <2>5, <2>6, <2>7, <2>8 DEF LifeNext
<1>2. QED
  BY <1>1, LifeInitInv, PTL DEF LifeSpec

LEMMA LeftOpenCounted == LInv => LeftOpenHasCause
<1> SUFFICES ASSUME LInv, NEW k \in Closer, Begun(k), Over(k), turn[k].ok,
                    NEW c \in (Resource \cup Monitor) \ {"courier", "clients"},
                    IF c \in Monitor THEN k = "lifespan" /\ threads[c] = "open"
                    ELSE conn[c] = "open" \/ c \in lost
             PROVE  c \in late
  BY DEF LeftOpenHasCause
<1>1. CASE c \in lost
  BY <1>1 DEF LInv
<1>2. CASE c \notin lost
  <2>1. ~IsGone(c) \/ c \in late
    BY <1>2 DEF IsGone, Gone
  <2>2. \E i \in DOMAIN Sequence(k) : Sequence(k)[i] = c
    <3>1. CASE c \in Monitor
      BY <3>1, TheSequences DEF LInv, LifeTypes
    <3>2. CASE c \notin Monitor /\ service = "pourtier"
      <4>1. c \in {"database", "cache", "bridge", "verifier", "query"}
        BY <1>2, <3>2 DEF LInv, OnlyItsOwn, Resource
      <4>2. QED
        BY <3>2, <4>1, TheSequences DEF LInv, LifeTypes
    <3>3. CASE c \notin Monitor /\ service = "passeur"
      <4>1. c = "redis"
        BY <1>2, <3>3 DEF LInv, OnlyItsOwn
      <4>2. k = "lifespan"
        BY <3>3 DEF LInv, BegunAfterOpening, Closer
      <4>3. QED
        BY <3>3, <4>1, <4>2, TheSequences
    <3>4. QED
      BY <3>1, <3>2, <3>3 DEF LInv, LifeTypes
  <2>3. PICK i \in DOMAIN Sequence(k) : Sequence(k)[i] = c
    BY <2>2
  <2>4. turn[k].at > i
    BY TheSequences DEF Over, LInv, LifeTypes
  <2>5. QED
    BY <2>1, <2>3, <2>4 DEF LInv, Passed
<1>3. QED
  BY <1>1, <1>2

(* When a shutdown sequence is over, nothing it is to close is open or     *)
(* forgotten, unless a request used it, or a thread started it, after the  *)
(* sequence had come to it.                                                *)
THEOREM LeftOpenAlwaysHasCause == LifeSpec => [](LeftOpenHasCause)
BY LifeInvariant, LeftOpenCounted, PTL

(* A request is refused for want of a database, or broken off for want of  *)
(* a client, only when a shutdown has come to it.                          *)
THEOREM RefusedAlwaysHasCause == LifeSpec => [](RefusedHasCause)
<1>1. LInv => RefusedHasCause
  BY DEF LInv
<1>2. QED
  BY <1>1, LifeInvariant, PTL
=============================================================================
