--------------------------- MODULE CircuitBreaker ---------------------------
(***************************************************************************)
(* The circuit breaker of the shared package                               *)
(* (shared/resilience/circuit_breaker.py), used by pourtier's client of    *)
(* passeur and by passeur's clients of its bridge and of the Solana RPC.   *)
(*                                                                         *)
(* A call holds the lock to be admitted, runs the protected function       *)
(* without it, and takes it again to report the outcome, to whatever state *)
(* the other calls have brought the breaker to: admission and report are   *)
(* two actions.  A rejected call changes nothing (only statistics, which   *)
(* nothing reads) and is a stuttering step.                                *)
(*                                                                         *)
(* Times are kept as ages, because only ages are compared: a finite model  *)
(* without a bound on the clock.                                           *)
(***************************************************************************)
EXTENDS Naturals, FiniteSets

CONSTANTS
  Callers,           \* threads or tasks that use the breaker
  FailureThreshold,  \* config.failure_threshold
  SuccessThreshold,  \* config.success_threshold
  HalfOpenMaxCalls,  \* config.half_open_max_calls
  Timeout,           \* config.timeout
  Endings,           \* how the protected function may end
  None               \* last_failure_time when there is none

ASSUME BreakerAssumption ==
  /\ IsFiniteSet(Callers)
  /\ {FailureThreshold, SuccessThreshold, HalfOpenMaxCalls} \subseteq Nat \ {0}
  /\ Timeout \in Nat
  /\ Endings \subseteq {"success", "failure", "ignored"}
  /\ None \notin Nat

VARIABLES
  state,
  failure_count,
  success_count,
  half_open_calls,
  failure_age,  \* time.time() - last_failure_time, counted up to Timeout
  running,      \* callers inside the protected function
  (* History: read by no action, only by the properties.                   *)
  probes,       \* those of them admitted since the circuit half-opened
  open_age      \* time since the circuit last opened, counted up to Timeout

breaker == <<state, failure_count, success_count, half_open_calls, failure_age,
             running, probes, open_age>>
-----------------------------------------------------------------------------
Init ==
  /\ state = "CLOSED"
  /\ failure_count = 0
  /\ success_count = 0
  /\ half_open_calls = 0
  /\ failure_age = None
  /\ running = {}
  /\ probes = {}
  /\ open_age = Timeout

(* _transition_to_open.                                                    *)
ToOpen ==
  /\ state' = "OPEN"
  /\ success_count' = 0
  /\ half_open_calls' = 0
  /\ probes' = {}
  /\ open_age' = 0

(* _transition_to_closed.                                                  *)
ToClosed ==
  /\ state' = "CLOSED"
  /\ failure_count' = 0
  /\ success_count' = 0
  /\ half_open_calls' = 0
  /\ failure_age' = None
  /\ probes' = {}
  /\ UNCHANGED open_age

(* _should_attempt_reset.                                                  *)
ShouldAttemptReset == failure_age # None /\ failure_age >= Timeout

(* The half-open limit of _can_attempt.                                    *)
RoomForProbe == half_open_calls < HalfOpenMaxCalls

(* Mutated: one success too many is asked for.                             *)
MoreThanEnough == success_count + 1 > SuccessThreshold

EnoughSuccesses == success_count + 1 >= SuccessThreshold

(* The part of call under the lock: _can_attempt, which may half-open the  *)
(* circuit, and the count of the half-open calls.                          *)
Admit(c) ==
  /\ c \notin running
  /\ running' = running \cup {c}
  /\ UNCHANGED <<failure_age, open_age>>
  /\ \/ /\ state = "CLOSED"
        /\ UNCHANGED <<state, failure_count, success_count, half_open_calls,
                       probes>>
     \/ /\ state = "OPEN"
        /\ ShouldAttemptReset
        /\ state' = "HALF_OPEN"
        /\ failure_count' = 0
        /\ success_count' = 0
        /\ half_open_calls' = 1
        /\ probes' = {c}
     \/ /\ state = "HALF_OPEN"
        /\ RoomForProbe
        /\ half_open_calls' = half_open_calls + 1
        /\ probes' = probes \cup {c}
        /\ UNCHANGED <<state, failure_count, success_count>>

Returns(c) ==
  /\ c \in running
  /\ running' = running \ {c}

(* _on_success.                                                            *)
Succeed(c) ==
  /\ "success" \in Endings
  /\ Returns(c)
  /\ \/ /\ state = "CLOSED"
        /\ failure_count' = 0
        /\ UNCHANGED <<state, success_count, half_open_calls, failure_age,
                       probes, open_age>>
     \/ /\ state = "OPEN"
        /\ UNCHANGED <<state, failure_count, success_count, half_open_calls,
                       failure_age, probes, open_age>>
     \/ /\ state = "HALF_OPEN"
        /\ EnoughSuccesses
        /\ ToClosed
     \/ /\ state = "HALF_OPEN"
        /\ ~EnoughSuccesses
        /\ success_count' = success_count + 1
        /\ probes' = probes \ {c}
        /\ UNCHANGED <<state, failure_count, half_open_calls, failure_age,
                       open_age>>

(* The failure starts the timeout anew, whatever the state.                *)
(* Mutated: only the failures of a closed circuit do.                      *)
StampWhenClosed ==
  failure_age' = IF state = "CLOSED" THEN 0 ELSE failure_age

Stamp == failure_age' = 0

(* Opens on any failure when half-open, on the last one tolerated when     *)
(* closed.                                                                 *)
(* Mutated: a half-open circuit ignores failures.                          *)
OpensFromClosed == state = "CLOSED" /\ failure_count + 1 >= FailureThreshold

Opens ==
  \/ state = "HALF_OPEN"
  \/ state = "CLOSED" /\ failure_count + 1 >= FailureThreshold

(* _on_failure: the exception counts as a failure.                         *)
Fail(c) ==
  /\ "failure" \in Endings
  /\ Returns(c)
  /\ failure_count' = failure_count + 1
  /\ Stamp
  /\ \/ Opens /\ ToOpen
     \/ /\ ~Opens
        /\ UNCHANGED <<state, success_count, half_open_calls, probes, open_age>>

(* An exception that does not count, or one that "except Exception" does   *)
(* not catch (asyncio.CancelledError): no report is made.                  *)
Ignore(c) ==
  /\ "ignored" \in Endings
  /\ Returns(c)
  /\ probes' = probes \ {c}
  /\ UNCHANGED <<state, failure_count, success_count, half_open_calls,
                 failure_age, open_age>>

Reset == ToClosed /\ UNCHANGED running

Trip ==
  /\ failure_count' = FailureThreshold
  /\ failure_age' = 0
  /\ ToOpen
  /\ UNCHANGED running

Older(age) == IF age < Timeout THEN age + 1 ELSE age

Tick ==
  /\ failure_age' = IF failure_age = None THEN None ELSE Older(failure_age)
  /\ open_age' = Older(open_age)
  /\ UNCHANGED <<state, failure_count, success_count, half_open_calls, running,
                 probes>>

Next ==
  \/ \E c \in Callers : Admit(c) \/ Succeed(c) \/ Fail(c) \/ Ignore(c)
  \/ Reset
  \/ Trip
  \/ Tick

Spec == Init /\ [][Next]_breaker
-----------------------------------------------------------------------------
(* The fields have their types and the half-open calls their limit.        *)
TypeOK ==
  /\ state \in {"CLOSED", "OPEN", "HALF_OPEN"}
  /\ failure_count \in Nat
  /\ success_count \in 0..(SuccessThreshold - 1)
  /\ half_open_calls \in 0..HalfOpenMaxCalls
  /\ failure_age \in 0..Timeout \cup {None}
  /\ running \subseteq Callers
  /\ probes \subseteq IF state = "HALF_OPEN" THEN running ELSE {}
  /\ open_age \in 0..Timeout

(* Every half-open call is accounted for: it is still running or it has    *)
(* been counted as a success (as have successes of calls from before):     *)
(* needed to prove NotWedged.                                              *)
ProbesAccounted ==
  state = "HALF_OPEN" =>
    half_open_calls <= Cardinality(probes) + success_count

(* A half-open circuit that admits nobody is waiting for a probe: no       *)
(* sequence of outcomes leaves it with its calls used up and none running, *)
(* which only an administrator's reset could end.                          *)
NotWedged == state = "HALF_OPEN" => RoomForProbe \/ probes # {}

(* What the failure clock says of the opening (a report after it makes the *)
(* failure clock the younger): needed to prove OpenProtects.               *)
ClocksAgree ==
  /\ state = "OPEN" => failure_age # None /\ failure_age <= open_age
  /\ state = "HALF_OPEN" => open_age >= Timeout

(* From the moment it opens the circuit gives the service Timeout of rest: *)
(* whatever calls from before still report, none is admitted earlier       *)
(* unless an administrator resets the circuit.                             *)
OpenProtects ==
  [][running \subseteq running' /\ running' # running =>
        state = "CLOSED" \/ open_age >= Timeout]_breaker
=============================================================================
