---------------------------- MODULE ResilientCall ----------------------------
(***************************************************************************)
(* A request to another service, the way pourtier's client of passeur and  *)
(* passeur's clients of its bridge and of the Solana RPC send it: the      *)
(* circuit breaker admits a call, and inside it shared/resilience/retry.py *)
(* makes up to MaxAttempts attempts.  What the breaker sees is not what an *)
(* attempt raised but what the retry makes of it.                          *)
(***************************************************************************)
EXTENDS CircuitBreaker

CONSTANTS
  MaxAttempts,  \* RetryConfig.max_attempts
  Errors,       \* what an attempt may raise
  RetryOn,      \* RetryConfig.retry_on
  RetryError,   \* raised when the attempts are exhausted
  Expected      \* CircuitBreakerConfig.expected_exceptions

ASSUME RetryAssumption ==
  /\ MaxAttempts \in Nat \ {0}
  /\ RetryError \notin Errors
  /\ RetryOn \subseteq Errors
  /\ Expected \subseteq Errors \cup {RetryError}

VARIABLES
  attempt,   \* [Callers -> Nat]: the caller's failed attempts so far
  (* History: read by no action, only by the properties.                   *)
  unserved,  \* calls in a row that raised while the circuit was closed
  leaked     \* requests sent by retries since the circuit opened

retrying == <<attempt, unserved, leaked>>
callvars == <<breaker, retrying>>
-----------------------------------------------------------------------------
CInit ==
  /\ Init
  /\ attempt = [c \in Callers |-> 0]
  /\ unserved = 0
  /\ leaked = 0

(* What a step that may change the circuit's state does to the history.    *)
Observe(failed) ==
  /\ unserved' = IF state = "CLOSED" /\ state' = "CLOSED"
                   THEN IF failed THEN unserved + 1 ELSE 0
                   ELSE 0
  /\ leaked' = IF state' = "OPEN" /\ state # "OPEN" THEN 0 ELSE leaked

(* call_async(retry.execute_async, ...) begins.                            *)
Begin(c) ==
  /\ Admit(c)
  /\ attempt' = [attempt EXCEPT ![c] = 0]
  /\ UNCHANGED <<unserved, leaked>>

AttemptSucceeds(c) ==
  /\ Succeed(c)
  /\ Observe(FALSE)
  /\ UNCHANGED attempt

(* The exception leaves the retry and reaches the breaker.                 *)
(* Mutated: expected_exceptions does not list RetryError.                  *)
RaiseUncounted(c, e) ==
  /\ IF e \in Expected \ {RetryError} THEN Fail(c) ELSE Ignore(c)
  /\ Observe(TRUE)
  /\ UNCHANGED attempt

Raise(c, e) ==
  /\ IF e \in Expected THEN Fail(c) ELSE Ignore(c)
  /\ Observe(TRUE)
  /\ UNCHANGED attempt

(* Mutated: one attempt too many.                                          *)
AnotherAttempt(c) == attempt[c] < MaxAttempts

AttemptsLeft(c) == attempt[c] < MaxAttempts - 1

AttemptFails(c, e) ==
  /\ c \in running
  /\ \/ /\ e \in RetryOn
        /\ AttemptsLeft(c)
        /\ attempt' = [attempt EXCEPT ![c] = @ + 1]
        /\ leaked' = IF state = "OPEN" THEN leaked + 1 ELSE leaked
        /\ UNCHANGED <<breaker, unserved>>
     \/ e \in RetryOn /\ ~AttemptsLeft(c) /\ Raise(c, RetryError)
     \/ e \notin RetryOn /\ Raise(c, e)

(* The task is cancelled, in the request or in the sleep before a retry:   *)
(* neither the retry nor the breaker catches CancelledError.               *)
Cancel(c) == Ignore(c) /\ UNCHANGED retrying

Administer == (Reset \/ Trip) /\ Observe(FALSE) /\ UNCHANGED attempt

CNext ==
  \/ \E c \in Callers :
        \/ Begin(c)
        \/ AttemptSucceeds(c)
        \/ \E e \in Errors : AttemptFails(c, e)
        \/ Cancel(c)
  \/ Administer
  \/ Tick /\ UNCHANGED retrying

CSpec == CInit /\ [][CNext]_callvars
-----------------------------------------------------------------------------
(* The breaker protects against an outage: as many calls in a row as       *)
(* failure_threshold says, all ending in an error, open the circuit -      *)
(* through whatever exceptions the retry reports them.                     *)
OutageOpens == unserved < FailureThreshold

(* An open circuit bounds the load on the failing service: only the calls  *)
(* already inside may go on, each with the attempts it has left.           *)
LoadBounded ==
  state = "OPEN" => leaked <= Cardinality(Callers) * (MaxAttempts - 1)
=============================================================================
