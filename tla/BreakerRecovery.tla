-------------------------- MODULE BreakerRecovery --------------------------
(***************************************************************************)
(* Calls with retries, through the circuit breaker, to a service that some *)
(* day recovers for good: does the circuit close again by itself?          *)
(***************************************************************************)
EXTENDS ResilientCall

VARIABLES
  recovered,  \* the service answers every request from now on
  doomed      \* callers whose request was sent before that: it may still fail

allvars == <<callvars, recovered, doomed>>

RInit == CInit /\ recovered = FALSE /\ doomed = {}

Recover ==
  /\ ~recovered
  /\ recovered' = TRUE
  /\ doomed' = running
  /\ UNCHANGED callvars

Call(c) ==
  /\ Begin(c)
  /\ UNCHANGED <<recovered, doomed>>

(* A request is answered or fails; a retry of a doomed one is no longer    *)
(* doomed.                                                                 *)
Report(c) ==
  /\ \/ AttemptSucceeds(c)
     \/ (recovered => c \in doomed) /\ \E e \in Errors : AttemptFails(c, e)
  /\ doomed' = doomed \ {c}
  /\ UNCHANGED recovered

(* Clients hang up, but not on a call that probes a half-open circuit:     *)
(* that wedges the breaker (the run breaker_ignored).                      *)
HangUp(c) ==
  /\ c \notin probes
  /\ Cancel(c)
  /\ doomed' = doomed \ {c}
  /\ UNCHANGED recovered

(* Nobody trips or resets the circuit by hand after the recovery.          *)
AdministerEarly ==
  /\ ~recovered
  /\ Administer
  /\ UNCHANGED <<recovered, doomed>>

TimePasses == Tick /\ UNCHANGED <<retrying, recovered, doomed>>

RNext ==
  \/ Recover
  \/ \E c \in Callers : Call(c) \/ Report(c) \/ HangUp(c)
  \/ AdministerEarly
  \/ TimePasses

(* Requests keep coming, so that a caller the breaker would admit calls;   *)
(* every attempt ends, because each request has a timeout; time passes.    *)
RSpec ==
  /\ RInit
  /\ [][RNext]_allvars
  /\ \A c \in Callers : WF_allvars(Call(c)) /\ WF_allvars(Report(c))
  /\ WF_allvars(TimePasses)
-----------------------------------------------------------------------------
(* Once the service has recovered the circuit closes, and stays closed:    *)
(* neither late failures nor used-up probes keep callers out for ever.     *)
Recovers == recovered ~> [](state = "CLOSED")
=============================================================================
