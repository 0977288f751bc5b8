----------------------------- MODULE EventPath -----------------------------
(***************************************************************************)
(* The way of an event into the courier: shared/courier_client.py, which   *)
(* pourtier's publisher and the system reporter use, and the courier's     *)
(* /publish routes, which check an event and broadcast it.  What happens   *)
(* to a broadcast on its way to the subscribers is CourierHub.             *)
(*                                                                         *)
(* A caller awaits each publish before its next one.  A request whose      *)
(* caller has stopped waiting may still be handled, at any later time or   *)
(* never.  Services that are not part of the repository post on their own, *)
(* once, and name themselves in a header: the client does not, so that the *)
(* limit on publishing is for the others only.                             *)
(***************************************************************************)
EXTENDS Naturals, Sequences, FiniteSets

CONSTANTS
  Event,      \* numbers: a caller publishes its events in this order
  Caller,
  CallerOf,   \* [Event -> Caller]
  Named,      \* the callers that post on their own and name themselves
  MaxRetries  \* CourierClient.max_retries

ASSUME EventAssumption ==
  /\ Event \subseteq Nat
  /\ CallerOf \in [Event -> Caller]
  /\ Named \subseteq Caller
  /\ MaxRetries \in Nat \ {0}

VARIABLES
  publish,   \* [Event -> the call that publishes it]
  requests,  \* <<event, attempt>> sent and not yet handled
  answers,   \* <<event, status>> on their way to a caller that waits
  wire       \* the events broadcast, in order

eventvars == <<publish, requests, answers, wire>>

(* What the checks of the route find.  Pourtier's domain events have no    *)
(* type and are not checked, its system logs a type that is not known.     *)
EventKind == {"untyped", "valid", "unknown", "oversized", "invalid", "foreign"}

Attempts(e) == IF CallerOf[e] \in Named THEN 1 ELSE MaxRetries
-----------------------------------------------------------------------------
EventInit ==
  /\ publish = [e \in Event |->
                  [state |-> "new", kind |-> "untyped", attempt |-> 0,
                   (* History: read by no action, only by the properties.  *)
                   unanswered |-> 0]]  \* attempts sent and given up
  /\ requests = {}
  /\ answers = {}
  /\ wire = << >>

Returned(e) == publish[e].state \in {"true", "false"}

(* Mutated: the caller does not await the result.                          *)
CallerStarted(e) ==
  \A f \in Event : f < e /\ CallerOf[f] = CallerOf[e] => publish[f].state # "new"

CallerFree(e) ==
  \A f \in Event : f < e /\ CallerOf[f] = CallerOf[e] => Returned(f)

PublishEvent(e) ==
  /\ publish[e].state = "new"
  /\ CallerFree(e)
  /\ \E kind \in EventKind :
       /\ kind = "foreign" => CallerOf[e] \in Named
       /\ publish' = [publish EXCEPT ![e].state = "sending", ![e].kind = kind]
  /\ UNCHANGED <<requests, answers, wire>>

Post(e) ==
  /\ publish[e].state = "sending"
  /\ publish' = [publish EXCEPT ![e].state = "waiting"]
  /\ requests' = requests \cup {<<e, publish[e].attempt>>}
  /\ UNCHANGED <<answers, wire>>

(* The end of an attempt that was not accepted.                            *)
NextAttempt(p, e) ==
  IF p.attempt < Attempts(e) - 1
    THEN [p EXCEPT !.state = "sending", !.attempt = @ + 1]
    ELSE [p EXCEPT !.state = "false"]

CannotConnect(e) ==
  /\ publish[e].state = "sending"
  /\ publish' = [publish EXCEPT ![e] = NextAttempt(@, e)]
  /\ UNCHANGED <<requests, answers, wire>>

(* A timeout, or the connection breaks.                                    *)
GiveUp(e) ==
  /\ publish[e].state = "waiting"
  /\ publish' = [publish EXCEPT ![e] =
                   NextAttempt([publish[e] EXCEPT !.unanswered = @ + 1], e)]
  /\ answers' = {a \in answers : a[1] # e}
  /\ UNCHANGED <<requests, wire>>
-----------------------------------------------------------------------------
(* ValidateEventUseCase and the check of the source.                       *)
Refusal(kind) ==
  CASE kind \in {"untyped", "valid"} -> 200
    [] kind = "oversized" -> 413
    [] OTHER -> 400

(* Mutated: an event is broadcast before it is checked.                    *)
BroadcastFirst(status) == TRUE

Broadcasts(status) == status = 200

StillWaits(e, attempt) ==
  publish[e].state = "waiting" /\ publish[e].attempt = attempt

(* publish_event: the limit for a caller that names itself, the checks,    *)
(* the broadcast, the answer (to nobody, if the caller has given up).      *)
HandleRequest(r) ==
  /\ r \in requests
  /\ requests' = requests \ {r}
  /\ \E status \in {Refusal(publish[r[1]].kind)}
                   \cup IF CallerOf[r[1]] \in Named THEN {429} ELSE {} :
       /\ answers' = answers \cup IF StillWaits(r[1], r[2])
                                THEN {<<r[1], status>>} ELSE {}
       /\ wire' = IF Broadcasts(status) THEN Append(wire, r[1]) ELSE wire
  /\ UNCHANGED publish

Answered(a) ==
  /\ a \in answers
  /\ answers' = answers \ {a}
  /\ publish' = [publish EXCEPT ![a[1]] =
                   IF a[2] = 200 THEN [@ EXCEPT !.state = "true"]
                                 ELSE NextAttempt(@, a[1])]
  /\ UNCHANGED <<requests, wire>>

EventNext ==
  \/ \E e \in Event : PublishEvent(e) \/ Post(e) \/ CannotConnect(e) \/ GiveUp(e)
  \/ \E r \in requests : HandleRequest(r)
  \/ \E a \in answers : Answered(a)

EventSpec == EventInit /\ [][EventNext]_eventvars
-----------------------------------------------------------------------------
EventTypeOK ==
  /\ \A e \in Event : publish[e].attempt \in 0..(Attempts(e) - 1)
  /\ requests \subseteq Event \X Nat
  /\ answers \subseteq Event \X {200, 400, 413, 429}
  /\ wire \in Seq(Event)

Copies(e) == Cardinality({i \in DOMAIN wire : wire[i] = e})

(* What publish returns bounds what was broadcast: True at least one copy, *)
(* False none, and beyond that no more than one copy for each attempt that *)
(* was sent and given up, however late it is handled.                      *)
CopiesHaveCause ==
  \A e \in Event :
    /\ publish[e].state = "true" =>
         Copies(e) \in 1..(1 + publish[e].unanswered)
    /\ publish[e].state = "false" => Copies(e) \in 0..publish[e].unanswered

(* The events of a caller are broadcast in the order it published them,    *)
(* but for copies of an event of which an attempt was given up.            *)
OrderHasCause ==
  \A i, j \in DOMAIN wire :
    i < j /\ CallerOf[wire[i]] = CallerOf[wire[j]] /\ wire[i] > wire[j] =>
      publish[wire[j]].unanswered > 0
=============================================================================
