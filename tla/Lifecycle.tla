----------------------------- MODULE Lifecycle -----------------------------
(***************************************************************************)
(* The life of a service's process, pourtier's or passeur's: what its      *)
(* lifespan opens, what requests open on the way, what a shutdown closes.  *)
(*                                                                         *)
(* Two sequences close things.  The lifespan ends when whoever runs the    *)
(* application ends it, after its last request.  A signal starts the       *)
(* service's own sequence, because its handlers replace uvicorn's: nothing *)
(* tells uvicorn to exit, and pourtier goes on taking requests during its  *)
(* sequence and after it.  Passeur only takes a note of the signal.        *)
(*                                                                         *)
(* Everything but the two monitoring servers, which have threads, is on    *)
(* one event loop: a step is what happens between two awaits.              *)
(***************************************************************************)
EXTENDS Naturals, Sequences

CONSTANTS
  Service,  \* "pourtier", "passeur"
  Visit     \* requests

ASSUME LifecycleAssumption == Service \subseteq {"pourtier", "passeur"}

VARIABLES
  service,  \* which of them this is
  stage,    \* its next step of starting up
  up,       \* "starting", "serving", "leaving", "ended"
  told,     \* uvicorn's should_exit
  trapped,  \* whether the service's signal handlers are in place
  conn,     \* [Resource -> "none", "open", "closing"]
  threads,  \* [Monitor -> "none", "starting", "open", "failed", "closed"]
  turn,     \* [Closer -> its place in its sequence]
  visit,    \* the requests
  (* History: read by no action, only by the properties.                   *)
  lost,     \* resources open and referred to by nothing
  late      \* resources used or started when their turn had come

lifevars == <<service, stage, up, told, trapped, conn, threads, turn, visit,
              lost, late>>

Monitor == {"metrics", "health"}
Closer == {"signal", "lifespan"}

(* What the container or the lifespan keeps.  The courier client and       *)
(* passeur's clients of the bridge and the RPC are closed by nothing.      *)
Resource == {"database", "cache", "bridge", "verifier", "query", "courier",
             "redis", "clients"}

(* What requests open when they use it.                                    *)
Lazy == IF service = "pourtier" THEN {"bridge", "verifier", "query", "courier"}
                                ELSE {"redis", "clients"}

Startup == IF service = "pourtier"
             THEN <<"database", "cache", "handlers", "metrics", "health">>
             ELSE <<"health", "metrics", "handlers">>

(* DIContainer.shutdown: the contract client closes the bridge client.     *)
(* Mutated: the query service was added to the container only.             *)
ContainerWithoutQuery == <<"database", "cache", "bridge", "bridge", "verifier">>

Container ==
  <<"database", "cache", "bridge", "bridge", "verifier", "query">>

Sequence(k) ==
  CASE service = "passeur" /\ k = "signal" -> << >>
    [] service = "passeur" /\ k = "lifespan" -> <<"redis", "metrics", "health">>
    [] service = "pourtier" /\ k = "signal" -> Container
    [] service = "pourtier" /\ k = "lifespan" ->
         <<"metrics", "health">> \o Container

Begun(k) == turn[k].at > 0
Over(k) == turn[k].at > Len(Sequence(k))
Current(k) == Sequence(k)[turn[k].at]

(* Whether some sequence has come to c.                                    *)
CameTo(c) ==
  \E k \in Closer : \E i \in DOMAIN Sequence(k) :
    Sequence(k)[i] = c /\ turn[k].at >= i
-----------------------------------------------------------------------------
LifeInit ==
  /\ service \in Service
  /\ stage = 1
  /\ up = "starting"
  /\ told = FALSE
  /\ trapped = FALSE
  /\ conn = [c \in Resource |-> "none"]
  /\ threads = [m \in Monitor |-> "none"]
  /\ turn = [k \in Closer |-> [at |-> 0, waits |-> FALSE, ok |-> TRUE]]
  /\ visit = [v \in Visit |-> [state |-> "new", client |-> "none"]]
  /\ lost = {}
  /\ late = {}

(* One step of the lifespan before its yield.  Redis may be disabled.      *)
StartNext ==
  /\ up = "starting" /\ stage \in DOMAIN Startup
  /\ LET s == Startup[stage] IN
       /\ \/ conn' = IF s \in {"database", "cache"}
                       THEN [conn EXCEPT ![s] = "open"] ELSE conn
          \/ s = "cache" /\ UNCHANGED conn
       /\ trapped' = (trapped \/ s = "handlers")
       /\ threads' = IF s \in Monitor THEN [threads EXCEPT ![s] = "starting"]
                                      ELSE threads
  /\ stage' = stage + 1
  /\ UNCHANGED <<service, up, told, turn, visit, lost, late>>

(* Redis is enabled and cannot be reached: the process ends.               *)
StartFails ==
  /\ up = "starting" /\ stage \in DOMAIN Startup /\ Startup[stage] = "cache"
  /\ up' = "ended"
  /\ UNCHANGED <<service, stage, told, trapped, conn, threads, turn, visit,
                 lost, late>>

(* uvicorn serves after the yield, unless it was told to exit before: then *)
(* it does not even run the rest of the lifespan.                          *)
StartupComplete ==
  /\ up = "starting" /\ stage \notin DOMAIN Startup
  /\ up' = IF told THEN "ended" ELSE "serving"
  /\ UNCHANGED <<service, stage, told, trapped, conn, threads, turn, visit,
                 lost, late>>

(* The thread of a monitoring server binds its port, or dies of it.        *)
ThreadStarts(m) ==
  /\ up # "ended" /\ threads[m] = "starting"
  /\ \E state \in {"open", "failed"} :
       threads' = [threads EXCEPT ![m] = state]
  /\ UNCHANGED <<service, stage, up, told, trapped, conn, turn, visit, lost,
                 late>>
-----------------------------------------------------------------------------
(* SIGTERM or SIGINT.  A second signal finds the sequence begun.           *)
SignalArrives ==
  /\ up \in {"starting", "serving", "leaving"}
  /\ IF ~trapped
       THEN told' = TRUE /\ UNCHANGED turn
       ELSE /\ service = "pourtier" /\ ~Begun("signal")
            /\ turn' = [turn EXCEPT !["signal"].at = 1]
            /\ UNCHANGED told
  /\ UNCHANGED <<service, stage, up, trapped, conn, threads, visit, lost, late>>

(* Whoever runs the application ends the lifespan, as tests do.            *)
LifespanEnds ==
  /\ up = "serving"
  /\ \A v \in Visit : visit[v].state \notin {"session", "calling"}
  /\ up' = "leaving"
  /\ turn' = [turn EXCEPT !["lifespan"].at = 1]
  /\ UNCHANGED <<service, stage, told, trapped, conn, threads, visit, lost,
                 late>>

Goes(k) == up # "ended" /\ Begun(k) /\ ~Over(k)

(* shutdown of a monitoring server: nothing, if its thread has not come as *)
(* far as to have a server; the thread then goes on.                       *)
StopMonitor(k) ==
  /\ Goes(k) /\ Current(k) \in Monitor
  /\ LET m == Current(k) IN
       /\ threads' = [threads EXCEPT ![m] = IF @ = "open" THEN "closed" ELSE @]
       /\ late' = late \cup IF threads[m] = "starting" THEN {m} ELSE {}
  /\ turn' = [turn EXCEPT ![k].at = @ + 1]
  /\ UNCHANGED <<service, stage, up, told, trapped, conn, visit, lost>>

(* Whether close has something to close.  A session of aiohttp is closed   *)
(* as soon as its closing begins; engine and httpx client are not None.    *)
Closes(c) ==
  \/ conn[c] = "open"
  \/ conn[c] = "closing" /\ c \in {"database", "query"}

Skip(k) ==
  /\ Goes(k) /\ Current(k) \notin Monitor
  /\ ~turn[k].waits /\ ~Closes(Current(k))
  /\ turn' = [turn EXCEPT ![k].at = @ + 1]
  /\ UNCHANGED <<service, stage, up, told, trapped, conn, threads, visit,
                 lost, late>>

(* The calls under way break.  Those of the bridge client and the verifier *)
(* are retried, those of the query service are not.                        *)
CloseBegins(k) ==
  /\ Goes(k) /\ Current(k) \notin Monitor
  /\ ~turn[k].waits /\ Closes(Current(k))
  /\ LET c == Current(k) IN
       /\ conn' = [conn EXCEPT ![c] = "closing"]
       /\ visit' = [v \in Visit |->
                      IF visit[v].client # c THEN visit[v]
                      ELSE [state |-> IF c = "query" THEN "broken"
                                      ELSE "session",
                            client |-> "none"]]
  /\ turn' = [turn EXCEPT ![k].waits = TRUE]
  /\ UNCHANGED <<service, stage, up, told, trapped, threads, lost, late>>

(* The reference is dropped, whatever it refers to by now.                 *)
CloseEnds(k) ==
  /\ Goes(k) /\ turn[k].waits
  /\ LET c == Current(k) IN
       /\ conn' = [conn EXCEPT ![c] = "none"]
       /\ lost' = lost \cup IF conn[c] = "open" THEN {c} ELSE {}
  /\ turn' = [turn EXCEPT ![k].at = @ + 1, ![k].waits = FALSE]
  /\ UNCHANGED <<service, stage, up, told, trapped, threads, visit, late>>

(* An exception, or the timeout.  Pourtier gives up the rest of its        *)
(* sequence, passeur goes on with the next step.                           *)
CloseFails(k) ==
  /\ Goes(k) /\ turn[k].waits
  /\ turn' = [turn EXCEPT
                ![k].at = IF service = "pourtier" THEN Len(Sequence(k)) + 1
                          ELSE @ + 1,
                ![k].waits = FALSE, ![k].ok = FALSE]
  /\ UNCHANGED <<service, stage, up, told, trapped, conn, threads, visit,
                 lost, late>>

Exit ==
  /\ up = "leaving" /\ Over("lifespan")
  /\ up' = "ended"
  /\ UNCHANGED <<service, stage, told, trapped, conn, threads, turn, visit,
                 lost, late>>
-----------------------------------------------------------------------------
(* Mutated: requests are taken while the service is starting.              *)
AcceptsEarly == up \in {"starting", "serving"}

Accepts == up = "serving"

(* A request of pourtier's takes a database session first.                 *)
BeginVisit(v) ==
  /\ Accepts /\ visit[v].state = "new"
  /\ visit' = [visit EXCEPT ![v].state =
                 IF service = "pourtier" /\ conn["database"] = "none"
                   THEN "refused" ELSE "session"]
  /\ UNCHANGED <<service, stage, up, told, trapped, conn, threads, turn, lost,
                 late>>

(* _get_session and its like: there is a new client, if there is none or   *)
(* it is seen to be closed, which the query service does not look at.      *)
UseClient(v, c) ==
  /\ visit[v].state = "session" /\ up # "ended"
  /\ IF c = "query" /\ conn[c] = "closing"
       THEN /\ visit' = [visit EXCEPT ![v].state = "broken"]
            /\ UNCHANGED <<conn, late>>
       ELSE /\ visit' = [visit EXCEPT ![v] =
                           [state |-> "calling", client |-> c]]
            /\ conn' = [conn EXCEPT ![c] = "open"]
            /\ late' = late \cup IF CameTo(c) THEN {c} ELSE {}
  /\ UNCHANGED <<service, stage, up, told, trapped, threads, turn, lost>>

CallReturns(v) ==
  /\ visit[v].state = "calling" /\ up # "ended"
  /\ visit' = [visit EXCEPT ![v] = [state |-> "session", client |-> "none"]]
  /\ UNCHANGED <<service, stage, up, told, trapped, conn, threads, turn, lost,
                 late>>

(* Commit or rollback.  A connection that was taken from a pool disposed   *)
(* of meanwhile goes back to it, and nothing closes it any more.           *)
EndVisit(v) ==
  /\ visit[v].state = "session" /\ up # "ended"
  /\ visit' = [visit EXCEPT ![v].state = "done"]
  /\ LET orphan == IF service = "pourtier" /\ conn["database"] # "open"
                     THEN {"database"} ELSE {}
     IN  lost' = lost \cup orphan /\ late' = late \cup orphan
  /\ UNCHANGED <<service, stage, up, told, trapped, conn, threads, turn>>

LifeNext ==
  \/ StartNext \/ StartFails \/ StartupComplete
  \/ \E m \in Monitor : ThreadStarts(m)
  \/ SignalArrives \/ LifespanEnds \/ Exit
  \/ \E k \in Closer : \/ StopMonitor(k) \/ Skip(k)
                       \/ CloseBegins(k) \/ CloseEnds(k) \/ CloseFails(k)
  \/ \E v \in Visit : \/ BeginVisit(v) \/ CallReturns(v) \/ EndVisit(v)
                      \/ \E c \in Lazy : UseClient(v, c)

LifeSpec == LifeInit /\ [][LifeNext]_lifevars
-----------------------------------------------------------------------------
LifeTypeOK ==
  /\ stage \in 1..(Len(Startup) + 1)
  /\ up \in {"starting", "serving", "leaving", "ended"}
  /\ conn \in [Resource -> {"none", "open", "closing"}]
  /\ threads \in [Monitor -> {"none", "starting", "open", "failed", "closed"}]
  /\ \A k \in Closer : turn[k].at \in 0..(Len(Sequence(k)) + 1)
  /\ lost \cup late \subseteq Resource \cup Monitor

(* What a sequence that ended well leaves open of the things the service   *)
(* closes was used, or still starting, when its turn had come.             *)
LeftOpenHasCause ==
  \A k \in Closer : Begun(k) /\ Over(k) /\ turn[k].ok =>
    \A c \in (Resource \cup Monitor) \ {"courier", "clients"} :
      /\ (IF c \in Monitor THEN k = "lifespan" /\ threads[c] = "open"
          ELSE conn[c] = "open" \/ c \in lost)
      => c \in late

(* A request is refused for want of a database, or broken off for want of  *)
(* a client, only when a shutdown has come to it; never in starting up.    *)
RefusedHasCause ==
  \A v \in Visit :
    /\ visit[v].state = "refused" => CameTo("database")
    /\ visit[v].state = "broken" => CameTo("query")
=============================================================================
