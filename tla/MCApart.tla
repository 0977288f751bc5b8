------------------------------ MODULE MCApart ------------------------------
(***************************************************************************)
(* Components that interact with none of the others, on small instances:   *)
(* pourtier's accounts, the courier's rate limiter, a trading strategy's   *)
(* detectors, its trades, the test orchestrator, queries of the chain, the *)
(* way of an event into the courier, and the life of a service's process.  *)
(*                                                                         *)
(* They share no variable and no property relates them, so a behaviour     *)
(* exercises one part while the others stay in one initial state: every    *)
(* state of each is reached, without their product.                        *)
(*                                                                         *)
(* An account has three requests and two documents: enough for a third     *)
(* request to see what two that overlapped left behind.  The orchestrator  *)
(* has a component with two categories, of which one has two tests, one    *)
(* with one file and one without tests; its classes override hooks of one  *)
(* scope, or no more than one tool is missing.                             *)
(***************************************************************************)
EXTENDS Accounts, RateLimiter, Signals, Trades, Laborant, Queries, EventPath,
        Lifecycle

CONSTANTS
  terms, privacy, price, pourtier, passeur, shared, client, module

VARIABLE part \* which of them

SomeLists == {<< >>, <<terms, privacy>>, <<terms, terms>>}

NoTypeLimit == [t \in MessageType |-> 0]

SomeHome == [f \in 1..3 |-> IF f = 3 THEN passeur ELSE pourtier]
SomeCategories == <<"unit", "integration", "unit">>
SomeSuites == <<<<"sync", "async">>, <<"async", "sync">>, <<"sync">>>>

SomeCallers == <<client, client, module>>

SomeCommands ==
  {cmd \in [name : {"test"}, mode : {"auto", "all", "named"},
             components : {{}, {pourtier, shared}},
             categories : {{}, {"unit"}}, matching : {1..3, {2, 3}},
             fail_fast : BOOLEAN] : cmd.mode = "named" <=> cmd.components # {}}
  \cup
  {cmd \in [name : {"lint", "format"}, mode : {"auto", "named"},
             components : {{}, {shared}, {pourtier}, {pourtier, passeur}},
             categories : {{}}, matching : {{}}, fail_fast : {FALSE}] :
     /\ cmd.mode = "named" <=> cmd.components # {}
     /\ cmd.name = "format" => cmd.components # {pourtier, passeur}}

TestAll ==
  [name |-> "test", mode |-> "all", components |-> {}, categories |-> {},
   matching |-> 1..3, fail_fast |-> FALSE]

MCInit ==
  /\ part \in {"accounts", "limiter", "signals", "trades", "laborant", "queries",
               "events", "lifecycle"}
  /\ Init /\ (part # "accounts" => ~old /\ active = {})
  /\ LimiterInit
  /\ SignalInit /\ (part # "signals" => ~update_first)
  /\ TradeInit
  /\ command \in IF part = "laborant" THEN SomeCommands ELSE {TestAll}
  /\ hooks \in IF part = "laborant" /\ command.name = "test"
              THEN UNION {SUBSET {h \in Hooks : h[2] = scope} :
                            scope \in {"class", "test"}}
              ELSE {{}}
  /\ installed \in {Tool} \cup IF command.name = "test" THEN {}
                              ELSE {Tool \ {t} : t \in Tool}
  /\ command.name = "test" => flaws = [c \in Component |-> 0]
  /\ RunnerInit
  /\ QueryInit
  /\ EventInit
  /\ LifeInit /\ (part # "lifecycle" => service = "pourtier")

(* Without a document a registration is refused and an acceptance does     *)
(* nothing.  No query reads both acceptances and subscriptions.            *)
SomeRequests ==
  LET sent == {req'[r] : r \in {q \in Request : req'[q].pc # "unsent"}}
      kinds == {q.kind : q \in sent}
  IN  /\ \A q \in sent : q.pc = "user" /\ q.kind \in {"register", "accept"}
                        => q.list # << >>
      /\ \/ kinds \cap {"accept", "check"} = {}
         \/ kinds \cap {"subscribe", "update"} = {}

(* A bar has a price; an indicator may be warming up or missing.           *)
SomeBars == bars'[Len(bars')][price] \in Values

(* The client publishes pourtier's events, the service checked ones.       *)
SomeEvents ==
  \A e \in Event : publish'[e].state # "new" =>
    publish'[e].kind \in IF CallerOf[e] \in Named
                           THEN {"valid", "foreign", "oversized"}
                           ELSE {"untyped", "unknown"}

(* One of the clients that are alike, and not the one nothing closes.      *)
SomeClients ==
  /\ conn'["courier"] = "none"
  /\ "none" \in {conn'["bridge"], conn'["verifier"]}

MCNext ==
  /\ UNCHANGED part
  /\ \/ /\ part = "accounts" /\ Next /\ SomeRequests
        /\ UNCHANGED <<limitvars, sigvars, tradevars, runvars, queryvars,
                       eventvars, lifevars>>
     \/ /\ part = "limiter" /\ LimiterNext
        /\ UNCHANGED <<vars, sigvars, tradevars, runvars, queryvars,
                       eventvars, lifevars>>
     \/ /\ part = "signals" /\ SignalNext /\ SomeBars
        /\ UNCHANGED <<vars, limitvars, tradevars, runvars, queryvars,
                       eventvars, lifevars>>
     \/ /\ part = "trades" /\ TradeNext
        /\ UNCHANGED <<vars, limitvars, sigvars, runvars, queryvars,
                       eventvars, lifevars>>
     \/ /\ part = "laborant" /\ RunnerNext
        /\ UNCHANGED <<vars, limitvars, sigvars, tradevars, queryvars,
                       eventvars, lifevars>>
     \/ /\ part = "queries" /\ QueryNext
        /\ UNCHANGED <<vars, limitvars, sigvars, tradevars, runvars,
                       eventvars, lifevars>>
     \/ /\ part = "events" /\ EventNext /\ SomeEvents
        /\ UNCHANGED <<vars, limitvars, sigvars, tradevars, runvars,
                       queryvars, lifevars>>
     \/ /\ part = "lifecycle" /\ LifeNext /\ SomeClients
        /\ UNCHANGED <<vars, limitvars, sigvars, tradevars, runvars,
                       queryvars, eventvars>>

MCSpec ==
  MCInit /\ [][MCNext]_<<part, vars, limitvars, sigvars, tradevars, runvars,
                         queryvars, eventvars, lifevars>>
=============================================================================
