----------------------------- MODULE Preparation -----------------------------
(***************************************************************************)
(* How the owner of an escrow gets the transactions that he signs.  A      *)
(* prepare request goes through pourtier, or straight to passeur; passeur  *)
(* looks into its Redis store under a key made from the request, and       *)
(* either answers with the transaction it finds there or has the Node      *)
(* bridge build one and stores it.  A transaction names a recent           *)
(* blockhash: the network takes it for a minute or so, and only once.      *)
(*                                                                         *)
(* The escrow itself is the custody that the on-chain program implements   *)
(* (Escrow!ImplementsCustody): what the program may refuse beyond that, a  *)
(* deposit over its cap or after its expiry, is a deposit never sent.      *)
(***************************************************************************)
EXTENDS Integers, FiniteSets

CONSTANTS
  Callers,     \* prepare requests that may be in flight at one time
  Holder,      \* the roles: platform and trading
  MostTaken,   \* [Holder -> amount], see Custody
  Authority,   \* keys that a role may be delegated to
  Supply,      \* base units of the token that exist
  InUnits,     \* [1..Supply -> base units], see Converted
  All,         \* a withdrawal that names no amount
  None,        \* no value
  Reserved,    \* {}, what the store holds under a key that is reserved
  Life,        \* a transaction is valid at the ages 0..Life
  Uses,        \* bound: what one behaviour has of callers and of requests,
               \*   and whether the owner leaves in it
  MaxFailures  \* bound: requests that fail, or whose answer is lost

ASSUME PreparationAssumption ==
  /\ Supply \in Nat /\ Life \in Nat /\ MaxFailures \in Nat
  /\ None # Reserved

ASSUME UnitsAssumption ==
  /\ InUnits \in [1..Supply -> 0..Supply]
  /\ \A n \in 1..Supply : InUnits[n] \in {n - 1, n}

VARIABLES
  open, vault, holders, frozen, \* the escrow on the chain, see Custody
  wallet,   \* tokens in the owner's own token account
  leaving,  \* the owner has decided to empty and close the escrow
  entry,    \* [Key -> transaction, Reserved or None]: passeur's store
  call,     \* [Callers -> where the request is, what it asks, its answer]
  hand,     \* what the owner was given: <<ask, transaction>>
  landed,   \* what the network took, while it could take it again
  failures, \* how often a request failed or an answer was lost
  uses,     \* one of Uses
  raced     \* history: keys for which requests overlapped, see Overlap

chain   == <<open, vault, holders, frozen, wallet>>
service == <<entry, call, raced>>
prepvars == <<chain, leaving, service, hand, landed, failures, uses>>

Chain == INSTANCE Custody
-----------------------------------------------------------------------------
(* What the routes take, by what their keys tell apart.                    *)
AskSet(ops, roles, args) == [op : ops, role : roles, arg : args]

InitializeAsks == AskSet({"initialize"}, {None}, {None})
DelegateAsks   == AskSet({"delegate"}, Holder, Authority)
RevokeAsks     == AskSet({"revoke"}, Holder, {None})
DepositAsks    == AskSet({"deposit"}, {None}, 1..Supply)
WithdrawAsks   == AskSet({"withdraw"}, {None}, 1..Supply \cup {All})
CloseAsks      == AskSet({"close"}, {None}, {None})

Asks == InitializeAsks \cup DelegateAsks \cup RevokeAsks \cup DepositAsks
          \cup WithdrawAsks \cup CloseAsks

(* The idempotency key: the route, the account and, of a deposit or a      *)
(* withdrawal, the amount - but not whom a role is delegated to.           *)
(* Mutated: no amount in the key.                                          *)
KeyWithoutArg(a) == [a EXCEPT !.arg = None]

KeyOf(a) == IF a.op = "delegate" THEN [a EXCEPT !.arg = None] ELSE a

Key == {KeyOf(a) : a \in Asks}

Stale == Life + 1

Transaction ==
  {t \in [op : {a.op : a \in Asks}, role : Holder \cup {None},
          arg : 0..Supply \cup Authority \cup {None}, age : 0..Stale] :
     /\ t.op \in {"deposit", "withdraw"} => t.arg \in 0..Supply
     /\ t.op \in {"delegate", "revoke"} => t.role \in Holder}

ASSUME ValuesAssumption == {None, Reserved} \cap Transaction = {}

ASSUME UsesAssumption ==
  \A u \in Uses : u.callers \subseteq Callers /\ u.asks \subseteq Asks

Fresh(t) == t.age <= Life

Older(t) == [t EXCEPT !.age = IF @ = Stale THEN Stale ELSE @ + 1]

Idle == [at |-> "idle", ask |-> None, tx |-> None]

(* The requests that found nothing under k and are about to fill it.       *)
Filling(k) == {q \in Callers : call[q].at \in {"missed", "calling", "built"}
                                 /\ KeyOf(call[q].ask) = k}
-----------------------------------------------------------------------------
PrepInit ==
  /\ Chain!Init /\ wallet \in 0..Supply
  /\ leaving = FALSE
  /\ entry = [k \in Key |-> None]
  /\ call = [q \in Callers |-> Idle]
  /\ hand = {} /\ landed = {}
  /\ failures = 0
  /\ uses \in Uses
  /\ raced = {}
-----------------------------------------------------------------------------
(* Pourtier's checks of the chain before it asks passeur.  It takes no     *)
(* withdrawal without an amount, and the other requests pass it by.        *)
MayInitialize == ~open
MayDeposit    == open
MayWithdraw(amount) == open /\ vault >= amount

Checked(a) ==
  /\ a.op = "initialize" => MayInitialize
  /\ a.op = "deposit" => MayDeposit
  /\ a.op = "withdraw" /\ a.arg # All => MayWithdraw(a.arg)

Sends(q, a) ==
  /\ call[q].at = "idle"
  /\ call' = [call EXCEPT ![q] = [at |-> "sent", ask |-> a, tx |-> None]]
  /\ UNCHANGED <<chain, leaving, entry, raced, hand, landed, failures, uses>>

Ask(q, a) == ~leaving /\ Checked(a) /\ Sends(q, a)

(* The route returns.  The answer is lost when the caller, pourtier with   *)
(* its own timeout or the owner's application, no longer waits for it.     *)
Answer(q, t) ==
  /\ call' = [call EXCEPT ![q] = Idle]
  /\ \/ /\ hand' = hand \cup {<<call[q].ask, t>>}
        /\ UNCHANGED failures
     \/ /\ failures < MaxFailures /\ failures' = failures + 1
        /\ UNCHANGED hand
  /\ UNCHANGED <<chain, leaving, landed, uses>>

(* check_and_store: the read.  A reservation reads as {}, which is false:  *)
(* the request goes on as if it were the first.                            *)
(* Mutated: the result is not looked at, every request goes on.            *)
NeverAnswered(k) == FALSE

HasAnswer(k) == entry[k] \notin {None, Reserved}

Overlap(k) == raced' = IF Filling(k) = {} THEN raced ELSE raced \cup {k}

CheckStore(q) ==
  /\ call[q].at = "sent"
  /\ LET k == KeyOf(call[q].ask) IN
     \/ /\ HasAnswer(k)
        /\ Answer(q, entry[k])
        /\ UNCHANGED <<entry, raced>>
     \/ /\ ~HasAnswer(k)
        /\ call' = [call EXCEPT ![q].at = IF entry[k] = None THEN "missed"
                                                           ELSE "calling"]
        /\ Overlap(k)
        /\ UNCHANGED <<chain, leaving, entry, hand, landed, failures, uses>>

(* check_and_store: the write.                                             *)
Reserve(q) ==
  /\ call[q].at = "missed"
  /\ call' = [call EXCEPT ![q].at = "calling"]
  /\ entry' = [entry EXCEPT ![KeyOf(call[q].ask)] = Reserved]
  /\ UNCHANGED <<chain, leaving, raced, hand, landed, failures, uses>>
-----------------------------------------------------------------------------
(* The bridge.  Its queries of the chain and the latest blockhash are read *)
(* in one step: between them the transaction only gets older.              *)
Builds(q, op, arg) ==
  /\ call[q].at = "calling" /\ call[q].ask.op = op
  /\ call' = [call EXCEPT ![q].at = "built",
                        ![q].tx = [op |-> op, role |-> call[q].ask.role,
                                   arg |-> arg, age |-> 0]]
  /\ UNCHANGED <<chain, leaving, entry, raced, hand, landed, failures, uses>>

(* fetchEscrowAccount throws when there is no account.                     *)
AccountFetched == open

(* Math.floor(parseFloat(amount) * 1_000_000): where the product of floats *)
(* falls short of the whole number, a base unit is lost.                   *)
Converted(amount) == InUnits[amount]

BuildInitialize(q) == Builds(q, "initialize", None)
BuildDelegate(q)   == Builds(q, "delegate", call[q].ask.arg)
BuildRevoke(q)     == Builds(q, "revoke", None)
BuildClose(q)      == AccountFetched /\ Builds(q, "close", None)
BuildDeposit(q)    ==
  AccountFetched /\ Builds(q, "deposit", Converted(call[q].ask.arg))
BuildWithdraw(q)   ==
  /\ AccountFetched
  /\ Builds(q, "withdraw", IF call[q].ask.arg = All
                            THEN vault ELSE Converted(call[q].ask.arg))

Build(q) ==
  \/ BuildInitialize(q) \/ BuildDelegate(q) \/ BuildRevoke(q)
  \/ BuildDeposit(q) \/ BuildWithdraw(q) \/ BuildClose(q)

GivesUp(q) ==
  /\ call' = [call EXCEPT ![q] = Idle]
  /\ UNCHANGED <<chain, leaving, entry, raced, hand, landed, uses>>

(* The bridge's error is the route's: the reservation stays.               *)
BuildRefused(q) ==
  /\ call[q].at = "calling" /\ call[q].ask.op \in {"deposit", "withdraw", "close"}
  /\ ~AccountFetched
  /\ GivesUp(q)
  /\ UNCHANGED failures

(* store_result, whatever the key holds by now, and the answer.            *)
(* Mutated: the answer is given and nothing stored.                        *)
StoreNothing(q) ==
  /\ call[q].at = "built"
  /\ Answer(q, call[q].tx)
  /\ UNCHANGED <<entry, raced>>

StoreResult(q) ==
  /\ call[q].at = "built"
  /\ entry' = [entry EXCEPT ![KeyOf(call[q].ask)] = call[q].tx]
  /\ Answer(q, call[q].tx)
  /\ UNCHANGED raced

(* A connection or a timeout fails on the way, or passeur restarts.        *)
BreakOff(q) ==
  /\ call[q].at # "idle" /\ failures < MaxFailures
  /\ failures' = failures + 1
  /\ GivesUp(q)

Serve(q) ==
  CheckStore(q) \/ Reserve(q) \/ Build(q) \/ BuildRefused(q) \/ StoreResult(q)

(* Redis drops a key whose life is over: days after it was written, when   *)
(* the transaction under it has long been stale.                           *)
(* Mutated: only reservations have a life.                                 *)
OnlyReservations(k) == entry[k] = Reserved

Forgettable(k) == entry[k] # None /\ (HasAnswer(k) => ~Fresh(entry[k]))

Forget(k) ==
  /\ Forgettable(k)
  /\ entry' = [entry EXCEPT ![k] = None]
  /\ UNCHANGED <<chain, leaving, call, raced, hand, landed, failures, uses>>

(* Blockhashes go by.  The bridge's answer is stored while it is valid:    *)
(* the timeouts of the calls are shorter than the life of a blockhash.     *)
TimePasses ==
  LET Aged(H) == {<<x[1], Older(x[2])>> : x \in H}
      Valid(H) == {x \in Aged(H) : Fresh(x[2])}
  IN  /\ \A q \in Callers : call[q].at = "built" => call[q].tx.age < Life
      /\ call' = [q \in Callers |->
                   IF call[q].at = "built"
                   THEN [call[q] EXCEPT !.tx = Older(@)] ELSE call[q]]
      /\ entry' = [k \in Key |-> IF HasAnswer(k) THEN Older(entry[k])
                                                 ELSE entry[k]]
      /\ hand' = Valid(hand) /\ landed' = Valid(landed)
      /\ raced' = {k \in raced : \/ Filling(k) # {}
                                 \/ \E x \in hand' \cup landed' :
                                      KeyOf(x[1]) = k}
      /\ UNCHANGED <<chain, leaving, failures, uses>>
-----------------------------------------------------------------------------
(* The owner signs and sends what he was given, and the network takes it:  *)
(* not again, and not when its blockhash is too old.                       *)
Takes(t) == Fresh(t) /\ t \notin {x[2] : x \in landed}

Executes(t) ==
  \/ t.op = "initialize" /\ Chain!Open /\ UNCHANGED wallet
  \/ t.op = "delegate" /\ Chain!Grant(t.role) /\ UNCHANGED wallet
  \/ t.op = "revoke" /\ Chain!Revoke(t.role) /\ UNCHANGED wallet
  \/ t.op = "close" /\ Chain!Shut /\ UNCHANGED wallet
  \/ /\ t.op = "deposit" /\ ~frozen /\ t.arg <= wallet
     /\ vault' = vault + t.arg /\ wallet' = wallet - t.arg
     /\ Chain!PayIn
  \/ /\ t.op = "withdraw" /\ ~frozen
     /\ vault' = vault - t.arg /\ wallet' = wallet + t.arg
     /\ Chain!OwnerTakes

Land(x) ==
  /\ x \in hand /\ Takes(x[2])
  /\ Executes(x[2])
  /\ hand' = hand \ {x}
  /\ landed' = landed \cup {x}
  /\ leaving' = (leaving /\ open')
  /\ UNCHANGED <<service, failures, uses>>

(* What the way out takes next.                                            *)
Wanted ==
  {a \in RevokeAsks : a.role \in holders}
    \cup {a \in WithdrawAsks : a.arg = All /\ holders = {} /\ vault > 0}
    \cup {a \in CloseAsks : holders = {} /\ vault = 0}

Decide ==
  /\ uses.leaves /\ ~leaving /\ open /\ ~frozen
  /\ leaving' = TRUE
  /\ UNCHANGED <<chain, service, hand, landed, failures, uses>>

Business(x) == ~leaving /\ Land(x)

AskToLeave ==
  /\ leaving
  /\ \E q \in uses.callers, a \in Wanted \ {x[1] : x \in hand} : Sends(q, a)

SendToLeave == leaving /\ \E x \in hand : x[1] \in Wanted /\ Land(x)

(* The escrow's authorities spend and others send tokens to it; before he  *)
(* leaves the owner may also use the program without this service, which   *)
(* prepares no pause.                                                      *)
OthersGoOn ==
  /\ vault' \in 0..Supply /\ vault' + wallet <= Supply
  /\ Chain!PayIn \/ \E h \in Holder : Chain!HolderTakes(h)
  /\ UNCHANGED <<wallet, leaving, service, hand, landed, failures, uses>>

OwnerElsewhere ==
  /\ ~leaving
  /\ \/ /\ Chain!Open \/ Chain!Shut \/ Chain!Freeze \/ Chain!Thaw
           \/ \E h \in Holder : Chain!Grant(h) \/ Chain!Revoke(h)
        /\ UNCHANGED wallet
     \/ /\ vault' \in 0..Supply /\ wallet' = wallet + vault - vault'
        /\ wallet' >= 0
        /\ Chain!PayIn \/ Chain!OwnerTakes
  /\ UNCHANGED <<leaving, service, hand, landed, failures, uses>>
-----------------------------------------------------------------------------
PrepNext ==
  \/ \E q \in uses.callers, a \in uses.asks : Ask(q, a)
  \/ \E q \in Callers : Serve(q) \/ BreakOff(q)
  \/ \E k \in Key : Forget(k)
  \/ TimePasses
  \/ Decide \/ AskToLeave \/ SendToLeave
  \/ \E x \in hand : Business(x)
  \/ OthersGoOn \/ OwnerElsewhere

(* Requests are served, time passes and Redis forgets.  An owner who is    *)
(* leaving keeps asking, and if again and again he holds a transaction     *)
(* that would go through, some time he is quick enough to send it.         *)
PrepFairness ==
  /\ \A q \in Callers : WF_prepvars(Serve(q))
  /\ \A k \in Key : WF_prepvars(Forget(k))
  /\ WF_prepvars(TimePasses)
  /\ WF_prepvars(AskToLeave)
  /\ SF_prepvars(SendToLeave)

PrepSpec == PrepInit /\ [][PrepNext]_prepvars /\ PrepFairness
-----------------------------------------------------------------------------
PrepTypeOK ==
  /\ open \in BOOLEAN /\ vault \in 0..Supply /\ wallet \in 0..Supply
  /\ holders \subseteq Holder /\ frozen \in BOOLEAN /\ leaving \in BOOLEAN
  /\ entry \in [Key -> Transaction \cup {None, Reserved}]
  /\ call \in [Callers -> [at : {"idle", "sent", "missed", "calling", "built"},
                          ask : Asks \cup {None}, tx : Transaction \cup {None}]]
  /\ hand \subseteq Asks \X Transaction
  /\ landed \subseteq Asks \X Transaction
  /\ failures \in 0..MaxFailures
  /\ raced \subseteq Key

AsAsked(a, t) ==
  /\ t.op = a.op /\ t.role = a.role
  /\ a.op \in {"deposit", "withdraw"} =>
       a.arg = All \/ t.arg \in {a.arg - 1, a.arg}

(* Of the requests with one key the owner never has two transactions that  *)
(* could both go through, nor one when another has just gone through - no  *)
(* deposit, withdrawal or delegation twice - unless the requests           *)
(* overlapped; and what he has is what he asked for, up to a base unit and *)
(* whomever the role is delegated to.                                      *)
PreparedOnce ==
  \A x, y \in hand \cup landed :
    /\ AsAsked(x[1], x[2])
    /\ KeyOf(x[1]) = KeyOf(y[1]) /\ Fresh(x[2]) /\ Fresh(y[2]) =>
         x[2] = y[2] \/ KeyOf(x[1]) \in raced

(* An owner who decides to leave an escrow that is not paused gets out     *)
(* through the service - he revokes, withdraws and closes - although it    *)
(* goes on answering with transactions that can no longer be sent.         *)
LeavesThroughService == leaving ~> ~open

(* passeur/presentation/api/routes/escrow.py, prepare_initialize:          *)
(* "Creates unsigned transaction for user to sign.  Idempotent (7 days) -  *)
(* safe to retry."  What a retry is given can still be sent.               *)
SafeToRetry == \A x \in hand : Fresh(x[2])
=============================================================================
