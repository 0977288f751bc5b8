------------------------------ MODULE Queries ------------------------------
(***************************************************************************)
(* Reading the chain: the balance of an escrow or of a wallet, an escrow's *)
(* details, the status of a transaction.  A query goes from pourtier to    *)
(* passeur, from there to the Node bridge, and from there to the Solana    *)
(* RPC, and each of them translates the errors of the next.                *)
(*                                                                         *)
(* Pourtier has two ways to ask: PasseurQueryService, which asks once, and *)
(* PasseurBridgeClient, which retries inside a circuit breaker.  Passeur's *)
(* own breaker never refuses a query (ResilientCall says why).  Queries    *)
(* share nothing but the chain, so there is one at a time, and of the      *)
(* chain what it asks about, which changes while it is under way.          *)
(***************************************************************************)
EXTENDS Naturals

CONSTANTS
  Balance,          \* amounts that an account may hold
  Absent,           \* what the chain says of an account it does not have
  PasseurAttempts,  \* passeur's transaction_submission.max_attempts
  PourtierAttempts  \* pourtier's RETRY_MAX_ATTEMPTS

ASSUME QueryAssumption ==
  /\ 0 \in Balance /\ Balance \subseteq Nat
  /\ Absent \notin Balance
  /\ {PasseurAttempts, PourtierAttempts} \subseteq Nat \ {0}

VARIABLES
  chain,  \* what the chain has of the query's subject
  query   \* the query under way, or the last one

queryvars == <<chain, query>>

Commitment == {"processed", "confirmed", "finalized"}

(* GetEscrowBalance asks the query service; GetWalletBalance and the       *)
(* escrow contract client ask the bridge client; passeur's status route is *)
(* asked directly.                                                         *)
Question == {"get_escrow_balance", "get_wallet_balance", "contract_balance",
             "contract_details", "get_transaction_status"}

AsksService(q) == q.kind = "get_escrow_balance"
AsksClient(q) ==
  q.kind \in {"get_wallet_balance", "contract_balance", "contract_details"}

(* An account or a transaction.                                            *)
Subject(kind) ==
  {Absent} \cup IF kind = "get_transaction_status" THEN Commitment ELSE Balance

FirstEndpoint(kind) ==
  CASE kind \in {"get_escrow_balance", "contract_details"} -> "details"
    [] kind = "get_transaction_status" -> "status"
    [] OTHER -> "balance"

NoAnswer == [is |-> "none", value |-> Absent]
-----------------------------------------------------------------------------
NewQuery(kind, at, value) ==
  [kind |-> kind, endpoint |-> FirstEndpoint(kind), at |-> at,
   asked |-> 0,       \* attempts pourtier's client has made before
   attempts |-> 0,    \* and passeur's
   status |-> 0,      \* passeur's answer, with what the bridge has read
   body |-> Absent,
   answer |-> NoAnswer,
   (* History: read by no action, only by the properties.                  *)
   seen |-> {value},  \* what the subject was meanwhile
   fault |-> "none",  \* what the last attempt failed of
   failed |-> 0]      \* passeur's attempts that failed of a fault

QueryInit ==
  /\ chain = Absent
  /\ query = NewQuery("get_escrow_balance", "done", Absent)

(* External: the transactions of the user and of others.                   *)
ChainMoves ==
  /\ query.at # "done"
  /\ query.kind = "get_transaction_status" => chain # "finalized"
  /\ chain' \in Subject(query.kind) \ {chain}
  /\ query' = [query EXCEPT !.seen = @ \cup {chain'}]

Ask(kind) ==
  /\ query.at = "done"
  /\ chain' \in Subject(kind)
  /\ query' = NewQuery(kind, IF kind = "get_transaction_status"
                               THEN "passeur" ELSE "pourtier", chain')

Done(q, is, value) ==
  [q EXCEPT !.at = "done", !.answer = [is |-> is, value |-> value]]

(* A request leaves pourtier, unless the client's breaker refuses it.      *)
SendQuery ==
  /\ query.at = "pourtier"
  /\ \/ query' = [query EXCEPT !.at = "passeur", !.attempts = 0, !.failed = 0,
                               !.fault = "none"]
     \/ /\ AsksClient(query)
        /\ query' = Done([query EXCEPT !.fault = "refused"], "failed", Absent)
  /\ UNCHANGED chain
-----------------------------------------------------------------------------
(* What the bridge finds.  The balance of an escrow takes two reads, of    *)
(* the account and of its tokens: as one, because either fails without the *)
(* account.  Mutated: an amount of zero is taken for a missing one.        *)
FoundNonzero ==
  chain # Absent /\ (query.kind # "get_transaction_status" => chain # 0)

FoundOnChain == chain # Absent

(* Every error of the details endpoint is a 404, every error of the others *)
(* a 500; a transaction that is not found is not an error.                 *)
BridgeError == IF query.endpoint = "details" THEN 404 ELSE 500

BridgeReplies ==
  {[status |-> BridgeError, fault |-> "rpc"],
   [status |-> 0, fault |-> "unreachable"],
   [status |-> 0, fault |-> "slow"]}
  \cup
  {[status |-> IF FoundOnChain \/ query.endpoint = "status" THEN 200
               ELSE BridgeError,
    fault |-> "none"]}

(* retry_on: every error but a timeout.                                    *)
(* Mutated: what is not found is not asked for again.                      *)
RetriedUnlessMissing(r) == r.fault # "slow" /\ r.status # 404

Retried(r) == r.fault # "slow"

(* The routes: the retry's error quotes the last attempt's, and the route  *)
(* of the details looks for "not found" in it.                             *)
RouteStatus(r) ==
  IF r.status \in {200, 404} THEN r.status
  ELSE IF r.fault = "slow" THEN 504 ELSE 500

(* GetEscrowBalance with PasseurQueryService: the balance is asked for     *)
(* once the account is found to exist.                                     *)
(* Mutated: the status of the balance's response is not looked at.         *)
ServiceReceivesAny(q, status) ==
  IF q.endpoint = "balance"
    THEN Done(q, "value", IF status = 200 THEN q.body ELSE 0)
  ELSE IF status = 200
    THEN [q EXCEPT !.endpoint = "balance", !.at = "pourtier"]
  ELSE Done(q, IF status = 404 THEN "uninitialized" ELSE "failed", Absent)

ServiceReceives(q, status) ==
  CASE status = 200 /\ q.endpoint = "details" ->
         [q EXCEPT !.endpoint = "balance", !.at = "pourtier"]
    [] status = 200 /\ q.endpoint = "balance" ->
         Done(q, "value", q.body)
    [] status = 404 /\ q.endpoint = "details" ->
         Done(q, "uninitialized", Absent)
    [] OTHER -> Done(q, "failed", Absent)

(* PasseurBridgeClient: a 4xx is raised at once, anything else retried.    *)
ClientReceives(q, status) ==
  CASE status = 200 -> Done(q, "value", q.body)
    [] status # 200 /\ status # 404 /\ q.asked < PourtierAttempts - 1 ->
         [q EXCEPT !.at = "pourtier", !.asked = @ + 1]
    [] OTHER -> Done(q, "failed", Absent)

(* A finalized transaction is confirmed, one that failed too.              *)
StatusReceived(q, status) ==
  IF status = 200
    THEN Done(q, IF q.body = "finalized" THEN "confirmed"
                 ELSE "unconfirmed", q.body)
    ELSE Done(q, "failed", Absent)

Receive(q, status) ==
  IF AsksService(q) THEN ServiceReceives(q, status)
  ELSE IF AsksClient(q) THEN ClientReceives(q, status)
  ELSE StatusReceived(q, status)

(* An attempt of passeur's client, and passeur's answer after the last.    *)
Attempt ==
  /\ query.at = "passeur"
  /\ \E r \in BridgeReplies :
       LET q == [query EXCEPT
                   !.fault = r.fault,
                   !.failed = IF r.fault = "none" THEN @ ELSE @ + 1]
       IN  query' = IF /\ r.status # 200
                       /\ Retried(r)
                       /\ query.attempts < PasseurAttempts - 1
                      THEN [q EXCEPT !.attempts = @ + 1]
                      ELSE [q EXCEPT !.at = "answered",
                                     !.status = RouteStatus(r),
                                     !.body = IF r.status = 200 THEN chain
                                              ELSE Absent]
  /\ UNCHANGED chain

Arrives ==
  /\ query.at = "answered"
  /\ query' = Receive(query, query.status)
  /\ UNCHANGED chain

(* Passeur cannot be reached, or takes longer than its caller waits.       *)
Lose ==
  /\ query.at \in {"passeur", "answered"}
  /\ query' = Receive([query EXCEPT !.fault = "lost"], 0)
  /\ UNCHANGED chain

QueryNext ==
  \/ ChainMoves
  \/ \E kind \in Question : Ask(kind)
  \/ SendQuery
  \/ Attempt
  \/ Arrives
  \/ Lose

QuerySpec == QueryInit /\ [][QueryNext]_queryvars
-----------------------------------------------------------------------------
QueryTypeOK ==
  /\ query.kind \in Question
  /\ query.asked \in 0..(PourtierAttempts - 1)
  /\ query.attempts \in 0..(PasseurAttempts - 1)

(* An escrow is reported as not initialized only if it did not exist at    *)
(* some moment of the query, or if every attempt passeur may make failed,  *)
(* the last in the RPC: one failed read never hides an existing escrow,    *)
(* although the bridge answers any error with a 404.                       *)
AbsenceHasCause ==
  query.answer.is = "uninitialized" =>
    \/ Absent \in query.seen
    \/ query.failed = PasseurAttempts /\ query.fault = "rpc"

(* A value in an answer was the chain's at some moment of the query: no    *)
(* error on the way is read as an amount, or as a confirmation.            *)
AnswerWasTrue ==
  /\ query.answer.is = "value" => query.answer.value \in query.seen
  /\ query.answer.is = "confirmed" => "finalized" \in query.seen

(* A query fails only if something failed on the way to the chain in its   *)
(* last attempt, or if what it asks for was absent meanwhile.              *)
FailureHasCause ==
  query.answer.is = "failed" => query.fault # "none" \/ Absent \in query.seen

(* No error on the way is read as an answer about the chain, and nothing   *)
(* but the chain and such errors decides what the answer is.               *)
AnswersHaveCause == AbsenceHasCause /\ AnswerWasTrue /\ FailureHasCause
=============================================================================
