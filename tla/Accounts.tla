------------------------------ MODULE Accounts ------------------------------
(***************************************************************************)
(* Pourtier's account of one wallet: the user, the legal documents it has  *)
(* accepted and its subscriptions, as the HTTP requests that read and      *)
(* write them see the database.                                            *)
(*                                                                         *)
(* Every request has one session: a PostgreSQL transaction at READ         *)
(* COMMITTED, committed when the route returned and rolled back when it    *)
(* raised (database.py).  Each query is a step and sees what was committed *)
(* by then and what its own transaction wrote; the commit is a step too.   *)
(* Nothing but the unique index on users.wallet_address and the lock on an *)
(* updated row keeps two transactions apart.                               *)
(*                                                                         *)
(* Users and subscriptions are named by the request that inserts them, an  *)
(* acceptance by its request and its place in the request's list.          *)
(***************************************************************************)
EXTENDS Integers, Sequences, FiniteSets

CONSTANTS
  Requests,  \* how many requests are sent for the wallet
  Doc,       \* legal documents
  Lists      \* the lists of documents that a request may accept

ASSUME AccountsAssumption ==
  /\ Requests \in Nat
  /\ Lists \subseteq Seq(Doc)

Request == 1..Requests
NoRow == 0

Kind == {"register", "create", "accept", "check", "subscribe", "update"}
Place == {"unsent", "user", "docs", "insert", "look", "write", "row", "flush",
          "escrow", "commit", "done", "failed"}

VARIABLES
  old,     \* whether the user was there before all the requests
  active,  \* the documents whose status is active
  req,     \* the requests:
           \*   kind     what it asks for
           \*   pc       its next query
           \*   list     accepted_document_ids, document_ids
           \*   at       the place in the list that it has come to
           \*   wrote    the places for which it inserted an acceptance
           \*   pending  the documents that it takes to be pending
           \*   row      the subscription that an update changes
           \*   began    history: the requests committed when it was sent
           \*   steady   history: the documents active all the time it ran
  ended    \* subscriptions whose status is cancelled or expired

vars == <<old, active, req, ended>>

Record ==
  [kind : Kind, pc : Place, list : Lists \cup {<< >>}, at : Nat,
   wrote : SUBSET Nat, pending : SUBSET Doc, row : Request \cup {NoRow},
   began : SUBSET Request, steady : SUBSET Doc]

Empty(k, p) ==
  [kind |-> k, pc |-> p, list |-> << >>, at |-> 1, wrote |-> {},
   pending |-> {}, row |-> NoRow, began |-> {}, steady |-> {}]

Committed == {r \in Request : req[r].pc = "done"}
Running   == {r \in Request : req[r].pc \notin {"unsent", "done", "failed"}}
Creates(r) == req[r].kind \in {"register", "create"}

(* users: the row of the wallet.                                           *)
Creators   == {r \in Committed : Creates(r)}
UserExists == old \/ Creators # {}

Subscriptions == {r \in Committed : req[r].kind = "subscribe"}

(* user_legal_acceptances: the rows of a set of requests, and what they    *)
(* accept.                                                                 *)
Rows(R) == UNION {{r} \X req[r].wrote : r \in R}
DocOf(x) == req[x[1]].list[x[2]]
AcceptedBy(R) == {DocOf(x) : x \in Rows(R)}

At(r, p, k) == req[r].pc = p /\ req[r].kind \in k

Goto(r, p) ==
  /\ req' = [req EXCEPT ![r].pc = p]
  /\ UNCHANGED <<old, active, ended>>

(* The route raises: rollback.                                             *)
Abort(r) ==
  /\ req' = [req EXCEPT ![r] = Empty(@.kind, "failed")]
  /\ UNCHANGED <<old, active, ended>>
-----------------------------------------------------------------------------
Init ==
  /\ old \in BOOLEAN
  /\ active \in SUBSET Doc
  /\ req = [r \in Request |-> Empty("check", "unsent")]
  /\ ended = {}

(* The requests are numbered as they are sent; history is kept for those   *)
(* that a property asks about.                                             *)
Send(k, l) ==
  \E r \in Request :
    /\ req[r].pc = "unsent"
    /\ \A q \in 1..(r - 1) : req[q].pc # "unsent"
    /\ k \notin {"register", "accept"} => l = << >>
    /\ req' = [req EXCEPT ![r] = [Empty(k, "user") EXCEPT
                 !.list = l,
                 !.began = IF k \in {"update", "create"} THEN {} ELSE Committed,
                 !.steady = IF k \in {"register", "check"} THEN active ELSE {}]]
    /\ UNCHANGED <<old, active, ended>>

(* get_by_wallet, get_by_id: a new account needs the wallet to be unknown, *)
(* everything else the user to exist.                                      *)
AfterUser(r) ==
  CASE req[r].kind \in {"register", "check"} -> "docs"
    [] req[r].kind = "create" -> "insert"
    [] req[r].kind = "accept" -> IF req[r].list = << >> THEN "commit" ELSE "look"
    [] req[r].kind \in {"subscribe", "update"} -> "row"

FindUser(r) ==
  /\ At(r, "user", Kind)
  /\ IF Creates(r) = UserExists THEN Abort(r) ELSE Goto(r, AfterUser(r))

(* missing_docs is empty.                                                  *)
(* Mutated: the difference is taken the other way round.                   *)
AcceptsActiveOnly(r) == {req[r].list[i] : i \in DOMAIN req[r].list} \subseteq active

AcceptsActive(r) == active \subseteq {req[r].list[i] : i \in DOMAIN req[r].list}

(* get_all_active, for a new account and for a check.                      *)
CompareDocs(r) ==
  /\ At(r, "docs", {"register"})
  /\ IF active # {} /\ AcceptsActive(r) THEN Goto(r, "insert") ELSE Abort(r)

ReadDocs(r) ==
  /\ At(r, "docs", {"check"})
  /\ req' = [req EXCEPT ![r].pc = "look", ![r].pending = active]
  /\ UNCHANGED <<old, active, ended>>

(* get_all_by_user and pending_documents; there is nothing to commit.      *)
(* Mutated: a user that has accepted anything has accepted all.            *)
AcceptedAnything == IF AcceptedBy(Committed) = {} THEN {} ELSE Doc

AcceptedSoFar == AcceptedBy(Committed)

ReadAcceptances(r) ==
  /\ At(r, "look", {"check"})
  /\ req' = [req EXCEPT ![r].pc = "done", ![r].pending = @ \ AcceptedSoFar]
  /\ UNCHANGED <<old, active, ended>>

(* Whose row in users is not committed.                                    *)
HoldsWallet(q) == Creates(q) /\ req[q].pc \in {"write", "commit"}

(* PostgreSQL: r waits for q to commit or roll back, at the unique index   *)
(* or at a row that q has updated.                                         *)
Blocks(q, r) ==
  \/ At(r, "insert", {"register", "create"}) /\ HoldsWallet(q)
  \/ /\ At(r, "flush", {"update"})
     /\ At(q, "commit", {"update"})
     /\ req[q].row = req[r].row

Waits(r) == \E q \in Request : Blocks(q, r)

(* UserRepository.create: raises if the wallet is there.                   *)
(* Mutated: the index is not unique.                                       *)
InsertUserAgain(r) ==
  /\ At(r, "insert", {"register", "create"})
  /\ ~Waits(r)
  /\ Goto(r, IF req[r].list = << >> THEN "commit" ELSE "write")

InsertUser(r) ==
  /\ At(r, "insert", {"register", "create"})
  /\ ~Waits(r)
  /\ IF UserExists THEN Abort(r)
     ELSE Goto(r, IF req[r].list = << >> THEN "commit" ELSE "write")

(* On to the next place in the list; after the last one the route returns. *)
Onwards(r, p, wrote) ==
  /\ req' = [req EXCEPT ![r].at = @ + 1, ![r].wrote = @ \cup wrote,
                        ![r].pc = IF req[r].at = Len(req[r].list) THEN "commit" ELSE p]
  /\ UNCHANGED <<old, active, ended>>

(* What get_by_user_and_document finds in r's transaction.                 *)
(* Mutated: only what is committed.                                        *)
FoundCommitted(r) == {x \in Rows(Committed) : DocOf(x) = req[r].list[req[r].at]}

Found(r) == {x \in Rows(Committed \cup {r}) : DocOf(x) = req[r].list[req[r].at]}

(* AcceptLegalDocuments: a document that has an acceptance is skipped; two *)
(* rows are an error, MultipleResultsFound.                                *)
LookForAcceptance(r) ==
  /\ At(r, "look", {"accept"})
  /\ CASE Cardinality(Found(r)) = 0 -> Goto(r, "write")
       [] Cardinality(Found(r)) = 1 -> Onwards(r, "look", {})
       [] OTHER -> Abort(r)

(* UserLegalAcceptanceRepository.create, of either use case.               *)
InsertAcceptance(r) ==
  \/ At(r, "write", {"accept"}) /\ Onwards(r, "look", {req[r].at})
  \/ At(r, "write", {"register"}) /\ Onwards(r, "write", {req[r].at})

(* get_active_by_user: status alone counts, never expires_at.              *)
(* Mutated: it looks for a subscription that is over.                      *)
MaySubscribeUnlessOver == Subscriptions \cap ended = {}

MaySubscribe == Subscriptions \subseteq ended

LookForSubscription(r) ==
  /\ At(r, "row", {"subscribe"})
  /\ IF MaySubscribe THEN Goto(r, "escrow") ELSE Abort(r)

(* check_escrow_exists, get_escrow_balance: they may also refuse.          *)
QueryEscrow(r) ==
  /\ At(r, "escrow", {"subscribe"})
  /\ Goto(r, "insert") \/ Abort(r)

InsertSubscription(r) ==
  /\ At(r, "insert", {"subscribe"})
  /\ Goto(r, "commit")

(* get_by_id of a subscription of the user.                                *)
Changeable == Subscriptions

(* It is loaded, and cancel() or expire() called.                          *)
LoadSubscription(r) ==
  /\ At(r, "row", {"update"})
  /\ \/ \E q \in Changeable :
          /\ req' = [req EXCEPT ![r].pc = "flush", ![r].row = q]
          /\ UNCHANGED <<old, active, ended>>
     \/ Changeable = {} /\ Abort(r)

(* SubscriptionRepository.update.                                          *)
FlushUpdate(r) ==
  /\ At(r, "flush", {"update"})
  /\ ~Waits(r)
  /\ Goto(r, "commit")

Commit(r) ==
  /\ At(r, "commit", Kind)
  /\ req' = [req EXCEPT ![r].pc = "done"]
  /\ ended' = IF req[r].kind = "update" THEN ended \cup {req[r].row} ELSE ended
  /\ UNCHANGED <<old, active>>

(* A query or the commit fails, or the server stops.                       *)
Fail(r) == r \in Running /\ Abort(r)

(* Documents are published or withdrawn.                                   *)
Publish(docs) ==
  /\ docs # active
  /\ active' = docs
  /\ req' = [r \in Request |->
               IF r \in Running THEN [req[r] EXCEPT !.steady = @ \cap docs]
                                ELSE req[r]]
  /\ UNCHANGED <<old, ended>>

Query(r) ==
  \/ FindUser(r)
  \/ CompareDocs(r)
  \/ ReadDocs(r)
  \/ ReadAcceptances(r)
  \/ InsertUser(r)
  \/ LookForAcceptance(r)
  \/ InsertAcceptance(r)
  \/ LookForSubscription(r)
  \/ QueryEscrow(r)
  \/ InsertSubscription(r)
  \/ LoadSubscription(r)
  \/ FlushUpdate(r)
  \/ Commit(r)

Next ==
  \/ \E k \in Kind, l \in Lists : Send(k, l)
  \/ \E r \in Request : Query(r) \/ Fail(r)
  \/ \E docs \in SUBSET Doc : Publish(docs)

Spec == Init /\ [][Next]_vars
-----------------------------------------------------------------------------
TypeOK ==
  /\ old \in BOOLEAN
  /\ active \subseteq Doc
  /\ ended \subseteq Subscriptions
  /\ req \in [Request -> Record]
  /\ \A r \in Request : req[r].wrote \subseteq DOMAIN req[r].list

(* Neither was committed when the other was sent.                          *)
Overlapped(r, q) == r \notin req[q].began /\ q \notin req[r].began

(* "Please cancel the current subscription before creating a new one"      *)
(* (create_subscription.py): a user has two active subscriptions only if   *)
(* they were created at the same time.                                     *)
DoublesHaveCause ==
  \A r, q \in Subscriptions \ ended : r # q => Overlapped(r, q)

(* A user accepts a document once, unless two requests accepted it at the  *)
(* same time or the account was created with a list that names it twice.   *)
DuplicatesHaveCause ==
  \A x, y \in Rows(Committed) :
    x # y /\ DocOf(x) = DocOf(y) =>
      IF x[1] = y[1] THEN req[x[1]].kind = "register" ELSE Overlapped(x[1], y[1])

(* A wallet has one account, however many requests create it; and one that *)
(* was created with documents has accepted all that was in force: whatever *)
(* was active from its request to its commit.                              *)
AccountWhole ==
  /\ \A r, q \in Creators : r = q /\ ~old
  /\ \A r \in Creators : req[r].kind = "register" => req[r].steady \subseteq AcceptedBy({r})

(* A user that is told to be compliant has accepted what was in force all  *)
(* the while, and nothing is asked of it that it had accepted before.      *)
ComplianceTrue ==
  \A r \in Committed :
    req[r].kind = "check" =>
      /\ req[r].steady \ req[r].pending \subseteq AcceptedBy(Committed)
      /\ req[r].pending \cap AcceptedBy(req[r].began) = {}
=============================================================================
