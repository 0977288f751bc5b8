-------------------------- MODULE EscrowSubmission --------------------------
(***************************************************************************)
(* A signed escrow transaction on its way to the chain and into the books: *)
(* pourtier's handlers of POST /escrow/initialize, /deposit and /withdraw, *)
(* passeur's handler of POST /transaction/submit, the idempotency store of *)
(* each, pourtier's database and the chain.                                *)
(*                                                                         *)
(* A handler runs alone between two awaits, and any other handler may run  *)
(* at an await: one action is what happens at one await.  Pourtier retries *)
(* its post to passeur; a post it has given up on runs on at passeur.      *)
(* Both services may restart: their handlers are gone, the stores and the  *)
(* database remain.  The chain and pourtier's store are external.          *)
(***************************************************************************)
EXTENDS Naturals, FiniteSets

CONSTANTS
  Requests,    \* requests that clients make to pourtier, retries included
  Tx,          \* signed transactions
  User,        \* [Tx -> user_id]
  Op,          \* [Tx -> operation]: "initialize", "deposit" or "withdraw"
  What,        \* [Tx -> amount, or token_mint when initializing]
  MaxAttempts, \* settings.RETRY_MAX_ATTEMPTS
  None         \* nothing yet

ASSUME SubmissionAssumption ==
  /\ MaxAttempts \in Nat \ {0}
  /\ {None, "error"} \cap Tx = {} /\ None # "error"

(* What _submit_transaction_once may be doing at passeur, and the phases of *)
(* a handler of pourtier, in order.                                        *)
Posts == Requests \X (1..MaxAttempts)
PostPhase == {"none", "check", "reserve", "bridge", "store", "answered",
              "failed"}
Phase == {"idle", "lookup", "await", "insert", "remember", "commit", "done"}

(* IdempotencyKey.from_user_request, which every route leaves to the use   *)
(* case: user, operation and amount (or token), nothing of the transaction.*)
(* Mutated: the operation is left out.                                     *)
KeyWithoutOp(t) == <<User[t], What[t]>>

Key(t) == <<User[t], Op[t], What[t]>>

Keys == {Key(t) : t \in Tx}

VARIABLES
  pc,         \* [Requests -> Phase]
  tx,         \* [Requests -> Tx or None]: signed_transaction
  attempt,    \* [Requests -> 0..MaxAttempts]: posts made so far
  reply,      \* [Requests -> Tx, "error" or None]: the record returned
  inserted,   \* requests whose row is flushed and not yet committed
  rows,       \* requests whose row is committed
  remembered, \* [Keys -> Tx or None]: pourtier's idempotency store
  post,       \* [Posts -> PostPhase]
  passeur,    \* [Tx -> "none", "reserved" or "result"]: passeur's store
  chain,      \* [Tx -> "unsent", "sent" or "landed"]
  (* History: read by no action, only by the properties.                   *)
  fault,      \* something was lost, timed out, failed or restarted
  lost        \* transactions whose row was flushed and never committed by
              \* the handler that had told the store of it

handlers == <<pc, tx, attempt, reply>>
database == <<inserted, rows>>
vars == <<handlers, database, remembered, post, passeur, chain, fault,
          lost>>

Init ==
  /\ pc = [r \in Requests |-> "idle"]
  /\ tx = [r \in Requests |-> None]
  /\ attempt = [r \in Requests |-> 0]
  /\ reply = [r \in Requests |-> None]
  /\ inserted = {}
  /\ rows = {}
  /\ remembered = [k \in Keys |-> None]
  /\ post = [p \in Posts |-> "none"]
  /\ passeur = [t \in Tx |-> "none"]
  /\ chain = [t \in Tx |-> "unsent"]
  /\ fault = FALSE
  /\ lost = {}
-----------------------------------------------------------------------------
(* Pourtier's handlers.                                                    *)

Goto(r, phase) == pc' = [pc EXCEPT ![r] = phase]

Answer(r, what) ==
  /\ Goto(r, "done")
  /\ reply' = [reply EXCEPT ![r] = what]

(* The handlers in S do not commit, whatever they have told the store.     *)
LoseCommits(S) == lost' = lost \cup {tx[r] : r \in {q \in S : pc[q] = "commit"}}

(* The exception leaves the session's context, which rolls back.           *)
Fail(r) ==
  /\ Answer(r, "error")
  /\ inserted' = inserted \ {r}
  /\ LoseCommits({r})
  /\ UNCHANGED <<tx, attempt, rows, remembered, post, passeur, chain>>

Arrive(r, t) ==
  /\ pc[r] = "idle"
  /\ Goto(r, "lookup")
  /\ tx' = [tx EXCEPT ![r] = t]
  /\ UNCHANGED <<attempt, reply, database, remembered, post, passeur, chain,
                 fault, lost>>

(* The next attempt of _submit_transaction_once.                           *)
MakePost(r) ==
  /\ attempt' = [attempt EXCEPT ![r] = @ + 1]
  /\ post' = [post EXCEPT ![<<r, attempt[r] + 1>>] = "check"]
  /\ Goto(r, "await")
  /\ UNCHANGED <<tx, reply, database, remembered, passeur, chain, lost>>

(* idempotency_store.get_async: a cached record is the reply.  Otherwise   *)
(* the handler looks up user, escrow and balance, and fails or submits.    *)
Lookup(r) ==
  /\ pc[r] = "lookup"
  /\ UNCHANGED fault
  /\ \/ /\ remembered[Key(tx[r])] # None
        /\ Answer(r, remembered[Key(tx[r])])
        /\ UNCHANGED <<tx, attempt, database, remembered, post, passeur, chain,
                       lost>>
     \/ remembered[Key(tx[r])] = None /\ (Fail(r) \/ MakePost(r))

Waits(r, phases) == pc[r] = "await" /\ post[<<r, attempt[r]>>] \in phases

AttemptsLeft(r) == attempt[r] < MaxAttempts

(* Passeur answered with an error, or no answer came in time, whatever the *)
(* post is about: the next attempt, or RetryError.                         *)
AttemptFails(r) ==
  /\ Waits(r, PostPhase)
  /\ IF AttemptsLeft(r) THEN MakePost(r) ELSE Fail(r)
  /\ fault' = (fault \/ ~Waits(r, {"failed"}))

(* A committed row has the transaction's signature.                        *)
(* Mutated: a row of the same user is taken for it.                        *)
RecordedForUser(t) == \E r \in rows : User[tx[r]] = User[t]

Recorded(t) == \E r \in rows : tx[r] = t

(* Mutated: the record is remembered as soon as the signature has come,    *)
(* ahead of the row.                                                       *)
RememberThenInsert(r) ==
  /\ Waits(r, {"answered"})
  /\ UNCHANGED fault
  /\ IF Op[tx[r]] # "initialize" /\ Recorded(tx[r])
       THEN Fail(r)
       ELSE /\ Goto(r, "insert")
            /\ remembered' = [remembered EXCEPT ![Key(tx[r])] = tx[r]]
            /\ UNCHANGED <<tx, attempt, reply, database, post, passeur, chain,
                           lost>>

(* The signature has come: get_by_tx_signature; initialize_escrow does not *)
(* look.                                                                   *)
LookForDuplicate(r) ==
  /\ Waits(r, {"answered"})
  /\ UNCHANGED fault
  /\ IF Op[tx[r]] # "initialize" /\ Recorded(tx[r])
       THEN Fail(r)
       ELSE /\ Goto(r, "insert")
            /\ UNCHANGED <<tx, attempt, reply, database, remembered, post,
                           passeur, chain, lost>>

(* create, with flush: the unique index on tx_signature makes the insert   *)
(* wait for an uncommitted one and fails it after a committed one.         *)
Insert(r) ==
  /\ pc[r] = "insert"
  /\ \A q \in inserted : tx[q] # tx[r]
  /\ UNCHANGED fault
  /\ IF \E q \in rows : tx[q] = tx[r]
       THEN Fail(r)
       ELSE /\ inserted' = inserted \cup {r}
            /\ Goto(r, "remember")
            /\ UNCHANGED <<tx, attempt, reply, rows, remembered, post, passeur,
                           chain, lost>>

(* idempotency_store.set_async, before the commit.                         *)
Remember(r) ==
  /\ pc[r] = "remember"
  /\ remembered' = [remembered EXCEPT ![Key(tx[r])] = tx[r]]
  /\ Goto(r, "commit")
  /\ UNCHANGED <<tx, attempt, reply, database, post, passeur, chain, fault,
                 lost>>

(* Database.session commits when the handler has returned.  Depending on   *)
(* the version of FastAPI the response has been sent by then, so that a    *)
(* failing commit may go unnoticed.                                        *)
Commit(r) ==
  /\ pc[r] = "commit"
  /\ inserted' = inserted \ {r}
  /\ \/ rows' = rows \cup {r} /\ Answer(r, tx[r]) /\ UNCHANGED <<fault, lost>>
     \/ /\ \E what \in {"error", tx[r]} : Answer(r, what)
        /\ fault' = TRUE
        /\ LoseCommits({r})
        /\ UNCHANGED rows
  /\ UNCHANGED <<tx, attempt, remembered, post, passeur, chain>>

(* The store or the database raises at one of the awaits.                  *)
Break(r) ==
  /\ pc[r] \notin {"idle", "done"}
  /\ Fail(r)
  /\ fault' = TRUE

PourtierRestarts ==
  /\ \E r \in Requests : pc[r] \notin {"idle", "done"}
  /\ pc' = [r \in Requests |-> IF pc[r] = "idle" THEN "idle" ELSE "done"]
  /\ reply' = [r \in Requests |->
                 IF pc[r] \in {"idle", "done"} THEN reply[r] ELSE "error"]
  /\ inserted' = {}
  /\ fault' = TRUE
  /\ LoseCommits(Requests)
  /\ UNCHANGED <<tx, attempt, rows, remembered, post, passeur, chain>>
-----------------------------------------------------------------------------
(* Passeur's handlers: the post <<r, n>> carries tx[r].                    *)

Move(p, phase) ==
  /\ post' = [post EXCEPT ![p] = phase]
  /\ UNCHANGED <<handlers, database, remembered, lost>>

(* Mutated: the reservation of a post in flight is taken for a result.     *)
AnyEntry(t) == passeur[t] # "none"

HasResult(t) == passeur[t] = "result"

(* The read of check_and_store.  An entry that is a reservation, {}, is a  *)
(* duplicate without a result, and the handler goes on.                    *)
CheckStore(p) ==
  /\ post[p] = "check"
  /\ Move(p, IF HasResult(tx[p[1]]) THEN "answered"
             ELSE IF passeur[tx[p[1]]] = "reserved" THEN "bridge"
             ELSE "reserve")
  /\ UNCHANGED <<passeur, chain, fault>>

(* Its write, at another await.                                            *)
Reserve(p) ==
  /\ post[p] = "reserve"
  /\ passeur' = [passeur EXCEPT ![tx[p[1]]] = "reserved"]
  /\ Move(p, "bridge")
  /\ UNCHANGED <<chain, fault>>

(* sendRawTransaction: the chain accepts the transaction, unless it has    *)
(* executed it already.  When the answer is lost, the bridge client tries  *)
(* again or gives up.                                                      *)
Accept(p) ==
  LET t == tx[p[1]] IN
    /\ post[p] = "bridge"
    /\ chain[t] # "landed"
    /\ chain' = [chain EXCEPT ![t] = "sent"]
    /\ \/ Move(p, "store") /\ UNCHANGED fault
       \/ Move(p, "bridge") /\ fault' = TRUE
       \/ Move(p, "failed") /\ fault' = TRUE
    /\ UNCHANGED passeur

(* The chain refuses (preflight fails, the blockhash has expired, or it is *)
(* already processed) or cannot be reached.                                *)
(* Mutated: the status of the bridge's answer is not looked at.            *)
RefuseUnseen(p) ==
  /\ post[p] = "bridge"
  /\ Move(p, "store")
  /\ UNCHANGED <<passeur, chain, fault>>

Refuse(p) ==
  /\ post[p] = "bridge"
  /\ Move(p, "failed")
  /\ UNCHANGED <<passeur, chain, fault>>

(* store_result and the answer.                                            *)
StoreResult(p) ==
  /\ post[p] = "store"
  /\ passeur' = [passeur EXCEPT ![tx[p[1]]] = "result"]
  /\ Move(p, "answered")
  /\ UNCHANGED <<chain, fault>>

Running == {"check", "reserve", "bridge", "store"}

(* Passeur's store raises.                                                 *)
BreakPost(p) ==
  /\ post[p] \in Running \ {"bridge"}
  /\ Move(p, "failed")
  /\ fault' = TRUE
  /\ UNCHANGED <<passeur, chain>>

PasseurRestarts ==
  /\ \E p \in Posts : post[p] \in Running
  /\ post' = [p \in Posts |-> IF post[p] \in Running THEN "failed" ELSE post[p]]
  /\ fault' = TRUE
  /\ UNCHANGED <<handlers, database, remembered, passeur, chain, lost>>
-----------------------------------------------------------------------------
(* The rest of the world: the stores' entries expire (pourtier's after a   *)
(* day, passeur's after seven), the chain executes what it has accepted.   *)

Forget(k) ==
  /\ remembered[k] # None
  /\ remembered' = [remembered EXCEPT ![k] = None]
  /\ UNCHANGED <<handlers, database, post, passeur, chain, fault, lost>>

Expire(t) ==
  /\ passeur[t] # "none"
  /\ passeur' = [passeur EXCEPT ![t] = "none"]
  /\ UNCHANGED <<handlers, database, remembered, post, chain, fault, lost>>

Land(t) ==
  /\ chain[t] = "sent"
  /\ chain' = [chain EXCEPT ![t] = "landed"]
  /\ UNCHANGED <<handlers, database, remembered, post, passeur, fault, lost>>

Handle(r) ==
  \/ Lookup(r) \/ AttemptFails(r)
  \/ LookForDuplicate(r) \/ Insert(r) \/ Remember(r) \/ Commit(r)
  \/ Break(r)

Serve(p) ==
  \/ CheckStore(p) \/ Reserve(p) \/ Accept(p) \/ Refuse(p) \/ StoreResult(p)
  \/ BreakPost(p)

Next ==
  \/ \E r \in Requests, t \in Tx : Arrive(r, t)
  \/ \E r \in Requests : Handle(r)
  \/ \E p \in Posts : Serve(p)
  \/ \E k \in Keys : Forget(k)
  \/ \E t \in Tx : Expire(t) \/ Land(t)
  \/ PourtierRestarts \/ PasseurRestarts

Spec == Init /\ [][Next]_vars
-----------------------------------------------------------------------------
Accepted == {t \in Tx : chain[t] # "unsent"}

Booked == {tx[r] : r \in rows}

TypeOK ==
  /\ pc \in [Requests -> Phase]
  /\ tx \in [Requests -> Tx \cup {None}]
  /\ attempt \in [Requests -> 0..MaxAttempts]
  /\ reply \in [Requests -> Tx \cup {"error", None}]
  /\ inserted \subseteq Requests
  /\ rows \subseteq Requests
  /\ remembered \in [Keys -> Tx \cup {None}]
  /\ post \in [Posts -> PostPhase]
  /\ passeur \in [Tx -> {"none", "reserved", "result"}]
  /\ chain \in [Tx -> {"unsent", "sent", "landed"}]
  /\ fault \in BOOLEAN
  /\ lost \subseteq Tx

(* However many requests, retries and restarts a transaction has gone      *)
(* through, the books hold it at most once.                                *)
RecordedOnce == \A q, r \in rows : tx[q] = tx[r] => q = r

(* A reply other than an error is about a transaction the chain accepted,  *)
(* through two stores whose entries outlive the handlers that wrote them.  *)
RepliesAreTrue == \A r \in Requests : reply[r] \in Tx => reply[r] \in Accepted

(* The store is told before the database commits, so that another request  *)
(* may be answered from it meanwhile.  Yet whoever holds the record of a   *)
(* transaction holds one whose row is committed, or is about to be: a row  *)
(* that another handler's insert, lookup or failure has stopped is never   *)
(* heard of.  What is left is the commit itself, if it is lost.            *)
RepliesAreBooked ==
  \A r \in Requests :
    reply[r] \in Tx =>
      \/ reply[r] \in Booked \cup lost
      \/ \E q \in inserted : pc[q] = "commit" /\ tx[q] = reply[r]

(* deposit_to_escrow.py: "Signed transaction must be submitted to          *)
(* blockchain".  A request is answered with the record of the transaction  *)
(* it carries, not of another.                                             *)
OwnReply == \A r \in Requests : reply[r] \in Tx => reply[r] = tx[r]

(* Unless something was lost, timed out, failed or restarted, a transaction *)
(* the chain has accepted is in the books once nobody works on it any more. *)
OrphansHaveCause ==
  ~fault /\ (\A r \in Requests : pc[r] \in {"idle", "done"})
    => Accepted \subseteq Booked

(* The books follow the chain.                                             *)
Books == INSTANCE Ledger WITH
  accepted <- Accepted,
  recorded <- Booked

BooksFollowChain == Books!Spec
=============================================================================
