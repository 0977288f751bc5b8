-------------------------- MODULE SubmissionProofs --------------------------
(***************************************************************************)
(* What the submission of transactions guarantees however many requests,   *)
(* retries and restarts there are.                                         *)
(***************************************************************************)
EXTENDS EscrowSubmission, TLAPS

USE SubmissionAssumption DEF SubmissionAssumption

(* A handler that has started carries a transaction, and its posts are     *)
(* numbered from 1: needed to prove that the fields keep their types.      *)
PhasesAgree ==
  /\ \A r \in Requests :
       /\ pc[r] # "idle" => tx[r] \in Tx
       /\ pc[r] \in {"idle", "lookup"} => attempt[r] = 0
       /\ pc[r] = "await" => attempt[r] # 0
  /\ \A p \in Posts : post[p] # "none" => pc[p[1]] # "idle"

Sound == TypeOK /\ PhasesAgree

(* What is lost was carried by a handler at its commit.                    *)
LEMMA LostIsCarried ==
  ASSUME Sound, NEW S \in SUBSET Requests, LoseCommits(S)
  PROVE  lost' \subseteq Tx
BY DEF LoseCommits, Sound, TypeOK, PhasesAgree

(* An exception ends a handler and nothing else.                           *)
LEMMA FailKeepsSound ==
  ASSUME Sound, NEW r \in Requests, pc[r] # "idle", Fail(r), fault' \in BOOLEAN
  PROVE  Sound'
<1>lost. lost' \subseteq Tx
  BY LostIsCarried DEF Fail
<1>1. TypeOK'
  BY <1>lost DEF Fail, Answer, Goto, Sound, TypeOK, Phase
<1>2. PhasesAgree'
  BY DEF Fail, Answer, Goto, Sound, TypeOK, PhasesAgree, Posts
<1>3. QED
  BY <1>1, <1>2 DEF Sound

(* A new post is within its handler's attempts.                            *)
LEMMA MakePostKeepsSound ==
  ASSUME Sound, NEW r \in Requests, pc[r] # "idle", attempt[r] < MaxAttempts,
         MakePost(r), fault' \in BOOLEAN
  PROVE  Sound'
<1>1. <<r, attempt[r] + 1>> \in Posts
  BY DEF Sound, TypeOK, Posts
<1>2. TypeOK'
  BY <1>1 DEF MakePost, Goto, Sound, TypeOK, Phase, PostPhase, database
<1>3. PhasesAgree'
  BY <1>1 DEF MakePost, Goto, Sound, TypeOK, PhasesAgree, Posts
<1>4. QED
  BY <1>2, <1>3 DEF Sound

(* A step of a post leaves the handlers alone.                             *)
LEMMA ServeKeepsSound ==
  ASSUME Sound, NEW p \in Posts, Serve(p)
  PROVE  Sound'
<1>types. tx[p[1]] \in Tx
  BY DEF Serve, CheckStore, Reserve, Accept, Refuse, StoreResult, BreakPost,
     Running, Sound, PhasesAgree, Posts
<1>1. TypeOK'
  BY <1>types DEF Serve, CheckStore, Reserve, Accept, Refuse, StoreResult,
     BreakPost, Running, Move, Sound, TypeOK, PostPhase, handlers, database
<1>2. PhasesAgree'
  BY DEF Serve, CheckStore, Reserve, Accept, Refuse, StoreResult, BreakPost,
     Running, Move, Sound, TypeOK, PhasesAgree, Posts, handlers
<1>3. QED
  BY <1>1, <1>2 DEF Sound

(* Every step keeps the types and the phases.                              *)
LEMMA StepKeepsSound == Sound /\ [Next]_vars => Sound'
<1> SUFFICES ASSUME Sound, [Next]_vars PROVE Sound'
  OBVIOUS
<1> USE DEF Sound
<1>1. ASSUME NEW r \in Requests, NEW t \in Tx, Arrive(r, t) PROVE Sound'
  <2>1. TypeOK'
    BY <1>1 DEF Arrive, Goto, TypeOK, Phase, database
  <2>2. PhasesAgree'
    BY <1>1 DEF Arrive, Goto, TypeOK, PhasesAgree, Posts
  <2>3. QED
    BY <2>1, <2>2
<1>2. ASSUME NEW r \in Requests, Lookup(r) PROVE Sound'
  <2>1. tx[r] \in Tx /\ Key(tx[r]) \in Keys /\ attempt[r] = 0
    BY <1>2 DEF Lookup, PhasesAgree, Keys
  <2>2. CASE remembered[Key(tx[r])] # None
    <3>1. TypeOK'
      BY <1>2, <2>1, <2>2 DEF Lookup, Answer, Goto, TypeOK, Phase, database
    <3>2. PhasesAgree'
      BY <1>2, <2>2 DEF Lookup, Answer, Goto, TypeOK, PhasesAgree, Posts
    <3>3. QED
      BY <3>1, <3>2
  <2>3. CASE remembered[Key(tx[r])] = None
    <3>1. fault' \in BOOLEAN /\ pc[r] # "idle" /\ attempt[r] < MaxAttempts
      BY <1>2, <2>1 DEF Lookup, TypeOK
    <3>2. Fail(r) \/ MakePost(r)
      BY <1>2, <2>3 DEF Lookup
    <3>3. QED
      BY <3>1, <3>2, FailKeepsSound, MakePostKeepsSound
  <2>4. QED
    BY <2>2, <2>3
<1>3. ASSUME NEW r \in Requests, AttemptFails(r) PROVE Sound'
  <2>1. fault' \in BOOLEAN /\ pc[r] # "idle"
    BY <1>3 DEF AttemptFails, Waits, TypeOK
  <2>2. (AttemptsLeft(r) /\ MakePost(r)) \/ Fail(r)
    BY <1>3 DEF AttemptFails
  <2>3. QED
    BY <2>1, <2>2, FailKeepsSound, MakePostKeepsSound DEF AttemptsLeft
<1>4. ASSUME NEW r \in Requests, LookForDuplicate(r) PROVE Sound'
  <2>1. pc[r] = "await" /\ fault' \in BOOLEAN
    BY <1>4 DEF LookForDuplicate, Waits, TypeOK
  <2>2. CASE Fail(r)
    BY <2>1, <2>2, FailKeepsSound
  <2>3. CASE ~Fail(r)
    <3>1. TypeOK'
      BY <1>4, <2>1, <2>3 DEF LookForDuplicate, Goto, TypeOK, Phase, database
    <3>2. PhasesAgree'
      BY <1>4, <2>1, <2>3 DEF LookForDuplicate, Goto, TypeOK, PhasesAgree, Posts
    <3>3. QED
      BY <3>1, <3>2
  <2>4. QED
    BY <2>2, <2>3
<1>5. ASSUME NEW r \in Requests, Insert(r) PROVE Sound'
  <2>1. pc[r] = "insert" /\ fault' \in BOOLEAN
    BY <1>5 DEF Insert, TypeOK
  <2>2. CASE Fail(r)
    BY <2>1, <2>2, FailKeepsSound
  <2>3. CASE ~Fail(r)
    <3>1. TypeOK'
      BY <1>5, <2>1, <2>3 DEF Insert, Goto, TypeOK, Phase
    <3>2. PhasesAgree'
      BY <1>5, <2>1, <2>3 DEF Insert, Goto, TypeOK, PhasesAgree, Posts
    <3>3. QED
      BY <3>1, <3>2
  <2>4. QED
    BY <2>2, <2>3
<1>6. ASSUME NEW r \in Requests, Remember(r) PROVE Sound'
  <2>1. pc[r] = "remember" /\ tx[r] \in Tx
    BY <1>6 DEF Remember, PhasesAgree
  <2>2. TypeOK'
    BY <1>6, <2>1 DEF Remember, Goto, TypeOK, Phase, database
  <2>3. PhasesAgree'
    BY <1>6, <2>1 DEF Remember, Goto, TypeOK, PhasesAgree, Posts
  <2>4. QED
    BY <2>2, <2>3
<1>break. ASSUME NEW r \in Requests, Break(r) PROVE Sound'
  BY <1>break, FailKeepsSound DEF Break
<1>7. ASSUME NEW r \in Requests, Commit(r) PROVE Sound'
  <2>1. pc[r] = "commit" /\ tx[r] \in Tx /\ lost' \subseteq Tx
    BY <1>7, LostIsCarried DEF Commit, PhasesAgree, TypeOK
  <2>2. TypeOK'
    BY <1>7, <2>1 DEF Commit, Answer, Goto, TypeOK, Phase
  <2>3. PhasesAgree'
    BY <1>7, <2>1 DEF Commit, Answer, Goto, TypeOK, PhasesAgree, Posts
  <2>4. QED
    BY <2>2, <2>3
<1>8. CASE PourtierRestarts
  <2>lost. lost' \subseteq Tx
    BY <1>8, LostIsCarried DEF PourtierRestarts
  <2>1. TypeOK'
    BY <1>8, <2>lost DEF PourtierRestarts, TypeOK, Phase
  <2>2. PhasesAgree'
    BY <1>8 DEF PourtierRestarts, TypeOK, PhasesAgree, Posts
  <2>3. QED
    BY <2>1, <2>2
<1>9. ASSUME NEW p \in Posts, Serve(p) PROVE Sound'
  BY <1>9, ServeKeepsSound
<1>10. CASE PasseurRestarts
  <2>1. TypeOK'
    BY <1>10 DEF PasseurRestarts, TypeOK, PostPhase, handlers, database
  <2>2. PhasesAgree'
    BY <1>10 DEF PasseurRestarts, Running, TypeOK, PhasesAgree, Posts, handlers
  <2>3. QED
    BY <2>1, <2>2
<1>11. ASSUME NEW k \in Keys, Forget(k) PROVE Sound'
  BY <1>11 DEF Forget, TypeOK, PhasesAgree, handlers, database
<1>12. ASSUME NEW t \in Tx, Expire(t) \/ Land(t) PROVE Sound'
  BY <1>12 DEF Expire, Land, TypeOK, PhasesAgree, handlers, database
<1>13. CASE UNCHANGED vars
  BY <1>13 DEF vars, TypeOK, PhasesAgree, handlers, database
<1>14. QED
  BY <1>1, <1>2, <1>3, <1>4, <1>5, <1>6, <1>break, <1>7, <1>8, <1>9, <1>10,
     <1>11, <1>12, <1>13
  DEF Next, Handle

(* The types and the phases are an invariant.                              *)
LEMMA SoundAlways == Spec => []Sound
<1>1. Init => TypeOK
  <2> SUFFICES ASSUME Init PROVE TypeOK
    OBVIOUS
  <2>1. /\ pc \in [Requests -> Phase]
        /\ tx \in [Requests -> Tx \cup {None}]
        /\ reply \in [Requests -> Tx \cup {"error", None}]
        /\ remembered \in [Keys -> Tx \cup {None}]
        /\ post \in [Posts -> PostPhase]
    BY Zenon DEF Init, Phase, PostPhase
  <2>2. attempt \in [Requests -> 0..MaxAttempts]
    BY DEF Init
  <2>3. QED
    BY <2>1, <2>2 DEF Init, TypeOK
<1>2. Init => PhasesAgree
  BY DEF Init, PhasesAgree, Posts
<1>3. Init => Sound
  BY <1>1, <1>2 DEF Sound
<1>4. QED
  BY <1>3, StepKeepsSound, PTL DEF Spec

(* The fields keep their types: no handler makes more posts than it may.   *)
THEOREM TypeInvariant == Spec => []TypeOK
<1>1. Sound => TypeOK
  BY DEF Sound
<1>2. QED
  BY <1>1, SoundAlways, PTL
-----------------------------------------------------------------------------
(* What anybody remembers of a transaction says that the chain accepted it. *)
Truthful ==
  /\ \A k \in Keys : remembered[k] # None => remembered[k] \in Accepted
  /\ \A t \in Tx : passeur[t] = "result" => t \in Accepted
  /\ \A p \in Posts : post[p] \in {"store", "answered"} => tx[p[1]] \in Accepted
  /\ \A r \in Requests :
       pc[r] \in {"insert", "remember", "commit"} => tx[r] \in Accepted
  /\ \A r \in rows : pc[r] # "idle" /\ tx[r] \in Accepted
  /\ RepliesAreTrue

(* What the chain has accepted it never forgets, and a request keeps its   *)
(* transaction.                                                            *)
LEMMA Frame ==
  ASSUME Sound, [Next]_vars
  PROVE  /\ Accepted \subseteq Accepted'
         /\ \A r \in Requests : pc[r] # "idle" => tx'[r] = tx[r]
<1>1. CASE chain' = chain /\ tx' = tx
  BY <1>1 DEF Accepted
<1>2. ASSUME NEW r \in Requests, NEW t \in Tx, Arrive(r, t)
      PROVE  chain' = chain /\ \A q \in Requests : pc[q] # "idle" => tx'[q] = tx[q]
  BY <1>2 DEF Arrive, Sound, TypeOK
<1>3. ASSUME NEW p \in Posts, Accept(p)
      PROVE  Accepted \subseteq Accepted' /\ tx' = tx
  BY <1>3 DEF Accept, Move, handlers, Accepted, Sound, TypeOK
<1>4. ASSUME NEW t \in Tx, Land(t)
      PROVE  Accepted \subseteq Accepted' /\ tx' = tx
  BY <1>4 DEF Land, handlers, Accepted, Sound, TypeOK
<1>5. ASSUME NEW r \in Requests, Handle(r)
      PROVE  chain' = chain /\ tx' = tx
  BY <1>5 DEF Handle, Lookup, AttemptFails, LookForDuplicate, Insert, Remember,
     Commit, Break, Fail, MakePost
<1>6. ASSUME NEW p \in Posts, Serve(p), ~Accept(p)
      PROVE  chain' = chain /\ tx' = tx
  BY <1>6 DEF Serve, CheckStore, Reserve, Refuse, StoreResult, BreakPost,
     Running, Move, handlers
<1>7. CASE PourtierRestarts \/ PasseurRestarts \/ UNCHANGED vars
  BY <1>7, <1>1 DEF PourtierRestarts, PasseurRestarts, vars, handlers
<1>8. ASSUME NEW k \in Keys, Forget(k)
      PROVE  chain' = chain /\ tx' = tx
  BY <1>8 DEF Forget, handlers
<1>9. ASSUME NEW t \in Tx, Expire(t)
      PROVE  chain' = chain /\ tx' = tx
  BY <1>9 DEF Expire, handlers
<1>10. ASSUME chain' = chain PROVE Accepted \subseteq Accepted'
  BY <1>10 DEF Accepted
<1>11. QED
  BY <1>1, <1>2, <1>3, <1>4, <1>5, <1>6, <1>7, <1>8, <1>9, <1>10 DEF Next

(* An exception tells nobody anything.                                     *)
LEMMA FailKeepsTruth ==
  ASSUME Sound, Truthful, Accepted \subseteq Accepted', Accepted' \subseteq Tx,
         NEW r \in Requests, pc[r] # "idle", Fail(r)
  PROVE  Truthful'
BY DEF Sound, TypeOK, Truthful, RepliesAreTrue, Fail, Answer, Goto, Phase

(* Nor does a new post.                                                    *)
LEMMA MakePostKeepsTruth ==
  ASSUME Sound, Truthful, Accepted \subseteq Accepted',
         NEW r \in Requests, pc[r] # "idle", MakePost(r)
  PROVE  Truthful'
BY DEF Sound, TypeOK, Truthful, RepliesAreTrue, MakePost, Goto, Phase, Posts,
   database

(* What a post learns from the store or the chain is true.                 *)
LEMMA ServeKeepsTruth ==
  ASSUME Sound, Truthful, Accepted \subseteq Accepted',
         NEW p \in Posts, Serve(p)
  PROVE  Truthful'
<1> DEFINE t == tx[p[1]]
<1>types. t \in Tx /\ p[1] \in Requests
  BY DEF Serve, CheckStore, Reserve, Accept, Refuse, StoreResult, BreakPost,
     Running, Sound, PhasesAgree, Posts
<1>same. UNCHANGED <<handlers, database, remembered>>
  BY DEF Serve, CheckStore, Reserve, Accept, Refuse, StoreResult, BreakPost,
     Running, Move
<1>1. \A u \in Tx : passeur'[u] = "result" => u \in Accepted'
  BY <1>types DEF Serve, CheckStore, Reserve, Accept, Refuse, StoreResult,
     BreakPost, Running, Truthful, Sound, TypeOK
<1>2. \A q \in Posts :
        post'[q] \in {"store", "answered"} => tx'[q[1]] \in Accepted'
  <2>1. CASE Accept(p)
    <3>1. t \in Accepted'
      BY <2>1, <1>types DEF Accept, Accepted, Sound, TypeOK
    <3>2. QED
      BY <2>1, <3>1, <1>same DEF Accept, Move, Truthful, Sound, TypeOK, handlers
  <2>2. CASE ~Accept(p)
    BY <2>2, <1>types, <1>same DEF Serve, CheckStore, HasResult, Reserve,
       Refuse, StoreResult, BreakPost, Running, Move, Truthful, Sound, TypeOK,
       handlers
  <2>3. QED
    BY <2>1, <2>2
<1>3. QED
  BY <1>1, <1>2, <1>same
  DEF Truthful, RepliesAreTrue, handlers, database

(* Every step keeps it.                                                    *)
LEMMA StepKeepsTruth == Sound /\ Truthful /\ [Next]_vars => Truthful'
<1> SUFFICES ASSUME Sound, Truthful, [Next]_vars PROVE Truthful'
  OBVIOUS
<1>frame. /\ Accepted \subseteq Accepted' /\ Accepted' \subseteq Tx
          /\ \A r \in Requests : pc[r] # "idle" => tx'[r] = tx[r]
  BY Frame DEF Accepted
<1> USE DEF Sound
<1>1. ASSUME NEW r \in Requests, NEW t \in Tx, Arrive(r, t) PROVE Truthful'
  BY <1>1, <1>frame DEF Arrive, Goto, TypeOK, PhasesAgree, Truthful,
     RepliesAreTrue, Phase, Posts, database
<1>2. ASSUME NEW r \in Requests, Lookup(r) PROVE Truthful'
  <2>1. pc[r] = "lookup" /\ tx[r] \in Tx /\ Key(tx[r]) \in Keys
    BY <1>2 DEF Lookup, PhasesAgree, Keys
  <2>2. CASE Fail(r) \/ MakePost(r)
    BY <2>1, <2>2, <1>frame, FailKeepsTruth, MakePostKeepsTruth
  <2>3. CASE ~(Fail(r) \/ MakePost(r))
    BY <1>2, <2>1, <2>3, <1>frame DEF Lookup, Answer, Goto, TypeOK, Truthful,
       RepliesAreTrue, Phase, database
  <2>4. QED
    BY <2>2, <2>3
<1>3. ASSUME NEW r \in Requests, AttemptFails(r) PROVE Truthful'
  BY <1>3, <1>frame, FailKeepsTruth, MakePostKeepsTruth DEF AttemptFails, Waits
<1>4. ASSUME NEW r \in Requests, LookForDuplicate(r) PROVE Truthful'
  <2>1. pc[r] = "await" /\ tx[r] \in Accepted
    BY <1>4 DEF LookForDuplicate, Waits, Truthful, TypeOK, PhasesAgree, Posts
  <2>2. CASE Fail(r)
    BY <2>1, <2>2, <1>frame, FailKeepsTruth
  <2>3. CASE ~Fail(r)
    BY <1>4, <2>1, <2>3, <1>frame DEF LookForDuplicate, Goto, TypeOK, Truthful,
       RepliesAreTrue, Phase, database
  <2>4. QED
    BY <2>2, <2>3
<1>5. ASSUME NEW r \in Requests, Insert(r) PROVE Truthful'
  <2>1. pc[r] = "insert" /\ tx[r] \in Accepted
    BY <1>5 DEF Insert, Truthful
  <2>2. CASE Fail(r)
    BY <2>1, <2>2, <1>frame, FailKeepsTruth
  <2>3. CASE ~Fail(r)
    BY <1>5, <2>1, <2>3, <1>frame DEF Insert, Goto, TypeOK, Truthful,
       RepliesAreTrue, Phase
  <2>4. QED
    BY <2>2, <2>3
<1>6. ASSUME NEW r \in Requests, Remember(r) PROVE Truthful'
  <2>1. pc[r] = "remember" /\ tx[r] \in Accepted
    BY <1>6 DEF Remember, Truthful
  <2>2. QED
    BY <1>6, <2>1, <1>frame DEF Remember, Goto, TypeOK, Truthful,
       RepliesAreTrue, Phase, database
<1>break. ASSUME NEW r \in Requests, Break(r) PROVE Truthful'
  BY <1>break, <1>frame, FailKeepsTruth DEF Break
<1>7. ASSUME NEW r \in Requests, Commit(r) PROVE Truthful'
  <2>1. pc[r] = "commit" /\ tx[r] \in Accepted /\ "error" \notin Tx
    BY <1>7 DEF Commit, Truthful
  <2>2. QED
    BY <1>7, <2>1, <1>frame DEF Commit, Answer, Goto, TypeOK, Truthful,
       RepliesAreTrue, Phase
<1>8. CASE PourtierRestarts
  <2>1. "error" \notin Tx
    OBVIOUS
  <2>2. QED
    BY <1>8, <2>1, <1>frame DEF PourtierRestarts, TypeOK, Truthful,
       RepliesAreTrue, Phase
<1>9. ASSUME NEW p \in Posts, Serve(p) PROVE Truthful'
  BY <1>9, <1>frame, ServeKeepsTruth
<1>10. CASE PasseurRestarts
  BY <1>10, <1>frame DEF PasseurRestarts, TypeOK, Truthful, RepliesAreTrue,
     handlers, database
<1>11. ASSUME NEW k \in Keys, Forget(k) PROVE Truthful'
  BY <1>11, <1>frame DEF Forget, TypeOK, Truthful, RepliesAreTrue, handlers,
     database
<1>12. ASSUME NEW t \in Tx, Expire(t) \/ Land(t) PROVE Truthful'
  BY <1>12, <1>frame DEF Expire, Land, TypeOK, Truthful, RepliesAreTrue,
     handlers, database
<1>13. CASE UNCHANGED vars
  BY <1>13, <1>frame DEF vars, Truthful, RepliesAreTrue, handlers, database
<1>14. QED
  BY <1>1, <1>2, <1>3, <1>4, <1>5, <1>6, <1>break, <1>7, <1>8, <1>9, <1>10,
     <1>11, <1>12, <1>13
  DEF Next, Handle

(* What anybody remembers of a transaction is true.                        *)
LEMMA TruthAlways == Spec => []Truthful
<1>1. Init => Truthful
  BY DEF Init, Truthful, RepliesAreTrue, Accepted
<1>2. QED
  BY <1>1, StepKeepsTruth, SoundAlways, PTL DEF Spec

(* A reply other than an error is about a transaction the chain accepted,  *)
(* whichever store or handler it came from.                                *)
THEOREM RepliesAlwaysTrue == Spec => []RepliesAreTrue
<1>1. Truthful => RepliesAreTrue
  BY DEF Truthful
<1>2. QED
  BY <1>1, TruthAlways, PTL
-----------------------------------------------------------------------------
(* The lock on a row is held by a live handler, a committed row by none,   *)
(* and no two rows have the same signature.                                *)
RowsOK ==
  /\ \A r \in Requests : r \in inserted <=> pc[r] \in {"remember", "commit"}
  /\ \A r \in rows : pc[r] = "done"
  /\ \A q, r \in inserted \cup rows : tx[q] = tx[r] => q = r

(* The rows of the other handlers are not touched when one fails, ...      *)
LEMMA FailKeepsRows ==
  ASSUME Sound, RowsOK, NEW r \in Requests, pc[r] # "done", Fail(r)
  PROVE  RowsOK'
<1>1. /\ inserted' = inserted \ {r} /\ rows' = rows /\ tx' = tx
      /\ pc' = [pc EXCEPT ![r] = "done"]
  BY DEF Fail, Answer, Goto
<1>2. QED
  BY <1>1 DEF Sound, TypeOK, RowsOK

(* ... nor when it only goes on to another phase without a row.            *)
LEMMA MoveKeepsRows ==
  ASSUME Sound, RowsOK, NEW r \in Requests, NEW phase \in Phase,
         {pc[r], phase} \cap {"remember", "commit"} = {},
         pc[r] # "done", Goto(r, phase), UNCHANGED database,
         \A q \in Requests : pc[q] # "idle" => tx'[q] = tx[q]
  PROVE  RowsOK'
<1>1. inserted' = inserted /\ rows' = rows /\ pc' = [pc EXCEPT ![r] = phase]
  BY DEF database, Goto
<1>2. r \notin inserted \cup rows /\ phase \notin {"remember", "commit"}
  BY DEF RowsOK
<1>3. \A q \in inserted \cup rows : q \in Requests /\ tx'[q] = tx[q]
  BY DEF Sound, TypeOK, RowsOK
<1>4. QED
  BY <1>1, <1>2, <1>3 DEF Sound, TypeOK, RowsOK

(* Every step keeps the rows apart.                                        *)
LEMMA StepKeepsRows == Sound /\ RowsOK /\ [Next]_vars => RowsOK'
<1> SUFFICES ASSUME Sound, RowsOK, [Next]_vars PROVE RowsOK'
  OBVIOUS
<1>frame. \A r \in Requests : pc[r] # "idle" => tx'[r] = tx[r]
  BY Frame
<1>post. ASSUME NEW r \in Requests, pc[r] \in {"lookup", "await"}, MakePost(r)
         PROVE  RowsOK'
  BY <1>post, <1>frame, MoveKeepsRows DEF MakePost, Phase
<1>1. ASSUME NEW r \in Requests, NEW t \in Tx, Arrive(r, t) PROVE RowsOK'
  BY <1>1, <1>frame, MoveKeepsRows DEF Arrive, Phase
<1>2. ASSUME NEW r \in Requests, Lookup(r) PROVE RowsOK'
  <2>1. pc[r] = "lookup"
    BY <1>2 DEF Lookup
  <2>2. CASE Fail(r) \/ MakePost(r)
    BY <2>1, <2>2, <1>post, FailKeepsRows
  <2>3. CASE ~(Fail(r) \/ MakePost(r))
    BY <1>2, <2>1, <2>3, <1>frame, MoveKeepsRows DEF Lookup, Answer, Phase
  <2>4. QED
    BY <2>2, <2>3
<1>3. ASSUME NEW r \in Requests, AttemptFails(r) PROVE RowsOK'
  BY <1>3, <1>post, FailKeepsRows DEF AttemptFails, Waits
<1>4. ASSUME NEW r \in Requests, LookForDuplicate(r) PROVE RowsOK'
  <2>1. pc[r] = "await"
    BY <1>4 DEF LookForDuplicate, Waits
  <2>2. CASE Fail(r)
    BY <2>1, <2>2, FailKeepsRows
  <2>3. CASE ~Fail(r)
    BY <1>4, <2>1, <2>3, <1>frame, MoveKeepsRows DEF LookForDuplicate, Phase
  <2>4. QED
    BY <2>2, <2>3
<1>5. ASSUME NEW r \in Requests, Insert(r) PROVE RowsOK'
  <2>1. pc[r] = "insert" /\ \A q \in inserted : tx[q] # tx[r]
    BY <1>5 DEF Insert
  <2>2. CASE Fail(r)
    BY <2>1, <2>2, FailKeepsRows
  <2>3. CASE ~Fail(r)
    <3>1. /\ \A q \in rows : tx[q] # tx[r]
          /\ inserted' = inserted \cup {r} /\ rows' = rows /\ tx' = tx
          /\ pc' = [pc EXCEPT ![r] = "remember"]
      BY <1>5, <2>3 DEF Insert, Goto
    <3>2. QED
      BY <2>1, <3>1 DEF Sound, TypeOK, RowsOK
  <2>4. QED
    BY <2>2, <2>3
<1>6. ASSUME NEW r \in Requests, Remember(r) PROVE RowsOK'
  BY <1>6 DEF Remember, Goto, Sound, TypeOK, RowsOK, database
<1>break. ASSUME NEW r \in Requests, Break(r) PROVE RowsOK'
  BY <1>break, FailKeepsRows DEF Break
<1>7. ASSUME NEW r \in Requests, Commit(r) PROVE RowsOK'
  <2>1. r \in inserted /\ r \notin rows
    BY <1>7 DEF Commit, RowsOK
  <2>2. /\ inserted' = inserted \ {r} /\ tx' = tx
        /\ rows' = rows \cup {r} \/ rows' = rows
        /\ pc' = [pc EXCEPT ![r] = "done"]
    BY <1>7 DEF Commit, Answer, Goto
  <2>3. QED
    BY <2>1, <2>2 DEF Sound, TypeOK, RowsOK
<1>8. CASE PourtierRestarts
  BY <1>8 DEF PourtierRestarts, Sound, TypeOK, RowsOK
<1>9. ASSUME UNCHANGED <<handlers, database>> PROVE RowsOK'
  BY <1>9 DEF RowsOK, handlers, database
<1>10. ASSUME NEW p \in Posts, Serve(p) PROVE RowsOK'
  BY <1>9, <1>10
  DEF Serve, CheckStore, Reserve, Accept, Refuse, StoreResult, BreakPost,
     Running, Move
<1>11. CASE PasseurRestarts
  BY <1>9, <1>11 DEF PasseurRestarts
<1>12. ASSUME NEW k \in Keys, Forget(k) PROVE RowsOK'
  BY <1>9, <1>12 DEF Forget
<1>13. ASSUME NEW t \in Tx, Expire(t) \/ Land(t) PROVE RowsOK'
  BY <1>9, <1>13 DEF Expire, Land
<1>14. CASE UNCHANGED vars
  BY <1>9, <1>14 DEF vars
<1>15. QED
  BY <1>1, <1>2, <1>3, <1>4, <1>5, <1>6, <1>break, <1>7, <1>8, <1>10, <1>11,
     <1>12, <1>13, <1>14
  DEF Next, Handle

(* The rows stay apart.                                                    *)
LEMMA RowsAlways == Spec => []RowsOK
<1>1. Init => RowsOK
  BY DEF Init, RowsOK
<1>2. QED
  BY <1>1, StepKeepsRows, SoundAlways, PTL DEF Spec

(* The books hold a transaction at most once: the duplicate check alone,   *)
(* between two awaits, would not do; the insert under the unique index     *)
(* does.                                                                   *)
THEOREM RecordedAtMostOnce == Spec => []RecordedOnce
<1>1. RowsOK => RecordedOnce
  BY DEF RowsOK, RecordedOnce
<1>2. QED
  BY <1>1, RowsAlways, PTL
-----------------------------------------------------------------------------
(* The books change when a row is committed and not otherwise.             *)
LEMMA BookedSteps ==
  ASSUME Sound, Truthful, RowsOK, [Next]_vars,
         \A r \in Requests : ~Commit(r)
  PROVE  Booked' = Booked
<1>1. rows' = rows
  BY DEF Next, Handle, Arrive, Lookup, AttemptFails, LookForDuplicate, Insert,
     Remember, Break, Fail, MakePost, PourtierRestarts, Serve, CheckStore,
     Reserve, Accept, Refuse, StoreResult, BreakPost, Running, Move,
     PasseurRestarts, Forget, Expire, Land, vars, database
<1>2. \A r \in rows : tx'[r] = tx[r]
  BY Frame DEF Truthful, Sound, TypeOK
<1>3. QED
  BY <1>1, <1>2 DEF Booked

(* The chain accepts in one kind of step.                                  *)
LEMMA AcceptedSteps ==
  ASSUME Sound, [Next]_vars, \A p \in Posts : ~Accept(p)
  PROVE  Accepted' = Accepted
<1>1. chain' = chain \/ \E t \in Tx : Land(t)
  BY DEF Next, Handle, Arrive, Lookup, AttemptFails, LookForDuplicate, Insert,
     Remember, Commit, Break, Fail, MakePost, PourtierRestarts, Serve,
     CheckStore, Reserve, Refuse, StoreResult, BreakPost, Running,
     PasseurRestarts, Forget, Expire, vars
<1>2. QED
  BY <1>1 DEF Land, Accepted, Sound, TypeOK

(* The submission implements the ledger: every step accepts one            *)
(* transaction, records one that the chain has accepted, or neither.       *)
THEOREM BooksAlwaysFollow == Spec => BooksFollowChain
<1> USE DEF Books!vars
<1>1. Init => Books!Init
  BY DEF Init, Books!Init, Accepted, Booked
<1>2. Sound /\ Truthful /\ RowsOK /\ [Next]_vars
        => [Books!Next]_(Books!vars)
  <2> SUFFICES ASSUME Sound, Truthful, RowsOK, [Next]_vars
               PROVE  Books!Next \/ UNCHANGED Books!vars
    OBVIOUS
  <2>1. ASSUME NEW r \in Requests, Commit(r)
        PROVE  Books!Next \/ UNCHANGED Books!vars
    <3>1. /\ tx[r] \in Tx /\ tx[r] \in Accepted
          /\ \A q \in rows : tx[q] # tx[r]
      BY <2>1 DEF Commit, Sound, TypeOK, PhasesAgree, Truthful, RowsOK
    <3>2. /\ Accepted' = Accepted /\ tx' = tx
          /\ rows' = rows \/ rows' = rows \cup {r}
      BY <2>1 DEF Commit, Accepted
    <3>3. Booked' = Booked \/ Booked' = Booked \cup {tx[r]}
      BY <3>2 DEF Booked
    <3>4. tx[r] \in Accepted \ Booked
      BY <3>1 DEF Booked
    <3>5. QED
      BY <3>1, <3>2, <3>3, <3>4 DEF Books!Next, Books!Record
  <2>2. ASSUME NEW p \in Posts, Accept(p)
        PROVE  Books!Next \/ UNCHANGED Books!vars
    <3>1. tx[p[1]] \in Tx
      BY <2>2 DEF Accept, Sound, PhasesAgree, Posts
    <3>2. Accepted' = Accepted \cup {tx[p[1]]}
      BY <2>2, <3>1 DEF Accept, Accepted, Sound, TypeOK
    <3>3. Booked' = Booked
      BY <2>2 DEF Accept, Move, handlers, database, Booked
    <3>4. QED
      BY <3>1, <3>2, <3>3 DEF Books!Next, Books!Accept
  <2>3. CASE /\ \A r \in Requests : ~Commit(r)
             /\ \A p \in Posts : ~Accept(p)
    BY <2>3, BookedSteps, AcceptedSteps
  <2>4. QED
    BY <2>1, <2>2, <2>3
<1>3. QED
  BY <1>1, <1>2, SoundAlways, TruthAlways, RowsAlways, PTL
  DEF Spec, BooksFollowChain, Books!Spec
-----------------------------------------------------------------------------
(* A reply, and what pourtier's store holds of a key, are about the user,  *)
(* the operation and the amount asked for.                                 *)
KeysFit ==
  /\ \A k \in Keys : remembered[k] # None => Key(remembered[k]) = k
  /\ \A r \in Requests :
       /\ reply[r] \in Tx => Key(reply[r]) = Key(tx[r])
       /\ pc[r] = "idle" => reply[r] = None
(* Every step keeps it: the keys of an entry and of a reply never part.   *)
LEMMA StepKeepsKeys == Sound /\ KeysFit /\ [Next]_vars => KeysFit'
<1> SUFFICES ASSUME Sound, KeysFit, [Next]_vars PROVE KeysFit'
  OBVIOUS
<1> USE DEF Sound
<1>keep. ASSUME NEW r \in Requests, pc[r] # "idle", tx' = tx,
                pc' = [pc EXCEPT ![r] = "done"], remembered' = remembered,
                NEW what \in {"error", None} \cup {t \in Tx : Key(t) = Key(tx[r])},
                reply' = [reply EXCEPT ![r] = what]
         PROVE  KeysFit'
  BY <1>keep DEF KeysFit, TypeOK
<1>fail. ASSUME NEW r \in Requests, pc[r] # "idle", Fail(r) PROVE KeysFit'
  BY <1>keep, <1>fail DEF Fail, Answer, Goto
<1>go. ASSUME NEW r \in Requests, pc[r] # "idle", NEW phase \in Phase \ {"idle"},
              Goto(r, phase), tx' = tx, reply' = reply, remembered' = remembered
       PROVE  KeysFit'
  BY <1>go DEF Goto, KeysFit, TypeOK
<1>same. ASSUME UNCHANGED handlers,
                \A k \in Keys : remembered'[k] \in {remembered[k], None}
         PROVE  KeysFit'
  BY <1>same DEF handlers, KeysFit
<1>post. ASSUME NEW r \in Requests, pc[r] # "idle", MakePost(r) PROVE KeysFit'
  BY <1>go, <1>post DEF MakePost, Phase
<1>1. ASSUME NEW r \in Requests, NEW t \in Tx, Arrive(r, t) PROVE KeysFit'
  BY <1>1 DEF Arrive, Goto, KeysFit, TypeOK
<1>2. ASSUME NEW r \in Requests, Lookup(r) PROVE KeysFit'
  <2>1. pc[r] = "lookup" /\ Key(tx[r]) \in Keys
    BY <1>2 DEF Lookup, PhasesAgree, Keys
  <2>2. CASE Fail(r) \/ MakePost(r)
    BY <2>1, <2>2, <1>fail, <1>post
  <2>3. CASE ~(Fail(r) \/ MakePost(r))
    <3>1. /\ remembered[Key(tx[r])] # None
          /\ Answer(r, remembered[Key(tx[r])]) /\ tx' = tx
          /\ remembered' = remembered
      BY <1>2, <2>3 DEF Lookup
    <3>2. remembered[Key(tx[r])] \in {t \in Tx : Key(t) = Key(tx[r])}
      BY <2>1, <3>1 DEF KeysFit, TypeOK
    <3>3. QED
      BY <2>1, <3>1, <3>2, <1>keep DEF Answer, Goto
  <2>4. QED
    BY <2>2, <2>3
<1>3. ASSUME NEW r \in Requests, AttemptFails(r) PROVE KeysFit'
  BY <1>3, <1>fail, <1>post DEF AttemptFails, Waits
<1>4. ASSUME NEW r \in Requests, LookForDuplicate(r) PROVE KeysFit'
  BY <1>4, <1>fail, <1>go DEF LookForDuplicate, Waits, Phase
<1>5. ASSUME NEW r \in Requests, Insert(r) PROVE KeysFit'
  BY <1>5, <1>fail, <1>go DEF Insert, Phase
<1>6. ASSUME NEW r \in Requests, Remember(r) PROVE KeysFit'
  BY <1>6 DEF Remember, Goto, KeysFit, TypeOK
<1>7. ASSUME NEW r \in Requests, Break(r) PROVE KeysFit'
  BY <1>7, <1>fail DEF Break
<1>8. ASSUME NEW r \in Requests, Commit(r) PROVE KeysFit'
  <2>1. pc[r] = "commit" /\ tx[r] \in Tx /\ tx' = tx /\ remembered' = remembered
    BY <1>8 DEF Commit, PhasesAgree
  <2>2. \E what \in {"error", tx[r]} : Answer(r, what)
    BY <1>8 DEF Commit
  <2>3. QED
    BY <2>1, <2>2, <1>keep DEF Answer, Goto
<1>9. CASE PourtierRestarts
  BY <1>9 DEF PourtierRestarts, KeysFit, TypeOK
<1>10. ASSUME NEW p \in Posts, Serve(p) PROVE KeysFit'
  BY <1>10, <1>same DEF Serve, CheckStore, Reserve, Accept, Refuse, StoreResult,
     BreakPost, Running, Move
<1>11. CASE PasseurRestarts \/ UNCHANGED vars
  BY <1>11, <1>same DEF PasseurRestarts, vars
<1>12. ASSUME NEW k \in Keys, Forget(k) PROVE KeysFit'
  BY <1>12, <1>same DEF Forget, TypeOK
<1>13. ASSUME NEW t \in Tx, Expire(t) \/ Land(t) PROVE KeysFit'
  BY <1>13, <1>same DEF Expire, Land
<1>14. QED
  BY <1>1, <1>2, <1>3, <1>4, <1>5, <1>6, <1>7, <1>8, <1>9, <1>10, <1>11,
     <1>12, <1>13
  DEF Next, Handle

(* A reply is the record of a transaction of the user, the operation and   *)
(* the amount, or token, that were asked for...                            *)
THEOREM RepliesFit ==
  Spec => [](\A r \in Requests : reply[r] \in Tx => Key(reply[r]) = Key(tx[r]))
<1>1. Init => KeysFit
  BY DEF Init, KeysFit
<1>2. KeysFit => \A r \in Requests : reply[r] \in Tx => Key(reply[r]) = Key(tx[r])
  BY DEF KeysFit
<1>3. QED
  BY <1>1, <1>2, StepKeepsKeys, SoundAlways, PTL DEF Spec

(* ... hence of the request's own, if no two transactions have the same    *)
(* user, operation and amount.                                             *)
THEOREM RepliesAreOwn ==
  ASSUME \A t, u \in Tx : Key(t) = Key(u) => t = u
  PROVE  Spec => []OwnReply
<1>1. Sound /\ KeysFit => OwnReply
  <2> SUFFICES ASSUME Sound, KeysFit, NEW r \in Requests, reply[r] \in Tx
               PROVE  reply[r] = tx[r]
    BY DEF OwnReply
  <2>1. pc[r] # "idle" /\ Key(reply[r]) = Key(tx[r])
    BY DEF KeysFit
  <2>2. tx[r] \in Tx
    BY <2>1 DEF Sound, PhasesAgree
  <2>3. QED
    BY <2>1, <2>2
<1>2. Init => KeysFit
  BY DEF Init, KeysFit
<1>3. QED
  BY <1>1, <1>2, StepKeepsKeys, SoundAlways, PTL DEF Spec
-----------------------------------------------------------------------------
(* As long as nothing has gone wrong, a post that runs is awaited, and     *)
(* whoever carries an accepted transaction that is not in the books goes   *)
(* on to record it.                                                        *)
OnItsWay(r) ==
  \/ pc[r] \in {"insert", "remember", "commit"}
  \/ Waits(r, {"store", "answered"})

AllAwaited ==
  \A p \in Posts :
    post[p] \in Running => pc[p[1]] = "await" /\ attempt[p[1]] = p[2]

AllTended ==
  \A t \in Accepted \ Booked : \E r \in Requests : OnItsWay(r) /\ tx[r] = t

Tended == ~fault => AllAwaited /\ AllTended

(* A fault is never forgotten, and no row is lost.                         *)
LEMMA NothingIsLost ==
  ASSUME Sound, Truthful, [Next]_vars
  PROVE  /\ fault' = FALSE => fault = FALSE
         /\ Booked \subseteq Booked'
<1>1. fault \in BOOLEAN /\ \A r \in rows : tx'[r] = tx[r]
  BY Frame DEF Truthful, Sound, TypeOK
<1>2. (fault' = FALSE => fault = FALSE) /\ rows \subseteq rows'
  BY <1>1 DEF Next, Handle, Arrive, Lookup, AttemptFails, LookForDuplicate, Insert,
     Remember, Break, Commit, Fail, MakePost, PourtierRestarts, Serve, CheckStore,
     Reserve, Accept, Refuse, StoreResult, BreakPost, Running, Move,
     PasseurRestarts, Forget, Expire, Land, vars, database
<1>3. QED
  BY <1>1, <1>2 DEF Booked

(* Only its own handler, or a fault, stops a request from being tended.    *)
LEMMA OthersTend ==
  ASSUME Sound, NEW r \in Requests, OnItsWay(r),
         pc'[r] = pc[r], attempt'[r] = attempt[r],
         \/ post'[<<r, attempt[r]>>] = post[<<r, attempt[r]>>]
         \/ post[<<r, attempt[r]>>] = "store" /\ post'[<<r, attempt[r]>>] = "answered"
  PROVE  OnItsWay(r)'
BY DEF OnItsWay, Waits

(* A step of one handler, which ends only what is in the books.            *)
LEMMA HandlerTends ==
  ASSUME Sound, Truthful, AllTended, [Next]_vars, chain' = chain,
         NEW r \in Requests,
         \A q \in Requests \ {r} : pc'[q] = pc[q] /\ attempt'[q] = attempt[q],
         \A p \in Posts : p[1] # r => post'[p] = post[p],
         OnItsWay(r) => OnItsWay(r)' \/ tx[r] \in Booked'
  PROVE  AllTended'
<1>1. Accepted' = Accepted /\ Booked \subseteq Booked'
  BY NothingIsLost DEF Accepted
<1>2. ASSUME NEW q \in Requests, OnItsWay(q)
      PROVE  tx'[q] = tx[q] /\ (OnItsWay(q)' \/ tx[q] \in Booked')
  <2>1. tx'[q] = tx[q]
    BY <1>2, Frame DEF OnItsWay, Waits
  <2>2. CASE q = r
    BY <1>2, <2>1, <2>2
  <2>3. CASE q # r
    <3>1. CASE pc[q] = "await"
      <4>1. <<q, attempt[q]>> \in Posts
        BY <3>1 DEF Sound, TypeOK, PhasesAgree, Posts
      <4>2. QED
        BY <1>2, <2>1, <2>3, <4>1, OthersTend
    <3>2. CASE pc[q] # "await"
      BY <1>2, <2>1, <2>3, <3>2 DEF OnItsWay, Waits
    <3>3. QED
      BY <3>1, <3>2
  <2>4. QED
    BY <2>2, <2>3, <2>1
<1>3. QED
  BY <1>1, <1>2 DEF AllTended

(* A handler none of whose posts runs leaves nothing running behind it.    *)
LEMMA HandlerAwaits ==
  ASSUME Sound, AllAwaited, NEW r \in Requests,
         \A q \in Requests \ {r} : pc'[q] = pc[q] /\ attempt'[q] = attempt[q],
         \A p \in Posts : p[1] = r => post[p] \notin Running,
         post' = post
  PROVE  AllAwaited'
BY DEF AllAwaited, Posts

(* It may go on to its next post, ...                                      *)
LEMMA MakePostTends ==
  ASSUME Sound, Truthful, AllAwaited, AllTended, [Next]_vars,
         NEW r \in Requests, MakePost(r), ~OnItsWay(r), attempt[r] < MaxAttempts,
         \A p \in Posts : p[1] = r => post[p] \notin Running
  PROVE  AllAwaited' /\ AllTended'
<1>1. <<r, attempt[r] + 1>> \in Posts
  BY DEF Sound, TypeOK, Posts
<1>2. /\ attempt' = [attempt EXCEPT ![r] = @ + 1]
      /\ post' = [post EXCEPT ![<<r, attempt[r] + 1>>] = "check"]
      /\ pc' = [pc EXCEPT ![r] = "await"] /\ chain' = chain
  BY DEF MakePost, Goto
<1>3. AllAwaited'
  BY <1>1, <1>2 DEF AllAwaited, Posts, Sound, TypeOK
<1>4. \A q \in Requests \ {r} : pc'[q] = pc[q] /\ attempt'[q] = attempt[q]
  BY <1>2 DEF Sound, TypeOK
<1>5. \A p \in Posts : p[1] # r => post'[p] = post[p]
  BY <1>2 DEF Sound, TypeOK
<1>6. QED
  BY <1>2, <1>3, <1>4, <1>5, HandlerTends

(* ... or end, if what it carries is in the books.                         *)
LEMMA FailTends ==
  ASSUME Sound, Truthful, AllAwaited, AllTended, [Next]_vars,
         NEW r \in Requests, Fail(r), OnItsWay(r) => tx[r] \in Booked,
         \A p \in Posts : p[1] = r => post[p] \notin Running
  PROVE  AllAwaited' /\ AllTended'
<1>1. /\ pc' = [pc EXCEPT ![r] = "done"] /\ attempt' = attempt
      /\ post' = post /\ chain' = chain
  BY DEF Fail, Answer, Goto
<1>2. \A q \in Requests \ {r} : pc'[q] = pc[q] /\ attempt'[q] = attempt[q]
  BY <1>1 DEF Sound, TypeOK
<1>3. OnItsWay(r) => tx[r] \in Booked'
  BY NothingIsLost
<1>4. QED
  BY <1>1, <1>2, <1>3, HandlerTends, HandlerAwaits

(* A post's own step: what it sends is on its way from then on.            *)
LEMMA ServeTends ==
  ASSUME Sound, Truthful, AllAwaited, AllTended, [Next]_vars, fault' = FALSE,
         NEW p \in Posts, Serve(p)
  PROVE  AllAwaited' /\ AllTended'
<1>1. /\ post[p] \in Running /\ UNCHANGED handlers /\ rows' = rows
      /\ \A q \in Posts \ {p} : post'[q] = post[q]
      /\ post[p] = "store" => post'[p] = "answered"
      /\ Accept(p) => post'[p] = "store"
  BY DEF Serve, CheckStore, Reserve, Accept, Refuse, StoreResult, BreakPost,
     Running, Move, database, Sound, TypeOK
<1>2. AllAwaited'
  BY <1>1 DEF AllAwaited, handlers
<1>3. ASSUME NEW r \in Requests, OnItsWay(r) PROVE OnItsWay(r)'
  <2>1. CASE pc[r] = "await"
    <3>1. /\ <<r, attempt[r]>> \in Posts
          /\ post[<<r, attempt[r]>>] \in {"store", "answered"}
      BY <1>3, <2>1 DEF Sound, TypeOK, PhasesAgree, Posts, OnItsWay, Waits
    <3>2. QED
      BY <1>1, <1>3, <2>1, <3>1, OthersTend DEF handlers, Running
  <2>2. CASE pc[r] # "await"
    BY <1>1, <1>3, <2>2 DEF OnItsWay, Waits, handlers
  <2>3. QED
    BY <2>1, <2>2
<1>4. Booked' = Booked /\ tx' = tx
  BY <1>1 DEF Booked, handlers
<1>5. CASE Accept(p)
  <2>1. /\ p[1] \in Requests /\ pc[p[1]] = "await" /\ p = <<p[1], attempt[p[1]]>>
    BY <1>1 DEF AllAwaited, Posts
  <2>2. OnItsWay(p[1])'
    BY <1>1, <1>5, <2>1 DEF OnItsWay, Waits, handlers
  <2>3. Accepted' \subseteq Accepted \cup {tx[p[1]]}
    BY <1>5 DEF Accept, Accepted, Sound, TypeOK
  <2>4. QED
    BY <1>2, <1>3, <1>4, <2>1, <2>2, <2>3 DEF AllTended
<1>6. CASE ~Accept(p)
  <2>1. Accepted' = Accepted
    BY <1>6 DEF Serve, CheckStore, Reserve, Refuse, StoreResult, BreakPost, Accepted
  <2>2. QED
    BY <1>2, <1>3, <1>4, <2>1 DEF AllTended
<1>7. QED
  BY <1>5, <1>6

(* That is so whenever a handler goes on without a fault.                  *)
LEMMA HandleTends ==
  ASSUME Sound, Truthful, RowsOK, AllAwaited, AllTended, [Next]_vars,
         fault' = FALSE, NEW r \in Requests, Handle(r)
  PROVE  AllAwaited' /\ AllTended'
<1>now. fault = FALSE
  BY NothingIsLost
<1>rest. pc[r] # "await" => \A p \in Posts : p[1] = r => post[p] \notin Running
  BY DEF AllAwaited
<1>await. ASSUME NEW phases \in SUBSET {"failed", "answered"}, Waits(r, phases)
          PROVE  \A p \in Posts : p[1] = r => post[p] \notin Running
  <2>1. ASSUME NEW p \in Posts, p[1] = r, post[p] \in Running PROVE FALSE
    <3>1. p = <<r, attempt[r]>>
      BY <2>1 DEF AllAwaited, Posts
    <3>2. QED
      BY <1>await, <2>1, <3>1 DEF Waits, Running
  <2>2. QED
    BY <2>1
<1>go. ASSUME NEW phase \in Phase, Goto(r, phase), attempt' = attempt,
              post' = post, chain' = chain,
              \A p \in Posts : p[1] = r => post[p] \notin Running,
              OnItsWay(r) => phase \in {"insert", "remember", "commit"}
                               \/ tx[r] \in Booked'
       PROVE  AllAwaited' /\ AllTended'
  <2>1. /\ \A q \in Requests \ {r} : pc'[q] = pc[q] /\ attempt'[q] = attempt[q]
        /\ pc'[r] = phase
    BY <1>go DEF Goto, Sound, TypeOK
  <2>2. OnItsWay(r) => OnItsWay(r)' \/ tx[r] \in Booked'
    BY <1>go, <2>1 DEF OnItsWay
  <2>3. AllTended'
    BY <1>go, <2>1, <2>2, HandlerTends
  <2>4. QED
    BY <1>go, <2>1, <2>3, HandlerAwaits
<1>1. CASE Lookup(r)
  <2>1. pc[r] = "lookup" /\ ~OnItsWay(r) /\ attempt[r] < MaxAttempts
    BY <1>1 DEF Lookup, OnItsWay, Waits, Sound, PhasesAgree
  <2>2. CASE Fail(r) \/ MakePost(r)
    BY <2>1, <2>2, <1>rest, FailTends, MakePostTends
  <2>3. CASE ~(Fail(r) \/ MakePost(r))
    BY <1>1, <2>1, <2>3, <1>rest, <1>go DEF Lookup, Answer, Phase
  <2>4. QED
    BY <2>2, <2>3
<1>2. CASE AttemptFails(r)
  <2>1. Waits(r, {"failed"}) /\ ~OnItsWay(r)
    BY <1>2, <1>now DEF AttemptFails, OnItsWay, Waits
  <2>2. \/ AttemptsLeft(r) /\ MakePost(r)
        \/ Fail(r)
    BY <1>2 DEF AttemptFails
  <2>3. QED
    BY <2>1, <2>2, <1>await, FailTends, MakePostTends DEF AttemptsLeft
<1>3. CASE LookForDuplicate(r)
  <2>1. \A p \in Posts : p[1] = r => post[p] \notin Running
    BY <1>3, <1>await DEF LookForDuplicate
  <2>2. Recorded(tx[r]) => tx[r] \in Booked
    BY DEF Recorded, Booked
  <2>3. CASE Fail(r) /\ Recorded(tx[r])
    BY <2>1, <2>2, <2>3, FailTends
  <2>4. CASE Goto(r, "insert") /\ UNCHANGED <<attempt, post, chain>>
    BY <2>1, <2>4, <1>go DEF Phase
  <2>5. QED
    BY <1>3, <2>3, <2>4 DEF LookForDuplicate
<1>4. CASE Insert(r)
  <2>1. \A p \in Posts : p[1] = r => post[p] \notin Running
    BY <1>4, <1>rest DEF Insert
  <2>2. (\E q \in rows : tx[q] = tx[r]) => tx[r] \in Booked
    BY DEF Booked
  <2>3. CASE Fail(r) /\ \E q \in rows : tx[q] = tx[r]
    BY <2>1, <2>2, <2>3, FailTends
  <2>4. CASE Goto(r, "remember") /\ UNCHANGED <<attempt, post, chain>>
    BY <2>1, <2>4, <1>go DEF Phase
  <2>5. QED
    BY <1>4, <2>3, <2>4 DEF Insert
<1>5. CASE Remember(r)
  BY <1>5, <1>rest, <1>go DEF Remember, Phase
<1>6. CASE Commit(r)
  <2>1. /\ rows' = rows \cup {r} /\ Answer(r, tx[r]) /\ tx' = tx
        /\ UNCHANGED <<attempt, post, chain>>
    BY <1>6 DEF Commit
  <2>2. tx[r] \in Booked'
    BY <2>1 DEF Booked
  <2>3. QED
    BY <1>6, <2>1, <2>2, <1>rest, <1>go DEF Commit, Answer, Phase
<1>7. CASE Break(r)
  BY <1>7 DEF Break
<1>8. QED
  BY <1>1, <1>2, <1>3, <1>4, <1>5, <1>6, <1>7 DEF Handle

LEMMA StepKeepsTended ==
  Sound /\ Truthful /\ RowsOK /\ Tended /\ [Next]_vars => Tended'
<1> SUFFICES ASSUME Sound, Truthful, RowsOK, Tended, [Next]_vars, ~fault'
             PROVE  AllAwaited' /\ AllTended'
  BY DEF Tended
<1>now. fault' = FALSE /\ AllAwaited /\ AllTended /\ fault \in BOOLEAN
        /\ fault' \in BOOLEAN
  BY NothingIsLost, StepKeepsSound DEF Tended, Sound, TypeOK
<1>1. ASSUME NEW r \in Requests, NEW t \in Tx, Arrive(r, t)
      PROVE  AllAwaited' /\ AllTended'
  <2>1. /\ pc[r] = "idle" /\ pc' = [pc EXCEPT ![r] = "lookup"]
        /\ attempt' = attempt /\ post' = post /\ chain' = chain
    BY <1>1 DEF Arrive, Goto
  <2>2. /\ \A q \in Requests \ {r} : pc'[q] = pc[q] /\ attempt'[q] = attempt[q]
        /\ ~OnItsWay(r)
        /\ \A p \in Posts : p[1] = r => post[p] \notin Running
    BY <2>1, <1>now DEF OnItsWay, Waits, AllAwaited, Sound, TypeOK
  <2>3. QED
    BY <2>1, <2>2, <1>now, HandlerTends, HandlerAwaits
<1>2. ASSUME NEW r \in Requests, Handle(r) PROVE AllAwaited' /\ AllTended'
  BY <1>2, <1>now, HandleTends
<1>3. ASSUME NEW p \in Posts, Serve(p) PROVE AllAwaited' /\ AllTended'
  BY <1>3, <1>now, ServeTends
<1>4. CASE PourtierRestarts \/ PasseurRestarts
  BY <1>4, <1>now DEF PourtierRestarts, PasseurRestarts
<1>5. ASSUME UNCHANGED <<handlers, database, post>>, Accepted' = Accepted
      PROVE  AllAwaited' /\ AllTended'
  BY <1>5, <1>now DEF handlers, database, AllAwaited, AllTended, OnItsWay, Waits, Booked
<1>6. ASSUME NEW k \in Keys, Forget(k) PROVE AllAwaited' /\ AllTended'
  BY <1>5, <1>6 DEF Forget, Accepted
<1>7. ASSUME NEW t \in Tx, Expire(t) PROVE AllAwaited' /\ AllTended'
  BY <1>5, <1>7 DEF Expire, Accepted
<1>8. ASSUME NEW t \in Tx, Land(t) PROVE AllAwaited' /\ AllTended'
  BY <1>5, <1>8 DEF Land, Accepted, Sound, TypeOK
<1>9. CASE UNCHANGED vars
  BY <1>5, <1>9 DEF vars, Accepted
<1>10. QED
  BY <1>1, <1>2, <1>3, <1>4, <1>6, <1>7, <1>8, <1>9 DEF Next

(* However many requests carry a transaction, in whatever order they are   *)
(* handled: unless something is lost, times out, fails or restarts, what   *)
(* the chain has accepted is in the books when nobody works on it.         *)
THEOREM OrphansAlwaysHaveCause == Spec => []OrphansHaveCause
<1>1. Init => Tended
  BY DEF Init, Tended, AllAwaited, AllTended, Accepted, Running
<1>2. Tended => OrphansHaveCause
  <2> SUFFICES ASSUME Tended, ~fault, \A r \in Requests : pc[r] \in {"idle", "done"}
               PROVE  Accepted \subseteq Booked
    BY DEF OrphansHaveCause
  <2>1. \A r \in Requests : ~OnItsWay(r)
    BY DEF OnItsWay, Waits
  <2>2. QED
    BY <2>1 DEF Tended, AllTended
<1>3. QED
  BY <1>1, <1>2, StepKeepsTended, SoundAlways, TruthAlways, RowsAlways, PTL
  DEF Spec
-----------------------------------------------------------------------------
(* Who stands behind a record: the books, a handler about to commit it, or *)
(* one whose commit was lost.                                              *)
Backed(t) ==
  \/ t \in Booked \cup lost
  \/ \E q \in inserted : pc[q] = "commit" /\ tx[q] = t

AllBacked ==
  /\ \A k \in Keys : remembered[k] # None => Backed(remembered[k])
  /\ \A r \in Requests : reply[r] \in Tx => Backed(reply[r])

(* A handler about to commit does so or loses its commit, in its own step  *)
(* or in a restart; every other step leaves it where it is.                *)
LEMMA CommitsEnd ==
  ASSUME Sound, RowsOK, [Next]_vars, NEW q \in inserted, pc[q] = "commit"
  PROVE  \/ q \in inserted' /\ pc'[q] = "commit"
         \/ q \in rows' \/ tx[q] \in lost'
<1>q. q \in Requests
  BY DEF Sound, TypeOK
<1>fail. ASSUME NEW r \in Requests, Fail(r)
         PROVE  \/ q \in inserted' /\ pc'[q] = "commit"
                \/ tx[q] \in lost'
  BY <1>fail, <1>q DEF Fail, LoseCommits, Answer, Goto, Sound, TypeOK
<1>go. ASSUME NEW r \in Requests, pc[r] # "commit", NEW phase \in Phase,
              Goto(r, phase), inserted \subseteq inserted'
       PROVE  q \in inserted' /\ pc'[q] = "commit"
  BY <1>go, <1>q DEF Goto, Sound, TypeOK
<1>same. ASSUME pc' = pc, inserted' = inserted
         PROVE  q \in inserted' /\ pc'[q] = "commit"
  BY <1>same
<1>1. ASSUME NEW r \in Requests, NEW t \in Tx, Arrive(r, t)
      PROVE  q \in inserted' /\ pc'[q] = "commit"
  BY <1>1, <1>go DEF Arrive, database, Phase
<1>2. ASSUME NEW r \in Requests, Commit(r)
      PROVE  \/ q \in inserted' /\ pc'[q] = "commit"
             \/ q \in rows' \/ tx[q] \in lost'
  BY <1>2, <1>q DEF Commit, LoseCommits, Answer, Goto, Sound, TypeOK
<1>3. ASSUME NEW r \in Requests, Handle(r), ~Fail(r), ~Commit(r)
      PROVE  q \in inserted' /\ pc'[q] = "commit"
  BY <1>3, <1>go DEF Handle, Lookup, AttemptFails, Waits, LookForDuplicate,
     Insert, Remember, Break, MakePost, Answer, database, Phase
<1>4. CASE PourtierRestarts
  BY <1>4, <1>q DEF PourtierRestarts, LoseCommits
<1>5. ASSUME NEW p \in Posts, Serve(p)
      PROVE  q \in inserted' /\ pc'[q] = "commit"
  BY <1>5, <1>same DEF Serve, CheckStore, Reserve, Accept, Refuse, StoreResult,
     BreakPost, Move, handlers, database
<1>6. CASE PasseurRestarts \/ UNCHANGED vars
  BY <1>6, <1>same DEF PasseurRestarts, vars, handlers, database
<1>7. ASSUME NEW k \in Keys, Forget(k)
      PROVE  q \in inserted' /\ pc'[q] = "commit"
  BY <1>7, <1>same DEF Forget, handlers, database
<1>8. ASSUME NEW t \in Tx, Expire(t) \/ Land(t)
      PROVE  q \in inserted' /\ pc'[q] = "commit"
  BY <1>8, <1>same DEF Expire, Land, handlers, database
<1>9. QED
  BY <1>fail, <1>1, <1>2, <1>3, <1>4, <1>5, <1>6, <1>7, <1>8 DEF Next

(* What is backed stays so.                                                *)
LEMMA BackedStays ==
  ASSUME Sound, Truthful, RowsOK, [Next]_vars, NEW t, Backed(t)
  PROVE  Backed(t)'
<1>1. Booked \subseteq Booked' /\ lost \subseteq lost'
  <2>1. lost \subseteq lost'
    BY DEF Next, Handle, Arrive, Lookup, AttemptFails, LookForDuplicate, Insert,
       Remember, Break, Commit, Fail, MakePost, PourtierRestarts, LoseCommits,
       Serve, CheckStore, Reserve, Accept, Refuse, StoreResult, BreakPost, Move,
       PasseurRestarts, Forget, Expire, Land, vars
  <2>2. QED
    BY <2>1, NothingIsLost
<1>2. CASE t \in Booked \cup lost
  BY <1>1, <1>2 DEF Backed
<1>3. CASE \E q \in inserted : pc[q] = "commit" /\ tx[q] = t
  <2>1. PICK q \in inserted : pc[q] = "commit" /\ tx[q] = t
    BY <1>3
  <2>2. q \in Requests /\ tx'[q] = t
    BY <2>1, Frame DEF Sound, TypeOK
  <2>3. CASE q \in inserted' /\ pc'[q] = "commit"
    BY <2>2, <2>3 DEF Backed
  <2>4. CASE q \in rows' \/ t \in lost'
    BY <2>2, <2>4 DEF Backed, Booked
  <2>5. QED
    BY <2>1, <2>3, <2>4, CommitsEnd
<1>4. QED
  BY <1>2, <1>3 DEF Backed

(* The store hears of a row that is flushed, a client of what the store or *)
(* its own handler holds.                                                  *)
LEMMA StepKeepsBacked ==
  Sound /\ Truthful /\ RowsOK /\ AllBacked /\ [Next]_vars => AllBacked'
<1> SUFFICES ASSUME Sound, Truthful, RowsOK, AllBacked, [Next]_vars
             PROVE  AllBacked'
  OBVIOUS
<1>stays. \A t : Backed(t) => Backed(t)'
  BY BackedStays
<1>keep. ASSUME \A k \in Keys : remembered'[k] \in {remembered[k], None},
                \A r \in Requests :
                  \/ reply'[r] \in {reply[r], "error"}
                  \/ \E t \in Tx : Backed(t)' /\ reply'[r] = t
         PROVE  AllBacked'
  BY <1>keep, <1>stays DEF AllBacked
<1>fail. ASSUME NEW r \in Requests, Fail(r) PROVE AllBacked'
  BY <1>fail, <1>keep DEF Fail, Answer, Sound, TypeOK
<1>1. ASSUME NEW r \in Requests, Lookup(r) PROVE AllBacked'
  <2>1. tx[r] \in Tx /\ Key(tx[r]) \in Keys
    BY <1>1 DEF Lookup, Sound, PhasesAgree, Keys
  <2>2. CASE remembered[Key(tx[r])] # None
    <3>1. PICK t \in Tx : t = remembered[Key(tx[r])] /\ Backed(t)'
      BY <2>1, <2>2, <1>stays DEF AllBacked, Sound, TypeOK
    <3>2. remembered' = remembered /\ reply' = [reply EXCEPT ![r] = t]
      BY <1>1, <2>2, <3>1 DEF Lookup, Answer
    <3>3. QED
      BY <3>1, <3>2, <1>keep DEF Sound, TypeOK
  <2>3. CASE remembered[Key(tx[r])] = None
    BY <1>1, <2>3, <1>fail, <1>keep DEF Lookup, MakePost
  <2>4. QED
    BY <2>2, <2>3
<1>2. ASSUME NEW r \in Requests, Remember(r) PROVE AllBacked'
  <2>1. /\ remembered' = [remembered EXCEPT ![Key(tx[r])] = tx[r]]
        /\ pc' = [pc EXCEPT ![r] = "commit"] /\ tx' = tx /\ reply' = reply
        /\ inserted' = inserted /\ r \in inserted
    BY <1>2 DEF Remember, Goto, database, RowsOK
  <2>2. Backed(tx[r])'
    BY <2>1 DEF Backed, Sound, TypeOK
  <2>3. QED
    BY <2>1, <2>2, <1>stays DEF AllBacked, Sound, TypeOK
<1>3. ASSUME NEW r \in Requests, Commit(r) PROVE AllBacked'
  <2>1. r \in inserted /\ pc[r] = "commit"
    BY <1>3 DEF Commit, RowsOK
  <2>2. PICK t \in Tx : t = tx[r] /\ Backed(t)'
    BY <2>1, <1>stays DEF Backed, Sound, PhasesAgree, TypeOK
  <2>3. /\ remembered' = remembered
        /\ \E what \in {"error", t} : reply' = [reply EXCEPT ![r] = what]
    BY <1>3, <2>2 DEF Commit, Answer
  <2>4. QED
    BY <2>2, <2>3, <1>keep DEF Sound, TypeOK
<1>4. ASSUME NEW r \in Requests, Handle(r), ~Lookup(r), ~Remember(r), ~Commit(r)
      PROVE  AllBacked'
  <2>1. Fail(r) \/ (remembered' = remembered /\ reply' = reply)
    BY <1>4 DEF Handle, AttemptFails, LookForDuplicate, Insert, Break, MakePost,
       database
  <2>2. QED
    BY <2>1, <1>fail, <1>keep
<1>5. CASE PourtierRestarts
  BY <1>5, <1>keep DEF PourtierRestarts
<1>6. ASSUME NEW k \in Keys, Forget(k) PROVE AllBacked'
  BY <1>6, <1>keep DEF Forget, handlers, Sound, TypeOK
<1>7. CASE UNCHANGED <<reply, remembered>>
  BY <1>7, <1>keep
<1>8. ASSUME NEW r \in Requests, NEW t \in Tx, Arrive(r, t) PROVE AllBacked'
  BY <1>8, <1>7 DEF Arrive
<1>9. ASSUME NEW p \in Posts, Serve(p) PROVE AllBacked'
  BY <1>9, <1>7 DEF Serve, CheckStore, Reserve, Accept, Refuse, StoreResult,
     BreakPost, Move, handlers
<1>10. ASSUME NEW t \in Tx, Expire(t) \/ Land(t) PROVE AllBacked'
  BY <1>10, <1>7 DEF Expire, Land, handlers
<1>11. CASE PasseurRestarts \/ UNCHANGED vars
  BY <1>11, <1>7 DEF PasseurRestarts, vars, handlers
<1>12. QED
  BY <1>1, <1>2, <1>3, <1>4, <1>5, <1>6, <1>8, <1>9, <1>10, <1>11 DEF Next

(* However many requests are answered from the store while others insert,  *)
(* fail, restart or commit: a client holds the record of a transaction     *)
(* only if its row is committed, is about to be, or was lost in the commit *)
(* itself.                                                                 *)
THEOREM RepliesAlwaysBooked == Spec => []RepliesAreBooked
<1>1. Init => AllBacked
  BY DEF Init, AllBacked
<1>2. AllBacked => RepliesAreBooked
  BY DEF AllBacked, Backed, RepliesAreBooked
<1>3. QED
  BY <1>1, <1>2, StepKeepsBacked, SoundAlways, TruthAlways, RowsAlways, PTL
  DEF Spec
=============================================================================
