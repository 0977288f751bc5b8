--------------------------- MODULE PourtierProofs ---------------------------
(***************************************************************************)
(* What holds in Pourtier of the account of a wallet, for any number of    *)
(* requests, any documents and any lists of them; and of its queries of    *)
(* the chain.                                                              *)
(*                                                                         *)
(* The invariant says of each request what its record may be, given the    *)
(* other records (Fits). All actions but Publish put one new record in     *)
(* place of one that is not committed, so one lemma (OneMoves) carries the *)
(* invariant over a step, and an action has only to show that its record   *)
(* fits.                                                                   *)
(***************************************************************************)
EXTENDS Accounts, Queries, FiniteSetTheorems, TLAPS

ListSet(n) == {n.list[i] : i \in DOMAIN n.list}
Chosen == {"escrow", "insert", "commit", "done"}
Holding == {"write", "commit", "done"}

(* A registration's list covers what was active all along, and it writes   *)
(* the list from the front to the end.                                     *)
Covers(n) == n.list # << >> /\ n.steady \subseteq ListSet(n)

Shape(n) ==
  /\ n \in Record
  /\ n.wrote \subseteq DOMAIN n.list
  /\ n.at \in Nat \ {0}
  /\ n.kind = "create" => n.list = << >>
  /\ n.kind # "subscribe" /\ n.pc \in {"user", "docs", "insert"} =>
       n.at = 1 /\ n.wrote = {}
  /\ n.kind = "accept" /\ n.pc \in {"look", "write"} => n.at \in DOMAIN n.list
  /\ n.kind = "register" =>
       /\ n.pc \in {"insert", "write", "commit", "done"} => Covers(n)
       /\ n.pc = "write" => n.at \in DOMAIN n.list /\ n.wrote = 1..(n.at - 1)
       /\ n.pc \in {"commit", "done"} => n.wrote = DOMAIN n.list

Fits(r, n) ==
  /\ Shape(n)
  /\ n.began \subseteq Committed
  /\ n.pc \in {"user", "docs"} => n.steady \subseteq active
  /\ n.kind = "subscribe" /\ n.pc \in Chosen => n.began \cap Subscriptions \subseteq ended
  /\ n.kind = "update" /\ n.pc \in {"flush", "commit"} => n.row \in Subscriptions
  /\ n.kind \in {"register", "create"} /\ n.pc \in Holding =>
       /\ ~old
       /\ \A q \in Request \ {r} : ~(Creates(q) /\ req[q].pc \in Holding)

IInv ==
  /\ old \in BOOLEAN
  /\ active \subseteq Doc
  /\ ended \subseteq Subscriptions
  /\ req \in [Request -> Record]
  /\ \A r \in Request : Fits(r, req[r])
-----------------------------------------------------------------------------
LEMMA OneMoves ==
  ASSUME IInv, NEW r \in Request, NEW n,
         req[r].pc # "done", Fits(r, n),
         req' = [req EXCEPT ![r] = n],
         old' = old, active' = active,
         ended \subseteq ended', ended' \subseteq Subscriptions
  PROVE  IInv'
<1>1. req'[r] = n /\ \A q \in Request \ {r} : req'[q] = req[q]
  BY DEF IInv
<1>2. Committed \subseteq Committed' /\ Subscriptions \subseteq Subscriptions'
  BY <1>1 DEF Committed, Subscriptions
<1>3. Committed' \subseteq Committed \cup {r} /\ Subscriptions' \subseteq Subscriptions \cup {r}
  BY <1>1 DEF Committed, Subscriptions
<1>4. r \notin Committed
  BY DEF Committed
<1>5. ASSUME NEW q \in Request PROVE Fits(q, req[q])'
  <2>1. CASE q = r
    <3>1. r \notin n.began /\ n.began \subseteq Committed
      BY <1>4 DEF Fits
    <3>2. n.began \cap Subscriptions' \subseteq n.began \cap Subscriptions
      BY <3>1, <1>3
    <3> QED
      BY <2>1, <3>1, <3>2, <1>1, <1>2 DEF Fits, Creates
  <2>2. CASE q # r
    <3>1. Fits(q, req[q]) /\ req'[q] = req[q]
      BY <2>2, <1>1 DEF IInv
    <3>2. req[q].began \cap Subscriptions' \subseteq req[q].began \cap Subscriptions
      BY <3>1, <1>3, <1>4 DEF Fits
    <3>3. ASSUME Creates(q), req[q].pc \in Holding
          PROVE  ~(n.kind \in {"register", "create"} /\ n.pc \in Holding)
      BY <3>3, <2>2 DEF Fits
    <3> QED
      BY <3>1, <3>2, <3>3, <1>1, <1>2, <2>2 DEF Fits, Creates
  <2> QED
    BY <2>1, <2>2
<1>6. n \in Record
  BY DEF Fits, Shape
<1> QED
  BY <1>2, <1>5, <1>6 DEF IInv

(* Most queries only go on to the next one, or raise.                      *)
LEMMA AbortMoves ==
  ASSUME IInv, NEW r \in Request, req[r].pc # "done", Abort(r)
  PROVE  IInv'
<1> DEFINE n == Empty(req[r].kind, "failed")
<1>1. req[r] \in Record
  BY DEF IInv
<1>2. n \in Record
  BY <1>1 DEF Record, Empty, Place, NoRow
<1>3. Fits(r, n)
  BY <1>2 DEF Fits, Shape, Empty, Chosen, Holding
<1>4. req' = [req EXCEPT ![r] = n]
  BY <1>1 DEF Abort, IInv
<1> QED
  BY <1>3, <1>4, OneMoves DEF Abort, IInv

LEMMA GotoMoves ==
  ASSUME IInv, NEW r \in Request, NEW p \in Place, req[r].pc # "done", Goto(r, p),
         Fits(r, [req[r] EXCEPT !.pc = p])
  PROVE  IInv'
<1>1. req' = [req EXCEPT ![r] = [req[r] EXCEPT !.pc = p]]
  BY DEF Goto, IInv
<1> QED
  BY <1>1, OneMoves DEF Goto, IInv

THEOREM InitInv == ASSUME Init PROVE IInv
<1>1. ASSUME NEW r \in Request PROVE req[r] = Empty("check", "unsent")
  BY DEF Init
<1>2. Empty("check", "unsent") \in Record
  BY DEF Record, Empty, Place, Kind, NoRow
<1>3. req \in [Request -> Record]
  BY <1>2 DEF Init
<1>4. ASSUME NEW r \in Request PROVE Fits(r, req[r])
  BY <1>1, <1>2 DEF Fits, Shape, Empty, Chosen, Holding
<1> QED
  BY <1>3, <1>4 DEF Init, IInv

LEMMA SendKeeps ==
  ASSUME IInv, NEW k \in Kind, NEW l \in Lists, Send(k, l)
  PROVE  IInv'
<1>1. PICK r \in Request :
        /\ req[r].pc = "unsent"
        /\ k \notin {"register", "accept"} => l = << >>
        /\ req' = [req EXCEPT ![r] = [Empty(k, "user") EXCEPT
             !.list = l,
             !.began = IF k \in {"update", "create"} THEN {} ELSE Committed,
             !.steady = IF k \in {"register", "check"} THEN active ELSE {}]]
        /\ UNCHANGED <<old, active, ended>>
  BY DEF Send
<1> DEFINE n == [Empty(k, "user") EXCEPT
             !.list = l,
             !.began = IF k \in {"update", "create"} THEN {} ELSE Committed,
             !.steady = IF k \in {"register", "check"} THEN active ELSE {}]
<1>2. n \in Record
  BY DEF Record, Empty, Place, Kind, NoRow, Committed, IInv
<1>3. /\ n.kind = k /\ n.pc = "user" /\ n.list = l /\ n.at = 1 /\ n.wrote = {}
      /\ n.began \subseteq Committed
  BY DEF Empty
<1>4. Fits(r, n)
  BY <1>1, <1>2, <1>3 DEF Fits, Shape, Chosen, Holding
<1> QED
  BY <1>1, <1>4, OneMoves DEF IInv

LEMMA PublishKeeps ==
  ASSUME IInv, NEW docs \in SUBSET Doc, Publish(docs)
  PROVE  IInv'
<1>1. ASSUME NEW r \in Request
      PROVE  /\ req'[r] \in Record
             /\ req'[r].steady \subseteq req[r].steady
             /\ req'[r].kind = req[r].kind
             /\ req'[r].pc = req[r].pc
             /\ req'[r].list = req[r].list
             /\ req'[r].at = req[r].at
             /\ req'[r].wrote = req[r].wrote
             /\ req'[r].row = req[r].row
             /\ req'[r].began = req[r].began
             /\ r \in Running => req'[r].steady \subseteq docs
  <2>1. req[r] \in Record
    BY DEF IInv
  <2>2. CASE r \in Running
    <3>1. req'[r] = [req[r] EXCEPT !.steady = @ \cap docs]
      BY <2>2 DEF Publish
    <3> QED
      BY <2>1, <3>1 DEF Record
  <2>3. CASE r \notin Running
    <3>1. req'[r] = req[r]
      BY <2>3 DEF Publish
    <3> QED
      BY <2>1, <2>3, <3>1
  <2> QED
    BY <2>2, <2>3
<1>2. Committed' = Committed /\ Subscriptions' = Subscriptions
  BY <1>1 DEF Committed, Subscriptions
<1>3. ASSUME NEW r \in Request PROVE Fits(r, req[r])'
  <2>1. Fits(r, req[r])
    BY DEF IInv
  <2>2. Shape(req[r])'
    BY <1>1, <2>1 DEF Fits, Shape, Covers, ListSet
  <2>3. req[r].pc \in {"user", "docs"} => req'[r].steady \subseteq docs
    BY <1>1 DEF Running
  <2> QED
    BY <1>1, <1>2, <2>1, <2>2, <2>3 DEF Fits, Creates, Publish
<1>4. req' \in [Request -> Record]
  BY <1>1 DEF Publish
<1> QED
  BY <1>2, <1>3, <1>4 DEF IInv, Publish

LEMMA GotoFields ==
  ASSUME IInv, NEW r \in Request, NEW p \in Place, NEW n,
         n = [req[r] EXCEPT !.pc = p]
  PROVE  /\ n \in Record /\ n.pc = p
         /\ n.kind = req[r].kind /\ n.list = req[r].list /\ n.at = req[r].at
         /\ n.wrote = req[r].wrote /\ n.began = req[r].began
         /\ n.steady = req[r].steady /\ n.row = req[r].row
BY DEF IInv, Record

(* The new records of the queries.                                         *)
LEMMA FindUserKeeps ==
  ASSUME IInv, NEW r \in Request, FindUser(r)
  PROVE  IInv'
<1>1. /\ req[r] \in Record /\ req[r].pc = "user" /\ Fits(r, req[r])
      /\ Goto(r, AfterUser(r)) \/ Abort(r)
  BY DEF FindUser, At, IInv
<1>2. CASE Abort(r)
  BY <1>1, <1>2, AbortMoves
<1>3. CASE Goto(r, AfterUser(r))
  <2> DEFINE p == AfterUser(r)
  <2>1. /\ p \in {"docs", "insert", "commit", "look", "row"}
        /\ p = "docs" => req[r].kind \in {"register", "check"}
        /\ p = "insert" => req[r].kind = "create"
        /\ p = "commit" => req[r].kind = "accept"
        /\ p = "look" => req[r].kind = "accept" /\ req[r].list # << >>
        /\ p = "row" => req[r].kind \in {"subscribe", "update"}
    BY <1>1 DEF AfterUser, Record, Kind
  <2>2. req[r].list # << >> => 1 \in DOMAIN req[r].list
    BY <1>1, AccountsAssumption DEF Record
  <2>3. p \in Place
    BY <2>1 DEF Place
  <2>4. Fits(r, [req[r] EXCEPT !.pc = p])
    <3> DEFINE n == [req[r] EXCEPT !.pc = p]
    <3> HIDE DEF p
    <3>1. /\ n \in Record /\ n.pc = p
          /\ n.kind = req[r].kind /\ n.list = req[r].list /\ n.at = req[r].at
          /\ n.wrote = req[r].wrote /\ n.began = req[r].began
          /\ n.steady = req[r].steady /\ n.row = req[r].row
      BY <2>3, GotoFields
    <3>2. Shape(n)
      BY <1>1, <2>1, <2>2, <3>1 DEF Fits, Shape
    <3> QED
      BY <1>1, <2>1, <3>1, <3>2 DEF Fits, Chosen, Holding
  <2> QED
    BY <1>1, <1>3, <2>1, <2>4, GotoMoves DEF Place
<1> QED
  BY <1>1, <1>2, <1>3

LEMMA CompareDocsKeeps ==
  ASSUME IInv, NEW r \in Request, CompareDocs(r)
  PROVE  IInv'
<1>1. req[r].pc = "docs" /\ req[r].kind = "register" /\ Fits(r, req[r])
  BY DEF CompareDocs, At, IInv
<1>2. CASE Abort(r)
  BY <1>1, <1>2, AbortMoves
<1>3. CASE active # {} /\ AcceptsActive(r) /\ Goto(r, "insert")
  <2> DEFINE n == [req[r] EXCEPT !.pc = "insert"]
  <2>1. /\ n \in Record /\ n.pc = "insert"
        /\ n.kind = req[r].kind /\ n.list = req[r].list /\ n.at = req[r].at
        /\ n.wrote = req[r].wrote /\ n.began = req[r].began
        /\ n.steady = req[r].steady /\ n.row = req[r].row
    BY GotoFields DEF Place
  <2>2. Covers(n)
    <3>1. n.steady \subseteq active /\ active \subseteq ListSet(n) /\ active # {}
      BY <1>1, <1>3, <2>1 DEF Fits, AcceptsActive, ListSet
    <3>2. n.list # << >>
      BY <3>1 DEF ListSet
    <3> QED
      BY <3>1, <3>2 DEF Covers
  <2>3. Fits(r, n)
    BY <1>1, <2>1, <2>2 DEF Fits, Shape, Chosen, Holding
  <2> QED
    BY <1>1, <1>3, <2>3, GotoMoves DEF Place
<1> QED
  BY <1>2, <1>3 DEF CompareDocs

LEMMA CheckKeeps ==
  ASSUME IInv, NEW r \in Request, ReadDocs(r) \/ ReadAcceptances(r)
  PROVE  IInv'
<1>1. /\ req[r].pc \in {"docs", "look"} /\ req[r].kind = "check"
      /\ req[r] \in Record /\ Fits(r, req[r])
  BY DEF ReadDocs, ReadAcceptances, At, IInv
<1>2. PICK p \in {"look", "done"}, docs \in SUBSET Doc :
        /\ req' = [req EXCEPT ![r] = [req[r] EXCEPT !.pc = p, !.pending = docs]]
        /\ UNCHANGED <<old, active, ended>>
  <2>1. CASE ReadDocs(r)
    BY <2>1 DEF ReadDocs, IInv
  <2>2. CASE ReadAcceptances(r)
    <3>1. req[r].pending \ AcceptedSoFar \in SUBSET Doc
      BY <1>1 DEF Record
    <3>2. /\ req' = [req EXCEPT ![r] = [req[r] EXCEPT !.pc = "done",
                        !.pending = req[r].pending \ AcceptedSoFar]]
          /\ UNCHANGED <<old, active, ended>>
      BY <2>2 DEF ReadAcceptances, IInv
    <3> HIDE DEF AcceptedSoFar
    <3> QED
      BY <3>1, <3>2
  <2> QED
    BY <2>1, <2>2
<1> DEFINE n == [req[r] EXCEPT !.pc = p, !.pending = docs]
<1>3. /\ n \in Record /\ n.pc = p
      /\ n.kind = req[r].kind /\ n.list = req[r].list /\ n.at = req[r].at
      /\ n.wrote = req[r].wrote /\ n.began = req[r].began
  BY <1>1 DEF Record, Place
<1>4. Fits(r, n)
  BY <1>1, <1>3 DEF Fits, Shape
<1> QED
  BY <1>1, <1>2, <1>4, OneMoves DEF IInv

LEMMA InsertUserKeeps ==
  ASSUME IInv, NEW r \in Request, InsertUser(r)
  PROVE  IInv'
<1>1. /\ req[r].pc = "insert" /\ req[r].kind \in {"register", "create"}
      /\ req[r] \in Record /\ Fits(r, req[r])
  BY DEF InsertUser, At, IInv
<1>2. CASE Abort(r)
  BY <1>1, <1>2, AbortMoves
<1>3. CASE /\ ~UserExists /\ ~Waits(r)
           /\ Goto(r, IF req[r].list = << >> THEN "commit" ELSE "write")
  <2>1. ~old /\ \A q \in Request \ {r} : ~(Creates(q) /\ req[q].pc \in Holding)
    BY <1>1, <1>3 DEF UserExists, Creators, Committed, Waits, Blocks, At, HoldsWallet,
                      Creates, Holding
  <2> DEFINE p == IF req[r].list = << >> THEN "commit" ELSE "write"
             n == [req[r] EXCEPT !.pc = p]
  <2>2. p \in {"commit", "write"} /\ p \in Place
    BY DEF Place
  <2>3. /\ n \in Record /\ n.pc = p
        /\ n.kind = req[r].kind /\ n.list = req[r].list /\ n.at = req[r].at
        /\ n.wrote = req[r].wrote /\ n.began = req[r].began
        /\ n.steady = req[r].steady /\ n.row = req[r].row
    BY <2>2, GotoFields
  <2>4. /\ req[r].kind = "register" => Covers(req[r]) /\ p = "write"
        /\ req[r].kind = "create" => req[r].list = << >> /\ p = "commit"
    BY <1>1 DEF Fits, Shape, Covers
  <2>5. req[r].list # << >> => 1 \in DOMAIN req[r].list
    BY <1>1, AccountsAssumption DEF Record
  <2> HIDE DEF n, p
  <2>6. Shape(n)
    <3>1. Shape(req[r]) /\ req[r].at = 1 /\ req[r].wrote = {}
      BY <1>1 DEF Fits, Shape
    <3>2. {} = 1..(1 - 1)
      OBVIOUS
    <3>3. CASE req[r].kind = "register"
      <4>1. Covers(n) /\ n.at \in DOMAIN n.list /\ n.wrote = 1..(n.at - 1) /\ n.pc = "write"
        BY <2>3, <2>4, <2>5, <3>1, <3>2, <3>3 DEF Covers, ListSet
      <4> QED
        BY <2>3, <3>1, <3>3, <4>1 DEF Shape
    <3>4. CASE req[r].kind = "create"
      BY <2>3, <2>4, <3>1, <3>4 DEF Shape
    <3> QED
      BY <1>1, <3>3, <3>4
  <2>7. Fits(r, n)
    BY <1>1, <2>1, <2>2, <2>3, <2>6 DEF Fits
  <2> QED
    BY <1>1, <1>3, <2>2, <2>7, GotoMoves DEF n, p
<1> QED
  BY <1>2, <1>3 DEF InsertUser

(* A step through the list, of a request that has not come to its end.     *)
LEMMA OnwardsKeeps ==
  ASSUME IInv, NEW r \in Request, NEW p \in {"look", "write"}, NEW w \in SUBSET {req[r].at},
         Onwards(r, p, w),
         req[r].pc \in {"look", "write"},
         \/ req[r].kind = "accept" /\ p = "look"
         \/ req[r].kind = "register" /\ req[r].pc = "write" /\ p = "write" /\ w = {req[r].at}
  PROVE  IInv'
<1>1. req[r] \in Record /\ Fits(r, req[r])
  BY DEF IInv
<1> DEFINE a == req[r].at
           x == IF a = Len(req[r].list) THEN "commit" ELSE p
           n == [req[r] EXCEPT !.at = a + 1, !.wrote = @ \cup w, !.pc = x]
<1>2. req' = [req EXCEPT ![r] = n] /\ UNCHANGED <<old, active, ended>>
  BY DEF Onwards, IInv
<1>3. req[r].list \in Seq(Doc) /\ a \in DOMAIN req[r].list
  BY <1>1, AccountsAssumption DEF Record, Fits, Shape
<1>4. a \in 1..Len(req[r].list) /\ DOMAIN req[r].list = 1..Len(req[r].list)
      /\ Len(req[r].list) \in Nat
  BY <1>3
<1>5. x \in {p, "commit"} /\ (x = "commit" <=> a = Len(req[r].list))
  OBVIOUS
<1>6. x \in Place /\ a + 1 \in Nat /\ req[r].wrote \cup w \in SUBSET Nat
  BY <1>1, <1>4, <1>5 DEF Record, Place
<1>7. /\ n \in Record /\ n.pc = x /\ n.at = a + 1 /\ n.wrote = req[r].wrote \cup w
      /\ n.kind = req[r].kind /\ n.list = req[r].list
      /\ n.began = req[r].began /\ n.steady = req[r].steady
  <2> HIDE DEF x, a
  <2> QED
    BY <1>1, <1>6 DEF Record
<1> HIDE DEF n, x, a
<1>8. w \subseteq {a} /\ (req[r].kind = "register" => w = {a} /\ p = "write")
  BY DEF a
<1>9. n.wrote \subseteq DOMAIN n.list /\ n.at \in Nat \ {0}
  BY <1>1, <1>3, <1>4, <1>7, <1>8 DEF Fits, Shape
<1>10. x \in {"look", "write"} => n.at \in DOMAIN n.list
  BY <1>4, <1>5, <1>7
<1>11. ASSUME req[r].kind = "register"
       PROVE  /\ Covers(n)
              /\ n.wrote = 1..(n.at - 1)
              /\ x = "commit" => n.wrote = DOMAIN n.list
  <2>1. req[r].pc = "write" /\ req[r].wrote = 1..(a - 1) /\ Covers(req[r])
    BY <1>1, <1>11 DEF Fits, Shape, a
  <2>2. n.wrote = 1..a
    BY <2>1, <1>4, <1>7, <1>8, <1>11
  <2> QED
    BY <2>1, <2>2, <1>4, <1>5, <1>7 DEF Covers, ListSet
<1>12. Shape(n)
  BY <1>5, <1>7, <1>8, <1>9, <1>10, <1>11 DEF Shape
<1>13. Fits(r, n)
  BY <1>1, <1>5, <1>7, <1>12 DEF Fits, Holding
<1> QED
  BY <1>2, <1>13, OneMoves DEF IInv

LEMMA AcceptanceKeeps ==
  ASSUME IInv, NEW r \in Request, LookForAcceptance(r) \/ InsertAcceptance(r)
  PROVE  IInv'
<1>1. req[r] \in Record /\ Fits(r, req[r])
  BY DEF IInv
<1>2. CASE LookForAcceptance(r)
  <2>1. req[r].pc = "look" /\ req[r].kind = "accept"
    BY <1>2 DEF LookForAcceptance, At
  <2>2. Goto(r, "write") \/ Onwards(r, "look", {}) \/ Abort(r)
    BY <1>2 DEF LookForAcceptance
  <2>3. CASE Goto(r, "write")
    <3> DEFINE n == [req[r] EXCEPT !.pc = "write"]
    <3>1. /\ n \in Record /\ n.pc = "write"
          /\ n.kind = req[r].kind /\ n.list = req[r].list /\ n.at = req[r].at
          /\ n.wrote = req[r].wrote /\ n.began = req[r].began
          /\ n.steady = req[r].steady /\ n.row = req[r].row
      BY GotoFields DEF Place
    <3>2. Fits(r, n)
      BY <1>1, <2>1, <3>1 DEF Fits, Shape
    <3> QED
      BY <2>1, <2>3, <3>2, GotoMoves DEF Place
  <2>4. CASE Onwards(r, "look", {})
    BY <2>1, <2>4, OnwardsKeeps
  <2> QED
    BY <2>1, <2>2, <2>3, <2>4, AbortMoves
<1>3. CASE InsertAcceptance(r)
  BY <1>3, OnwardsKeeps DEF InsertAcceptance, At
<1> QED
  BY <1>2, <1>3

LEMMA SubscribeKeeps ==
  ASSUME IInv, NEW r \in Request,
         LookForSubscription(r) \/ QueryEscrow(r) \/ InsertSubscription(r)
  PROVE  IInv'
<1>1. /\ req[r].kind = "subscribe" /\ req[r].pc \in {"row", "escrow", "insert"}
      /\ req[r] \in Record /\ Fits(r, req[r])
  BY DEF LookForSubscription, QueryEscrow, InsertSubscription, At, IInv
<1>2. CASE Abort(r)
  BY <1>1, <1>2, AbortMoves
<1>3. ASSUME NEW p \in {"escrow", "insert", "commit"}, Goto(r, p),
             req[r].pc \in Chosen \/ Subscriptions \subseteq ended
      PROVE  IInv'
  <2> DEFINE n == [req[r] EXCEPT !.pc = p]
  <2>1. /\ n \in Record /\ n.pc = p
        /\ n.kind = req[r].kind /\ n.list = req[r].list /\ n.at = req[r].at
        /\ n.wrote = req[r].wrote /\ n.began = req[r].began
        /\ n.steady = req[r].steady /\ n.row = req[r].row
    BY GotoFields DEF Place
  <2>2. n.began \cap Subscriptions \subseteq ended
    BY <1>1, <1>3, <2>1 DEF Fits
  <2>3. Fits(r, n)
    BY <1>1, <2>1, <2>2 DEF Fits, Shape
  <2> QED
    BY <1>1, <1>3, <2>3, GotoMoves DEF Place
<1>4. CASE LookForSubscription(r)
  BY <1>2, <1>3, <1>4 DEF LookForSubscription, MaySubscribe
<1>5. CASE QueryEscrow(r)
  BY <1>2, <1>3, <1>5 DEF QueryEscrow, At, Chosen
<1>6. CASE InsertSubscription(r)
  BY <1>3, <1>6 DEF InsertSubscription, At, Chosen
<1> QED
  BY <1>4, <1>5, <1>6

LEMMA UpdateKeeps ==
  ASSUME IInv, NEW r \in Request, LoadSubscription(r) \/ FlushUpdate(r)
  PROVE  IInv'
<1>1. /\ req[r].kind = "update" /\ req[r].pc \in {"row", "flush"}
      /\ req[r] \in Record /\ Fits(r, req[r])
  BY DEF LoadSubscription, FlushUpdate, At, IInv
<1>2. CASE Abort(r)
  BY <1>1, <1>2, AbortMoves
<1>3. ASSUME NEW q \in Subscriptions,
             req' = [req EXCEPT ![r].pc = "flush", ![r].row = q],
             UNCHANGED <<old, active, ended>>
      PROVE  IInv'
  <2> DEFINE n == [req[r] EXCEPT !.pc = "flush", !.row = q]
  <2>1. q \in Request
    BY DEF Subscriptions, Committed
  <2>2. /\ n \in Record /\ n.pc = "flush" /\ n.row = q
        /\ n.kind = req[r].kind /\ n.list = req[r].list /\ n.at = req[r].at
        /\ n.wrote = req[r].wrote /\ n.began = req[r].began
    BY <1>1, <2>1 DEF Record, Place
  <2>3. Fits(r, n)
    BY <1>1, <2>2 DEF Fits, Shape
  <2>4. req' = [req EXCEPT ![r] = n]
    BY <1>3 DEF IInv
  <2> QED
    BY <1>1, <1>3, <2>3, <2>4, OneMoves DEF IInv
<1>4. CASE FlushUpdate(r)
  <2> DEFINE n == [req[r] EXCEPT !.pc = "commit"]
  <2>1. /\ n \in Record /\ n.pc = "commit"
        /\ n.kind = req[r].kind /\ n.list = req[r].list /\ n.at = req[r].at
        /\ n.wrote = req[r].wrote /\ n.began = req[r].began
        /\ n.steady = req[r].steady /\ n.row = req[r].row
    BY GotoFields DEF Place
  <2>2. req[r].pc = "flush" /\ Goto(r, "commit")
    BY <1>4 DEF FlushUpdate, At
  <2>3. Fits(r, n)
    BY <1>1, <2>1, <2>2 DEF Fits, Shape
  <2> QED
    BY <2>2, <2>3, GotoMoves DEF Place
<1>5. CASE LoadSubscription(r)
  BY <1>2, <1>3, <1>5 DEF LoadSubscription, Changeable
<1> QED
  BY <1>4, <1>5

LEMMA CommitKeeps ==
  ASSUME IInv, NEW r \in Request, Commit(r)
  PROVE  IInv'
<1>1. req[r].pc = "commit" /\ req[r] \in Record /\ Fits(r, req[r])
  BY DEF Commit, At, IInv
<1> DEFINE n == [req[r] EXCEPT !.pc = "done"]
<1>2. /\ n \in Record /\ n.pc = "done"
      /\ n.kind = req[r].kind /\ n.list = req[r].list /\ n.at = req[r].at
      /\ n.wrote = req[r].wrote /\ n.began = req[r].began
      /\ n.steady = req[r].steady /\ n.row = req[r].row
  BY GotoFields DEF Place
<1>3. Fits(r, n)
  BY <1>1, <1>2 DEF Fits, Shape, Chosen, Holding, Covers, ListSet
<1>4. req' = [req EXCEPT ![r] = n] /\ old' = old /\ active' = active
  BY DEF Commit, IInv
<1>5. ended \subseteq ended' /\ ended' \subseteq Subscriptions
  BY <1>1 DEF Commit, Fits, IInv
<1> QED
  BY <1>1, <1>3, <1>4, <1>5, OneMoves

THEOREM NextInv == ASSUME IInv, [Next]_vars PROVE IInv'
<1>1. CASE UNCHANGED vars
  BY <1>1 DEF vars, IInv, Fits, Committed, Subscriptions, Creates
<1>2. ASSUME NEW k \in Kind, NEW l \in Lists, Send(k, l) PROVE IInv'
  BY <1>2, SendKeeps
<1>3. ASSUME NEW docs \in SUBSET Doc, Publish(docs) PROVE IInv'
  BY <1>3, PublishKeeps
<1>4. ASSUME NEW r \in Request, Query(r) PROVE IInv'
  <2>1. CASE FindUser(r)
    BY <2>1, FindUserKeeps
  <2>2. CASE CompareDocs(r)
    BY <2>2, CompareDocsKeeps
  <2>3. CASE ReadDocs(r) \/ ReadAcceptances(r)
    BY <2>3, CheckKeeps
  <2>4. CASE InsertUser(r)
    BY <2>4, InsertUserKeeps
  <2>5. CASE LookForAcceptance(r) \/ InsertAcceptance(r)
    BY <2>5, AcceptanceKeeps
  <2>6. CASE LookForSubscription(r) \/ QueryEscrow(r) \/ InsertSubscription(r)
    BY <2>6, SubscribeKeeps
  <2>7. CASE LoadSubscription(r) \/ FlushUpdate(r)
    BY <2>7, UpdateKeeps
  <2>8. CASE Commit(r)
    BY <2>8, CommitKeeps
  <2> QED
    BY <1>4, <2>1, <2>2, <2>3, <2>4, <2>5, <2>6, <2>7, <2>8 DEF Query
<1>5. ASSUME NEW r \in Request, Fail(r) PROVE IInv'
  BY <1>5, AbortMoves DEF Fail, Running
<1> QED
  BY <1>1, <1>2, <1>3, <1>4, <1>5 DEF Next

(* The records of an account always fit one another.                       *)
THEOREM AccountKept == Spec => []IInv
BY InitInv, NextInv, PTL DEF Spec
-----------------------------------------------------------------------------
(* The queries of any number of requests keep to their types; in           *)
(* particular only committed subscriptions are ever cancelled.             *)
THEOREM AccountTypes == Spec => []TypeOK
<1>1. IInv => TypeOK
  BY DEF IInv, TypeOK, Fits, Shape
<1> QED
  BY <1>1, AccountKept, PTL

(* Two active subscriptions of one user were created at the same time, for *)
(* any number of requests: whoever finds one that was there refuses.       *)
THEOREM DoublesOverlap == Spec => []DoublesHaveCause
<1>1. ASSUME IInv PROVE DoublesHaveCause
  <2>1. ASSUME NEW r \in Subscriptions, NEW q \in Subscriptions,
               r \notin ended, q \notin ended
        PROVE  Overlapped(r, q)
    <3>1. /\ r \in Request /\ q \in Request
          /\ req[r].kind = "subscribe" /\ req[r].pc \in Chosen
          /\ req[q].kind = "subscribe" /\ req[q].pc \in Chosen
      BY DEF Subscriptions, Committed, Chosen
    <3>2. /\ req[r].began \cap Subscriptions \subseteq ended
          /\ req[q].began \cap Subscriptions \subseteq ended
      BY <1>1, <3>1 DEF IInv, Fits
    <3> QED
      BY <2>1, <3>2 DEF Overlapped
  <2> QED
    BY <2>1 DEF DoublesHaveCause
<1> QED
  BY <1>1, AccountKept, PTL

(* A wallet has one account, and an account created with documents has     *)
(* accepted all that was in force, whatever documents there are and        *)
(* however they are published meanwhile.                                   *)
THEOREM AccountIsWhole == Spec => []AccountWhole
<1>1. ASSUME IInv PROVE AccountWhole
  <2>1. ASSUME NEW r \in Creators
        PROVE  /\ r \in Request /\ Fits(r, req[r]) /\ req[r].pc = "done"
               /\ req[r].kind \in {"register", "create"} /\ req[r].pc \in Holding
    BY <1>1 DEF Creators, Committed, Creates, IInv, Holding
  <2>2. ASSUME NEW r \in Creators, NEW q \in Creators PROVE r = q /\ ~old
    <3>1. Creates(q) /\ req[q].pc \in Holding /\ q \in Request
      BY <2>1 DEF Creates
    <3>2. ~old /\ \A x \in Request \ {r} : ~(Creates(x) /\ req[x].pc \in Holding)
      BY <2>1 DEF Fits
    <3> QED
      BY <3>1, <3>2
  <2>3. ASSUME NEW r \in Creators, req[r].kind = "register"
        PROVE  req[r].steady \subseteq AcceptedBy({r})
    <3>1. req[r].steady \subseteq ListSet(req[r]) /\ req[r].wrote = DOMAIN req[r].list
      BY <2>1, <2>3 DEF Fits, Shape, Covers
    <3>2. ASSUME NEW i \in req[r].wrote PROVE req[r].list[i] \in AcceptedBy({r})
      <4>1. <<r, i>> \in Rows({r})
        BY DEF Rows
      <4>2. DocOf(<<r, i>>) = req[r].list[i]
        BY DEF DocOf
      <4> QED
        BY <4>1, <4>2 DEF AcceptedBy
    <3> QED
      BY <3>1, <3>2 DEF ListSet
  <2> QED
    BY <2>2, <2>3 DEF AccountWhole
<1> QED
  BY <1>1, AccountKept, PTL
-----------------------------------------------------------------------------
(***************************************************************************)
(* What a request has read, and what was accepted.                         *)
(*                                                                         *)
(* A committed request never changes, so that what was found of it stays   *)
(* true while others move on (KnowledgeStays); what is about requests that *)
(* were not committed yet, the invariant does not claim.                   *)
(***************************************************************************)
Accepts(n, d) == \E i \in n.wrote : n.list[i] = d

(* The places of its list for which an accepting request has inserted, or  *)
(* is about to insert, an acceptance.                                      *)
Places(n) == IF n.pc = "write" THEN n.wrote \cup {n.at} ELSE n.wrote

Before == {"unsent", "user", "failed"}

(* What a check asks for is not yet accepted, and what it leaves out is.   *)
AsksRight(n) ==
  /\ n.pc # "commit"
  /\ n.pc = "look" => n.steady \subseteq n.pending
  /\ n.pc = "done" =>
       /\ \A d \in n.steady \ n.pending : \E q \in Committed : Accepts(req[q], d)
       /\ \A d \in n.pending, q \in n.began : ~Accepts(req[q], d)

(* What a request accepts, it has not accepted yet, and nobody had that    *)
(* was committed when it was sent.                                         *)
AcceptsNew(n) ==
  /\ n.pc \notin Before => UserExists
  /\ \A i, j \in Places(n) : i # j => n.list[i] # n.list[j]
  /\ \A i \in Places(n), q \in n.began : ~Accepts(req[q], n.list[i])

(* Nobody accepted anything before the account was created.                *)
IsFirst(n) == n.pc \notin Before => \A q \in n.began : req[q].kind # "accept"

Knows(n) ==
  /\ n.kind \notin {"register", "accept"} => n.wrote = {}
  /\ n.kind = "check" => AsksRight(n)
  /\ n.kind = "accept" => AcceptsNew(n)
  /\ n.kind = "register" => IsFirst(n)

KInv == \A r \in Request : Knows(req[r])
-----------------------------------------------------------------------------
(* AcceptedBy, by the records of the requests.                             *)
LEMMA AcceptedMeans ==
  ASSUME NEW R
  PROVE  \A d : d \in AcceptedBy(R) <=> \E q \in R : Accepts(req[q], d)
<1>1. ASSUME NEW d, d \in AcceptedBy(R)
      PROVE  \E q \in R : Accepts(req[q], d)
  <2>1. PICK x \in Rows(R) : d = req[x[1]].list[x[2]]
    BY <1>1 DEF AcceptedBy, DocOf
  <2>2. PICK q \in R : x \in {q} \X req[q].wrote
    BY <2>1 DEF Rows
  <2>3. x[1] = q /\ x[2] \in req[q].wrote
    BY <2>2
  <2> QED
    BY <2>1, <2>3 DEF Accepts
<1>2. ASSUME NEW d, NEW q \in R, Accepts(req[q], d)
      PROVE  d \in AcceptedBy(R)
  <2>1. PICK i \in req[q].wrote : req[q].list[i] = d
    BY <1>2 DEF Accepts
  <2>2. <<q, i>> \in Rows(R)
    BY <2>1 DEF Rows
  <2>3. DocOf(<<q, i>>) = d
    BY <2>1 DEF DocOf
  <2> QED
    BY <2>2, <2>3 DEF AcceptedBy
<1> QED
  BY <1>1, <1>2

(* What a request knows stays true while others move on.                   *)
LEMMA KnowledgeStays ==
  ASSUME IInv, KInv, NEW r \in Request, NEW n,
         req[r].pc # "done", n.began \subseteq Committed, Knows(n),
         req' = [req EXCEPT ![r] = n], old' = old
  PROVE  KInv'
<1>1. req'[r] = n /\ \A q \in Request \ {r} : req'[q] = req[q]
  BY DEF IInv
<1>2. \A q \in Committed : q \in Request /\ q \in Committed' /\ req'[q] = req[q]
  BY <1>1 DEF Committed
<1>3. UserExists => UserExists'
  BY <1>2 DEF UserExists, Creators, Creates
<1>4. ASSUME NEW m, Knows(m), m.began \subseteq Committed
      PROVE  /\ m.kind \notin {"register", "accept"} => m.wrote = {}
             /\ m.kind = "check" => AsksRight(m)'
             /\ m.kind = "accept" => AcceptsNew(m)'
             /\ m.kind = "register" => IsFirst(m)'
  <2>1. m.kind = "check" => AsksRight(m)'
    BY <1>2, <1>4 DEF Knows, AsksRight, Accepts
  <2>2. m.kind = "accept" => AcceptsNew(m)'
    BY <1>2, <1>3, <1>4 DEF Knows, AcceptsNew, Places, Accepts
  <2>3. m.kind = "register" => IsFirst(m)'
    BY <1>2, <1>4 DEF Knows, IsFirst
  <2> QED
    BY <1>4, <2>1, <2>2, <2>3 DEF Knows
<1>5. ASSUME NEW q \in Request PROVE Knows(req[q])'
  <2>1. Knows(req'[q]) /\ req'[q].began \subseteq Committed
    BY <1>1 DEF KInv, IInv, Fits
  <2>2. PICK m : m = req'[q]
    OBVIOUS
  <2>3. Knows(m) /\ m.began \subseteq Committed
    BY <2>1, <2>2 DEF Knows, AsksRight, AcceptsNew, IsFirst
  <2> QED
    BY <1>4, <2>2, <2>3 DEF Knows, AsksRight, AcceptsNew, IsFirst, Places, Accepts
<1> QED
  BY <1>5 DEF KInv

LEMMA AbortKnows ==
  ASSUME IInv, KInv, NEW r \in Request, req[r].pc # "done", Abort(r)
  PROVE  KInv'
<1> DEFINE n == Empty(req[r].kind, "failed")
<1>1. Knows(n) /\ n.began = {}
  BY DEF Knows, AsksRight, AcceptsNew, IsFirst, Places, Before, Empty
<1>2. req' = [req EXCEPT ![r] = n] /\ old' = old
  BY DEF Abort, IInv
<1> QED
  BY <1>1, <1>2, KnowledgeStays

(* A request goes on to a place where it accepts nothing new.              *)
LEMMA GotoKnows ==
  ASSUME IInv, KInv, NEW r \in Request, NEW p \in Place,
         req[r].pc # "done", Goto(r, p), p # "write" \/ req[r].kind # "accept",
         req[r].kind = "check" => p = "docs",
         req[r].kind = "accept" => UserExists,
         req[r].kind = "register" => \A q \in req[r].began : req[q].kind # "accept"
  PROVE  KInv'
<1> DEFINE n == [req[r] EXCEPT !.pc = p]
<1>1. /\ n.pc = p
      /\ n.kind = req[r].kind /\ n.list = req[r].list /\ n.at = req[r].at
      /\ n.wrote = req[r].wrote /\ n.began = req[r].began
  BY GotoFields
<1>2. req' = [req EXCEPT ![r] = n] /\ old' = old
  BY DEF Goto, IInv
<1> HIDE DEF n
<1>3. Knows(req[r]) /\ req[r].began \subseteq Committed
  BY DEF KInv, IInv, Fits
<1>4. n.kind = "check" => AsksRight(n)
  BY <1>1 DEF AsksRight
<1>5. n.kind = "accept" => AcceptsNew(n)
  <2>1. n.kind = "accept" => Places(n) \subseteq Places(req[r])
    BY <1>1 DEF Places
  <2> QED
    BY <1>1, <1>3, <2>1 DEF Knows, AcceptsNew
<1>6. Knows(n)
  BY <1>1, <1>3, <1>4, <1>5 DEF Knows, IsFirst
<1> QED
  BY <1>1, <1>2, <1>3, <1>6, KnowledgeStays

LEMMA FindUserKnows ==
  ASSUME IInv, KInv, NEW r \in Request, FindUser(r)
  PROVE  KInv'
<1>1. /\ req[r] \in Record /\ req[r].pc = "user" /\ Fits(r, req[r])
      /\ Knows(req[r])
      /\ IF Creates(r) = UserExists THEN Abort(r) ELSE Goto(r, AfterUser(r))
  BY DEF FindUser, At, IInv, KInv
<1>2. CASE Abort(r)
  BY <1>1, <1>2, AbortKnows
<1>3. CASE Goto(r, AfterUser(r)) /\ Creates(r) # UserExists
  <2>1. /\ AfterUser(r) \in {"docs", "insert", "commit", "look", "row"}
        /\ req[r].kind = "check" => AfterUser(r) = "docs"
    BY <1>1 DEF AfterUser, Record, Kind
  <2>2. req[r].kind = "accept" => UserExists
    BY <1>3 DEF Creates, UserExists
  <2>3. ASSUME req[r].kind = "register", NEW q \in req[r].began
        PROVE  req[q].kind # "accept"
    <3>1. ~UserExists
      BY <1>3, <2>3 DEF Creates, UserExists
    <3>2. q \in Request /\ req[q].pc = "done" /\ Knows(req[q])
      BY <1>1 DEF Fits, Committed, KInv
    <3> QED
      BY <3>1, <3>2 DEF Knows, AcceptsNew, Before
  <2>4. AfterUser(r) \in Place /\ AfterUser(r) # "write"
    BY <2>1 DEF Place
  <2> QED
    BY <1>1, <1>3, <2>1, <2>2, <2>3, <2>4, GotoKnows
<1> QED
  BY <1>1, <1>2, <1>3

LEMMA OthersGotoKnows ==
  ASSUME IInv, KInv, NEW r \in Request,
         \/ CompareDocs(r) \/ InsertUser(r)
         \/ LookForSubscription(r) \/ QueryEscrow(r) \/ InsertSubscription(r)
         \/ FlushUpdate(r)
  PROVE  KInv'
<1>1. /\ req[r].pc \in {"docs", "insert", "row", "escrow", "flush"}
      /\ req[r].kind \in {"register", "create", "subscribe", "update"}
      /\ \/ Abort(r)
         \/ \E p \in {"insert", "commit", "write", "escrow"} : Goto(r, p)
  BY DEF CompareDocs, InsertUser, LookForSubscription, QueryEscrow,
         InsertSubscription, FlushUpdate, At
<1>2. req[r].kind = "register" => \A q \in req[r].began : req[q].kind # "accept"
  BY <1>1 DEF KInv, Knows, IsFirst, Before
<1> QED
  BY <1>1, <1>2, AbortKnows, GotoKnows DEF Place

LEMMA CheckKnows ==
  ASSUME IInv, KInv, NEW r \in Request, ReadDocs(r) \/ ReadAcceptances(r)
  PROVE  KInv'
<1>1. /\ req[r].pc \in {"docs", "look"} /\ req[r].kind = "check"
      /\ req[r] \in Record /\ Fits(r, req[r]) /\ Knows(req[r])
  BY DEF ReadDocs, ReadAcceptances, At, IInv, KInv
<1>2. CASE ReadDocs(r)
  <2> DEFINE n == [req[r] EXCEPT !.pc = "look", !.pending = active]
  <2>1. /\ n.kind = "check" /\ n.pc = "look" /\ n.pending = active
        /\ n.wrote = req[r].wrote /\ n.steady = req[r].steady
        /\ n.began = req[r].began
    BY <1>1 DEF Record
  <2>2. req' = [req EXCEPT ![r] = n] /\ old' = old
    BY <1>2 DEF ReadDocs, IInv
  <2>3. n.steady \subseteq n.pending
    BY <1>1, <1>2, <2>1 DEF ReadDocs, At, Fits
  <2> HIDE DEF n
  <2>4. Knows(n)
    BY <1>1, <2>1, <2>3 DEF Knows, AsksRight
  <2> QED
    BY <1>1, <2>1, <2>2, <2>4, KnowledgeStays DEF Fits
<1>3. CASE ReadAcceptances(r)
  <2> DEFINE pending == req[r].pending \ AcceptedSoFar
             n == [req[r] EXCEPT !.pc = "done", !.pending = pending]
  <2>1. /\ n.kind = "check" /\ n.pc = "done" /\ n.pending = pending
        /\ n.wrote = req[r].wrote /\ n.steady = req[r].steady
        /\ n.began = req[r].began
    BY <1>1 DEF Record
  <2>2. req' = [req EXCEPT ![r] = n] /\ old' = old
    BY <1>3 DEF ReadAcceptances, IInv
  <2>3. \A d : d \in AcceptedSoFar <=> \E q \in Committed : Accepts(req[q], d)
    BY AcceptedMeans DEF AcceptedSoFar
  <2> HIDE DEF n
  <2>4. req[r].steady \subseteq req[r].pending
    BY <1>1, <1>3 DEF Knows, AsksRight, ReadAcceptances, At
  <2>5. ASSUME NEW d \in n.steady \ n.pending
        PROVE  \E q \in Committed : Accepts(req[q], d)
    BY <2>1, <2>3, <2>4
  <2>6. ASSUME NEW d \in n.pending, NEW q \in n.began
        PROVE  ~Accepts(req[q], d)
    BY <1>1, <2>1, <2>3 DEF Fits
  <2>7. Knows(n)
    BY <1>1, <2>1, <2>5, <2>6 DEF Knows, AsksRight
  <2> QED
    BY <1>1, <2>1, <2>2, <2>7, KnowledgeStays DEF Fits
<1> QED
  BY <1>2, <1>3

(* Rows are finitely many: a document that is found zero times has none.   *)
LEMMA FoundFinite ==
  ASSUME IInv, NEW r \in Request
  PROVE  IsFiniteSet(Found(r))
<1>1. ASSUME NEW q \in Request PROVE IsFiniteSet({q} \X req[q].wrote)
  <2>1. req[q].list \in Seq(Doc) /\ req[q].wrote \subseteq DOMAIN req[q].list
    <3>1. req[q] \in Record /\ Shape(req[q])
      BY DEF IInv, Fits
    <3>2. req[q].list \in Lists \cup {<< >>}
      BY <3>1 DEF Record
    <3>3. << >> \in Seq(Doc)
      OBVIOUS
    <3> QED
      BY <3>1, <3>2, <3>3, AccountsAssumption DEF Shape
  <2>2. IsFiniteSet(1..Len(req[q].list))
    BY <2>1, FS_Interval
  <2>3. IsFiniteSet(req[q].wrote)
    BY <2>1, <2>2, FS_Subset
  <2> QED
    BY <2>3, FS_Singleton, FS_Product
<1> DEFINE R == Committed \cup {r}
           S == {{q} \X req[q].wrote : q \in R}
<1>2. IsFiniteSet(R)
  <2>1. IsFiniteSet(Request)
    BY AccountsAssumption, FS_Interval DEF Request
  <2> QED
    BY <2>1, FS_Subset DEF Committed
<1>3. IsFiniteSet(S)
  <2> DEFINE f == [q \in R |-> {q} \X req[q].wrote]
  <2>1. S = {f[q] : q \in R}
    OBVIOUS
  <2>2. f \in [R -> S]
    OBVIOUS
  <2>3. f \in Surjection(R, S)
    BY <2>1, <2>2 DEF Surjection
  <2> QED
    BY <1>2, <2>3, FS_Surjection
<1>4. IsFiniteSet(UNION S)
  <2>1. \A x \in S : IsFiniteSet(x)
    BY <1>1 DEF Committed
  <2> HIDE DEF S
  <2> QED
    BY <1>3, <2>1, FS_UNION
<1> QED
  BY <1>4, FS_Subset DEF Found, Rows

LEMMA NothingFound ==
  ASSUME IInv, NEW r \in Request, Cardinality(Found(r)) = 0
  PROVE  \A q \in Committed \cup {r} : ~Accepts(req[q], req[r].list[req[r].at])
<1>1. Found(r) = {}
  BY FoundFinite, FS_EmptySet
<1>2. req[r].list[req[r].at] \notin AcceptedBy(Committed \cup {r})
  BY <1>1 DEF Found, AcceptedBy
<1> QED
  BY <1>2, AcceptedMeans

LEMMA LookKnows ==
  ASSUME IInv, KInv, NEW r \in Request, At(r, "look", {"accept"}),
         Cardinality(Found(r)) = 0, Goto(r, "write")
  PROVE  KInv'
<1> DEFINE n == [req[r] EXCEPT !.pc = "write"]
<1>1. /\ n.pc = "write"
      /\ n.kind = req[r].kind /\ n.list = req[r].list /\ n.at = req[r].at
      /\ n.wrote = req[r].wrote /\ n.began = req[r].began
  BY GotoFields DEF Place
<1>2. req' = [req EXCEPT ![r] = n] /\ old' = old
  BY DEF Goto, IInv
<1> HIDE DEF n
<1>3. /\ Knows(req[r]) /\ req[r].began \subseteq Committed
      /\ req[r].kind = "accept" /\ req[r].pc = "look"
  BY DEF KInv, IInv, Fits, At
<1>4. UserExists /\ Places(n) = req[r].wrote \cup {req[r].at}
  BY <1>1, <1>3 DEF Knows, AcceptsNew, Before, Places
<1>5. \A q \in Committed \cup {r} : ~Accepts(req[q], req[r].list[req[r].at])
  BY NothingFound
<1>6. \A i \in req[r].wrote : req[r].list[i] # req[r].list[req[r].at]
  BY <1>5 DEF Accepts
<1>7. Places(req[r]) = req[r].wrote
  BY <1>3 DEF Places
<1>8. \A i, j \in Places(n) : i # j => n.list[i] # n.list[j]
  BY <1>1, <1>3, <1>4, <1>6, <1>7 DEF Knows, AcceptsNew
<1>9. \A i \in Places(n), q \in n.began : ~Accepts(req[q], n.list[i])
  BY <1>1, <1>3, <1>4, <1>5, <1>7 DEF Knows, AcceptsNew
<1>10. Knows(n)
  BY <1>1, <1>3, <1>4, <1>8, <1>9 DEF Knows, AcceptsNew
<1> QED
  BY <1>1, <1>2, <1>3, <1>10, KnowledgeStays

LEMMA OnwardsKnows ==
  ASSUME IInv, KInv, NEW r \in Request, NEW p \in {"look", "write"},
         NEW w \in SUBSET {req[r].at}, Onwards(r, p, w),
         \/ At(r, "look", {"accept"}) /\ p = "look" /\ w = {}
         \/ At(r, "write", {"accept"}) /\ p = "look"
         \/ At(r, "write", {"register"})
  PROVE  KInv'
<1>1. /\ req[r] \in Record /\ Knows(req[r]) /\ req[r].began \subseteq Committed
      /\ req[r].pc \in {"look", "write"}
      /\ req[r].kind \in {"accept", "register"}
  BY DEF KInv, IInv, Fits, At
<1> DEFINE x == IF req[r].at = Len(req[r].list) THEN "commit" ELSE p
           n == [req[r] EXCEPT !.at = @ + 1, !.wrote = @ \cup w, !.pc = x]
<1>2. req' = [req EXCEPT ![r] = n] /\ old' = old
  BY DEF Onwards, IInv
<1>3. /\ n.pc = x /\ n.wrote = req[r].wrote \cup w
      /\ n.kind = req[r].kind /\ n.list = req[r].list /\ n.began = req[r].began
  <2> HIDE DEF x
  <2> QED
    BY <1>1 DEF Record
<1>4. x \in {p, "commit"}
  OBVIOUS
<1> HIDE DEF n, x
<1>5. CASE req[r].kind = "accept"
  <2>1. Places(n) \subseteq Places(req[r])
    BY <1>3, <1>4, <1>5 DEF Places, At
  <2>2. UserExists
    BY <1>1, <1>5 DEF Knows, AcceptsNew, Before
  <2>3. AcceptsNew(n)
    BY <1>1, <1>3, <1>5, <2>1, <2>2 DEF Knows, AcceptsNew
  <2>4. Knows(n)
    BY <1>3, <1>5, <2>3 DEF Knows
  <2> QED
    BY <1>1, <1>2, <1>3, <2>4, KnowledgeStays
<1>6. CASE req[r].kind = "register"
  <2>1. Knows(n)
    BY <1>1, <1>3, <1>6 DEF Knows, IsFirst, Before
  <2> QED
    BY <1>1, <1>2, <1>3, <2>1, KnowledgeStays
<1> QED
  BY <1>1, <1>5, <1>6

LEMMA AcceptanceKnows ==
  ASSUME IInv, KInv, NEW r \in Request, LookForAcceptance(r) \/ InsertAcceptance(r)
  PROVE  KInv'
<1>1. CASE LookForAcceptance(r)
  <2>1. At(r, "look", {"accept"}) /\ req[r].pc # "done"
    BY <1>1 DEF LookForAcceptance, At
  <2>2. \/ Cardinality(Found(r)) = 0 /\ Goto(r, "write")
        \/ Onwards(r, "look", {})
        \/ Abort(r)
    BY <1>1 DEF LookForAcceptance
  <2> QED
    BY <2>1, <2>2, LookKnows, OnwardsKnows, AbortKnows
<1>2. CASE InsertAcceptance(r)
  BY <1>2, OnwardsKnows DEF InsertAcceptance
<1> QED
  BY <1>1, <1>2

LEMMA LoadKnows ==
  ASSUME IInv, KInv, NEW r \in Request, LoadSubscription(r)
  PROVE  KInv'
<1>1. /\ req[r] \in Record /\ Knows(req[r]) /\ Fits(r, req[r])
      /\ req[r].pc = "row" /\ req[r].kind = "update"
  BY DEF LoadSubscription, At, IInv, KInv
<1>2. ASSUME NEW q \in Changeable,
             req' = [req EXCEPT ![r].pc = "flush", ![r].row = q], old' = old
      PROVE  KInv'
  <2> DEFINE n == [req[r] EXCEPT !.pc = "flush", !.row = q]
  <2>1. /\ n.kind = "update" /\ n.wrote = req[r].wrote
        /\ n.began = req[r].began
    BY <1>1 DEF Record
  <2>2. req' = [req EXCEPT ![r] = n]
    BY <1>2 DEF IInv
  <2> HIDE DEF n
  <2>3. Knows(n)
    BY <1>1, <2>1 DEF Knows
  <2> QED
    BY <1>1, <1>2, <2>1, <2>2, <2>3, KnowledgeStays DEF Fits
<1> QED
  BY <1>1, <1>2, AbortKnows DEF LoadSubscription

LEMMA CommitKnows ==
  ASSUME IInv, KInv, NEW r \in Request, Commit(r)
  PROVE  KInv'
<1> DEFINE n == [req[r] EXCEPT !.pc = "done"]
<1>1. /\ n.pc = "done"
      /\ n.kind = req[r].kind /\ n.list = req[r].list /\ n.at = req[r].at
      /\ n.wrote = req[r].wrote /\ n.began = req[r].began
  BY GotoFields DEF Place
<1>2. req' = [req EXCEPT ![r] = n] /\ old' = old /\ req[r].pc = "commit"
  BY DEF Commit, At, IInv
<1> HIDE DEF n
<1>3. Knows(req[r]) /\ req[r].began \subseteq Committed
  BY DEF KInv, IInv, Fits
<1>4. n.kind # "check"
  BY <1>1, <1>2, <1>3 DEF Knows, AsksRight
<1>5. Places(n) = Places(req[r])
  BY <1>1, <1>2 DEF Places
<1>6. Knows(n)
  BY <1>1, <1>2, <1>3, <1>4, <1>5 DEF Knows, AcceptsNew, IsFirst, Before
<1> QED
  BY <1>1, <1>2, <1>3, <1>6, KnowledgeStays

LEMMA SendKnows ==
  ASSUME IInv, KInv, NEW k \in Kind, NEW l \in Lists, Send(k, l)
  PROVE  KInv'
<1> DEFINE began == IF k \in {"update", "create"} THEN {} ELSE Committed
           n == [Empty(k, "user") EXCEPT
             !.list = l,
             !.began = began,
             !.steady = IF k \in {"register", "check"} THEN active ELSE {}]
<1>1. PICK r \in Request :
        /\ req[r].pc = "unsent"
        /\ req' = [req EXCEPT ![r] = n]
        /\ old' = old
  BY DEF Send
<1>2. /\ n.kind = k /\ n.pc = "user" /\ n.wrote = {} /\ n.began \subseteq Committed
  BY DEF Empty
<1> HIDE DEF n
<1>3. Knows(n)
  BY <1>2 DEF Knows, AsksRight, AcceptsNew, IsFirst, Places, Before
<1> QED
  BY <1>1, <1>2, <1>3, KnowledgeStays

LEMMA PublishKnows ==
  ASSUME IInv, KInv, NEW docs \in SUBSET Doc, Publish(docs)
  PROVE  KInv'
<1>1. ASSUME NEW r \in Request
      PROVE  /\ req'[r].steady \subseteq req[r].steady
             /\ req'[r].kind = req[r].kind
             /\ req'[r].pc = req[r].pc
             /\ req'[r].list = req[r].list
             /\ req'[r].at = req[r].at
             /\ req'[r].wrote = req[r].wrote
             /\ req'[r].pending = req[r].pending
             /\ req'[r].began = req[r].began
  <2>1. req[r] \in Record
    BY DEF IInv
  <2>2. CASE r \in Running
    <3>1. req'[r] = [req[r] EXCEPT !.steady = @ \cap docs]
      BY <2>2 DEF Publish
    <3> QED
      BY <2>1, <3>1 DEF Record
  <2>3. CASE r \notin Running
    BY <2>3 DEF Publish
  <2> QED
    BY <2>2, <2>3
<1>2. Committed' = Committed
  BY <1>1 DEF Committed
<1>3. UserExists' <=> UserExists
  BY <1>1, <1>2 DEF UserExists, Creators, Creates, Committed, Publish
<1>4. ASSUME NEW r \in Request PROVE Knows(req[r])'
  <2>1. Knows(req[r]) /\ req[r].began \subseteq Committed
    BY DEF KInv, IInv, Fits
  <2>2. AsksRight(req[r]) => AsksRight(req[r])'
    BY <1>1, <1>2, <2>1 DEF AsksRight, Accepts, Committed
  <2>3. AcceptsNew(req[r]) => AcceptsNew(req[r])'
    BY <1>1, <1>3, <2>1 DEF AcceptsNew, Accepts, Places, Committed
  <2>4. IsFirst(req[r]) => IsFirst(req[r])'
    BY <1>1, <2>1 DEF IsFirst, Committed
  <2> QED
    BY <1>1, <2>1, <2>2, <2>3, <2>4 DEF Knows
<1> QED
  BY <1>4 DEF KInv

LEMMA InitKnows == ASSUME Init PROVE KInv
<1>1. \A r \in Request : req[r] = Empty("check", "unsent")
  BY DEF Init
<1> QED
  BY <1>1 DEF KInv, Knows, AsksRight, Empty

THEOREM NextKnows == ASSUME IInv, KInv, [Next]_vars PROVE KInv'
<1>1. CASE UNCHANGED vars
  BY <1>1 DEF vars, KInv, Knows, AsksRight, AcceptsNew, IsFirst, Places, Accepts,
              Committed, UserExists, Creators, Creates
<1>2. ASSUME NEW k \in Kind, NEW l \in Lists, Send(k, l) PROVE KInv'
  BY <1>2, SendKnows
<1>3. ASSUME NEW docs \in SUBSET Doc, Publish(docs) PROVE KInv'
  BY <1>3, PublishKnows
<1>4. ASSUME NEW r \in Request, Query(r) PROVE KInv'
  BY <1>4, FindUserKnows, OthersGotoKnows, CheckKnows, AcceptanceKnows,
     LoadKnows, CommitKnows DEF Query
<1>5. ASSUME NEW r \in Request, Fail(r) PROVE KInv'
  BY <1>5, AbortKnows DEF Fail, Running
<1> QED
  BY <1>1, <1>2, <1>3, <1>4, <1>5 DEF Next

(* Whatever requests overlap and whatever is published meanwhile: what a   *)
(* request takes to be accepted, or new, is.                               *)
THEOREM KnowledgeKept == Spec => [](IInv /\ KInv)
<1>1. Init => IInv /\ KInv
  BY InitInv, InitKnows
<1>2. IInv /\ KInv /\ [Next]_vars => (IInv /\ KInv)'
  BY NextInv, NextKnows
<1> QED
  BY <1>1, <1>2, PTL DEF Spec

(* A user that is told to be compliant has accepted what was in force all  *)
(* the while, and is asked for nothing that it had accepted before: for    *)
(* any documents and any number of requests.                               *)
THEOREM ComplianceIsTrue == Spec => []ComplianceTrue
<1>1. ASSUME IInv, KInv PROVE ComplianceTrue
  <2>1. ASSUME NEW r \in Committed, req[r].kind = "check"
        PROVE  /\ req[r].steady \ req[r].pending \subseteq AcceptedBy(Committed)
               /\ req[r].pending \cap AcceptedBy(req[r].began) = {}
    <3>1. AsksRight(req[r]) /\ req[r].pc = "done"
      BY <1>1, <2>1 DEF KInv, Knows, Committed
    <3>2. \A d : d \in AcceptedBy(Committed) <=> \E q \in Committed : Accepts(req[q], d)
      BY AcceptedMeans
    <3>3. \A d : d \in AcceptedBy(req[r].began) <=>
                   \E q \in req[r].began : Accepts(req[q], d)
      BY AcceptedMeans
    <3> QED
      BY <3>1, <3>2, <3>3 DEF AsksRight
  <2> QED
    BY <2>1 DEF ComplianceTrue
<1> QED
  BY <1>1, KnowledgeKept, PTL

(* A user accepts a document once, unless two requests accepted it at the  *)
(* same time or a registration's list names it twice.                      *)
THEOREM DuplicatesOverlap == Spec => []DuplicatesHaveCause
<1>1. ASSUME IInv, KInv PROVE DuplicatesHaveCause
  <2>1. ASSUME NEW x \in Rows(Committed)
        PROVE  /\ x[1] \in Committed /\ x[1] \in Request
               /\ x[2] \in req[x[1]].wrote /\ x = <<x[1], x[2]>>
               /\ DocOf(x) = req[x[1]].list[x[2]]
               /\ Accepts(req[x[1]], DocOf(x))
               /\ req[x[1]].kind \in {"accept", "register"}
               /\ Knows(req[x[1]]) /\ Fits(x[1], req[x[1]])
               /\ req[x[1]].pc = "done"
    <3>1. PICK r \in Committed : x \in {r} \X req[r].wrote
      BY DEF Rows
    <3>2. x[1] = r /\ x[2] \in req[r].wrote /\ x = <<x[1], x[2]>>
      BY <3>1
    <3>3. Knows(req[r]) /\ Fits(r, req[r]) /\ req[r].pc = "done" /\ r \in Request
      BY <1>1 DEF KInv, IInv, Committed
    <3> QED
      BY <3>2, <3>3 DEF DocOf, Accepts, Knows
  <2>2. ASSUME NEW x \in Rows(Committed), NEW y \in Rows(Committed),
               x # y, DocOf(x) = DocOf(y), x[1] = y[1]
        PROVE  req[x[1]].kind = "register"
    <3>1. x[2] # y[2]
      BY <2>1, <2>2
    <3> QED
      BY <2>1, <2>2, <3>1 DEF Knows, AcceptsNew, Places
  <2>3. ASSUME NEW x \in Rows(Committed), NEW y \in Rows(Committed),
               DocOf(x) = DocOf(y), x[1] # y[1]
        PROVE  y[1] \notin req[x[1]].began
    <3> SUFFICES ASSUME y[1] \in req[x[1]].began PROVE FALSE
      OBVIOUS
    <3>1. CASE req[x[1]].kind = "accept"
      BY <2>1, <2>3, <3>1 DEF Knows, AcceptsNew, Places
    <3>2. CASE req[x[1]].kind = "register"
      <4>1. req[y[1]].kind # "accept"
        BY <2>1, <3>2 DEF Knows, IsFirst, Before
      <4>2. Creates(y[1]) /\ req[y[1]].pc \in Holding
        BY <2>1, <4>1 DEF Creates, Holding
      <4> QED
        BY <2>1, <2>3, <3>2, <4>2 DEF Fits, Holding
    <3> QED
      BY <2>1, <3>1, <3>2
  <2> QED
    BY <2>2, <2>3 DEF DuplicatesHaveCause, Overlapped
<1> QED
  BY <1>1, KnowledgeKept, PTL
-----------------------------------------------------------------------------
(***************************************************************************)
(* Queries of the chain: what the bridge, passeur and pourtier make of an  *)
(* attempt's result on its way back.                                       *)
(***************************************************************************)
Read == Balance \cup Commitment \cup {Absent}

Fault == {"none", "rpc", "unreachable", "slow", "lost", "refused"}

AnswerKind ==
  {"value", "uninitialized", "failed", "confirmed", "unconfirmed"}

QueryType ==
  [kind : Question, endpoint : {"details", "balance", "status"},
   at : {"pourtier", "passeur", "answered", "done"},
   asked : 0..(PourtierAttempts - 1), attempts : 0..(PasseurAttempts - 1),
   status : {0, 200, 404, 500, 504}, body : Read,
   answer : [is : {"none"} \cup AnswerKind, value : Read],
   seen : SUBSET Read,
   fault : Fault,
   failed : 0..PasseurAttempts]

AsksStatus(q) ==
  /\ q.kind = "get_transaction_status" <=> q.endpoint = "status"
  /\ AsksService(q) => q.endpoint \in {"details", "balance"}

(* While passeur tries, it has failed in all attempts before, unless one   *)
(* of them found nothing.                                                  *)
Trying(q) ==
  q.at = "passeur" =>
    /\ q.failed <= q.attempts
    /\ q.failed = q.attempts \/ Absent \in q.seen

(* Passeur's answer has its cause.                                         *)
Answering(q) ==
  q.at = "answered" =>
    /\ q.status = 200 => q.body \in q.seen
    /\ q.status = 404 => \/ Absent \in q.seen
                         \/ q.failed = PasseurAttempts /\ q.fault = "rpc"
    /\ q.status # 200 => q.fault # "none" \/ Absent \in q.seen

Unanswered(q) == q.at # "done" => q.answer.is = "none"

QInv ==
  /\ query \in QueryType
  /\ chain \in query.seen
  /\ AsksStatus(query)
  /\ Trying(query)
  /\ Answering(query)
  /\ Unanswered(query)
  /\ AnswersHaveCause

LEMMA NewQueryOK ==
  ASSUME NEW kind \in Question, NEW at \in {"pourtier", "passeur", "done"},
         NEW value \in Read
  PROVE  LET q == NewQuery(kind, at, value) IN
           /\ q \in QueryType
           /\ value \in q.seen
           /\ AsksStatus(q) /\ Trying(q) /\ Answering(q) /\ Unanswered(q)
           /\ q.answer.is = "none"
BY QueryAssumption
   DEF NewQuery, QueryType, Fault, AnswerKind, AsksStatus, AsksService, Trying, Answering,
       Unanswered, NoAnswer, FirstEndpoint, Question, Read

LEMMA QueryInitInv == QueryInit => QInv
<1> SUFFICES ASSUME QueryInit PROVE QInv
  OBVIOUS
<1>1. query = NewQuery("get_escrow_balance", "done", Absent) /\ chain = Absent
  BY DEF QueryInit
<1>2. "get_escrow_balance" \in Question /\ Absent \in Read
  BY DEF Question, Read
<1>3. QED
  BY <1>1, <1>2, NewQueryOK
     DEF QInv, AnswersHaveCause, AbsenceHasCause, AnswerWasTrue,
         FailureHasCause

LEMMA ChainMovesInv == QInv /\ ChainMoves => QInv'
<1> SUFFICES ASSUME QInv, ChainMoves PROVE QInv'
  OBVIOUS
<1>1. chain' \in Read
  BY DEF ChainMoves, Subject, Read
<1>2. query' = [query EXCEPT !.seen = query.seen \cup {chain'}]
  BY DEF ChainMoves
<1>3. query \in QueryType /\ query.at # "done"
  BY DEF QInv, ChainMoves
<1>4. query' \in QueryType
  BY <1>1, <1>2, <1>3 DEF QueryType
<1>5. /\ query'.seen = query.seen \cup {chain'}
      /\ query'.kind = query.kind /\ query'.endpoint = query.endpoint
      /\ query'.at = query.at /\ query'.attempts = query.attempts
      /\ query'.failed = query.failed /\ query'.status = query.status
      /\ query'.body = query.body /\ query'.fault = query.fault
      /\ query'.answer = query.answer
  BY <1>2, <1>3 DEF QueryType
<1>6. query'.answer.is = "none"
  BY <1>3, <1>5 DEF QInv, Unanswered
<1>7. QED
  BY <1>3, <1>4, <1>5, <1>6
     DEF QInv, AsksStatus, AsksService, Trying, Answering, Unanswered,
         AnswersHaveCause, AbsenceHasCause, AnswerWasTrue, FailureHasCause

LEMMA AskInv == ASSUME NEW kind \in Question PROVE QInv /\ Ask(kind) => QInv'
<1> SUFFICES ASSUME QInv, Ask(kind) PROVE QInv'
  OBVIOUS
<1>1. chain' \in Read
  BY DEF Ask, Subject, Read
<1>2. PICK at \in {"pourtier", "passeur", "done"} :
        query' = NewQuery(kind, at, chain')
  BY DEF Ask
<1>3. QED
  BY <1>1, <1>2, NewQueryOK
     DEF QInv, AnswersHaveCause, AbsenceHasCause, AnswerWasTrue,
         FailureHasCause

(* An answer that has its cause.                                           *)
Caused(q) ==
  /\ q.answer.is = "uninitialized" =>
       \/ Absent \in q.seen
       \/ q.failed = PasseurAttempts /\ q.fault = "rpc"
  /\ q.answer.is = "value" => q.answer.value \in q.seen
  /\ q.answer.is = "confirmed" => "finalized" \in q.seen
  /\ q.answer.is = "failed" => q.fault # "none" \/ Absent \in q.seen

(* Every field keeps its type when it is set.                              *)
LEMMA SetAt ==
  ASSUME NEW q \in QueryType, NEW x \in {"pourtier", "passeur", "answered", "done"}
  PROVE  [q EXCEPT !.at = x] \in QueryType
BY DEF QueryType

LEMMA SetAsked ==
  ASSUME NEW q \in QueryType, NEW x \in 0..(PourtierAttempts - 1)
  PROVE  [q EXCEPT !.asked = x] \in QueryType
BY DEF QueryType

LEMMA SetAttempts ==
  ASSUME NEW q \in QueryType, NEW x \in 0..(PasseurAttempts - 1)
  PROVE  [q EXCEPT !.attempts = x] \in QueryType
BY DEF QueryType

LEMMA SetStatus ==
  ASSUME NEW q \in QueryType, NEW x \in {0, 200, 404, 500, 504}
  PROVE  [q EXCEPT !.status = x] \in QueryType
BY DEF QueryType

LEMMA SetBody ==
  ASSUME NEW q \in QueryType, NEW x \in Read
  PROVE  [q EXCEPT !.body = x] \in QueryType
BY DEF QueryType

LEMMA SetFault ==
  ASSUME NEW q \in QueryType, NEW x \in Fault
  PROVE  [q EXCEPT !.fault = x] \in QueryType
BY DEF QueryType

LEMMA SetFailed ==
  ASSUME NEW q \in QueryType, NEW x \in 0..PasseurAttempts
  PROVE  [q EXCEPT !.failed = x] \in QueryType
BY DEF QueryType

LEMMA SetEndpoint ==
  ASSUME NEW q \in QueryType, NEW x \in {"balance"}
  PROVE  [q EXCEPT !.endpoint = x] \in QueryType
BY DEF QueryType

LEMMA SetAnswer ==
  ASSUME NEW q \in QueryType, NEW x \in [is : {"none"} \cup AnswerKind, value : Read]
  PROVE  [q EXCEPT !.answer = x] \in QueryType
BY DEF QueryType

LEMMA DoneOK ==
  ASSUME NEW q \in QueryType, AsksStatus(q), NEW d,
         NEW is \in AnswerKind,
         NEW value \in Read,
         d = Done(q, is, value)
  PROVE  /\ d \in QueryType /\ d.seen = q.seen
         /\ d.fault = q.fault /\ d.failed = q.failed
         /\ d.answer.is = is /\ d.answer.value = value
         /\ AsksStatus(d) /\ Trying(d) /\ Answering(d) /\ Unanswered(d)
<1>1. d \in QueryType
  <2> DEFINE e == [q EXCEPT !.at = "done"]
  <2>1. e \in QueryType
    BY SetAt
  <2>2. d = [e EXCEPT !.answer = [is |-> is, value |-> value]]
    BY DEF Done
  <2> HIDE DEF e
  <2>3. [is |-> is, value |-> value] \in [is : {"none"} \cup AnswerKind,
                                          value : Read]
    OBVIOUS
  <2>4. QED
    BY <2>1, <2>2, <2>3, SetAnswer
<1>2. /\ d.seen = q.seen /\ d.fault = q.fault /\ d.failed = q.failed
      /\ d.answer.is = is /\ d.answer.value = value
      /\ d.kind = q.kind /\ d.endpoint = q.endpoint /\ d.at = "done"
  BY DEF Done, QueryType, AnswerKind
<1>3. QED
  BY <1>1, <1>2 DEF AsksStatus, AsksService, Trying, Answering, Unanswered

(* What is made of an answer keeps to its cause.                           *)
LEMMA ReceiveOK ==
  ASSUME NEW q \in QueryType, NEW status \in {0, 200, 404, 500, 504},
         AsksStatus(q), q.answer.is = "none",
         status = 200 => q.body \in q.seen,
         status = 404 => \/ Absent \in q.seen
                         \/ q.failed = PasseurAttempts /\ q.fault = "rpc",
         status # 200 => q.fault # "none" \/ Absent \in q.seen
  PROVE  LET r == Receive(q, status) IN
           /\ r \in QueryType /\ r.seen = q.seen
           /\ AsksStatus(r) /\ Trying(r) /\ Answering(r) /\ Unanswered(r)
           /\ Caused(r)
<1> DEFINE r == Receive(q, status)
<1> DEFINE OK ==
      /\ r \in QueryType /\ r.seen = q.seen
      /\ AsksStatus(r) /\ Trying(r) /\ Answering(r) /\ Unanswered(r)
      /\ Caused(r)
<1> SUFFICES OK
  OBVIOUS
<1>0a. r = Receive(q, status)
  OBVIOUS
<1> HIDE DEF r
<1>0. q.body \in Read /\ Absent \in Read
  BY DEF QueryType, Read
<1>1. CASE r = Done(q, "value", q.body) /\ status = 200
  BY <1>0, <1>1, DoneOK DEF Caused, AnswerKind
<1>2. CASE r = Done(q, "uninitialized", Absent) /\ status = 404
  BY <1>0, <1>2, DoneOK DEF Caused, AnswerKind
<1>3. CASE r = Done(q, "failed", Absent) /\ status # 200
  BY <1>0, <1>3, DoneOK DEF Caused, AnswerKind
<1>4. CASE r = Done(q, "confirmed", q.body) /\ status = 200 /\ q.body = "finalized"
  BY <1>0, <1>4, DoneOK DEF Caused, AnswerKind
<1>5. CASE r = Done(q, "unconfirmed", q.body)
  BY <1>0, <1>5, DoneOK DEF Caused, AnswerKind
<1>6. CASE /\ r = [q EXCEPT !.endpoint = "balance", !.at = "pourtier"]
           /\ AsksService(q)
  <2>1. r \in QueryType
    <3> DEFINE e == [q EXCEPT !.endpoint = "balance"]
    <3>1. e \in QueryType
      BY SetEndpoint
    <3>2. r = [e EXCEPT !.at = "pourtier"]
      BY <1>6
    <3> HIDE DEF e
    <3>3. QED
      BY <3>1, <3>2, SetAt
  <2>2. /\ r.kind = q.kind /\ r.seen = q.seen /\ r.answer = q.answer
        /\ r.endpoint = "balance" /\ r.at = "pourtier"
    BY <1>6 DEF QueryType
  <2>3. QED
    BY <1>6, <2>1, <2>2
       DEF AsksStatus, AsksService, Trying, Answering, Unanswered, Caused
<1>7. CASE /\ r = [q EXCEPT !.at = "pourtier", !.asked = @ + 1]
           /\ q.asked < PourtierAttempts - 1
  <2>1. q.asked + 1 \in 0..(PourtierAttempts - 1)
    BY <1>7, QueryAssumption DEF QueryType
  <2>2. r \in QueryType
    <3> DEFINE e == [q EXCEPT !.at = "pourtier"]
    <3>1. e \in QueryType
      BY SetAt
    <3>2. e.asked = q.asked
      BY DEF QueryType
    <3>3. r = [e EXCEPT !.asked = e.asked + 1]
      BY <1>7
    <3> HIDE DEF e
    <3>4. QED
      BY <2>1, <3>1, <3>2, <3>3, SetAsked
  <2>3. /\ r.kind = q.kind /\ r.seen = q.seen /\ r.answer = q.answer
        /\ r.endpoint = q.endpoint /\ r.at = "pourtier"
    BY <1>7 DEF QueryType
  <2>4. QED
    BY <2>2, <2>3
       DEF AsksStatus, AsksService, Trying, Answering, Unanswered, Caused
<1>8. QED
  <2>1. CASE AsksService(q)
    <3>1. q.endpoint \in {"details", "balance"}
      BY <2>1 DEF AsksStatus
    <3>2. r = ServiceReceives(q, status)
      BY <1>0a, <2>1 DEF Receive
    <3>3. QED
      BY <1>1, <1>2, <1>3, <1>6, <2>1, <3>1, <3>2 DEF ServiceReceives
  <2>2. CASE ~AsksService(q) /\ AsksClient(q)
    <3>1. r = ClientReceives(q, status)
      BY <1>0a, <2>2 DEF Receive
    <3>2. QED
      BY <1>1, <1>3, <1>7, <3>1 DEF ClientReceives
  <2>3. CASE ~AsksService(q) /\ ~AsksClient(q)
    <3>1. r = StatusReceived(q, status)
      BY <1>0a, <2>3 DEF Receive
    <3>2. QED
      BY <1>3, <1>4, <1>5, <3>1 DEF StatusReceived
  <2>4. QED
    BY <2>1, <2>2, <2>3

LEMMA SendQueryInv == QInv /\ SendQuery => QInv'
<1> SUFFICES ASSUME QInv, SendQuery PROVE QInv'
  OBVIOUS
<1>0. /\ query \in QueryType /\ query.at = "pourtier" /\ chain' = chain
      /\ query.answer.is = "none" /\ chain \in query.seen
      /\ AsksStatus(query)
  BY DEF QInv, SendQuery, Unanswered
<1>1. CASE query' = [query EXCEPT !.at = "passeur", !.attempts = 0,
                                  !.failed = 0, !.fault = "none"]
  <2>1. query' \in QueryType
    <3> DEFINE a == [query EXCEPT !.at = "passeur"]
               b == [a EXCEPT !.attempts = 0]
               c == [b EXCEPT !.failed = 0]
    <3>1. a \in QueryType
      BY <1>0, SetAt
    <3> HIDE DEF a
    <3>2. b \in QueryType
      BY <3>1, QueryAssumption, SetAttempts
    <3> HIDE DEF b
    <3>3. c \in QueryType
      BY <3>2, QueryAssumption, SetFailed
    <3>4. query' = [c EXCEPT !.fault = "none"]
      BY <1>1 DEF a, b
    <3> HIDE DEF c
    <3>5. QED
      BY <3>3, <3>4, SetFault DEF Fault
  <2>2. /\ query'.kind = query.kind /\ query'.seen = query.seen
        /\ query'.answer = query.answer /\ query'.endpoint = query.endpoint
        /\ query'.at = "passeur" /\ query'.failed = 0 /\ query'.attempts = 0
    BY <1>0, <1>1 DEF QueryType
  <2>3. QED
    BY <1>0, <2>1, <2>2
       DEF QInv, AsksStatus, AsksService, Trying, Answering,
           Unanswered, AnswersHaveCause, AbsenceHasCause, AnswerWasTrue,
           FailureHasCause
<1>2. CASE query' = Done([query EXCEPT !.fault = "refused"], "failed", Absent)
  <2> DEFINE q == [query EXCEPT !.fault = "refused"]
  <2>1. q \in QueryType /\ AsksStatus(q) /\ q.seen = query.seen
        /\ q.fault = "refused"
    BY <1>0 DEF QueryType, AsksStatus, AsksService, Fault
  <2>2. Absent \in Read
    BY DEF Read
  <2> HIDE DEF q
  <2>3. query' = Done(q, "failed", Absent)
    BY <1>2 DEF q
  <2>3a. "failed" \in AnswerKind
    BY DEF AnswerKind
  <2>4. QED
    BY <1>0, <2>1, <2>2, <2>3, <2>3a, DoneOK
       DEF QInv, AnswersHaveCause, AbsenceHasCause, AnswerWasTrue,
           FailureHasCause
<1>3. QED
  BY <1>1, <1>2 DEF SendQuery

LEMMA AttemptInv == QInv /\ Attempt => QInv'
<1> SUFFICES ASSUME QInv, Attempt PROVE QInv'
  OBVIOUS
<1>1. /\ query \in QueryType /\ query.at = "passeur" /\ chain' = chain
      /\ query.answer.is = "none" /\ chain \in query.seen
      /\ AsksStatus(query)
      /\ query.failed <= query.attempts
      /\ query.failed = query.attempts \/ Absent \in query.seen
  BY DEF QInv, Attempt, Unanswered, Trying
<1> DEFINE Q(r) == [query EXCEPT
                      !.fault = r.fault,
                      !.failed = IF r.fault = "none" THEN @ ELSE @ + 1]
           Again(r) == [Q(r) EXCEPT !.attempts = @ + 1]
           Last(r) == [Q(r) EXCEPT !.at = "answered",
                                   !.status = RouteStatus(r),
                                   !.body = IF r.status = 200 THEN chain
                                            ELSE Absent]
<1>2. PICK r \in BridgeReplies :
        query' = IF /\ r.status # 200
                    /\ Retried(r)
                    /\ query.attempts < PasseurAttempts - 1
                   THEN Again(r) ELSE Last(r)
  BY DEF Attempt
<1>3. /\ r.status \in {0, 200, 404, 500}
      /\ r.fault \in {"none", "rpc", "unreachable", "slow"}
      /\ r.status = 200 => r.fault = "none"
      /\ r.status = 404 => r.fault \in {"none", "rpc"}
      /\ r.status # 200 /\ r.fault = "none" => chain = Absent
  BY <1>2 DEF BridgeReplies, BridgeError, FoundOnChain
<1> DEFINE failed == IF r.fault = "none" THEN query.failed ELSE query.failed + 1
<1>4. /\ failed \in 0..PasseurAttempts
      /\ failed <= query.attempts + 1
      /\ failed = query.attempts + 1 \/ Absent \in query.seen
         \/ r.status = 200
      /\ query.attempts \in 0..(PasseurAttempts - 1)
  BY <1>1, <1>3, QueryAssumption DEF QueryType
<1>4a. Q(r) \in QueryType
  <2> DEFINE a == [query EXCEPT !.fault = r.fault]
  <2>1. a \in QueryType
    BY <1>1, <1>3, SetFault DEF Fault
  <2>2. Q(r) = [a EXCEPT !.failed = failed]
    BY <1>1 DEF QueryType
  <2> HIDE DEF a, failed
  <2>3. QED
    BY <1>4, <2>1, <2>2, SetFailed
<1>5. /\ Q(r) \in QueryType /\ Q(r).fault = r.fault
      /\ Q(r).failed = failed
      /\ \A f \in {"kind", "endpoint", "at", "asked", "attempts", "status",
                   "body", "answer", "seen"} : Q(r)[f] = query[f]
  BY <1>1, <1>3, <1>4, <1>4a DEF QueryType
<1>5a. /\ Q(r).seen = query.seen /\ Q(r).answer = query.answer
       /\ Q(r).kind = query.kind /\ Q(r).endpoint = query.endpoint
       /\ Q(r).attempts = query.attempts
  BY <1>5
<1> HIDE DEF Q, failed
<1>6. CASE r.status # 200 /\ Retried(r) /\ query.attempts < PasseurAttempts - 1
  <2>1. query' = [Q(r) EXCEPT !.attempts = query.attempts + 1]
    BY <1>2, <1>5, <1>5a, <1>6
  <2>2. query.attempts + 1 \in 0..(PasseurAttempts - 1)
    BY <1>4, <1>6, QueryAssumption
  <2>3. query' \in QueryType
    BY <2>1, <2>2, <1>5 DEF QueryType
  <2>4. /\ query'.seen = query.seen /\ query'.answer = query.answer
        /\ query'.kind = query.kind /\ query'.endpoint = query.endpoint
        /\ query'.attempts = query.attempts + 1 /\ query'.failed = failed
        /\ query'.at = "passeur"
    BY <2>1, <1>1, <1>5, <1>5a DEF QueryType
  <2>5. QED
    BY <1>1, <1>4, <1>6, <2>3, <2>4
       DEF QInv, AsksStatus, AsksService, Trying, Answering,
           Unanswered, AnswersHaveCause, AbsenceHasCause, AnswerWasTrue,
           FailureHasCause
<1>7. CASE ~(r.status # 200 /\ Retried(r)
               /\ query.attempts < PasseurAttempts - 1)
  <2>1. query' = [Q(r) EXCEPT !.at = "answered", !.status = RouteStatus(r),
                     !.body = IF r.status = 200 THEN chain ELSE Absent]
    BY <1>2, <1>7
  <2>2. /\ RouteStatus(r) \in {0, 200, 404, 500, 504}
        /\ RouteStatus(r) = 200 <=> r.status = 200
        /\ RouteStatus(r) = 404 <=> r.status = 404
    BY DEF RouteStatus
  <2>3. (IF r.status = 200 THEN chain ELSE Absent) \in Read
    BY <1>1 DEF QueryType, Read
  <2>4. query' \in QueryType
    <3> DEFINE a == [Q(r) EXCEPT !.at = "answered"]
               b == [a EXCEPT !.status = RouteStatus(r)]
    <3>1. a \in QueryType
      BY <1>5, SetAt
    <3> HIDE DEF a
    <3>2. b \in QueryType
      <4>1. \A x \in {0, 200, 404, 500, 504} :
              [a EXCEPT !.status = x] \in QueryType
        BY <3>1, SetStatus
      <4>2. QED
        BY <2>2, <4>1
    <3>3. query' = [b EXCEPT !.body = IF r.status = 200 THEN chain ELSE Absent]
      BY <2>1 DEF a
    <3> HIDE DEF b
    <3>4. QED
      BY <2>3, <3>2, <3>3, SetBody
  <2>5. /\ query'.seen = query.seen /\ query'.answer = query.answer
        /\ query'.kind = query.kind /\ query'.endpoint = query.endpoint
        /\ query'.failed = failed /\ query'.fault = r.fault
        /\ query'.at = "answered" /\ query'.status = RouteStatus(r)
        /\ query'.body = IF r.status = 200 THEN chain ELSE Absent
    BY <2>1, <1>1, <1>5, <1>5a DEF QueryType
  <2>6. r.status = 404 /\ Absent \notin query.seen =>
          failed = PasseurAttempts /\ r.fault = "rpc"
    <3> SUFFICES ASSUME r.status = 404, Absent \notin query.seen
                 PROVE  failed = PasseurAttempts /\ r.fault = "rpc"
      OBVIOUS
    <3>1. r.fault = "rpc"
      BY <1>1, <1>3
    <3>2. query.attempts = PasseurAttempts - 1
      BY <1>4, <1>7, <3>1, QueryAssumption DEF Retried
    <3>3. QED
      BY <1>4, <3>1, <3>2, QueryAssumption
  <2>7. Answering(query')
    BY <1>1, <1>3, <2>2, <2>5, <2>6 DEF Answering
  <2>8. QED
    BY <1>1, <2>4, <2>5, <2>7
       DEF QInv, AsksStatus, AsksService, Trying, Unanswered,
           AnswersHaveCause, AbsenceHasCause, AnswerWasTrue, FailureHasCause
<1>8. QED
  BY <1>6, <1>7

LEMMA ArrivesInv == QInv /\ Arrives => QInv'
<1> SUFFICES ASSUME QInv, Arrives PROVE QInv'
  OBVIOUS
<1>1. /\ query \in QueryType /\ query.at = "answered" /\ chain' = chain
      /\ query.answer.is = "none" /\ chain \in query.seen
      /\ AsksStatus(query) /\ Answering(query)
      /\ query' = Receive(query, query.status)
  BY DEF QInv, Arrives, Unanswered
<1>2. query.status \in {0, 200, 404, 500, 504}
  BY <1>1 DEF QueryType
<1>3. QED
  BY <1>1, <1>2, ReceiveOK DEF QInv, Answering, Caused, AnswersHaveCause,
     AbsenceHasCause, AnswerWasTrue, FailureHasCause

LEMMA LoseInv == QInv /\ Lose => QInv'
<1> SUFFICES ASSUME QInv, Lose PROVE QInv'
  OBVIOUS
<1> DEFINE q == [query EXCEPT !.fault = "lost"]
<1>1. /\ query \in QueryType /\ chain' = chain
      /\ query.answer.is = "none" /\ chain \in query.seen
      /\ AsksStatus(query) /\ query' = Receive(q, 0)
  BY DEF QInv, Lose, Unanswered
<1>2. /\ q \in QueryType /\ AsksStatus(q) /\ q.seen = query.seen
      /\ q.fault = "lost" /\ q.answer.is = "none"
  BY <1>1 DEF QueryType, AsksStatus, AsksService, Fault
<1> HIDE DEF q
<1>3. QED
  BY <1>1, <1>2, ReceiveOK DEF QInv, Caused, AnswersHaveCause,
     AbsenceHasCause, AnswerWasTrue, FailureHasCause

(* What a query has seen, how often it failed and what went wrong last     *)
(* agree at every hop, from the chain to its answer.                       *)
THEOREM QueryInvariant == QuerySpec => []QInv
<1>1. QueryInit => QInv
  BY QueryInitInv
<1>2. QInv /\ [QueryNext]_queryvars => QInv'
  <2> SUFFICES ASSUME QInv, [QueryNext]_queryvars PROVE QInv'
    OBVIOUS
  <2>1. CASE ChainMoves
    BY <2>1, ChainMovesInv
  <2>2. CASE \E kind \in Question : Ask(kind)
    BY <2>2, AskInv
  <2>3. CASE SendQuery
    BY <2>3, SendQueryInv
  <2>4. CASE Attempt
    BY <2>4, AttemptInv
  <2>5. CASE Arrives
    BY <2>5, ArrivesInv
  <2>6. CASE Lose
    BY <2>6, LoseInv
  <2>7. CASE UNCHANGED queryvars
    BY <2>7 DEF queryvars, QInv, AnswersHaveCause,
       AbsenceHasCause, AnswerWasTrue, FailureHasCause
  <2>8. QED
    BY <2>1, <2>2, <2>3, <2>4, <2>5, <2>6, <2>7 DEF QueryNext
<1>3. QED
  BY <1>1, <1>2, PTL DEF QuerySpec

(* However many attempts pourtier and passeur make, and whatever the chain *)
(* holds: an answer about the chain was true at some moment of the query;  *)
(* an escrow is reported absent only if it was, or if every attempt        *)
(* failed; a query fails only if something on its way did, or if what it   *)
(* asks for was absent.                                                    *)
THEOREM AnswersAlwaysHaveCause == QuerySpec => [](AnswersHaveCause)
<1>1. QInv => AnswersHaveCause
  BY DEF QInv
<1>2. QED
  BY <1>1, QueryInvariant, PTL
=============================================================================
