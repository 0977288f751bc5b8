-------------------------- MODULE PreparationProofs --------------------------
(***************************************************************************)
(* The owner of an escrow is never given two transactions for one request  *)
(* that could both go through, unless requests with its key overlapped:    *)
(* for any number of requests, roles, keys and tokens, and however long a  *)
(* blockhash lives.                                                        *)
(*                                                                         *)
(* The invariant is about a key whose requests have not overlapped (Once). *)
(* One request at most fills it, and only while it holds no transaction;   *)
(* and what the owner has for it and can still be sent is the transaction  *)
(* that the store holds under it.                                          *)
(***************************************************************************)
EXTENDS Preparation, TLAPS

USE PreparationAssumption DEF PreparationAssumption

Given == hand \cup landed

Tokens == vault + wallet <= Supply

(* A request that is under way asks for something the routes take, and     *)
(* what was built for it is that.                                          *)
Served ==
  \A q \in Callers :
    /\ call[q].at # "idle" => call[q].ask \in Asks
    /\ call[q].at = "built" =>
         call[q].tx \in Transaction /\ AsAsked(call[q].ask, call[q].tx)

Stored == \A k \in Key : HasAnswer(k) => AsAsked(k, entry[k])

AllAsAsked == \A x \in Given : AsAsked(x[1], x[2])

Once(k) ==
  /\ \A q, r \in Filling(k) : q = r
  /\ Filling(k) # {} => ~HasAnswer(k)
  /\ \A x \in Given : KeyOf(x[1]) = k /\ Fresh(x[2]) => entry[k] = x[2]

PrepInv ==
  /\ PrepTypeOK /\ Tokens /\ Served /\ Stored /\ AllAsAsked
  /\ \A k \in Key \ raced : Once(k)
-----------------------------------------------------------------------------
(* A key stands for what it was made from.                                 *)
LEMMA KeyAsks ==
  ASSUME NEW a \in Asks, NEW t
  PROVE  /\ KeyOf(a) \in Key
         /\ AsAsked(KeyOf(a), t) <=> AsAsked(a, t)
<1>1. KeyOf(a) \in Key
  BY DEF Key
<1>2. CASE a.op # "delegate"
  BY <1>1, <1>2 DEF KeyOf
<1>3. CASE a.op = "delegate"
  <2>1. /\ KeyOf(a).op = a.op /\ KeyOf(a).role = a.role
    BY <1>3 DEF KeyOf, Asks, AskSet, InitializeAsks, DelegateAsks, RevokeAsks,
                DepositAsks, WithdrawAsks, CloseAsks
  <2>2. QED
    BY <1>1, <1>3, <2>1 DEF AsAsked
<1>4. QED
  BY <1>2, <1>3

LEMMA OlderIs ==
  ASSUME NEW t \in Transaction
  PROVE  /\ Older(t) \in Transaction
         /\ Fresh(Older(t)) => Fresh(t)
         /\ \A a : AsAsked(a, t) => AsAsked(a, Older(t))
<1>1. /\ Older(t) = [t EXCEPT !.age = IF t.age = Stale THEN Stale ELSE t.age + 1]
      /\ t.age \in 0..Stale /\ Stale = Life + 1
  BY DEF Older, Transaction, Stale
<1>2. Older(t) \in Transaction
  BY <1>1 DEF Transaction
<1>3. /\ Older(t).op = t.op /\ Older(t).role = t.role /\ Older(t).arg = t.arg
      /\ Older(t).age >= t.age
  BY <1>1 DEF Transaction
<1>4. Fresh(Older(t)) => Fresh(t)
  BY <1>1, <1>2, <1>3 DEF Fresh, Transaction
<1>5. QED
  BY <1>2, <1>3, <1>4 DEF AsAsked

Calls ==
  [at : {"idle", "sent", "missed", "calling", "built"},
   ask : Asks \cup {None}, tx : Transaction \cup {None}]

LEMMA NoPlaceholder == ASSUME NEW t \in Transaction PROVE t \notin {None, Reserved}
BY ValuesAssumption DEF ValuesAssumption

LEMMA InitInv == PrepInit => PrepInv
<1> SUFFICES ASSUME PrepInit PROVE PrepInv
  OBVIOUS
<1>1. /\ open = FALSE /\ vault = 0 /\ holders = {} /\ frozen = FALSE
      /\ wallet \in 0..Supply /\ leaving = FALSE /\ failures = 0
      /\ entry = [k \in Key |-> None] /\ hand = {} /\ landed = {}
      /\ call = [q \in Callers |-> Idle] /\ raced = {}
  BY DEF PrepInit, Chain!Init
<1>2. \A q \in Callers : call[q].at = "idle"
  BY <1>1 DEF Idle
<1>3. PrepTypeOK
  <2>1. vault \in 0..Supply /\ failures \in 0..MaxFailures
    BY <1>1
  <2>2. Idle \in [at : {"idle", "sent", "missed", "calling", "built"},
                  ask : Asks \cup {None}, tx : Transaction \cup {None}]
    BY DEF Idle
  <2>3. QED
    BY <1>1, <2>1, <2>2 DEF PrepTypeOK
<1>4. Served
  BY <1>2 DEF Served
<1>5. \A k \in Key : ~HasAnswer(k) /\ Filling(k) = {}
  BY <1>1, <1>2 DEF HasAnswer, Filling
<1>6. QED
  BY <1>1, <1>3, <1>4, <1>5
  DEF PrepInv, Tokens, Stored, AllAsAsked, Given, Once

(* The chain and the owner's plans matter to the types only.               *)
LEMMA ServiceKept ==
  ASSUME PrepInv, UNCHANGED <<entry, call, raced>>, Given' = Given,
         PrepTypeOK', Tokens'
  PROVE  PrepInv'
BY DEF PrepInv, Served, Stored, AllAsAsked, Once, Filling, HasAnswer, Given

(* No transaction is stored or given, and no request begins to fill a key. *)
LEMMA Steps ==
  ASSUME PrepInv, UNCHANGED <<chain, leaving, hand, landed, uses>>,
         PrepTypeOK', Served', raced \subseteq raced',
         \A k \in Key : HasAnswer(k)' => HasAnswer(k) /\ entry'[k] = entry[k],
         \A k \in Key \ raced' :
           /\ \A q, r \in Filling(k)' : q = r
           /\ Filling(k)' # {} => ~HasAnswer(k)
           /\ entry'[k] # entry[k] =>
                \A x \in Given : KeyOf(x[1]) = k => ~Fresh(x[2])
  PROVE  PrepInv'
<1>1. Tokens' /\ AllAsAsked' /\ Given' = Given
  BY DEF PrepInv, Tokens, AllAsAsked, Given, chain
<1>2. Stored'
  BY DEF PrepInv, Stored
<1>3. ASSUME NEW k \in Key \ raced' PROVE Once(k)'
  <2>1. Once(k)
    BY DEF PrepInv
  <2>2. QED
    BY <1>1, <2>1 DEF Once
<1>4. QED
  BY <1>1, <1>2, <1>3 DEF PrepInv

(* Request q becomes c.                                                    *)
LEMMA Moves ==
  ASSUME PrepInv, NEW q \in Callers, NEW c \in Calls,
         call' = [call EXCEPT ![q] = c],
         c.at # "idle" => c.ask \in Asks,
         c.at = "built" => c.tx \in Transaction /\ AsAsked(c.ask, c.tx)
  PROVE  /\ call' \in [Callers -> Calls]
         /\ Served'
         /\ \A k : Filling(k)' =
              IF c.at \in {"missed", "calling", "built"} /\ KeyOf(c.ask) = k
              THEN Filling(k) \cup {q} ELSE Filling(k) \ {q}
<1>1. /\ call' \in [Callers -> Calls] /\ call'[q] = c
      /\ \A r \in Callers \ {q} : call'[r] = call[r]
  BY DEF PrepInv, PrepTypeOK, Calls
<1>2. Served'
  BY <1>1 DEF PrepInv, Served
<1>3. QED
  BY <1>1, <1>2 DEF Filling

(* ... and goes on filling the key that it fills, or fills none.           *)
LEMMA GoesOn ==
  ASSUME PrepInv, NEW q \in Callers, NEW c \in Calls,
         call' = [call EXCEPT ![q] = c],
         c.at # "idle" => c.ask \in Asks,
         c.at = "built" => c.tx \in Transaction /\ AsAsked(c.ask, c.tx),
         c.at \in {"missed", "calling", "built"} => q \in Filling(KeyOf(c.ask)),
         failures' \in 0..MaxFailures,
         UNCHANGED <<chain, leaving, entry, raced, hand, landed, uses>>
  PROVE  PrepInv'
<1>1. /\ call' \in [Callers -> Calls] /\ Served'
      /\ \A k : Filling(k)' =
           IF c.at \in {"missed", "calling", "built"} /\ KeyOf(c.ask) = k
           THEN Filling(k) \cup {q} ELSE Filling(k) \ {q}
  BY Moves
<1>2. PrepTypeOK'
  BY <1>1 DEF PrepInv, PrepTypeOK, chain, Calls
<1>3. \A k \in Key : HasAnswer(k)' <=> HasAnswer(k)
  BY DEF HasAnswer
<1>4. \A k \in Key \ raced' :
        /\ \A p, r \in Filling(k)' : p = r
        /\ Filling(k)' # {} => ~HasAnswer(k)
  BY <1>1 DEF PrepInv, Once
<1>5. QED
  BY <1>1, <1>2, <1>3, <1>4, Steps

(* Request q is answered with t, which its key holds from now on.          *)
LEMMA Answers ==
  ASSUME PrepInv, NEW q \in Callers, NEW t \in Transaction, Answer(q, t),
         call[q].ask \in Asks, AsAsked(call[q].ask, t),
         NEW k, k = KeyOf(call[q].ask),
         entry' = [entry EXCEPT ![k] = t], UNCHANGED raced,
         k \notin raced =>
           /\ Filling(k) \subseteq {q}
           /\ \A x \in Given : KeyOf(x[1]) = k /\ Fresh(x[2]) => x[2] = t
  PROVE  PrepInv'
<1> DEFINE x0 == <<call[q].ask, t>>
<1>1. /\ call' = [call EXCEPT ![q] = Idle] /\ Idle \in Calls
      /\ Idle.at = "idle"
  BY DEF Answer, Idle, Calls
<1>2. /\ call' \in [Callers -> Calls] /\ Served'
      /\ \A j : Filling(j)' = Filling(j) \ {q}
  BY <1>1, Moves
<1>3. /\ hand' \subseteq hand \cup {x0} /\ landed' = landed
      /\ Given' \subseteq Given \cup {x0}
      /\ failures' \in 0..MaxFailures
  BY DEF Answer, Given, PrepInv, PrepTypeOK
<1>4. k \in Key /\ AsAsked(k, t)
  BY KeyAsks
<1>5. entry' \in [Key -> Transaction \cup {None, Reserved}]
  BY <1>4 DEF PrepInv, PrepTypeOK
<1>6. /\ entry'[k] = t
      /\ \A j \in Key \ {k} : entry'[j] = entry[j] /\ (HasAnswer(j)' <=> HasAnswer(j))
  BY <1>4 DEF PrepInv, PrepTypeOK, HasAnswer
<1>7. PrepTypeOK'
  <2>1. x0 \in Asks \X Transaction
    OBVIOUS
  <2>2. hand' \subseteq Asks \X Transaction /\ landed' \subseteq Asks \X Transaction
    BY <1>3, <2>1 DEF PrepInv, PrepTypeOK
  <2>3. QED
    BY <1>2, <1>3, <1>5, <2>2 DEF PrepInv, PrepTypeOK, Calls, Answer, chain
<1>8. Tokens'
  BY DEF PrepInv, Tokens, Answer, chain
<1>9. Stored'
  BY <1>4, <1>6 DEF PrepInv, Stored
<1>10. AllAsAsked'
  BY <1>3 DEF PrepInv, AllAsAsked
<1>11. ASSUME NEW j \in Key \ raced' PROVE Once(j)'
  <2>1. Once(j) /\ j \in Key
    BY DEF PrepInv
  <2>2. CASE j = k
    <3>1. Filling(j)' = {}
      BY <1>2, <2>2
    <3>2. \A x \in Given' : KeyOf(x[1]) = j /\ Fresh(x[2]) => x[2] = t
      BY <1>3, <2>2
    <3>3. QED
      BY <1>6, <2>2, <3>1, <3>2 DEF Once
  <2>3. CASE j # k
    <3>1. Filling(j)' \subseteq Filling(j)
      BY <1>2
    <3>2. \A x \in Given' : KeyOf(x[1]) = j => x \in Given
      BY <1>3, <2>3
    <3>3. QED
      BY <1>6, <2>1, <2>3, <3>1, <3>2 DEF Once
  <2>4. QED
    BY <2>2, <2>3
<1>12. QED
  BY <1>2, <1>7, <1>8, <1>9, <1>10, <1>11 DEF PrepInv
-----------------------------------------------------------------------------
LEMMA SendsInv ==
  ASSUME PrepInv, NEW q \in Callers, NEW a \in Asks, Sends(q, a)
  PROVE  PrepInv'
<1> DEFINE c == [at |-> "sent", ask |-> a, tx |-> None]
<1>1. c \in Calls /\ c.at = "sent" /\ c.ask = a
  BY DEF Calls
<1>2. /\ call' = [call EXCEPT ![q] = c] /\ failures' \in 0..MaxFailures
      /\ UNCHANGED <<chain, leaving, entry, raced, hand, landed, uses>>
  BY DEF Sends, PrepInv, PrepTypeOK
<1> HIDE DEF c
<1>3. QED
  BY <1>1, <1>2, GoesOn

(* A request that is under way, and what is known of it.                   *)
LEMMA UnderWay ==
  ASSUME PrepInv, NEW q \in Callers, call[q].at # "idle"
  PROVE  /\ call[q] \in Calls /\ call[q].ask \in Asks
         /\ KeyOf(call[q].ask) \in Key
         /\ call[q].at \in {"missed", "calling", "built"} =>
              q \in Filling(KeyOf(call[q].ask))
BY KeyAsks DEF PrepInv, PrepTypeOK, Calls, Served, Filling

LEMMA CheckStoreInv ==
  ASSUME PrepInv, NEW q \in Callers, CheckStore(q)
  PROVE  PrepInv'
<1> DEFINE k == KeyOf(call[q].ask)
<1>1. call[q].at = "sent" /\ call[q] \in Calls /\ call[q].ask \in Asks /\ k \in Key
  BY UnderWay DEF CheckStore
<1>2. CASE HasAnswer(k) /\ Answer(q, entry[k]) /\ UNCHANGED <<entry, raced>>
  <2>1. entry[k] \in Transaction
    BY <1>1, <1>2 DEF PrepInv, PrepTypeOK, HasAnswer
  <2>2. AsAsked(call[q].ask, entry[k])
    BY <1>1, <1>2, KeyAsks DEF PrepInv, Stored
  <2>3. entry' = [entry EXCEPT ![k] = entry[k]]
    BY <1>2 DEF PrepInv, PrepTypeOK
  <2>4. k \notin raced => Once(k)
    BY <1>1 DEF PrepInv
  <2> HIDE DEF k
  <2>5. k \notin raced =>
          /\ Filling(k) \subseteq {q}
          /\ \A x \in Given : KeyOf(x[1]) = k /\ Fresh(x[2]) => x[2] = entry[k]
    BY <1>2, <2>4 DEF Once
  <2>6. QED
    BY <1>1, <1>2, <2>1, <2>2, <2>3, <2>5, Answers DEF k
<1>3. ASSUME ~HasAnswer(k),
             call' = [call EXCEPT ![q].at = IF entry[k] = None THEN "missed"
                                                              ELSE "calling"],
             Overlap(k),
             UNCHANGED <<chain, leaving, entry, hand, landed, failures, uses>>
      PROVE  PrepInv'
  <2> DEFINE c == [call[q] EXCEPT !.at = IF entry[k] = None THEN "missed"
                                                            ELSE "calling"]
  <2>1. /\ c \in Calls /\ c.at \in {"missed", "calling"} /\ c.ask = call[q].ask
        /\ call' = [call EXCEPT ![q] = c]
    BY <1>1, <1>3 DEF Calls
  <2> HIDE DEF c
  <2>2. /\ call' \in [Callers -> Calls] /\ Served'
        /\ \A j : Filling(j)' = IF c.at \in {"missed", "calling", "built"}
                                   /\ KeyOf(c.ask) = j
                                 THEN Filling(j) \cup {q} ELSE Filling(j) \ {q}
    BY <1>1, <2>1, Moves
  <2>3. /\ raced \subseteq raced' /\ raced' \subseteq Key
        /\ Filling(k) # {} => k \in raced'
    BY <1>1, <1>3 DEF Overlap, PrepInv, PrepTypeOK
  <2>4. PrepTypeOK'
    BY <1>3, <2>2, <2>3 DEF PrepInv, PrepTypeOK, chain, Calls
  <2>5. \A j \in Key : HasAnswer(j)' <=> HasAnswer(j)
    BY <1>3 DEF HasAnswer
  <2>6. ASSUME NEW j \in Key \ raced'
        PROVE  /\ \A p, r \in Filling(j)' : p = r
               /\ Filling(j)' # {} => ~HasAnswer(j)
    <3>1. Once(j)
      BY <2>3 DEF PrepInv
    <3>2. CASE j = k
      <4>1. Filling(j)' \subseteq {q}
        BY <2>1, <2>2, <2>3, <3>2
      <4>2. QED
        BY <1>3, <3>2, <4>1
    <3>3. CASE j # k
      <4>1. Filling(j)' \subseteq Filling(j)
        BY <2>1, <2>2, <3>3
      <4>2. QED
        BY <3>1, <4>1 DEF Once
    <3>4. QED
      BY <3>2, <3>3
  <2>7. QED
    BY <1>3, <2>2, <2>3, <2>4, <2>5, <2>6, Steps
<1>4. QED
  BY <1>2, <1>3 DEF CheckStore

LEMMA ReserveInv ==
  ASSUME PrepInv, NEW q \in Callers, Reserve(q)
  PROVE  PrepInv'
<1> DEFINE k == KeyOf(call[q].ask)
           c == [call[q] EXCEPT !.at = "calling"]
<1>1. /\ call[q] \in Calls /\ call[q].ask \in Asks /\ k \in Key
      /\ q \in Filling(k)
  BY UnderWay DEF Reserve
<1>2. /\ c \in Calls /\ c.at = "calling" /\ c.ask = call[q].ask
      /\ call' = [call EXCEPT ![q] = c]
      /\ entry' = [entry EXCEPT ![k] = Reserved]
      /\ UNCHANGED <<chain, leaving, raced, hand, landed, failures, uses>>
  BY <1>1 DEF Reserve, Calls
<1> HIDE DEF c
<1>3. /\ call' \in [Callers -> Calls] /\ Served'
      /\ \A j : Filling(j)' = IF c.at \in {"missed", "calling", "built"}
                                 /\ KeyOf(c.ask) = j
                               THEN Filling(j) \cup {q} ELSE Filling(j) \ {q}
  BY <1>1, <1>2, Moves
<1>4. \A j \in Key : Filling(j)' \subseteq Filling(j)
  BY <1>1, <1>2, <1>3
<1>5. PrepTypeOK'
  BY <1>1, <1>2, <1>3 DEF PrepInv, PrepTypeOK, chain, Calls
<1>6. /\ \A j \in Key : HasAnswer(j)' => HasAnswer(j) /\ entry'[j] = entry[j]
      /\ \A j \in Key \ {k} : entry'[j] = entry[j]
  BY <1>1, <1>2 DEF HasAnswer, PrepInv, PrepTypeOK
<1>7. ASSUME NEW j \in Key \ raced'
      PROVE  /\ \A p, r \in Filling(j)' : p = r
             /\ Filling(j)' # {} => ~HasAnswer(j)
             /\ entry'[j] # entry[j] =>
                  \A x \in Given : KeyOf(x[1]) = j => ~Fresh(x[2])
  <2>1. Once(j)
    BY <1>2 DEF PrepInv
  <2>2. \A x \in Given : x[2] \in Transaction
    BY DEF PrepInv, PrepTypeOK, Given
  <2>3. CASE j # k
    BY <1>4, <1>6, <2>1, <2>3 DEF Once
  <2>4. CASE j = k
    <3>1. ~HasAnswer(j)
      BY <1>1, <2>1, <2>4 DEF Once
    <3>2. \A x \in Given : KeyOf(x[1]) = j => ~Fresh(x[2])
      BY <2>1, <2>2, <3>1, NoPlaceholder DEF Once, HasAnswer
    <3>3. QED
      BY <1>4, <2>1, <3>1, <3>2 DEF Once
  <2>5. QED
    BY <2>3, <2>4
<1>8. QED
  BY <1>2, <1>3, <1>5, <1>6, <1>7, Steps

(* What is built is what was asked for, of the types that the routes take. *)
LEMMA BuiltAsAsked ==
  ASSUME PrepInv, NEW q \in Callers, Build(q)
  PROVE  \E arg \in 0..Supply \cup Authority \cup {None} :
           /\ Builds(q, call[q].ask.op, arg)
           /\ call[q].ask.op \in {"deposit", "withdraw"} =>
                /\ arg \in 0..Supply
                /\ call[q].ask.arg = All
                     \/ arg \in {call[q].ask.arg - 1, call[q].ask.arg}
<1>1. call[q].at = "calling" /\ call[q].ask \in Asks
  BY UnderWay DEF Build, BuildInitialize, BuildDelegate, BuildRevoke,
                  BuildDeposit, BuildWithdraw, BuildClose, Builds
<1>2. vault \in 0..Supply
  BY DEF PrepInv, PrepTypeOK
<1>3. /\ call[q].ask.op = "delegate" => call[q].ask.arg \in Authority
      /\ call[q].ask.op = "deposit" => call[q].ask.arg \in 1..Supply
      /\ call[q].ask.op = "withdraw" => call[q].ask.arg \in 1..Supply \cup {All}
  BY <1>1 DEF Asks, AskSet, InitializeAsks, DelegateAsks, RevokeAsks,
              DepositAsks, WithdrawAsks, CloseAsks
<1>4. CASE BuildInitialize(q) \/ BuildRevoke(q) \/ BuildClose(q)
  BY <1>4 DEF BuildInitialize, BuildRevoke, BuildClose, Builds
<1>5. CASE BuildDelegate(q)
  BY <1>3, <1>5 DEF BuildDelegate, Builds
<1>6. CASE BuildDeposit(q)
  <2> DEFINE arg == Converted(call[q].ask.arg)
  <2>1. Builds(q, "deposit", arg) /\ call[q].ask.op = "deposit"
    BY <1>6 DEF BuildDeposit, Builds
  <2>2. arg \in 0..Supply /\ arg \in {call[q].ask.arg - 1, call[q].ask.arg}
    BY <1>3, <2>1, UnitsAssumption DEF Converted
  <2> HIDE DEF arg
  <2>3. QED
    BY <2>1, <2>2
<1>7. CASE BuildWithdraw(q)
  <2> DEFINE arg == IF call[q].ask.arg = All
                    THEN vault ELSE Converted(call[q].ask.arg)
  <2>1. Builds(q, "withdraw", arg) /\ call[q].ask.op = "withdraw"
    BY <1>7 DEF BuildWithdraw, Builds
  <2>2. /\ arg \in 0..Supply
        /\ call[q].ask.arg = All \/ arg \in {call[q].ask.arg - 1, call[q].ask.arg}
    BY <1>2, <1>3, <2>1, UnitsAssumption DEF Converted
  <2> HIDE DEF arg
  <2>3. QED
    BY <2>1, <2>2
<1>8. QED
  BY <1>4, <1>5, <1>6, <1>7 DEF Build

LEMMA BuildInv ==
  ASSUME PrepInv, NEW q \in Callers, Build(q)
  PROVE  PrepInv'
<1>1. PICK arg \in 0..Supply \cup Authority \cup {None} :
        /\ Builds(q, call[q].ask.op, arg)
        /\ call[q].ask.op \in {"deposit", "withdraw"} =>
             /\ arg \in 0..Supply
             /\ call[q].ask.arg = All
                  \/ arg \in {call[q].ask.arg - 1, call[q].ask.arg}
  BY BuiltAsAsked
<1> DEFINE a == call[q].ask
           t == [op |-> a.op, role |-> a.role, arg |-> arg, age |-> 0]
           c == [call[q] EXCEPT !.at = "built", !.tx = t]
<1>2. call[q] \in Calls /\ a \in Asks /\ q \in Filling(KeyOf(a))
  BY <1>1, UnderWay DEF Builds
<1>3. t \in Transaction
  <2>1. /\ a.op \in {x.op : x \in Asks} /\ a.role \in Holder \cup {None}
        /\ a.op \in {"delegate", "revoke"} => a.role \in Holder
    BY <1>2 DEF Asks, AskSet, InitializeAsks, DelegateAsks, RevokeAsks,
                DepositAsks, WithdrawAsks, CloseAsks
  <2>2. 0 \in 0..Stale
    BY DEF Stale
  <2>3. QED
    BY <1>1, <2>1, <2>2 DEF Transaction
<1>4. AsAsked(a, t)
  BY <1>1 DEF AsAsked
<1>5. /\ c \in Calls /\ c.at = "built" /\ c.ask = a /\ c.tx = t
  BY <1>2, <1>3 DEF Calls
<1>6. /\ call' = [call EXCEPT ![q] = c] /\ failures' \in 0..MaxFailures
      /\ UNCHANGED <<chain, leaving, entry, raced, hand, landed, uses>>
  BY <1>1 DEF Builds, PrepInv, PrepTypeOK
<1> HIDE DEF a, t, c
<1>7. QED
  BY <1>2, <1>3, <1>4, <1>5, <1>6, GoesOn

LEMMA GivesUpInv ==
  ASSUME PrepInv, NEW q \in Callers, BuildRefused(q) \/ BreakOff(q)
  PROVE  PrepInv'
<1>1. /\ call' = [call EXCEPT ![q] = Idle] /\ failures' \in 0..MaxFailures
      /\ UNCHANGED <<chain, leaving, entry, raced, hand, landed, uses>>
  BY DEF BuildRefused, BreakOff, GivesUp, PrepInv, PrepTypeOK
<1>2. Idle \in Calls /\ Idle.at = "idle"
  BY DEF Idle, Calls
<1>3. QED
  BY <1>1, <1>2, GoesOn

LEMMA StoreResultInv ==
  ASSUME PrepInv, NEW q \in Callers, StoreResult(q)
  PROVE  PrepInv'
<1> DEFINE k == KeyOf(call[q].ask)
           t == call[q].tx
<1>1. /\ call[q].at = "built" /\ call[q].ask \in Asks
      /\ k \in Key /\ q \in Filling(k)
  BY UnderWay DEF StoreResult
<1>2. t \in Transaction /\ AsAsked(call[q].ask, t)
  BY <1>1 DEF PrepInv, Served
<1>3. Answer(q, t) /\ entry' = [entry EXCEPT ![k] = t] /\ UNCHANGED raced
  BY DEF StoreResult
<1>4. \A x \in Given : x[2] \in Transaction
  BY DEF PrepInv, PrepTypeOK, Given
<1>5. k \notin raced => Once(k)
  BY <1>1 DEF PrepInv
<1> HIDE DEF k, t
<1>6. k \notin raced =>
        /\ Filling(k) \subseteq {q}
        /\ \A x \in Given : KeyOf(x[1]) = k => ~Fresh(x[2])
  BY <1>1, <1>4, <1>5, NoPlaceholder DEF Once, HasAnswer
<1>7. QED
  BY <1>1, <1>2, <1>3, <1>6, Answers DEF k

LEMMA ForgetInv ==
  ASSUME PrepInv, NEW k \in Key, Forget(k)
  PROVE  PrepInv'
<1>1. /\ Forgettable(k) /\ entry' = [entry EXCEPT ![k] = None]
      /\ UNCHANGED <<chain, leaving, call, raced, hand, landed, failures, uses>>
  BY DEF Forget
<1>2. PrepTypeOK' /\ Served'
  BY <1>1 DEF PrepInv, PrepTypeOK, Served, chain
<1>3. /\ \A j \in Key : HasAnswer(j)' => HasAnswer(j) /\ entry'[j] = entry[j]
      /\ \A j \in Key \ {k} : entry'[j] = entry[j]
  BY <1>1 DEF HasAnswer, PrepInv, PrepTypeOK
<1>4. \A x \in Given : x[2] \in Transaction
  BY DEF PrepInv, PrepTypeOK, Given
<1>5. ASSUME NEW j \in Key \ raced'
      PROVE  /\ \A p, r \in Filling(j)' : p = r
             /\ Filling(j)' # {} => ~HasAnswer(j)
             /\ entry'[j] # entry[j] =>
                  \A x \in Given : KeyOf(x[1]) = j => ~Fresh(x[2])
  <2>1. Once(j) /\ Filling(j)' = Filling(j)
    BY <1>1 DEF PrepInv, Filling
  <2>2. ASSUME j = k, NEW x \in Given, KeyOf(x[1]) = j, Fresh(x[2])
        PROVE  FALSE
    <3>1. entry[j] = x[2] /\ x[2] \in Transaction
      BY <1>4, <2>1, <2>2 DEF Once
    <3>2. HasAnswer(j)
      BY <3>1, NoPlaceholder DEF HasAnswer
    <3>3. QED
      BY <1>1, <2>2, <3>1, <3>2 DEF Forgettable
  <2>3. entry'[j] # entry[j] => j = k
    BY <1>3
  <2>4. /\ \A p, r \in Filling(j)' : p = r
        /\ Filling(j)' # {} => ~HasAnswer(j)
    BY <2>1 DEF Once
  <2>5. QED
    BY <2>2, <2>3, <2>4
<1>6. QED
  BY <1>1, <1>2, <1>3, <1>5, Steps

(* Blockhashes go by: what is left of what the owner has is what he had,   *)
(* older, and so is what the store holds.                                  *)
LEMMA TimePassesInv ==
  ASSUME PrepInv, TimePasses
  PROVE  PrepInv'
<1> DEFINE Aged(H) == {<<x[1], Older(x[2])>> : x \in H}
           Valid(H) == {x \in Aged(H) : Fresh(x[2])}
<1>1. /\ call' = [q \in Callers |->
                   IF call[q].at = "built"
                   THEN [call[q] EXCEPT !.tx = Older(@)] ELSE call[q]]
      /\ entry' = [k \in Key |-> IF HasAnswer(k) THEN Older(entry[k])
                                                 ELSE entry[k]]
      /\ hand' = Valid(hand) /\ landed' = Valid(landed)
      /\ raced' = {k \in raced : \/ Filling(k) # {}
                                 \/ \E x \in hand' \cup landed' :
                                      KeyOf(x[1]) = k}
      /\ UNCHANGED <<chain, leaving, failures, uses>>
  BY DEF TimePasses
<1>2. ASSUME NEW H, H \subseteq Asks \X Transaction
      PROVE  /\ Valid(H) \subseteq Asks \X Transaction
             /\ \A y \in Valid(H) : \E x \in H :
                  y[1] = x[1] /\ y[2] = Older(x[2]) /\ Fresh(x[2])
  <2> SUFFICES ASSUME NEW y \in Valid(H)
               PROVE  /\ y \in Asks \X Transaction
                      /\ \E x \in H :
                           y[1] = x[1] /\ y[2] = Older(x[2]) /\ Fresh(x[2])
    OBVIOUS
  <2>1. PICK x \in H : y = <<x[1], Older(x[2])>>
    OBVIOUS
  <2>2. x[1] \in Asks /\ x[2] \in Transaction /\ Fresh(y[2])
    BY <1>2
  <2>3. y[1] = x[1] /\ y[2] = Older(x[2])
    BY <2>1
  <2>4. QED
    BY <2>1, <2>2, <2>3, OlderIs
<1>3. /\ hand \subseteq Asks \X Transaction /\ landed \subseteq Asks \X Transaction
  BY DEF PrepInv, PrepTypeOK
<1>4. /\ hand' \subseteq Asks \X Transaction /\ landed' \subseteq Asks \X Transaction
      /\ \A y \in Given' : \E x \in Given :
           y[1] = x[1] /\ y[2] = Older(x[2]) /\ Fresh(x[2])
  <2>1. /\ hand' = Valid(hand) /\ landed' = Valid(landed)
    BY <1>1
  <2> HIDE DEF Valid
  <2>2. QED
    BY <1>2, <1>3, <2>1 DEF Given
<1>5. \A x \in Given : x[2] \in Transaction
  BY <1>3 DEF Given
<1>6. ASSUME NEW q \in Callers
      PROVE  /\ call'[q] \in Calls
             /\ call'[q].at = call[q].at /\ call'[q].ask = call[q].ask
             /\ call[q].at = "built" =>
                  /\ call'[q].tx \in Transaction
                  /\ AsAsked(call'[q].ask, call'[q].tx)
  <2>1. call[q] \in Calls
    BY DEF PrepInv, PrepTypeOK, Calls
  <2>2. CASE call[q].at = "built"
    <3>1. call[q].tx \in Transaction /\ AsAsked(call[q].ask, call[q].tx)
      BY <2>2 DEF PrepInv, Served
    <3>2. Older(call[q].tx) \in Transaction
          /\ AsAsked(call[q].ask, Older(call[q].tx))
      BY <3>1, OlderIs
    <3>3. call'[q] = [call[q] EXCEPT !.tx = Older(call[q].tx)]
      BY <1>1, <2>2
    <3> HIDE DEF Aged, Valid
    <3>4. QED
      BY <2>1, <2>2, <3>2, <3>3 DEF Calls
  <2>3. CASE call[q].at # "built"
    BY <1>1, <2>1, <2>3
  <2>4. QED
    BY <2>2, <2>3
<1>7. ASSUME NEW k \in Key
      PROVE  /\ entry'[k] \in Transaction \cup {None, Reserved}
             /\ HasAnswer(k)' <=> HasAnswer(k)
             /\ HasAnswer(k) => /\ entry[k] \in Transaction
                                /\ entry'[k] = Older(entry[k])
  <2>1. entry[k] \in Transaction \cup {None, Reserved}
    BY DEF PrepInv, PrepTypeOK
  <2>2. entry'[k] = IF HasAnswer(k) THEN Older(entry[k]) ELSE entry[k]
    BY <1>1
  <2>3. CASE HasAnswer(k)
    <3>1. entry[k] \in Transaction
      BY <2>1, <2>3 DEF HasAnswer
    <3>2. Older(entry[k]) \in Transaction /\ Older(entry[k]) \notin {None, Reserved}
      BY <3>1, OlderIs, NoPlaceholder
    <3>3. QED
      BY <2>2, <2>3, <3>1, <3>2 DEF HasAnswer
  <2>4. CASE ~HasAnswer(k)
    BY <2>1, <2>2, <2>4 DEF HasAnswer
  <2>5. QED
    BY <2>3, <2>4
<1> HIDE DEF Aged, Valid
<1>8. PrepTypeOK' /\ Tokens' /\ Served'
  <2>1. call' \in [Callers -> Calls]
    BY <1>1, <1>6
  <2>2. entry' \in [Key -> Transaction \cup {None, Reserved}]
    BY <1>1, <1>7
  <2>3. raced' \subseteq Key
    BY <1>1 DEF PrepInv, PrepTypeOK
  <2>4. PrepTypeOK' /\ Tokens'
    BY <1>1, <1>4, <2>1, <2>2, <2>3 DEF PrepInv, PrepTypeOK, Tokens, chain, Calls
  <2>5. Served'
    BY <1>6 DEF PrepInv, Served
  <2>6. QED
    BY <2>4, <2>5
<1>9. Stored'
  BY <1>7, OlderIs DEF PrepInv, Stored
<1>10. AllAsAsked'
  BY <1>4, <1>5, OlderIs DEF PrepInv, AllAsAsked
<1>11. ASSUME NEW k \in Key \ raced' PROVE Once(k)'
  <2>1. Filling(k)' = Filling(k)
    BY <1>6 DEF Filling
  <2>2. CASE k \in raced
    <3>1. Filling(k) = {} /\ \A x \in Given' : KeyOf(x[1]) # k
      BY <1>1, <2>2 DEF Given
    <3>2. QED
      BY <2>1, <3>1 DEF Once
  <2>3. CASE k \notin raced
    <3>1. Once(k)
      BY <2>3 DEF PrepInv
    <3>2. ASSUME NEW y \in Given', KeyOf(y[1]) = k, Fresh(y[2])
          PROVE  entry'[k] = y[2]
      <4>1. PICK x \in Given : y[1] = x[1] /\ y[2] = Older(x[2]) /\ Fresh(x[2])
        BY <1>4
      <4>2. entry[k] = x[2] /\ HasAnswer(k)
        BY <1>5, <3>1, <3>2, <4>1, NoPlaceholder DEF Once, HasAnswer
      <4>3. QED
        BY <1>7, <4>1, <4>2
    <3>3. Filling(k)' # {} => ~HasAnswer(k)'
      BY <1>7, <2>1, <3>1 DEF Once
    <3>4. QED
      BY <2>1, <3>1, <3>2, <3>3 DEF Once
  <2>4. QED
    BY <2>2, <2>3
<1>12. QED
  BY <1>8, <1>9, <1>10, <1>11 DEF PrepInv
-----------------------------------------------------------------------------
(* What happens on the chain keeps its types and the tokens that exist.    *)
ChainTypes ==
  /\ open \in BOOLEAN /\ vault \in 0..Supply /\ wallet \in 0..Supply
  /\ holders \subseteq Holder /\ frozen \in BOOLEAN
  /\ vault + wallet <= Supply

LEMMA RightsKept ==
  ASSUME ChainTypes, UNCHANGED wallet,
         \/ Chain!Open \/ Chain!Shut \/ Chain!Freeze \/ Chain!Thaw
         \/ \E h \in Holder : Chain!Grant(h) \/ Chain!Revoke(h)
  PROVE  ChainTypes'
<1>1. /\ vault' = vault /\ open' \in BOOLEAN /\ frozen' \in BOOLEAN
      /\ holders' \subseteq Holder
  <2>1. CASE Chain!Open \/ Chain!Shut \/ Chain!Freeze \/ Chain!Thaw
    BY <2>1 DEF ChainTypes, Chain!Open, Chain!Shut, Chain!Freeze, Chain!Thaw
  <2>2. CASE \E h \in Holder : Chain!Grant(h) \/ Chain!Revoke(h)
    BY <2>2 DEF ChainTypes, Chain!Grant, Chain!Revoke
  <2>3. QED
    BY <2>1, <2>2
<1>2. QED
  BY <1>1 DEF ChainTypes

LEMMA Shares ==
  ASSUME NEW v \in Nat, NEW w \in Nat, v + w <= Supply
  PROVE  v \in 0..Supply /\ w \in 0..Supply
OBVIOUS

LEMMA Exchange ==
  ASSUME NEW v \in Nat, NEW w \in Nat, NEW v1 \in Nat, v + w <= Supply,
         w + v - v1 >= 0
  PROVE  w + v - v1 \in Nat /\ v1 + (w + v - v1) <= Supply
OBVIOUS

LEMMA TokensMove ==
  ASSUME ChainTypes, vault' \in Nat, wallet' \in Nat, vault' + wallet' <= Supply,
         \/ Chain!PayIn \/ Chain!OwnerTakes
         \/ \E h \in Holder : Chain!HolderTakes(h)
  PROVE  ChainTypes'
<1>1. UNCHANGED <<open, holders, frozen>>
  BY DEF Chain!PayIn, Chain!OwnerTakes, Chain!HolderTakes
<1>2. vault' \in 0..Supply /\ wallet' \in 0..Supply
  BY Shares
<1>3. QED
  BY <1>1, <1>2 DEF ChainTypes

LEMMA ExecutesKept ==
  ASSUME ChainTypes, NEW t \in Transaction, Executes(t)
  PROVE  ChainTypes'
<1>1. /\ t.op \in {"deposit", "withdraw"} => t.arg \in 0..Supply
      /\ t.op \in {"delegate", "revoke"} => t.role \in Holder
  BY DEF Transaction
<1>2. CASE /\ UNCHANGED wallet
           /\ \/ t.op = "initialize" /\ Chain!Open
              \/ t.op = "delegate" /\ Chain!Grant(t.role)
              \/ t.op = "revoke" /\ Chain!Revoke(t.role)
              \/ t.op = "close" /\ Chain!Shut
  BY <1>1, <1>2, RightsKept
<1>3. CASE /\ t.op = "deposit" /\ t.arg <= wallet /\ Chain!PayIn
           /\ vault' = vault + t.arg /\ wallet' = wallet - t.arg
  <2>1. vault' \in Nat /\ wallet' \in Nat /\ vault' + wallet' <= Supply
    BY <1>1, <1>3 DEF ChainTypes
  <2>2. QED
    BY <1>3, <2>1, TokensMove
<1>4. CASE /\ t.op = "withdraw" /\ Chain!OwnerTakes
           /\ vault' = vault - t.arg /\ wallet' = wallet + t.arg
  <2>1. vault' \in Nat /\ wallet' \in Nat /\ vault' + wallet' <= Supply
    BY <1>1, <1>4 DEF ChainTypes, Chain!OwnerTakes
  <2>2. QED
    BY <1>4, <2>1, TokensMove
<1>5. QED
  BY <1>2, <1>3, <1>4 DEF Executes

LEMMA ChainInv ==
  ASSUME PrepInv, ChainTypes', leaving' \in BOOLEAN,
         UNCHANGED <<service, hand, landed, failures, uses>>
  PROVE  PrepInv'
<1>1. Given' = Given /\ UNCHANGED <<entry, call, raced>>
  BY DEF Given, service
<1>2. PrepTypeOK' /\ Tokens'
  BY <1>1 DEF PrepInv, PrepTypeOK, Tokens, ChainTypes
<1>3. QED
  BY <1>1, <1>2, ServiceKept

LEMMA LandInv ==
  ASSUME PrepInv, NEW x \in hand, Land(x)
  PROVE  PrepInv'
<1>1. x[2] \in Transaction /\ ChainTypes
  BY DEF PrepInv, PrepTypeOK, ChainTypes, Tokens
<1>2. ChainTypes'
  BY <1>1, ExecutesKept DEF Land
<1>3. /\ hand' = hand \ {x} /\ landed' = landed \cup {x}
      /\ leaving' \in BOOLEAN /\ UNCHANGED <<service, failures, uses>>
  BY DEF Land
<1>4. Given' = Given /\ UNCHANGED <<entry, call, raced>>
  BY <1>3 DEF Given, service
<1>5. PrepTypeOK' /\ Tokens'
  BY <1>2, <1>3, <1>4 DEF PrepInv, PrepTypeOK, Tokens, ChainTypes
<1>6. QED
  BY <1>4, <1>5, ServiceKept

LEMMA OthersInv ==
  ASSUME PrepInv, OthersGoOn \/ OwnerElsewhere \/ Decide
  PROVE  PrepInv'
<1>1. ChainTypes /\ leaving \in BOOLEAN
  BY DEF PrepInv, PrepTypeOK, ChainTypes, Tokens
<1>2. CASE OthersGoOn
  <2>1. /\ vault' \in 0..Supply /\ vault' + wallet <= Supply
        /\ UNCHANGED <<wallet, leaving, service, hand, landed, failures, uses>>
        /\ \/ Chain!PayIn
           \/ \E h \in Holder : Chain!HolderTakes(h)
    BY <1>2 DEF OthersGoOn
  <2>2. vault' \in Nat /\ wallet' \in Nat /\ vault' + wallet' <= Supply
    <3>1. wallet' = wallet /\ wallet \in Nat /\ vault' \in Nat
      BY <1>1, <2>1 DEF ChainTypes
    <3>2. QED
      BY <2>1, <3>1
  <2>3. ChainTypes'
    BY <1>1, <2>1, <2>2, TokensMove
  <2>4. QED
    BY <1>1, <2>1, <2>3, ChainInv
<1>3. CASE OwnerElsewhere
  <2>1. UNCHANGED <<leaving, service, hand, landed, failures, uses>>
    BY <1>3 DEF OwnerElsewhere
  <2>2. CASE /\ UNCHANGED wallet
             /\ \/ Chain!Open \/ Chain!Shut \/ Chain!Freeze \/ Chain!Thaw
                \/ \E h \in Holder : Chain!Grant(h) \/ Chain!Revoke(h)
    BY <1>1, <2>1, <2>2, RightsKept, ChainInv
  <2>3. CASE /\ vault' \in 0..Supply /\ wallet' = wallet + vault - vault'
             /\ wallet' >= 0 /\ (Chain!PayIn \/ Chain!OwnerTakes)
    <3>1. /\ vault \in Nat /\ wallet \in Nat /\ vault + wallet <= Supply
          /\ vault' \in Nat
      <4>1. vault' \in 0..Supply
        BY <2>3
      <4>2. QED
        BY <1>1, <4>1 DEF ChainTypes
    <3>2. vault' \in Nat /\ wallet' \in Nat /\ vault' + wallet' <= Supply
      BY <2>3, <3>1, Exchange
    <3>3. ChainTypes'
      BY <1>1, <2>3, <3>2, TokensMove
    <3>4. QED
      BY <1>1, <2>1, <3>3, ChainInv
  <2>4. QED
    BY <1>3, <2>2, <2>3 DEF OwnerElsewhere
<1>4. CASE Decide
  <2>1. ChainTypes' /\ leaving' \in BOOLEAN
    BY <1>1, <1>4 DEF Decide, chain, ChainTypes
  <2>2. UNCHANGED <<service, hand, landed, failures, uses>>
    BY <1>4 DEF Decide
  <2>3. QED
    BY <2>1, <2>2, ChainInv
<1>5. QED
  BY <1>2, <1>3, <1>4
-----------------------------------------------------------------------------
LEMMA UsesKept == ASSUME PrepNext PROVE uses' = uses
BY DEF PrepNext, Ask, Sends, Serve, CheckStore, Answer, Reserve, Build,
       BuildInitialize, BuildDelegate, BuildRevoke, BuildDeposit,
       BuildWithdraw, BuildClose, Builds, BuildRefused, GivesUp, StoreResult,
       BreakOff, Forget, TimePasses, Decide, AskToLeave, SendToLeave,
       Business, Land, OthersGoOn, OwnerElsewhere

LEMMA StepInv ==
  ASSUME PrepInv, [PrepNext]_prepvars, uses \in Uses
  PROVE  PrepInv' /\ uses' \in Uses
<1>1. CASE PrepNext
  <2> SUFFICES PrepInv'
    BY <1>1, UsesKept
  <2>1. uses.callers \subseteq Callers /\ uses.asks \subseteq Asks
    BY UsesAssumption DEF UsesAssumption
  <2>2. ASSUME NEW q \in uses.callers, NEW a \in uses.asks, Ask(q, a)
        PROVE  PrepInv'
    BY <2>1, <2>2, SendsInv DEF Ask
  <2>3. ASSUME NEW q \in Callers, Serve(q) PROVE PrepInv'
    BY <2>3, CheckStoreInv, ReserveInv, BuildInv, GivesUpInv, StoreResultInv
    DEF Serve
  <2>4. ASSUME NEW q \in Callers, BreakOff(q) PROVE PrepInv'
    BY <2>4, GivesUpInv
  <2>5. CASE AskToLeave
    <3>1. Wanted \subseteq Asks
      BY DEF Wanted, Asks
    <3>2. PICK q \in uses.callers, a \in Wanted : Sends(q, a)
      BY <2>5 DEF AskToLeave
    <3>3. q \in Callers /\ a \in Asks
      BY <2>1, <3>1
    <3>4. QED
      BY <3>2, <3>3, SendsInv
  <2>6. CASE SendToLeave
    <3>1. PICK x \in hand : Land(x)
      BY <2>6 DEF SendToLeave
    <3>2. QED
      BY <3>1, LandInv
  <2>7. ASSUME NEW x \in hand, Business(x) PROVE PrepInv'
    BY <2>7, LandInv DEF Business
  <2>8. QED
    BY <1>1, <2>2, <2>3, <2>4, <2>5, <2>6, <2>7, ForgetInv, TimePassesInv,
       OthersInv DEF PrepNext
<1>2. CASE UNCHANGED prepvars
  <2>1. UNCHANGED <<service, hand, landed, failures, uses, leaving>>
        /\ ChainTypes' /\ leaving' \in BOOLEAN
    BY <1>2 DEF prepvars, chain, PrepInv, PrepTypeOK, ChainTypes, Tokens
  <2>2. QED
    BY <2>1, ChainInv
<1>3. QED
  BY <1>1, <1>2

(* However requests are retried, answered late or not at all, stored and   *)
(* forgotten, what is prepared has its types, and the tokens are as many   *)
(* as there are.                                                           *)
THEOREM PreparationTypes == PrepSpec => []PrepTypeOK
<1>1. PrepInit => PrepInv /\ uses \in Uses
  BY InitInv DEF PrepInit
<1>2. (PrepInv /\ uses \in Uses) /\ [PrepNext]_prepvars
        => (PrepInv /\ uses \in Uses)'
  BY StepInv
<1>3. PrepInv => PrepTypeOK
  BY DEF PrepInv
<1>4. QED
  BY <1>1, <1>2, <1>3, PTL DEF PrepSpec

LEMMA InvPreparedOnce == PrepInv => PreparedOnce
<1> SUFFICES ASSUME PrepInv, NEW x \in Given, NEW y \in Given
             PROVE  /\ AsAsked(x[1], x[2])
                    /\ KeyOf(x[1]) = KeyOf(y[1]) /\ Fresh(x[2]) /\ Fresh(y[2]) =>
                         x[2] = y[2] \/ KeyOf(x[1]) \in raced
  BY DEF PreparedOnce, Given
<1>1. AsAsked(x[1], x[2])
  BY DEF PrepInv, AllAsAsked
<1>2. KeyOf(x[1]) \in Key
  BY KeyAsks DEF Given, PrepInv, PrepTypeOK
<1>3. QED
  BY <1>1, <1>2 DEF PrepInv, Once

(* The owner never has two transactions under one key that could both go   *)
(* through, nor one when another has just gone through, unless requests    *)
(* with that key overlapped; and he has what he asked for.                 *)
THEOREM AlwaysPreparedOnce == PrepSpec => []PreparedOnce
<1>1. PrepInit => PrepInv /\ uses \in Uses
  BY InitInv DEF PrepInit
<1>2. (PrepInv /\ uses \in Uses) /\ [PrepNext]_prepvars
        => (PrepInv /\ uses \in Uses)'
  BY StepInv
<1>3. QED
  BY <1>1, <1>2, InvPreparedOnce, PTL DEF PrepSpec
=============================================================================
