---------------------------- MODULE EscrowProofs ----------------------------
(***************************************************************************)
(* Proofs about the escrow program, for all keys, limits, delays and       *)
(* supplies.  The inductive invariant is                                   *)
(*    TypeOK, AccountsBalance, GrantsAgree, HistoryOK  and  CapRespected   *)
(* where HistoryOK ties the program's own timestamps to what happened and  *)
(* says what an address without an account holds.                          *)
(***************************************************************************)
EXTENDS Escrow, TLAPS

USE ConstantsAssumption DEF ConstantsAssumption

(* The four counters are distinct.                                         *)
LEMMA Flows ==
  /\ Role \subseteq Flow
  /\ "deposited" \in Flow /\ "withdrawn" \in Flow
  /\ NoFlow \in [Flow -> {0}]
BY DEF Flow, NoFlow

(* An account without authorities is well typed.                           *)
LEMMA NoGrants ==
  /\ [r \in Role |-> Nobody] \in [Role -> Keys \cup {Nobody}]
  /\ [r \in Role |-> FALSE] \in [Role -> BOOLEAN]
  /\ [r \in Role |-> 0] \in [Role -> Nat]
OBVIOUS

(* No instruction takes a field out of its type: that balance stays within *)
(* the supply and no counter overflows is what the checks before each      *)
(* token transfer are for.                                                 *)
LEMMA NextTypes == TypeOK /\ [Next]_vars => TypeOK'
<1> SUFFICES ASSUME TypeOK, [Next]_vars PROVE TypeOK'
  OBVIOUS
<1> USE DEF TypeOK, Time, Amount
<1>nonce. BumpNonce => action_nonce' \in 0..(NonceSpan - 1)
  BY DEF BumpNonce
<1>count. ASSUME NEW f \in Flow, NEW a \in Nat, Count(f, a)
          PROVE total' \in [Flow -> Amount]
  BY <1>count DEF Count
<1>zero. ASSUME Zeroed
         PROVE  /\ authority' \in [Role -> Keys \cup {Nobody}]
                /\ active' \in [Role -> BOOLEAN]
                /\ activated_at' \in [Role -> Nat]
                /\ paused' \in BOOLEAN
                /\ total' \in [Flow -> Amount]
                /\ action_nonce' \in 0..(NonceSpan - 1)
                /\ last_paused_at' \in Nat /\ received' \in Nat
                /\ max_lifetime' \in Lifetimes \cup {0}
                /\ balance' \in 0..Supply
  <2>1. /\ authority' \in [Role -> Keys \cup {Nobody}]
        /\ active' \in [Role -> BOOLEAN]
        /\ activated_at' \in [Role -> Nat]
    BY <1>zero, NoGrants DEF Zeroed
  <2>2. paused' \in BOOLEAN
    BY <1>zero DEF Zeroed
  <2>3. total' \in [Flow -> Amount]
    BY <1>zero, Flows DEF Zeroed
  <2>4. /\ action_nonce' \in 0..(NonceSpan - 1)
        /\ last_paused_at' \in Nat /\ received' \in Nat
        /\ max_lifetime' \in Lifetimes \cup {0}
        /\ balance' \in 0..Supply
    BY <1>zero DEF Zeroed
  <2> QED
    BY <2>1, <2>2, <2>3, <2>4
<1>1. ASSUME NEW cap \in 0..MaxAllowedBalance, InitializeEscrow(cap)
      PROVE TypeOK'
  <2>1. exists' \in BOOLEAN
    BY <1>1 DEF InitializeEscrow
  <2>2. created_at' \in Nat /\ max_balance' \in 0..MaxAllowedBalance
    BY <1>1 DEF InitializeEscrow
  <2> QED
    BY <2>1, <2>2, <1>1, <1>zero DEF InitializeEscrow
<1>2. ASSUME NEW a \in Amounts, DepositToken(a) PROVE TypeOK'
  BY <1>2, <1>nonce, <1>count, Flows DEF DepositToken, Amounts, life, grants,
     pausing
<1>3. ASSUME NEW r \in Role, NEW k \in Keys, DelegateAuthority(r, k)
      PROVE TypeOK'
  BY <1>3, <1>nonce DEF DelegateAuthority, SetActive, life, pausing, money
<1>4. ASSUME NEW r \in Role, RevokeAuthority(r) PROVE TypeOK'
  BY <1>4, <1>nonce DEF RevokeAuthority, SetActive, life, pausing, money
<1>5. ASSUME NEW r \in Role, NEW k \in Keys, NEW a \in Amounts,
             AuthorityWithdraw(r, k, a)
      PROVE TypeOK'
  BY <1>5, <1>nonce, <1>count, Flows
  DEF AuthorityWithdraw, Amounts, life, grants, pausing
<1>6. ASSUME NEW a \in Amounts, OwnerTakes(a) PROVE TypeOK'
  BY <1>6, <1>nonce, <1>count, Flows DEF OwnerTakes, Amounts, life, grants,
     pausing
<1>7. CASE PauseEscrow
  BY <1>7, <1>nonce DEF PauseEscrow, life, grants, money
<1>8. CASE UnpauseEscrow
  BY <1>8, <1>nonce DEF UnpauseEscrow, life, grants, money
<1>9. ASSUME NEW s \in Lifetimes, SetMaxLifetime(s) PROVE TypeOK'
  BY <1>9, <1>nonce DEF SetMaxLifetime, life, grants, pausing, money
<1>10. CASE CloseEscrow
  <2>1. exists' \in BOOLEAN
    BY <1>10 DEF CloseEscrow
  <2>2. created_at' \in Nat /\ max_balance' \in 0..MaxAllowedBalance
    BY <1>10 DEF CloseEscrow
  <2>3. since' \in [Role -> Time]
    BY <1>10 DEF CloseEscrow
  <2> QED
    BY <2>1, <2>2, <2>3, <1>10, <1>zero DEF CloseEscrow
<1>11. ASSUME NEW a \in Amounts, Receive(a) PROVE TypeOK'
  BY <1>11 DEF Receive, Amounts, life, grants, pausing
<1>12. CASE Tick
  BY <1>12 DEF Tick, life, grants, pausing, money
<1>13. CASE UNCHANGED vars
  BY <1>13 DEF vars, life, grants, pausing, money
<1> QED
  BY <1>1, <1>2, <1>3, <1>4, <1>5, <1>6, <1>7, <1>8, <1>9, <1>10, <1>11,
     <1>12, <1>13 DEF Next, Owner, Others, WithdrawToken, EmergencyWithdraw

(* They have them from the beginning.                                      *)
LEMMA TypesBegin == Init => TypeOK
<1> SUFFICES ASSUME Init PROVE TypeOK
  OBVIOUS
<1>1. total \in [Flow -> Amount]
  BY Flows DEF Init, Amount
<1>2. exists \in BOOLEAN /\ paused \in BOOLEAN
  BY DEF Init
<1>3. /\ now \in Time \ {0}
      /\ {last_paused_at, created_at, received, lastPause} \subseteq Nat
      /\ action_nonce \in 0..(NonceSpan - 1)
      /\ max_balance \in 0..MaxAllowedBalance
      /\ max_lifetime \in Lifetimes \cup {0}
      /\ balance \in 0..Supply
  BY DEF Init, Time
<1>4. /\ authority \in [Role -> Keys \cup {Nobody}]
      /\ active \in [Role -> BOOLEAN]
      /\ activated_at \in [Role -> Time] /\ since \in [Role -> Time]
  BY NoGrants DEF Init, Time
<1> QED
  BY <1>1, <1>2, <1>3, <1>4 DEF TypeOK, Time

(* The account's fields keep their types.                                  *)
THEOREM TypeInvariant == Spec => []TypeOK
BY TypesBegin, NextTypes, PTL DEF Spec
-----------------------------------------------------------------------------
(* What each counter becomes when one of them is increased.                *)
LEMMA CountAdds ==
  ASSUME TypeOK, NEW f \in Flow, NEW a \in Nat, Count(f, a)
  PROVE  \A g \in Flow : total'[g] = IF g = f THEN total[g] + a ELSE total[g]
BY DEF Count, TypeOK

(* A new and a closed account have all counters at zero.                   *)
LEMMA ZeroedTotals == Zeroed => \A f \in Flow : total'[f] = 0
BY DEF Zeroed, NoFlow

(* The counters account for every token, whichever instructions succeeded. *)
THEOREM TokensAccountedFor == Spec => []AccountsBalance
<1>1. Init => AccountsBalance
  BY DEF Init, AccountsBalance, NoFlow, Flow, Role
<1>2. TypeOK /\ AccountsBalance /\ [Next]_vars => AccountsBalance'
  <2> SUFFICES ASSUME TypeOK, AccountsBalance, [Next]_vars
               PROVE  AccountsBalance'
    OBVIOUS
  <2> USE DEF AccountsBalance
  <2>flows. "withdrawn" \in Flow /\ "platform" \in Flow /\ "trading" \in Flow
            /\ "deposited" \in Flow
    BY DEF Flow, Role
  <2>types. /\ balance \in Nat /\ received \in Nat
            /\ \A f \in Flow : total[f] \in Nat
    BY DEF TypeOK, Amount
  <2>same. ASSUME UNCHANGED money PROVE AccountsBalance'
    BY <2>same DEF money
  <2>zero. ASSUME Zeroed PROVE AccountsBalance'
    BY <2>zero, <2>flows, ZeroedTotals DEF Zeroed
  <2>1. ASSUME NEW a \in Amounts, DepositToken(a) PROVE AccountsBalance'
    BY <2>1, <2>flows, <2>types, CountAdds DEF DepositToken, Amounts
  <2>2. ASSUME NEW r \in Role, NEW k \in Keys, NEW a \in Amounts,
               AuthorityWithdraw(r, k, a)
        PROVE AccountsBalance'
    <3>1. r \in Flow /\ a \in Nat /\ Count(r, a)
      BY <2>2 DEF AuthorityWithdraw, Amounts, Flow
    <3>2. \A g \in Flow : total'[g] = IF g = r THEN total[g] + a ELSE total[g]
      BY <3>1, CountAdds
    <3>3. r = "platform" \/ r = "trading"
      BY DEF Role
    <3>4. balance' = balance - a /\ received' = received
      BY <2>2 DEF AuthorityWithdraw
    <3> QED
      BY <3>1, <3>2, <3>3, <3>4, <2>flows, <2>types
  <2>3. ASSUME NEW a \in Amounts, OwnerTakes(a) PROVE AccountsBalance'
    BY <2>3, <2>flows, <2>types, CountAdds DEF OwnerTakes, Amounts
  <2>4. ASSUME NEW a \in Amounts, Receive(a) PROVE AccountsBalance'
    BY <2>4, <2>flows, <2>types DEF Receive, Amounts
  <2> QED
    BY <2>same, <2>zero, <2>1, <2>2, <2>3, <2>4
    DEF Next, Owner, Others, vars, InitializeEscrow, DelegateAuthority,
        RevokeAuthority, WithdrawToken, EmergencyWithdraw, PauseEscrow,
        UnpauseEscrow, SetMaxLifetime, CloseEscrow, Tick
<1> QED
  BY <1>1, <1>2, TypeInvariant, PTL DEF Spec
-----------------------------------------------------------------------------
(* The flag, the key and the time of a delegation always agree.            *)
THEOREM GrantsAlwaysAgree == Spec => []GrantsAgree
<1>1. Init => GrantsAgree
  BY DEF Init, GrantsAgree
<1>2. TypeOK /\ GrantsAgree /\ [Next]_vars => GrantsAgree'
  <2> SUFFICES ASSUME TypeOK, GrantsAgree, [Next]_vars, NEW q \in Role
               PROVE  /\ active'[q] <=> authority'[q] # Nobody
                      /\ active'[q] <=> activated_at'[q] # 0
    BY DEF GrantsAgree
  <2> USE DEF GrantsAgree
  <2>types. /\ authority \in [Role -> Keys \cup {Nobody}]
            /\ active \in [Role -> BOOLEAN]
            /\ activated_at \in [Role -> Nat]
            /\ now # 0
    BY DEF TypeOK, Time
  <2>same. ASSUME UNCHANGED grants
           PROVE  /\ active'[q] <=> authority'[q] # Nobody
                  /\ active'[q] <=> activated_at'[q] # 0
    BY <2>same DEF grants
  <2>zero. ASSUME Zeroed
           PROVE  /\ active'[q] <=> authority'[q] # Nobody
                  /\ active'[q] <=> activated_at'[q] # 0
    BY <2>zero DEF Zeroed
  <2>1. ASSUME NEW r \in Role, NEW k \in Keys, DelegateAuthority(r, k)
        PROVE  /\ active'[q] <=> authority'[q] # Nobody
               /\ active'[q] <=> activated_at'[q] # 0
    BY <2>1, <2>types DEF DelegateAuthority, SetActive
  <2>2. ASSUME NEW r \in Role, RevokeAuthority(r)
        PROVE  /\ active'[q] <=> authority'[q] # Nobody
               /\ active'[q] <=> activated_at'[q] # 0
    BY <2>2, <2>types DEF RevokeAuthority, SetActive
  <2> QED
    BY <2>same, <2>zero, <2>1, <2>2
    DEF Next, Owner, Others, vars, InitializeEscrow, DepositToken,
        AuthorityWithdraw, WithdrawToken, EmergencyWithdraw, OwnerTakes,
        PauseEscrow, UnpauseEscrow, SetMaxLifetime, CloseEscrow, Receive, Tick
<1> QED
  BY <1>1, <1>2, TypeInvariant, PTL DEF Spec

(* The owner and an authority are never both able to take tokens out.      *)
THEOREM OneSpenderAtATime == Spec => []SpendersExclusive
<1>1. TypeOK /\ GrantsAgree => SpendersExclusive
  BY DEF TypeOK, GrantsAgree, SpendersExclusive, OwnerMayTake, AuthorityMayTake,
         HasActiveAuthority
<1> QED
  BY <1>1, TypeInvariant, GrantsAlwaysAgree, PTL
-----------------------------------------------------------------------------
(* The timestamps the program keeps agree with what happened: the part of  *)
(* the inductive invariant that the action properties below rest on.       *)
LEMMA History == Spec => []HistoryOK
<1>1. Init => HistoryOK
  BY DEF Init, HistoryOK
<1>2. TypeOK /\ GrantsAgree /\ HistoryOK /\ [Next]_vars => HistoryOK'
  <2> SUFFICES ASSUME TypeOK, GrantsAgree, HistoryOK, [Next]_vars
               PROVE  HistoryOK'
    OBVIOUS
  <2> USE DEF HistoryOK
  <2>types. /\ now \in Nat \ {0} /\ lastPause \in Nat
            /\ since \in [Role -> Nat] /\ activated_at \in [Role -> Nat]
            /\ authority \in [Role -> Keys \cup {Nobody}]
    BY DEF TypeOK, Time
  <2>money. ASSUME exists,
                   UNCHANGED <<now, life, grants, pausing, since, lastPause>>
            PROVE  HistoryOK'
    BY <2>money DEF life, grants, pausing
  <2>1. ASSUME NEW cap \in 0..MaxAllowedBalance, InitializeEscrow(cap)
        PROVE  HistoryOK'
    BY <2>1, <2>types DEF InitializeEscrow, Zeroed
  <2>2. ASSUME NEW r \in Role, NEW k \in Keys, DelegateAuthority(r, k)
        PROVE  HistoryOK'
    BY <2>2, <2>types DEF DelegateAuthority, Usable, life, pausing
  <2>3. ASSUME NEW r \in Role, RevokeAuthority(r) PROVE HistoryOK'
    BY <2>3, <2>types DEF RevokeAuthority, Usable, life, pausing
  <2>4. CASE PauseEscrow
    BY <2>4, <2>types DEF PauseEscrow, life, grants
  <2>5. CASE UnpauseEscrow
    BY <2>5, <2>types DEF UnpauseEscrow, CanUnpause, life, grants
  <2>6. CASE CloseEscrow
    BY <2>6, <2>types DEF CloseEscrow, Usable, Zeroed
  <2>7. CASE Tick
    BY <2>7, <2>types DEF Tick, life, grants, pausing, money
  <2>8. CASE UNCHANGED vars
    BY <2>8 DEF vars, life, grants, pausing, money
  <2> QED
    BY <2>money, <2>1, <2>2, <2>3, <2>4, <2>5, <2>6, <2>7, <2>8
    DEF Next, Owner, Others, Usable, DepositToken, AuthorityWithdraw,
        WithdrawToken, EmergencyWithdraw, OwnerTakes, SetMaxLifetime, Receive
<1> QED
  BY <1>1, <1>2, TypeInvariant, GrantsAlwaysAgree, PTL DEF Spec

(* The only step that moves a role's counter up is its own withdrawal.     *)
LEMMA SpendingStep ==
  ASSUME TypeOK, Next, NEW r \in Role, Spends(r)
  PROVE  \E k \in Keys, a \in Amounts : AuthorityWithdraw(r, k, a)
<1> USE DEF Spends
<1>flows. r \in Flow /\ total[r] \in Nat /\ r # "deposited" /\ r # "withdrawn"
  BY DEF TypeOK, Amount, Flow, Role
<1>same. ~(total' = total)
  BY <1>flows
<1>zero. ~Zeroed
  BY <1>flows, ZeroedTotals
<1>1. ASSUME NEW a \in Amounts PROVE ~DepositToken(a) /\ ~OwnerTakes(a)
  <2>1. a \in Nat /\ "deposited" \in Flow /\ "withdrawn" \in Flow
    BY DEF Amounts, Flow
  <2> QED
    BY <1>flows, <2>1, CountAdds DEF DepositToken, OwnerTakes
<1>2. PICK q \in Role, k \in Keys, a \in Amounts : AuthorityWithdraw(q, k, a)
  BY <1>same, <1>zero, <1>1
  DEF Next, Owner, Others, money, InitializeEscrow, DelegateAuthority,
      RevokeAuthority, WithdrawToken, EmergencyWithdraw, PauseEscrow,
      UnpauseEscrow, SetMaxLifetime, CloseEscrow, Receive, Tick
<1>3. q \in Flow /\ a \in Nat /\ Count(q, a)
  BY <1>2 DEF AuthorityWithdraw, Amounts, Flow
<1>4. q = r
  BY <1>3, <1>flows, CountAdds
<1> QED
  BY <1>2, <1>4

(* An authority spends only after holding the role for the whole time-lock.*)
THEOREM TimeLockHolds == Spec => TimeLock
<1>1. TypeOK /\ GrantsAgree /\ HistoryOK /\ [Next]_vars
        => [\A r \in Role : Spends(r) => now - since[r] >= MinAuthorityAge]_vars
  <2> SUFFICES ASSUME TypeOK, GrantsAgree, HistoryOK, Next,
                      NEW r \in Role, Spends(r)
               PROVE  now - since[r] >= MinAuthorityAge
    OBVIOUS
  <2>1. PICK k \in Keys, a \in Amounts : AuthorityWithdraw(r, k, a)
    BY SpendingStep
  <2>2. authority[r] # Nobody
    BY <2>1 DEF AuthorityWithdraw
  <2>3. since[r] = activated_at[r]
    BY <2>2 DEF HistoryOK
  <2> QED
    BY <2>1, <2>3 DEF AuthorityWithdraw, IsMature
<1> QED
  BY <1>1, TypeInvariant, GrantsAlwaysAgree, History, PTL DEF Spec, TimeLock

(* No authority spends while paused, nor until the cooldown has elapsed    *)
(* since the last pause.                                                   *)
THEOREM PauseAlwaysHolds == Spec => PauseHolds
<1>1. TypeOK /\ HistoryOK /\ [Next]_vars
        => [\A r \in Role : Spends(r) =>
              ~paused /\ (lastPause # 0 => now - lastPause >= UnpauseCooldown)]_vars
  <2> SUFFICES ASSUME TypeOK, HistoryOK, Next, NEW r \in Role, Spends(r)
               PROVE  /\ ~paused
                      /\ lastPause # 0 => now - lastPause >= UnpauseCooldown
    OBVIOUS
  <2>1. PICK k \in Keys, a \in Amounts : AuthorityWithdraw(r, k, a)
    BY SpendingStep
  <2>2. ~paused
    BY <2>1 DEF AuthorityWithdraw, Usable
  <2> QED
    BY <2>2 DEF HistoryOK
<1> QED
  BY <1>1, TypeInvariant, History, PTL DEF Spec, PauseHolds
-----------------------------------------------------------------------------
(* A pause freezes an escrow whose rights are delegated.                   *)
THEOREM PauseAlwaysFreezes == Spec => PauseFreezes
<1>1. TypeOK /\ HistoryOK /\ [Next]_vars
        => [paused /\ paused' /\ HasActiveAuthority =>
              balance' >= balance /\ UNCHANGED grants /\ exists']_vars
  <2> SUFFICES ASSUME TypeOK, HistoryOK, Next, paused, paused',
                      HasActiveAuthority
               PROVE  balance' >= balance /\ UNCHANGED grants /\ exists'
    OBVIOUS
  <2>1. balance \in Nat
    BY DEF TypeOK
  <2>2. \A a \in Amounts : ~OwnerTakes(a)
    BY DEF OwnerTakes
  <2>3. \A cap : ~InitializeEscrow(cap)
    BY DEF InitializeEscrow, Zeroed
  <2>4. ~Usable
    BY DEF Usable
  <2>5. ASSUME exists, UNCHANGED <<life, grants, money>>
        PROVE  balance' >= balance /\ UNCHANGED grants /\ exists'
    BY <2>1, <2>5 DEF life, money
  <2>6. CASE Owner
    BY <2>2, <2>3, <2>4, <2>5, <2>6
    DEF Owner, DepositToken, DelegateAuthority, RevokeAuthority, WithdrawToken,
        EmergencyWithdraw, PauseEscrow, UnpauseEscrow, SetMaxLifetime,
        CloseEscrow
  <2>7. ASSUME NEW a \in Amounts, Receive(a)
        PROVE  balance' >= balance /\ UNCHANGED grants /\ exists'
    BY <2>1, <2>7 DEF Receive, life, Amounts
  <2>8. CASE Tick
    <3>1. exists' = exists /\ balance' = balance /\ UNCHANGED grants
      BY <2>8 DEF Tick, life, money
    <3>2. exists
      BY DEF HistoryOK
    <3> QED
      BY <3>1, <3>2, <2>1
  <2> QED
    BY <2>4, <2>6, <2>7, <2>8 DEF Next, Others, AuthorityWithdraw
<1> QED
  BY <1>1, TypeInvariant, History, PTL DEF Spec, PauseFreezes

(* CapRespected needs the cap to be there: initialize_escrow never stores  *)
(* 0, for which deposit_token would skip the comparison.                   *)
CapSet == exists => max_balance > 0

(* Deposits never carry the balance over the owner's cap.                  *)
THEOREM CapAlwaysRespected == Spec => []CapRespected
<1>1. Init => CapSet /\ CapRespected
  BY DEF Init, CapSet, CapRespected
<1>2. TypeOK /\ CapSet /\ [Next]_vars => CapSet'
  <2> SUFFICES ASSUME TypeOK, CapSet, [Next]_vars PROVE CapSet'
    OBVIOUS
  <2>same. UNCHANGED life => CapSet'
    BY DEF life, CapSet
  <2>1. ASSUME NEW cap \in 0..MaxAllowedBalance, InitializeEscrow(cap)
        PROVE  CapSet'
    BY <2>1 DEF InitializeEscrow, CapSet
  <2>2. CloseEscrow => CapSet'
    BY DEF CloseEscrow, CapSet
  <2> QED
    BY <2>same, <2>1, <2>2
    DEF Next, Owner, Others, vars, DepositToken, DelegateAuthority,
        RevokeAuthority, AuthorityWithdraw, WithdrawToken, EmergencyWithdraw,
        OwnerTakes, PauseEscrow, UnpauseEscrow, SetMaxLifetime, Receive, Tick
<1>3. TypeOK /\ CapSet /\ CapRespected /\ [Next]_vars => CapRespected'
  <2> SUFFICES ASSUME TypeOK, CapSet, CapRespected, [Next]_vars, exists'
               PROVE  balance' <= max_balance' + received'
    BY DEF CapRespected
  <2>types. balance \in Nat /\ received \in Nat /\ max_balance \in Nat
    BY DEF TypeOK
  <2>same. ASSUME UNCHANGED <<life, money>>
           PROVE  balance' <= max_balance' + received'
    BY <2>same DEF life, money, CapRespected
  <2>1. ASSUME NEW cap \in 0..MaxAllowedBalance, InitializeEscrow(cap)
        PROVE  balance' <= max_balance' + received'
    BY <2>1 DEF InitializeEscrow, Zeroed
  <2>2. ASSUME NEW a \in Amounts, DepositToken(a)
        PROVE  balance' <= max_balance' + received'
    <3>1. a \in Nat /\ max_balance' = max_balance /\ received' = received
      BY <2>2 DEF DepositToken, Amounts, life
    <3>2. max_balance > 0
      BY <2>2 DEF DepositToken, Usable, CapSet
    <3> QED
      BY <2>2, <3>1, <3>2, <2>types DEF DepositToken, WithinCap
  <2>3. ASSUME exists, UNCHANGED <<life, received>>, balance' \in Nat,
               balance' <= balance
        PROVE  balance' <= max_balance' + received'
    BY <2>3, <2>types DEF life, CapRespected
  <2>4. ASSUME NEW r \in Role, NEW k \in Keys, NEW a \in Amounts,
               AuthorityWithdraw(r, k, a)
        PROVE  balance' <= max_balance' + received'
    BY <2>4, <2>3, <2>types DEF AuthorityWithdraw, Usable, Amounts
  <2>5. ASSUME NEW a \in Amounts, exists, OwnerTakes(a)
        PROVE  balance' <= max_balance' + received'
    BY <2>5, <2>3, <2>types DEF OwnerTakes, Amounts
  <2>6. ASSUME NEW a \in Amounts, Receive(a)
        PROVE  balance' <= max_balance' + received'
    BY <2>6, <2>types DEF Receive, life, Amounts, CapRespected
  <2> QED
    BY <2>same, <2>1, <2>2, <2>4, <2>5, <2>6
    DEF Next, Owner, Others, vars, Usable, DelegateAuthority, RevokeAuthority,
        WithdrawToken, EmergencyWithdraw, PauseEscrow, UnpauseEscrow,
        SetMaxLifetime, CloseEscrow, Tick
<1> QED
  BY <1>1, <1>2, <1>3, TypeInvariant, PTL DEF Spec
-----------------------------------------------------------------------------
(* The refinement mapping's holders: roles with a key on record.           *)
Rights == {r \in Role : authority[r] # Nobody}

(* The program implements Custody: every instruction is one step of the    *)
(* abstract custody or changes nothing of it.                              *)
THEOREM PromiseKept == Spec => ImplementsCustody
<1> USE DEF Promise!vars
<1>1. Init => Promise!Init
  BY DEF Init, Promise!Init
<1>2. TypeOK /\ GrantsAgree /\ HistoryOK /\ [Next]_vars
        => [Promise!Next]_(Promise!vars)
  <2> SUFFICES ASSUME TypeOK, GrantsAgree, HistoryOK, [Next]_vars
               PROVE  Promise!Next \/ UNCHANGED Promise!vars
    OBVIOUS
  <2>bal. balance \in Nat /\ Limit \in [Role -> Nat]
    BY DEF TypeOK, Limit
  <2>free. ~HasActiveAuthority => Rights = {}
    BY DEF HasActiveAuthority, GrantsAgree, Rights
  <2>same. ASSUME UNCHANGED <<exists, balance, authority, paused>>
           PROVE  UNCHANGED Promise!vars
    BY <2>same
  <2>1. ASSUME NEW cap \in 0..MaxAllowedBalance, InitializeEscrow(cap)
        PROVE  Promise!Open
    <3>1. /\ {r \in Role : authority[r] # Nobody} = {}
          /\ {r \in Role : authority'[r] # Nobody} = {}
      BY <2>1 DEF InitializeEscrow, Zeroed, HistoryOK
    <3>2. ~exists /\ exists' /\ balance' = balance
      BY <2>1 DEF InitializeEscrow, Zeroed, HistoryOK
    <3>3. paused' = paused
      <4>1. ~paused /\ paused \in BOOLEAN
        BY <3>2 DEF HistoryOK, TypeOK
      <4>2. paused' = FALSE
        BY <2>1 DEF InitializeEscrow, Zeroed
      <4> QED
        BY <4>1, <4>2
    <3>4. exists' = TRUE
      BY <2>1 DEF InitializeEscrow
    <3> QED
      BY <3>1, <3>2, <3>3, <3>4 DEF Promise!Open
  <2>2. ASSUME NEW a \in Amounts, DepositToken(a) \/ Receive(a)
        PROVE  Promise!PayIn
    BY <2>2, <2>bal
    DEF DepositToken, Receive, Usable, Amounts, life, grants, pausing,
        Promise!PayIn
  <2>3. ASSUME NEW r \in Role, NEW k \in Keys, DelegateAuthority(r, k)
        PROVE  Promise!Grant(r)
    <3>1. authority' = [authority EXCEPT ![r] = k] /\ authority[r] = Nobody
          /\ authority \in [Role -> Keys \cup {Nobody}] /\ k # Nobody
      BY <2>3 DEF DelegateAuthority, TypeOK
    <3>2. {q \in Role : authority'[q] # Nobody}
            = {q \in Role : authority[q] # Nobody} \cup {r}
      BY <3>1
    <3> QED
      BY <2>3, <3>1, <3>2
      DEF DelegateAuthority, Usable, life, pausing, money, Promise!Grant
  <2>4. ASSUME NEW r \in Role, RevokeAuthority(r) PROVE Promise!Revoke(r)
    <3>1. authority' = [authority EXCEPT ![r] = Nobody]
          /\ authority \in [Role -> Keys \cup {Nobody}]
      BY <2>4 DEF RevokeAuthority, TypeOK
    <3>2. {q \in Role : authority'[q] # Nobody}
            = {q \in Role : authority[q] # Nobody} \ {r}
      BY <3>1
    <3> QED
      BY <2>4, <3>2
      DEF RevokeAuthority, Usable, life, pausing, money, Promise!Revoke
  <2>5. ASSUME NEW r \in Role, NEW k \in Keys, NEW a \in Amounts,
               AuthorityWithdraw(r, k, a)
        PROVE  Promise!HolderTakes(r)
    BY <2>5, <2>bal
    DEF AuthorityWithdraw, Usable, Amounts, life, grants, pausing,
        Promise!HolderTakes
  <2>6. ASSUME NEW a \in Amounts, exists, OwnerTakes(a)
        PROVE  Promise!OwnerTakes
    BY <2>6, <2>bal, <2>free
    DEF OwnerTakes, Rights, Amounts, life, grants, pausing, Promise!OwnerTakes
  <2>7. CASE PauseEscrow
    BY <2>7 DEF PauseEscrow, life, grants, money, Promise!Next, Promise!Freeze
  <2>8. CASE UnpauseEscrow
    BY <2>8 DEF UnpauseEscrow, life, grants, money, Promise!Next, Promise!Thaw
  <2>9. CASE CloseEscrow
    <3>1. Rights = {} /\ {r \in Role : authority'[r] # Nobody} = {}
      BY <2>9, <2>free DEF CloseEscrow, Zeroed
    <3>2. /\ exists /\ ~paused /\ exists' = FALSE
          /\ balance = 0 /\ balance' = 0
      BY <2>9 DEF CloseEscrow, Usable, TokenAccountCloses, Zeroed
    <3>3. paused' = paused
      BY <2>9, <3>2 DEF CloseEscrow, Zeroed, TypeOK
    <3>4. Promise!Shut
      BY <3>1, <3>2, <3>3 DEF Rights, Promise!Shut
    <3> QED
      BY <3>4 DEF Promise!Next
  <2>10. ASSUME NEW s \in Lifetimes, SetMaxLifetime(s)
         PROVE  UNCHANGED Promise!vars
    BY <2>10, <2>same DEF SetMaxLifetime, life, grants, pausing, money
  <2>11. CASE Tick
    BY <2>11, <2>same DEF Tick, life, grants, pausing, money
  <2>12. CASE UNCHANGED vars
    BY <2>12, <2>same DEF vars, life, grants, pausing, money
  <2>13. CASE Owner
    BY <2>13, <2>1, <2>2, <2>3, <2>4, <2>6, <2>7, <2>8, <2>9, <2>10
    DEF Owner, WithdrawToken, EmergencyWithdraw, Usable, Promise!Next
  <2>14. CASE Others
    BY <2>14, <2>2, <2>5 DEF Others, Promise!Next
  <2> QED
    BY <2>11, <2>12, <2>13, <2>14 DEF Next
<1> QED
  BY <1>1, <1>2, TypeInvariant, GrantsAlwaysAgree, History, PTL
  DEF Spec, ImplementsCustody, Promise!Spec
=============================================================================
