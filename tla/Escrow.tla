------------------------------- MODULE Escrow -------------------------------
(***************************************************************************)
(* The on-chain escrow program (smart_contracts/programs/escrow): one      *)
(* escrow account and its token account, both addressed from the wallet of *)
(* their owner.  The owner delegates limited rights to two authorities:    *)
(* the platform (subscription fees) and the trading bot (trades).          *)
(*                                                                         *)
(* A Solana transaction is atomic: an instruction whose require! fails, or *)
(* whose token call fails, changes nothing.  So one action is one          *)
(* instruction, enabled exactly when the instruction succeeds.             *)
(* The clock is the cluster's, the SPL token program is external.          *)
(***************************************************************************)
EXTENDS Integers

CONSTANTS
  Keys,                 \* public keys an authority may be delegated to
  Nobody,               \* Pubkey::default(), the key that cannot sign
  MaxAllowedBalance,    \* MAX_ALLOWED_BALANCE
  DefaultMaxBalance,    \* DEFAULT_MAX_BALANCE
  MaxSubscriptionFee,   \* MAX_SUBSCRIPTION_FEE, per call
  MaxTransactionAmount, \* MAX_TRANSACTION_AMOUNT, per call
  MinAuthorityAge,      \* MIN_AUTHORITY_AGE, the delegation time-lock
  UnpauseCooldown,      \* UNPAUSE_COOLDOWN
  DustThreshold,        \* DUST_THRESHOLD
  MaxU64,               \* the largest u64
  NonceSpan,            \* 2^64, the range of the wrapping action_nonce
  Supply,               \* base units of the token that exist
  Lifetimes,            \* lifetimes the owner may set
  MaxTime               \* bound on the clock

ASSUME ConstantsAssumption ==
  /\ Nobody \notin Keys
  /\ {MaxAllowedBalance, DefaultMaxBalance} \subseteq Nat \ {0}
  /\ DefaultMaxBalance <= MaxAllowedBalance
  /\ {MaxSubscriptionFee, MaxTransactionAmount, DustThreshold} \subseteq Nat
  /\ {MinAuthorityAge, UnpauseCooldown, MaxTime} \subseteq Nat
  /\ MaxU64 \in Nat /\ Supply \in 0..MaxU64
  /\ NonceSpan \in Nat \ {0}
  /\ Lifetimes \subseteq Nat

Role == {"platform", "trading"}

(* The four cumulative counters of the account, by what they count.        *)
Flow == Role \cup {"deposited", "withdrawn"}

NoFlow == [f \in Flow |-> 0]

(* The most one call of an authority may move.                             *)
Limit == [r \in Role |-> IF r = "platform" THEN MaxSubscriptionFee
                                           ELSE MaxTransactionAmount]

VARIABLES
  now,            \* Clock::get()?.unix_timestamp
  exists,         \* whether the two accounts exist
  authority,      \* [Role -> key]: platform_authority, trading_authority
  active,         \* [Role -> BOOLEAN]: flags, bits 0 and 1
  activated_at,   \* [Role -> time]: {platform,trading}_activated_at
  paused,         \* flags, bit 2
  last_paused_at,
  created_at,
  action_nonce,
  total,          \* [Flow -> amount]: total_deposited, ..._withdrawn,
                  \*   ..._fees_paid ("platform"), ..._traded ("trading")
  max_balance,
  max_lifetime,
  balance,        \* escrow_token_account.amount
  (* History: read by no action, only by the properties.                   *)
  received,       \* tokens sent to the token account without deposit_token
  since,          \* [Role -> time]: when authority[r] last changed
  lastPause       \* when pause_escrow last succeeded, 0 if never

life    == <<exists, created_at, max_balance>>
grants  == <<authority, active, activated_at>>
pausing == <<paused, last_paused_at>>
money   == <<balance, total, received>>
vars    == <<now, life, max_lifetime, grants, pausing, action_nonce, money,
             since, lastPause>>
-----------------------------------------------------------------------------
(* Reading the account: state.rs.                                          *)

(* Mutated: && for || in has_active_authority.                             *)
BothActive == \A r \in Role : active[r]

HasActiveAuthority == \E r \in Role : active[r]

IsExpired == max_lifetime # 0 /\ now - created_at > max_lifetime

(* Mutated: no cooldown, only a later time.                                *)
CanUnpauseLater == last_paused_at = 0 \/ now > last_paused_at

CanUnpause == last_paused_at = 0 \/ now - last_paused_at >= UnpauseCooldown

(* Mutated: the age of the escrow for the age of the delegation.           *)
EscrowIsMature(r) == activated_at[r] # 0 /\ now - created_at >= MinAuthorityAge

IsMature(r) == activated_at[r] # 0 /\ now - activated_at[r] >= MinAuthorityAge

(* The account exists and require!(!escrow.is_paused()) holds.             *)
(* Mutated: the pause is not checked.                                      *)
UsableAnyway == exists

Usable == exists /\ ~paused

(* set_platform_active, set_trading_active.                                *)
(* Mutated: the flag is never cleared.                                     *)
RaiseActive(r, flag) == active' = [active EXCEPT ![r] = @ \/ flag]

SetActive(r, flag) == active' = [active EXCEPT ![r] = flag]

(* The cap on the balance a deposit may reach.                             *)
WithinCap(amount) == max_balance > 0 => balance + amount <= max_balance

(* action_nonce.wrapping_add(1): every instruction but initialize and      *)
(* close ends with it.                                                     *)
BumpNonce == action_nonce' = (action_nonce + 1) % NonceSpan

(* total_f.checked_add(amount): the instruction fails on overflow.         *)
(* Mutated: overwriting instead of adding.                                 *)
CountLast(f, amount) == total' = [total EXCEPT ![f] = amount]

Count(f, amount) ==
  /\ total[f] + amount <= MaxU64
  /\ total' = [total EXCEPT ![f] = @ + amount]
-----------------------------------------------------------------------------
Init ==
  /\ now = 1
  /\ exists = FALSE
  /\ authority = [r \in Role |-> Nobody]
  /\ active = [r \in Role |-> FALSE]
  /\ activated_at = [r \in Role |-> 0]
  /\ paused = FALSE
  /\ last_paused_at = 0
  /\ created_at = 0
  /\ action_nonce = 0
  /\ total = NoFlow
  /\ max_balance = 0
  /\ max_lifetime = 0
  /\ balance = 0
  /\ received = 0
  /\ since = [r \in Role |-> 0]
  /\ lastPause = 0

(* What the program writes into a new account; an address without account  *)
(* data reads the same.                                                    *)
Zeroed ==
  /\ authority' = [r \in Role |-> Nobody]
  /\ active' = [r \in Role |-> FALSE]
  /\ activated_at' = [r \in Role |-> 0]
  /\ paused' = FALSE
  /\ last_paused_at' = 0
  /\ action_nonce' = 0
  /\ total' = NoFlow
  /\ max_lifetime' = 0
  /\ balance' = 0
  /\ received' = 0

InitializeEscrow(cap) ==
  /\ ~exists
  /\ cap > 0 => cap <= MaxAllowedBalance
  /\ exists' = TRUE
  /\ created_at' = now
  /\ max_balance' = IF cap = 0 THEN DefaultMaxBalance ELSE cap
  /\ Zeroed
  /\ UNCHANGED <<now, since, lastPause>>

DepositToken(amount) ==
  /\ Usable
  /\ amount > 0
  /\ ~IsExpired
  /\ WithinCap(amount)
  /\ balance + amount <= Supply
  /\ Count("deposited", amount)
  /\ BumpNonce
  /\ balance' = balance + amount
  /\ UNCHANGED <<now, life, max_lifetime, grants, pausing, received, since,
                 lastPause>>

DelegateAuthority(r, key) ==
  /\ Usable
  /\ key # Nobody
  /\ authority[r] = Nobody
  /\ ~IsExpired
  /\ authority' = [authority EXCEPT ![r] = key]
  /\ SetActive(r, TRUE)
  /\ activated_at' = [activated_at EXCEPT ![r] = now]
  /\ BumpNonce
  /\ since' = [since EXCEPT ![r] = now]
  /\ UNCHANGED <<now, life, max_lifetime, pausing, money, lastPause>>

RevokeAuthority(r) ==
  /\ Usable
  /\ authority' = [authority EXCEPT ![r] = Nobody]
  /\ SetActive(r, FALSE)
  /\ activated_at' = [activated_at EXCEPT ![r] = 0]
  /\ BumpNonce
  /\ since' = [since EXCEPT ![r] = IF authority[r] = Nobody THEN @ ELSE now]
  /\ UNCHANGED <<now, life, max_lifetime, pausing, money, lastPause>>

(* withdraw_subscription_fee ("platform") and withdraw_for_trade           *)
(* ("trading"), signed by key: the tokens go to the signer's own account.  *)
AuthorityWithdraw(r, key, amount) ==
  /\ Usable
  /\ amount > 0
  /\ amount <= Limit[r]
  /\ key = authority[r]
  /\ IsMature(r)
  /\ amount <= balance
  /\ Count(r, amount)
  /\ BumpNonce
  /\ balance' = balance - amount
  /\ UNCHANGED <<now, life, max_lifetime, grants, pausing, received, since,
                 lastPause>>

(* What withdraw_token and emergency_withdraw share.                       *)
OwnerTakes(amount) ==
  /\ ~HasActiveAuthority
  /\ amount > 0
  /\ amount <= balance
  /\ Count("withdrawn", amount)
  /\ BumpNonce
  /\ balance' = balance - amount
  /\ UNCHANGED <<now, life, max_lifetime, grants, pausing, received, since,
                 lastPause>>

(* Mutated: an expired escrow refuses withdrawals like deposits.           *)
WithdrawTokenUnexpired(amount) == Usable /\ ~IsExpired /\ OwnerTakes(amount)

WithdrawToken(amount) == Usable /\ OwnerTakes(amount)

EmergencyWithdraw(amount) == exists /\ paused /\ OwnerTakes(amount)

PauseEscrow ==
  /\ exists
  /\ paused' = TRUE
  /\ last_paused_at' = now
  /\ BumpNonce
  /\ lastPause' = now
  /\ UNCHANGED <<now, life, max_lifetime, grants, money, since>>

UnpauseEscrow ==
  /\ exists
  /\ CanUnpause
  /\ paused' = FALSE
  /\ BumpNonce
  /\ UNCHANGED <<now, life, max_lifetime, grants, last_paused_at, money, since,
                 lastPause>>

SetMaxLifetime(seconds) ==
  /\ exists
  /\ max_lifetime' = seconds
  /\ BumpNonce
  /\ UNCHANGED <<now, life, grants, pausing, money, since, lastPause>>

(* SPL token: close_account fails while the account still holds tokens.    *)
TokenAccountCloses == balance = 0

CloseEscrow ==
  /\ Usable
  /\ ~HasActiveAuthority
  /\ balance <= DustThreshold
  /\ TokenAccountCloses
  /\ exists' = FALSE
  /\ created_at' = 0
  /\ max_balance' = 0
  /\ Zeroed
  /\ since' = [r \in Role |-> IF authority[r] = Nobody THEN since[r] ELSE now]
  /\ UNCHANGED <<now, lastPause>>

(* Anyone may transfer tokens straight to the token account: trade         *)
(* proceeds come back this way.                                            *)
Receive(amount) ==
  /\ exists
  /\ amount > 0
  /\ balance + amount <= Supply
  /\ balance' = balance + amount
  /\ received' = received + amount
  /\ UNCHANGED <<now, life, max_lifetime, grants, pausing, action_nonce, total,
                 since, lastPause>>

Tick ==
  /\ now < MaxTime
  /\ now' = now + 1
  /\ UNCHANGED <<life, max_lifetime, grants, pausing, action_nonce, money,
                 since, lastPause>>
-----------------------------------------------------------------------------
Amounts == 1..Supply

Owner ==
  \/ \E cap \in 0..MaxAllowedBalance : InitializeEscrow(cap)
  \/ \E a \in Amounts : DepositToken(a)
  \/ \E r \in Role, k \in Keys : DelegateAuthority(r, k)
  \/ \E r \in Role : RevokeAuthority(r)
  \/ \E a \in Amounts : WithdrawToken(a)
  \/ \E a \in Amounts : EmergencyWithdraw(a)
  \/ PauseEscrow
  \/ UnpauseEscrow
  \/ \E s \in Lifetimes : SetMaxLifetime(s)
  \/ CloseEscrow

Others ==
  \/ \E r \in Role, k \in Keys, a \in Amounts : AuthorityWithdraw(r, k, a)
  \/ \E a \in Amounts : Receive(a)

Next == Owner \/ Others \/ Tick

Spec == Init /\ [][Next]_vars
-----------------------------------------------------------------------------
Time == Nat
Amount == 0..MaxU64

(* The account's fields have their types, and what an instruction must not *)
(* overflow stays a u64.                                                   *)
TypeOK ==
  /\ now \in Time \ {0}
  /\ exists \in BOOLEAN
  /\ authority \in [Role -> Keys \cup {Nobody}]
  /\ active \in [Role -> BOOLEAN]
  /\ activated_at \in [Role -> Time]
  /\ paused \in BOOLEAN
  /\ last_paused_at \in Time
  /\ created_at \in Time
  /\ action_nonce \in 0..(NonceSpan - 1)
  /\ total \in [Flow -> Amount]
  /\ max_balance \in 0..MaxAllowedBalance
  /\ max_lifetime \in Lifetimes \cup {0}
  /\ balance \in 0..Supply
  /\ received \in Nat
  /\ since \in [Role -> Time]
  /\ lastPause \in Time

(* Every token is accounted for: what the token account holds and what the *)
(* counters say left it is what the counters say came in, plus direct      *)
(* transfers.  (The counters are updated apart from the token transfer, in *)
(* five instructions.)                                                     *)
AccountsBalance ==
  balance + total["withdrawn"] + total["platform"] + total["trading"]
    = total["deposited"] + received

(* The three fields that record a delegation agree.  The owner's exit      *)
(* reads the flag, an authority's withdrawal reads the key and the time:   *)
(* were they to disagree, an authority could spend while the owner         *)
(* withdraws, or nobody could.                                             *)
GrantsAgree ==
  \A r \in Role :
    /\ active[r] <=> authority[r] # Nobody
    /\ active[r] <=> activated_at[r] # 0

(* Never may both the owner and an authority take tokens out.              *)
OwnerMayTake == exists /\ ~HasActiveAuthority
AuthorityMayTake(r) == exists /\ authority[r] \in Keys /\ IsMature(r)
SpendersExclusive == ~(OwnerMayTake /\ \E r \in Role : AuthorityMayTake(r))

(* Deposits respect the owner's cap: only direct transfers can carry the   *)
(* balance above max_balance.                                              *)
CapRespected == exists => balance <= max_balance + received

Spends(r) == total'[r] > total[r]

(* An authority moves tokens only if the very key that signs has held the  *)
(* role, without interruption, for the whole time-lock - whatever was      *)
(* revoked, delegated again or closed before.                              *)
TimeLock ==
  [][\A r \in Role : Spends(r) => now - since[r] >= MinAuthorityAge]_vars

(* Once the owner has paused, no authority moves a token before the        *)
(* cooldown is over, even through unpausing, closing and re-creating.      *)
PauseHolds ==
  [][\A r \in Role : Spends(r) =>
        ~paused /\ (lastPause # 0 => now - lastPause >= UnpauseCooldown)]_vars

(* While paused with an authority active nobody gets a token out and no    *)
(* right changes hands: a pause freezes the escrow as it is.               *)
PauseFreezes ==
  [][paused /\ paused' /\ HasActiveAuthority =>
        balance' >= balance /\ UNCHANGED grants /\ exists']_vars

(* How the program's timestamps relate to what happened, and what an       *)
(* address without an account reads: needed to prove the above.            *)
HistoryOK ==
  /\ \A r \in Role : authority[r] # Nobody => since[r] = activated_at[r]
  /\ paused => lastPause = last_paused_at /\ lastPause # 0
  /\ ~paused /\ lastPause # 0 => now - lastPause >= UnpauseCooldown
  /\ ~exists => /\ ~paused /\ balance = 0
                /\ \A r \in Role : authority[r] = Nobody

(* The program implements the custody it promises.  A right is held while  *)
(* its key is on record, so that OwnerTakes maps to Custody's only because *)
(* the flags the owner's withdrawals read agree with the keys.             *)
Promise == INSTANCE Custody WITH
  Holder <- Role,
  MostTaken <- Limit,
  open <- exists,
  vault <- balance,
  holders <- {r \in Role : authority[r] # Nobody},
  frozen <- paused

ImplementsCustody == Promise!Spec
=============================================================================
