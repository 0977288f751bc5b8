---------------------------- MODULE RateLimiter ----------------------------
(***************************************************************************)
(* The courier's rate limiter (courier/infrastructure/rate_limiting): a    *)
(* registry of token buckets (shared/resilience/rate_limiter.py), one per  *)
(* sender, and one per sender and message type for the types that have a   *)
(* limit of their own.                                                     *)
(*                                                                         *)
(* A call runs on the event loop without suspending, so one action is one  *)
(* call.  Time is time.monotonic().  Tokens are counted in Window-ths, so  *)
(* that limit / window_seconds tokens per second are `limit' units a tick: *)
(* the arithmetic is exact where the code rounds floats.                   *)
(***************************************************************************)
EXTENDS Integers

CONSTANTS
  Identifier,   \* services that publish, users or clients that send
  MessageType,  \* per_type_limits: the types that have a limit of their own
  Untyped,      \* any other type, or none
  DefaultLimit, \* limit
  TypeLimit,    \* per_type_limits, [MessageType -> limit]
  Window,       \* window_seconds
  Horizon       \* bound on the clock

ASSUME LimitsAssumption ==
  /\ Untyped \notin MessageType
  /\ {DefaultLimit, Window} \subseteq Nat \ {0}
  /\ TypeLimit \in [MessageType -> Nat \ {0}]
  /\ Horizon \in Nat

Time == 0..Horizon

(* _get_limiter_key: what the registry's keys tell apart.                  *)
Key == Identifier \X (MessageType \cup {Untyped})

LimitOf(k) == IF k[2] = Untyped THEN DefaultLimit ELSE TypeLimit[k[2]]

Token == Window

(* burst_size, which is also what a bucket starts with.                    *)
Burst(k) == LimitOf(k) * Window

VARIABLES
  now,      \* time.monotonic()
  known,    \* _limiters: the keys that have a bucket
  tokens,   \* [Key -> units]: _tokens
  last,     \* [Key -> time]: _last_update
  (* History: read by no action, only by the properties.                   *)
  since,    \* since[k][s]: requests admitted for k at s or later, not
            \*   counting those before k's bucket was last cleared or reset
  advised   \* when a sender that was refused was told to come back

bucket    == <<known, tokens, last>>
limitvars == <<now, bucket, since, advised>>

NoAdvice == -1
NothingSince == [s \in Time |-> 0]
-----------------------------------------------------------------------------
(* _refill_tokens.                                                         *)
(* Mutated: no burst_size; whole windows only.                             *)
RefilledUncapped(k) == tokens[k] + (now - last[k]) * LimitOf(k)

RefilledByWindow(k) ==
  LET t == tokens[k] + ((now - last[k]) \div Window) * Burst(k)
  IN  IF t <= Burst(k) THEN t ELSE Burst(k)

Refilled(k) ==
  LET t == tokens[k] + (now - last[k]) * LimitOf(k)
  IN  IF t <= Burst(k) THEN t ELSE Burst(k)

(* _get_limiter: what the bucket holds once it has been looked up.  A type *)
(* with a limit of its own goes through set_limiter, which puts a new,     *)
(* full bucket in place of the one that is there.                          *)
FoundBucket(k) ==
  IF k[2] = Untyped /\ k \in known THEN Refilled(k) ELSE Burst(k)

Enough(k) == FoundBucket(k) >= Token

(* get_retry_after_seconds, for a bucket with less than a token.           *)
(* Mutated: rounded down.                                                  *)
RetryAfterDown(k) == (Token - FoundBucket(k)) \div LimitOf(k)

RetryAfter(k) == (Token - FoundBucket(k)) \div LimitOf(k) + 1

Left(k, units) ==
  /\ known' = known \cup {k}
  /\ tokens' = [tokens EXCEPT ![k] = units]
  /\ last' = [last EXCEPT ![k] = now]
-----------------------------------------------------------------------------
LimiterInit ==
  /\ now = 0
  /\ known = {}
  /\ tokens = [k \in Key |-> 0]
  /\ last = [k \in Key |-> 0]
  /\ since = [k \in Key |-> NothingSince]
  /\ advised = [k \in Key |-> NoAdvice]

(* check_rate_limit, allowed.                                              *)
Admit(k) ==
  /\ Enough(k)
  /\ Left(k, FoundBucket(k) - Token)
  /\ since' = [since EXCEPT ![k] =
                 [s \in Time |-> IF s <= now THEN @[s] + 1 ELSE @[s]]]
  /\ advised' = [advised EXCEPT ![k] = NoAdvice]
  /\ UNCHANGED now

(* check_rate_limit, refused; the routes then tell the sender when to come *)
(* back.                                                                   *)
Refuse(k) ==
  /\ ~Enough(k)
  /\ Left(k, FoundBucket(k))
  /\ advised' = [advised EXCEPT ![k] = now + RetryAfter(k)]
  /\ UNCHANGED <<now, since>>

(* get_remaining, get_stats: they refill, and create, as a check does.     *)
Look(k) ==
  /\ Left(k, FoundBucket(k))
  /\ UNCHANGED <<now, since, advised>>

Forgotten(keys) ==
  /\ since' = [k \in Key |-> IF k \in keys THEN NothingSince ELSE since[k]]
  /\ advised' = [k \in Key |-> IF k \in keys THEN NoAdvice ELSE advised[k]]

(* clear, of one key or of the registry.                                   *)
Clear(keys) ==
  /\ known' = known \ keys
  /\ Forgotten(keys)
  /\ UNCHANGED <<now, tokens, last>>

(* RateLimiterRegistry.reset_all.                                          *)
ResetAll ==
  /\ tokens' = [k \in Key |-> IF k \in known THEN Burst(k) ELSE tokens[k]]
  /\ last' = [k \in Key |-> IF k \in known THEN now ELSE last[k]]
  /\ Forgotten(Key)
  /\ UNCHANGED <<now, known>>

Tick ==
  /\ now < Horizon
  /\ now' = now + 1
  /\ UNCHANGED <<bucket, since, advised>>

LimiterNext ==
  \/ \E k \in Key : Admit(k) \/ Refuse(k) \/ Look(k) \/ Clear({k})
  \/ Clear(Key)
  \/ ResetAll
  \/ Tick

LimiterSpec == LimiterInit /\ [][LimiterNext]_limitvars
-----------------------------------------------------------------------------
LimiterTypeOK ==
  /\ now \in Time
  /\ known \subseteq Key
  /\ tokens \in [Key -> Nat]
  /\ last \in [Key -> Time]
  /\ since \in [Key -> [Time -> Nat]]
  /\ advised \in [Key -> Nat \cup {NoAdvice}]

Shared == {k \in Key : k[2] = Untyped}

(* The most that may be admitted for k from s on: a full bucket and what   *)
(* has come in since.                                                      *)
WithinRate(k) ==
  \A s \in 0..now : since[k][s] * Window <= LimitOf(k) * (Window + now - s)

(* The limit is one: however a sender times its requests, and whoever asks *)
(* in between how much is left, in no span of time are more admitted than  *)
(* a full bucket and the rate allow - so never more than twice `limit' in  *)
(* any window_seconds.                                                     *)
AdmittedBounded == \A k \in Shared : WithinRate(k)

(* The limit is not less than it says: a sender is refused only if `limit' *)
(* of its own requests were admitted in the last window_seconds.           *)
WindowStart == IF now >= Window THEN now - Window ELSE 0

NoNeedlessRefusal ==
  \A k \in Shared : ~Enough(k) => since[k][WindowStart] >= LimitOf(k)

(* Whoever waits as long as the refusal says is admitted, unless others    *)
(* who share the key were admitted meanwhile.                              *)
AdviceHolds ==
  \A k \in Shared : advised[k] # NoAdvice /\ now >= advised[k] => Enough(k)

(* courier/config/settings.py: rate_limit_per_message_type, "Per-message-  *)
(* type rate limits (overrides global limit)": a type's own limit is a     *)
(* limit too.                                                              *)
TypeLimitsHold == \A k \in Key : WithinRate(k)
=============================================================================
