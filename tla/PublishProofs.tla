---------------------------- MODULE PublishProofs ---------------------------
(***************************************************************************)
(* What holds on an event's way through the courier: of the rate limiter   *)
(* that guards it, and of the publishers that retry.                       *)
(*                                                                         *)
(* The courier's rate limiter keeps its limit, never refuses a sender that *)
(* has not used it up, and gives advice that can be relied upon: for every *)
(* limit, every window and every set of senders.                           *)
(*                                                                         *)
(* Each of the three relates what a bucket holds to what was admitted from *)
(* some time on. Account states the relation for all times at once; a      *)
(* refill keeps it, and so does taking a token.                            *)
(***************************************************************************)
EXTENDS RateLimiter, EventPath, FiniteSetTheorems, TLAPS

USE LimitsAssumption DEF LimitsAssumption

(* The account of a bucket with limit l that held u at time t, of which    *)
(* n[s] tokens were taken at s or later: what it holds and what was taken  *)
(* from s on is at most a full bucket and what has come in since...        *)
AtMost(l, u, t, n, s) == u + n[s] * Window <= l * Window + l * (t - s)

(* ... and at least what has come in since, or a full bucket if it was     *)
(* full at s or later.                                                     *)
AtLeast(l, u, t, n, s) ==
  \/ u + n[s] * Window >= l * Window
  \/ s > 0 /\ u + n[s] * Window >= l * (t - s)

(* A sender told to come back at a finds a token then.                     *)
AdviceOK(l, u, t, a) ==
  a # NoAdvice => u >= Token \/ u + l * (a - t) >= Token

Account(l, u, t, n, a) ==
  /\ u <= l * Window
  /\ \A s \in 0..t : AtMost(l, u, t, n, s) /\ AtLeast(l, u, t, n, s)
  /\ \A s \in Time : s > t => n[s] = 0
  /\ AdviceOK(l, u, t, a)

AccountOf(k) == Account(LimitOf(k), tokens[k], last[k], since[k], advised[k])

Accounts ==
  \A k \in Shared :
    /\ k \in known => last[k] <= now /\ AccountOf(k)
    /\ k \notin known => since[k] = NothingSince /\ advised[k] = NoAdvice

IInv == LimiterTypeOK /\ Accounts
-----------------------------------------------------------------------------
(* Arithmetic.                                                             *)
LEMMA Product == ASSUME NEW a \in Nat, NEW b \in Nat PROVE a * b \in Nat
OBVIOUS

LEMMA Quotient ==
  ASSUME NEW x \in Nat, NEW d \in Nat \ {0}
  PROVE  x \div d \in Nat /\ d * (x \div d + 1) >= x
OBVIOUS

LEMMA LimitsArePositive ==
  ASSUME NEW k \in Key
  PROVE  /\ LimitOf(k) \in Nat \ {0}
         /\ Burst(k) \in Nat /\ Burst(k) >= Token
<1>1. LimitOf(k) \in Nat \ {0}
  BY DEF LimitOf, Key
<1>2. \A l \in Nat \ {0} : l * Window \in Nat /\ l * Window >= Window
  OBVIOUS
<1>3. QED
  BY <1>1, <1>2 DEF Burst, Token

(* What a bucket held, u, and what has come in, y, when it is filled up to *)
(* its burst size, b.                                                      *)
LEMMA Topped ==
  ASSUME NEW u \in Nat, NEW y \in Nat, NEW b \in Nat, NEW f \in Nat,
         NEW n \in Nat, NEW x \in Int,
         f = IF u + y <= b THEN u + y ELSE b
  PROVE  /\ u + n <= b + x => f + n <= b + (x + y)
         /\ u + n >= b /\ u <= b => f + n >= b
         /\ u + n >= x => f + n >= b \/ f + n >= x + y
OBVIOUS
-----------------------------------------------------------------------------
(* A full bucket from which nothing was taken.                             *)
LEMMA FullAccount ==
  ASSUME NEW l \in Nat \ {0}, NEW t \in Time
  PROVE  Account(l, l * Window, t, NothingSince, NoAdvice)
<1>1. l * Window \in Nat
  BY Product
<1>2. ASSUME NEW s \in 0..t
      PROVE  /\ AtMost(l, l * Window, t, NothingSince, s)
             /\ AtLeast(l, l * Window, t, NothingSince, s)
  <2>1. s \in Time /\ t - s \in Nat
    BY DEF Time
  <2>2. NothingSince[s] = 0
    BY <2>1 DEF NothingSince
  <2>3. l * (t - s) \in Nat
    BY <2>1, Product
  <2>4. QED
    BY <1>1, <2>2, <2>3 DEF AtMost, AtLeast
<1>3. \A s \in Time : NothingSince[s] = 0
  BY DEF NothingSince
<1>4. QED
  BY <1>1, <1>2, <1>3 DEF Account, AdviceOK

(* A refill keeps the account.                                             *)
LEMMA RefillAccount ==
  ASSUME NEW l \in Nat \ {0}, NEW u \in Nat, NEW t \in Time, NEW v \in Time,
         NEW n \in [Time -> Nat], NEW a \in Nat \cup {NoAdvice},
         NEW f \in Nat,
         Account(l, u, t, n, a), t <= v,
         f = IF u + (v - t) * l <= l * Window
               THEN u + (v - t) * l ELSE l * Window
  PROVE  Account(l, f, v, n, a)
<1> DEFINE b == l * Window
           y == (v - t) * l
<1>1. b \in Nat /\ y \in Nat /\ u <= b
  <2>1. v - t \in Nat
    BY DEF Time
  <2>2. QED
    BY <2>1, Product DEF Account
<1>2. f <= b /\ f >= u
  BY <1>1
<1>3. ASSUME NEW s \in 0..v
      PROVE  AtMost(l, f, v, n, s) /\ AtLeast(l, f, v, n, s)
  <2> DEFINE m == n[s] * Window
  <2>1. s \in Time /\ v \in Nat /\ t \in Nat
    BY DEF Time
  <2>2. n[s] \in Nat /\ m \in Nat
    BY <2>1, Product
  <2>3. CASE s <= t
    <3> DEFINE x == l * (t - s)
    <3>1. x \in Nat
      BY <2>1, <2>3, Product
    <3>2. l * (v - s) = x + y
      BY <2>1
    <3>3. AtMost(l, u, t, n, s) /\ AtLeast(l, u, t, n, s)
      BY <2>1, <2>3 DEF Account
    <3>4. /\ u + m <= b + x
          /\ u + m >= b \/ (s > 0 /\ u + m >= x)
      BY <3>3 DEF AtMost, AtLeast
    <3> HIDE DEF x, y, m, b
    <3>5. /\ f + m <= b + (x + y)
          /\ f + m >= b \/ (s > 0 /\ f + m >= x + y)
      BY <1>1, <2>2, <3>1, <3>4, Topped DEF y, b
    <3>6. QED
      BY <3>2, <3>5 DEF AtMost, AtLeast, m, b
  <2>4. CASE s > t
    <3> DEFINE z == l * (v - s)
    <3>1. n[s] = 0 /\ m = 0 /\ s > 0
      BY <2>1, <2>4 DEF Account
    <3>2. z \in Nat /\ l * (s - t) \in Nat
      BY <2>1, <2>4, Product
    <3>3. y = z + l * (s - t)
      BY <2>1
    <3> HIDE DEF z
    <3>4. f <= b + z /\ (f >= b \/ f >= z)
      BY <1>1, <1>2, <3>2, <3>3
    <3>5. QED
      BY <3>1, <3>4 DEF AtMost, AtLeast, z
  <2>5. QED
    BY <2>1, <2>3, <2>4
<1>4. \A s \in Time : s > v => n[s] = 0
  <2>1. \A s \in Time : s > t => n[s] = 0
    BY DEF Account
  <2>2. QED
    BY <2>1 DEF Time
<1>5. AdviceOK(l, f, v, a)
  <2> SUFFICES ASSUME a # NoAdvice
               PROVE  f >= Token \/ f + l * (a - v) >= Token
    BY DEF AdviceOK
  <2>1. u >= Token \/ u + l * (a - t) >= Token
    BY DEF Account, AdviceOK
  <2>2. l * (a - t) = l * (a - v) + y
    BY DEF Time
  <2>3. b >= Token
    BY DEF Token
  <2>4. l * (a - v) \in Int
    BY DEF Time
  <2> HIDE DEF y, b
  <2>5. QED
    BY <1>1, <1>2, <2>1, <2>2, <2>3, <2>4 DEF Token, y, b
<1>6. QED
  BY <1>2, <1>3, <1>4, <1>5 DEF Account

(* Taking a token keeps the account.                                       *)
LEMMA SpendAccount ==
  ASSUME NEW l \in Nat \ {0}, NEW u \in Nat, NEW t \in Time,
         NEW n \in [Time -> Nat], NEW a,
         Account(l, u, t, n, a), u >= Token
  PROVE  Account(l, u - Token, t,
                 [s \in Time |-> IF s <= t THEN n[s] + 1 ELSE n[s]], NoAdvice)
<1> DEFINE n1 == [s \in Time |-> IF s <= t THEN n[s] + 1 ELSE n[s]]
<1>1. ASSUME NEW s \in 0..t
      PROVE  AtMost(l, u - Token, t, n1, s) /\ AtLeast(l, u - Token, t, n1, s)
  <2>1. s \in Time /\ s <= t
    BY DEF Time
  <2>2. n1[s] = n[s] + 1 /\ n[s] \in Nat
    BY <2>1
  <2>3. u - Token + n1[s] * Window = u + n[s] * Window
    BY <2>2 DEF Token
  <2>4. AtMost(l, u, t, n, s) /\ AtLeast(l, u, t, n, s)
    BY DEF Account
  <2>5. QED
    BY <2>3, <2>4 DEF AtMost, AtLeast
<1>2. \A s \in Time : s > t => n1[s] = 0
  BY DEF Account, Time
<1>3. u - Token <= l * Window
  <2>1. l * Window \in Nat /\ u <= l * Window
    BY Product DEF Account
  <2>2. QED
    BY <2>1 DEF Token
<1>4. QED
  BY <1>1, <1>2, <1>3 DEF Account, AdviceOK
-----------------------------------------------------------------------------
(* Looking a bucket up, which refills a shared one, keeps its account.     *)
LEMMA Lookup ==
  ASSUME IInv, NEW k \in Key
  PROVE  /\ FoundBucket(k) \in Nat
         /\ k \in Shared =>
              Account(LimitOf(k), FoundBucket(k), now, since[k], advised[k])
<1>1. /\ LimitOf(k) \in Nat \ {0}
      /\ Burst(k) \in Nat /\ Burst(k) = LimitOf(k) * Window
  BY LimitsArePositive DEF Burst
<1>2. /\ now \in Time /\ last[k] \in Time /\ tokens[k] \in Nat
      /\ since[k] \in [Time -> Nat] /\ advised[k] \in Nat \cup {NoAdvice}
  BY DEF IInv, LimiterTypeOK
<1>3. CASE k \in Shared /\ k \in known
  <2>1. last[k] <= now /\ AccountOf(k)
    BY <1>3 DEF IInv, Accounts
  <2> DEFINE y == (now - last[k]) * LimitOf(k)
  <2>2. y \in Nat
    <3>1. now - last[k] \in Nat
      BY <1>2, <2>1 DEF Time
    <3>2. QED
      BY <1>1, <3>1, Product
  <2>3. FoundBucket(k) = IF tokens[k] + y <= LimitOf(k) * Window
                     THEN tokens[k] + y ELSE LimitOf(k) * Window
    BY <1>1, <1>3 DEF FoundBucket, Refilled, Shared
  <2>4. FoundBucket(k) \in Nat
    <3> HIDE DEF y
    <3>1. QED
      BY <1>1, <1>2, <2>2, <2>3
  <2>5. QED
    BY <1>1, <1>2, <2>1, <2>3, <2>4, RefillAccount DEF AccountOf
<1>4. CASE k \notin known
  <2>1. FoundBucket(k) = LimitOf(k) * Window
    BY <1>1, <1>4 DEF FoundBucket
  <2>2. k \in Shared => since[k] = NothingSince /\ advised[k] = NoAdvice
    BY <1>4 DEF IInv, Accounts
  <2>3. QED
    BY <1>1, <1>2, <2>1, <2>2, FullAccount
<1>5. CASE k \notin Shared
  BY <1>1, <1>5 DEF FoundBucket, Shared
<1>6. QED
  BY <1>3, <1>4, <1>5

(* What is told a sender that is refused.                                  *)
LEMMA AdviceIsTime ==
  ASSUME IInv, NEW k \in Key, ~Enough(k)
  PROVE  /\ RetryAfter(k) \in Nat
         /\ FoundBucket(k) + LimitOf(k) * RetryAfter(k) >= Token
<1>1. LimitOf(k) \in Nat \ {0}
  BY LimitsArePositive
<1>2. FoundBucket(k) \in Nat /\ FoundBucket(k) < Token /\ Token - FoundBucket(k) \in Nat
  BY Lookup DEF Enough, Token
<1>3. QED
  <2> DEFINE q == (Token - FoundBucket(k)) \div LimitOf(k)
  <2>1. q \in Nat /\ LimitOf(k) * (q + 1) >= Token - FoundBucket(k)
    BY <1>1, <1>2, Quotient
  <2>2. RetryAfter(k) = q + 1
    BY DEF RetryAfter
  <2>3. LimitOf(k) * (q + 1) \in Nat
    BY <1>1, <2>1, Product
  <2> HIDE DEF q
  <2>4. QED
    BY <1>1, <1>2, <2>1, <2>2, <2>3 DEF Token
-----------------------------------------------------------------------------
LEMMA InitIInv == LimiterInit => IInv
BY DEF LimiterInit, IInv, LimiterTypeOK, Accounts, NothingSince, NoAdvice, Time, Shared

(* A call for one key: the account of that key holds after it, and the     *)
(* others are not touched.                                                 *)
LEMMA OneKey ==
  ASSUME IInv, NEW k \in Key, NEW u \in Nat, Left(k, u), now' = now,
         since' \in [Key -> [Time -> Nat]],
         advised' \in [Key -> Nat \cup {NoAdvice}],
         \A j \in Key \ {k} : since'[j] = since[j] /\ advised'[j] = advised[j],
         k \in Shared => Account(LimitOf(k), u, now, since'[k], advised'[k])
  PROVE  IInv'
<1>1. LimiterTypeOK'
  BY DEF IInv, LimiterTypeOK, Left
<1>2. ASSUME NEW j \in Shared
      PROVE  /\ j \in known' => last'[j] <= now' /\ AccountOf(j)'
             /\ j \notin known' => since'[j] = NothingSince
                                   /\ advised'[j] = NoAdvice
  <2>1. j \in Key
    BY DEF Shared
  <2>2. CASE j = k
    <3>1. /\ j \in known' /\ tokens'[j] = u /\ last'[j] = now
          /\ now \in Int
      BY <2>1, <2>2 DEF Left, IInv, LimiterTypeOK, Time
    <3>2. QED
      BY <2>2, <3>1 DEF AccountOf
  <2>3. CASE j # k
    <3>1. /\ j \in known' <=> j \in known
          /\ tokens'[j] = tokens[j] /\ last'[j] = last[j]
          /\ since'[j] = since[j] /\ advised'[j] = advised[j]
      BY <2>1, <2>3 DEF Left, IInv, LimiterTypeOK
    <3>2. QED
      BY <3>1 DEF IInv, Accounts, AccountOf
  <2>4. QED
    BY <2>2, <2>3
<1>3. QED
  BY <1>1, <1>2 DEF IInv, Accounts

LEMMA StepIInv == IInv /\ [LimiterNext]_limitvars => IInv'
<1> SUFFICES ASSUME IInv, [LimiterNext]_limitvars PROVE IInv'
  OBVIOUS
<1>1. ASSUME NEW k \in Key, Admit(k) PROVE IInv'
  <2> DEFINE n1 == [s \in Time |-> IF s <= now THEN since[k][s] + 1
                                                ELSE since[k][s]]
  <2>1. /\ LimitOf(k) \in Nat \ {0} /\ now \in Time
        /\ since[k] \in [Time -> Nat] /\ n1 \in [Time -> Nat]
    BY LimitsArePositive DEF IInv, LimiterTypeOK, Time
  <2>2. /\ since' = [since EXCEPT ![k] = n1]
        /\ advised' = [advised EXCEPT ![k] = NoAdvice]
        /\ Left(k, FoundBucket(k) - Token) /\ now' = now /\ FoundBucket(k) >= Token
    BY <1>1 DEF Admit, Enough
  <2>3. /\ since' \in [Key -> [Time -> Nat]]
        /\ advised' \in [Key -> Nat \cup {NoAdvice}]
        /\ since'[k] = n1 /\ advised'[k] = NoAdvice
        /\ \A j \in Key \ {k} : since'[j] = since[j] /\ advised'[j] = advised[j]
    BY <2>1, <2>2 DEF IInv, LimiterTypeOK
  <2>4. FoundBucket(k) - Token \in Nat
    BY <2>2, Lookup DEF Token
  <2>5. k \in Shared =>
          Account(LimitOf(k), FoundBucket(k) - Token, now, since'[k], advised'[k])
    <3> SUFFICES ASSUME k \in Shared
                 PROVE  Account(LimitOf(k), FoundBucket(k) - Token, now, n1, NoAdvice)
      BY <2>3
    <3>1. /\ Account(LimitOf(k), FoundBucket(k), now, since[k], advised[k])
          /\ FoundBucket(k) \in Nat
      BY Lookup
    <3>2. QED
      BY <2>1, <2>2, <3>1, SpendAccount
  <2>6. QED
    BY <2>2, <2>3, <2>4, <2>5, OneKey
<1>2. ASSUME NEW k \in Key, Refuse(k) PROVE IInv'
  <2>1. /\ now' = now /\ now \in Time /\ UNCHANGED since
        /\ advised' = [advised EXCEPT ![k] = now + RetryAfter(k)]
        /\ Left(k, FoundBucket(k)) /\ ~Enough(k)
    BY <1>2 DEF Refuse, IInv, LimiterTypeOK
  <2>2. /\ RetryAfter(k) \in Nat
        /\ FoundBucket(k) + LimitOf(k) * RetryAfter(k) >= Token
    BY <2>1, AdviceIsTime
  <2>3. /\ since' \in [Key -> [Time -> Nat]]
        /\ advised' \in [Key -> Nat \cup {NoAdvice}]
        /\ advised'[k] = now + RetryAfter(k) /\ since'[k] = since[k]
        /\ \A j \in Key \ {k} : since'[j] = since[j] /\ advised'[j] = advised[j]
    BY <2>1, <2>2 DEF IInv, LimiterTypeOK, Time
  <2>4. (now + RetryAfter(k)) - now = RetryAfter(k)
    BY <2>1, <2>2 DEF Time
  <2>5. k \in Shared =>
          Account(LimitOf(k), FoundBucket(k), now, since'[k], advised'[k])
    BY <2>2, <2>3, <2>4, Lookup DEF Account, AdviceOK
  <2>6. QED
    BY <2>1, <2>3, <2>5, Lookup, OneKey
<1>3. ASSUME NEW k \in Key, Look(k) PROVE IInv'
  <2>1. Left(k, FoundBucket(k)) /\ now' = now /\ UNCHANGED <<since, advised>>
    BY <1>3 DEF Look
  <2>2. /\ since' \in [Key -> [Time -> Nat]]
        /\ advised' \in [Key -> Nat \cup {NoAdvice}]
    BY <2>1 DEF IInv, LimiterTypeOK
  <2>3. QED
    BY <2>1, <2>2, Lookup, OneKey
<1>4. ASSUME NEW keys \in SUBSET Key, Clear(keys) PROVE IInv'
  BY <1>4 DEF Clear, Forgotten, IInv, LimiterTypeOK, Accounts, AccountOf, Shared,
              NothingSince
<1>5. CASE ResetAll
  <2>1. LimiterTypeOK'
    BY <1>5, LimitsArePositive
    DEF ResetAll, Forgotten, IInv, LimiterTypeOK, NothingSince
  <2>2. ASSUME NEW k \in Shared
        PROVE  /\ since'[k] = NothingSince /\ advised'[k] = NoAdvice
               /\ k \in known' => last'[k] = now /\ AccountOf(k)'
    <3>1. k \in Key /\ now \in Time /\ LimitOf(k) \in Nat \ {0}
      BY LimitsArePositive DEF Shared, IInv, LimiterTypeOK
    <3>2. since'[k] = NothingSince /\ advised'[k] = NoAdvice
      BY <1>5, <3>1 DEF ResetAll, Forgotten
    <3>3. k \in known' => tokens'[k] = LimitOf(k) * Window /\ last'[k] = now
      BY <1>5, <3>1 DEF ResetAll, Burst
    <3>4. QED
      BY <3>1, <3>2, <3>3, FullAccount DEF AccountOf
  <2>3. now' = now /\ now \in Int
    BY <1>5 DEF ResetAll, IInv, LimiterTypeOK, Time
  <2>4. QED
    BY <2>1, <2>2, <2>3 DEF IInv, Accounts
<1>6. CASE Tick
  <2>1. LimiterTypeOK'
    BY <1>6 DEF Tick, bucket, IInv, LimiterTypeOK, Time
  <2>2. QED
    BY <1>6, <2>1 DEF Tick, bucket, IInv, LimiterTypeOK, Accounts, AccountOf, Shared,
                      Time
<1>7. CASE UNCHANGED limitvars
  BY <1>7 DEF limitvars, bucket, IInv, LimiterTypeOK, Accounts, AccountOf
<1>8. QED
  BY <1>1, <1>2, <1>3, <1>4, <1>5, <1>6, <1>7 DEF LimiterNext

(* The account is kept for ever.                                           *)
THEOREM AccountKept == LimiterSpec => []IInv
BY InitIInv, StepIInv, PTL DEF LimiterSpec

(* A shared bucket, whether it has been used or not, allows what it says.  *)
LEMMA AccountTells ==
  ASSUME IInv, NEW k \in Shared
  PROVE  /\ WithinRate(k)
         /\ ~Enough(k) => since[k][WindowStart] >= LimitOf(k)
         /\ advised[k] # NoAdvice /\ now >= advised[k] => Enough(k)
<1> DEFINE l == LimitOf(k)
           f == FoundBucket(k)
           n == since[k]
<1>1. /\ k \in Key /\ l \in Nat \ {0}
      /\ now \in Time /\ n \in [Time -> Nat]
      /\ advised[k] \in Nat \cup {NoAdvice}
  BY LimitsArePositive DEF Shared, IInv, LimiterTypeOK
<1>2. f \in Nat /\ Account(l, f, now, n, advised[k])
  BY <1>1, Lookup
<1> HIDE DEF l, f, n
<1>3. ASSUME NEW s \in 0..now
      PROVE  n[s] * Window <= l * (Window + now - s)
  <2>1. s \in Time
    BY <1>1 DEF Time
  <2>2. f + n[s] * Window <= l * Window + l * (now - s)
    BY <1>2 DEF Account, AtMost
  <2>3. n[s] * Window \in Nat
    BY <1>1, <2>1, Product
  <2>4. l * Window + l * (now - s) = l * (Window + now - s)
    BY <1>1, <2>1 DEF Time
  <2>5. l * Window \in Int /\ l * (now - s) \in Int
    BY <1>1, <2>1 DEF Time
  <2>6. QED
    BY <1>2, <2>2, <2>3, <2>4, <2>5
<1>4. ASSUME f < Token PROVE n[WindowStart] >= l
  <2> DEFINE s == WindowStart
  <2>1. /\ s \in 0..now /\ s \in Time
        /\ s > 0 => now - s = Window
    BY <1>1 DEF WindowStart, Time
  <2>2. \/ f + n[s] * Window >= l * Window
        \/ s > 0 /\ f + n[s] * Window >= l * (now - s)
    BY <1>2, <2>1 DEF Account, AtLeast
  <2> HIDE DEF s
  <2>3. f + n[s] * Window >= l * Window
    BY <2>1, <2>2
  <2>4. n[s] \in Nat
    BY <1>1, <2>1
  <2>5. \A m \in Nat : m < l => m * Window + Window <= l * Window
    <3> SUFFICES ASSUME NEW m \in Nat, m < l
                 PROVE  m * Window + Window <= l * Window
      OBVIOUS
    <3>1. l - (m + 1) \in Nat
      BY <1>1
    <3>2. (l - (m + 1)) * Window \in Nat
      BY <3>1, Product
    <3>3. (l - (m + 1)) * Window = l * Window - (m * Window + Window)
      BY <1>1
    <3>4. QED
      BY <1>1, <3>2, <3>3
  <2>6. QED
    <3>1. n[s] * Window \in Nat /\ l * Window \in Nat
      BY <1>1, <2>4, Product
    <3>2. n[s] < l => n[s] * Window + Window <= l * Window
      BY <2>4, <2>5
    <3>3. ~(n[s] < l)
      BY <1>2, <1>4, <2>3, <3>1, <3>2 DEF Token
    <3>4. QED
      BY <1>1, <2>4, <3>3 DEF s
<1>5. ASSUME advised[k] # NoAdvice, now >= advised[k] PROVE f >= Token
  <2>1. f >= Token \/ f + l * (advised[k] - now) >= Token
    BY <1>2, <1>5 DEF Account, AdviceOK
  <2>2. now - advised[k] \in Nat
    BY <1>1, <1>5 DEF Time
  <2>3. l * (now - advised[k]) \in Nat
    BY <1>1, <2>2, Product
  <2>4. l * (advised[k] - now) = 0 - l * (now - advised[k])
    BY <1>1, <1>5 DEF Time
  <2>5. QED
    BY <1>2, <2>1, <2>3, <2>4 DEF Token
<1>6. QED
  BY <1>1, <1>2, <1>3, <1>4, <1>5 DEF WithinRate, Enough, Token, l, f, n

(* Each field of the limiter has its type; no bucket ever owes a token.    *)
THEOREM LimiterTypes == LimiterSpec => []LimiterTypeOK
BY AccountKept, PTL DEF IInv

(* In no span of time are more requests of a sender admitted than a full   *)
(* bucket and the rate allow.                                              *)
THEOREM LimitIsKept == LimiterSpec => []AdmittedBounded
<1>1. IInv => AdmittedBounded
  BY AccountTells DEF AdmittedBounded
<1>2. QED
  BY <1>1, AccountKept, PTL

(* A refused sender has used up its limit within the last window.          *)
THEOREM RefusalsAreDue == LimiterSpec => []NoNeedlessRefusal
<1>1. IInv => NoNeedlessRefusal
  BY AccountTells DEF NoNeedlessRefusal
<1>2. QED
  BY <1>1, AccountKept, PTL

(* A sender that comes back when it was told to is admitted.               *)
THEOREM AdviceIsGood == LimiterSpec => []AdviceHolds
<1>1. IInv => AdviceHolds
  BY AccountTells DEF AdviceHolds
<1>2. QED
  BY <1>1, AccountKept, PTL
-----------------------------------------------------------------------------
HIDE LimitsAssumption DEF LimitsAssumption

(***************************************************************************)
(* Publishing an event.                                                    *)
(*                                                                         *)
(* What is on the wire is compared with what the publishers may know. The  *)
(* tally of an event counts for it: its copies, with the requests the      *)
(* courier has still to handle, are no more than the attempts that got no  *)
(* answer, and one more for the attempt whose answer is due or has come.   *)
(***************************************************************************)
Answer == {200, 400, 413, 429}

PublishType ==
  [state : {"new", "sending", "waiting", "true", "false"}, kind : EventKind,
   attempt : Nat, unanswered : Nat]

(* The attempts of e that the courier has still to handle, the answers on  *)
(* their way to its caller, the places where it was broadcast.             *)
Unhandled(e) == {k \in Nat : <<e, k>> \in requests}
OnTheWay(e) == {s \in Answer : <<e, s>> \in answers}
Places(w, e) == {i \in DOMAIN w : w[i] = e}

(* Whether a copy is due, or was, to the attempt the caller has not given  *)
(* up: it is still unhandled, or was accepted.                             *)
Due(p, P, A) ==
  IF \/ p.state = "true"
     \/ p.state = "waiting" /\ (p.attempt \in P \/ 200 \in A)
    THEN 1 ELSE 0

(* The tally of an event:   each copy, and each request that may become    *)
(* one, is covered by an attempt that was given up or by the one that is   *)
(* due.                                                                    *)
Tally(p, P, A, n) ==
  /\ p \in PublishType /\ n \in Nat
  /\ P \subseteq Nat /\ IsFiniteSet(P)
  /\ p.state = "new" => p.attempt = 0 /\ p.unanswered = 0 /\ P = {}
  /\ \A k \in P : k <= p.attempt /\ (p.state = "sending" => k < p.attempt)
  /\ A # {} => p.state = "waiting" /\ p.attempt \notin P
  /\ A \subseteq Answer /\ \A s, t \in A : s = t
  /\ p.state = "true" \/ 200 \in A => n >= 1
  /\ n + Cardinality(P) <= p.unanswered + Due(p, P, A)

TallyOf(e) == Tally(publish[e], Unhandled(e), OnTheWay(e), Copies(e))

EventTypes ==
  /\ publish \in [Event -> PublishType]
  /\ requests \subseteq Event \X Nat
  /\ answers \subseteq Event \X Answer
  /\ wire \in Seq(Event)

(* A caller starts with an event when its earlier ones have returned.      *)
InTurn ==
  \A e, f \in Event :
    e < f /\ CallerOf[e] = CallerOf[f] /\ publish[f].state # "new" =>
      Returned(e)

BroadcastsStarted == \A i \in DOMAIN wire : publish[wire[i]].state # "new"

EInv ==
  /\ EventTypes
  /\ \A e \in Event : TallyOf(e)
  /\ InTurn
  /\ BroadcastsStarted
  /\ OrderHasCause
-----------------------------------------------------------------------------
(* The life of a tally.                                                    *)
LEMMA TallyOpens ==
  ASSUME NEW p \in PublishType, p.state = "new", p.attempt = 0,
         p.unanswered = 0
  PROVE  Tally(p, {}, {}, 0)
BY FS_EmptySet DEF Tally, Due

LEMMA TallyStarts ==
  ASSUME NEW p, NEW P, NEW A, NEW n, Tally(p, P, A, n), p.state = "new",
         NEW kind \in EventKind
  PROVE  Tally([p EXCEPT !.state = "sending", !.kind = kind], P, A, n)
<1> DEFINE a == [p EXCEPT !.state = "sending"]
           q == [a EXCEPT !.kind = kind]
<1>1. a \in PublishType /\ a.state = "sending" /\ a.attempt = p.attempt
      /\ a.unanswered = p.unanswered
  BY DEF Tally, PublishType
<1> HIDE DEF a
<1>2. q \in PublishType /\ q.state = "sending" /\ q.attempt = p.attempt
      /\ q.unanswered = p.unanswered
  BY <1>1 DEF PublishType
<1>3. q = [p EXCEPT !.state = "sending", !.kind = kind]
  BY DEF a
<1> HIDE DEF q
<1>4. P = {} /\ A = {}
  BY DEF Tally
<1>5. Tally(q, P, A, n)
  BY <1>2, <1>4 DEF Tally, Due
<1>6. QED
  BY <1>3, <1>5

LEMMA TallyPosts ==
  ASSUME NEW p, NEW P, NEW A, NEW n, Tally(p, P, A, n), p.state = "sending"
  PROVE  Tally([p EXCEPT !.state = "waiting"], P \cup {p.attempt}, A, n)
<1> DEFINE q == [p EXCEPT !.state = "waiting"]
<1>1. q \in PublishType /\ q.state = "waiting" /\ q.attempt = p.attempt
      /\ q.unanswered = p.unanswered
  BY DEF Tally, PublishType
<1>2. p.attempt \notin P /\ IsFiniteSet(P) /\ A = {} /\ p.attempt \in Nat
      /\ p.unanswered \in Nat
  BY DEF Tally, PublishType
<1>3. /\ IsFiniteSet(P \cup {p.attempt})
      /\ Cardinality(P \cup {p.attempt}) = Cardinality(P) + 1
      /\ Cardinality(P) \in Nat
  BY <1>2, FS_AddElement, FS_CardinalityType
<1> HIDE DEF q
<1>3a. Due(p, P, A) = 0 /\ Due(q, P \cup {p.attempt}, A) = 1
  BY <1>1, <1>2 DEF Due
<1>3b. n \in Nat /\ n + Cardinality(P) <= p.unanswered
  BY <1>3a, <1>2, <1>3 DEF Tally
<1>3c. n + Cardinality(P \cup {p.attempt}) <= p.unanswered + 1
  BY <1>2, <1>3, <1>3b
<1>3d. /\ P \cup {p.attempt} \subseteq Nat
       /\ \A k \in P \cup {p.attempt} : k <= q.attempt
  <2>1. P \subseteq Nat /\ \A k \in P : k <= p.attempt
    BY DEF Tally
  <2>2. p.attempt <= p.attempt
    BY <1>2
  <2>3. QED
    BY <1>1, <1>2, <2>1, <2>2
<1>4. Tally(q, P \cup {p.attempt}, A, n)
  BY <1>1, <1>2, <1>3, <1>3a, <1>3b, <1>3c, <1>3d DEF Tally
<1>5. QED
  BY <1>4 DEF q

LEMMA TallyGoesOn ==
  ASSUME NEW e \in Event, NEW p \in PublishType, NEW P, NEW n \in Nat,
         P \subseteq Nat, IsFiniteSet(P),
         p.state \in {"sending", "waiting"},
         \A k \in P : k <= p.attempt,
         n + Cardinality(P) <= p.unanswered
  PROVE  Tally(NextAttempt(p, e), P, {}, n)
<1>0. /\ p.attempt \in Nat /\ p.unanswered \in Nat /\ Cardinality(P) \in Nat
      /\ \A k \in P : k \in Nat
  BY FS_CardinalityType DEF PublishType
<1>1. CASE p.attempt < Attempts(e) - 1
  <2> DEFINE a == [p EXCEPT !.state = "sending"]
             q == [a EXCEPT !.attempt = p.attempt + 1]
  <2>1. a \in PublishType /\ a.state = "sending" /\ a.attempt = p.attempt
        /\ a.unanswered = p.unanswered
    BY DEF PublishType
  <2>2. NextAttempt(p, e) = q
    BY <1>1, <2>1 DEF NextAttempt
  <2> HIDE DEF a
  <2>3. q \in PublishType /\ q.state = "sending"
        /\ q.attempt = p.attempt + 1 /\ q.unanswered = p.unanswered
    BY <1>0, <2>1 DEF PublishType
  <2> HIDE DEF q
  <2>4. Tally(q, P, {}, n)
    BY <1>0, <2>3 DEF Tally, Due
  <2>5. QED
    BY <2>2, <2>4
<1>2. CASE ~(p.attempt < Attempts(e) - 1)
  <2> DEFINE q == [p EXCEPT !.state = "false"]
  <2>1. q \in PublishType /\ q.state = "false" /\ q.attempt = p.attempt
        /\ q.unanswered = p.unanswered
    BY DEF PublishType
  <2>2. NextAttempt(p, e) = q
    BY <1>2 DEF NextAttempt
  <2> HIDE DEF q
  <2>3. Tally(q, P, {}, n)
    BY <1>0, <2>1 DEF Tally, Due
  <2>4. QED
    BY <2>2, <2>3
<1>3. QED
  BY <1>1, <1>2

LEMMA TallyGivesUp ==
  ASSUME NEW e \in Event, NEW p, NEW P, NEW A, NEW n, Tally(p, P, A, n),
         p.state = "waiting"
  PROVE  Tally(NextAttempt([p EXCEPT !.unanswered = @ + 1], e), P, {}, n)
<1> DEFINE q == [p EXCEPT !.unanswered = @ + 1]
<1>1. q \in PublishType /\ q.state = "waiting" /\ q.attempt = p.attempt
      /\ q.unanswered = p.unanswered + 1
  BY DEF Tally, PublishType
<1>2. Cardinality(P) \in Nat /\ p.unanswered \in Nat
  BY FS_CardinalityType DEF Tally, PublishType
<1> HIDE DEF q
<1>3. /\ n \in Nat /\ P \subseteq Nat /\ IsFiniteSet(P)
      /\ \A k \in P : k <= q.attempt
      /\ n + Cardinality(P) <= q.unanswered
  BY <1>1, <1>2 DEF Tally, Due
<1>4. QED
  BY <1>1, <1>3, TallyGoesOn DEF q

LEMMA TallyFails ==
  ASSUME NEW e \in Event, NEW p, NEW P, NEW A, NEW n, Tally(p, P, A, n),
         \/ p.state = "sending"
         \/ \E s \in A : s # 200
  PROVE  Tally(NextAttempt(p, e), P, {}, n)
<1>1. Cardinality(P) \in Nat /\ p.unanswered \in Nat /\ p.attempt \in Nat
  BY FS_CardinalityType DEF Tally, PublishType
<1>2. Due(p, P, A) = 0 /\ p.state \in {"sending", "waiting"}
  BY DEF Tally, Due
<1>3. /\ p \in PublishType /\ n \in Nat /\ P \subseteq Nat /\ IsFiniteSet(P)
      /\ \A k \in P : k <= p.attempt
      /\ n + Cardinality(P) <= p.unanswered
  BY <1>1, <1>2 DEF Tally
<1>4. QED
  BY <1>2, <1>3, TallyGoesOn

LEMMA TallySucceeds ==
  ASSUME NEW p, NEW P, NEW A, NEW n, Tally(p, P, A, n), 200 \in A
  PROVE  Tally([p EXCEPT !.state = "true"], P, {}, n)
<1> DEFINE q == [p EXCEPT !.state = "true"]
<1>1. q \in PublishType /\ q.state = "true" /\ q.attempt = p.attempt
      /\ q.unanswered = p.unanswered
  BY DEF Tally, PublishType
<1> HIDE DEF q
<1>2. Tally(q, P, {}, n)
  BY <1>1 DEF Tally, Due
<1>3. QED
  BY <1>2 DEF q

(* A request is handled: for the attempt the caller waits for, or for one  *)
(* it has given up.                                                        *)
LEMMA TallyHandled ==
  ASSUME NEW p, NEW P, NEW A, NEW n, Tally(p, P, A, n), NEW k \in P,
         NEW s \in Answer
  PROVE  /\ p.state = "waiting" /\ p.attempt = k =>
              Tally(p, P \ {k}, A \cup {s}, IF s = 200 THEN n + 1 ELSE n)
         /\ ~(p.state = "waiting" /\ p.attempt = k) =>
              Tally(p, P \ {k}, A, IF s = 200 THEN n + 1 ELSE n)
<1> DEFINE waits == p.state = "waiting" /\ p.attempt = k
<1>1. /\ IsFiniteSet(P) /\ p.unanswered \in Nat /\ n \in Nat
      /\ P \subseteq Nat /\ p.attempt \in Nat
  BY DEF Tally, PublishType
<1>2. /\ IsFiniteSet(P \ {k})
      /\ Cardinality(P \ {k}) = Cardinality(P) - 1
      /\ Cardinality(P) \in Nat /\ Cardinality(P \ {k}) \in Nat
  BY <1>1, FS_RemoveElement, FS_CardinalityType
<1>3. CASE waits
  <2>1. A = {}
    BY <1>3 DEF Tally
  <2>2. Due(p, P, A) = 1 /\ Due(p, P \ {k}, {s}) = IF s = 200 THEN 1 ELSE 0
    BY <1>3 DEF Due
  <2>3. Tally(p, P \ {k}, {s}, IF s = 200 THEN n + 1 ELSE n)
    BY <1>1, <1>2, <1>3, <2>1, <2>2 DEF Tally
  <2>4. QED
    BY <1>3, <2>1, <2>3
<1>4. CASE ~waits
  <2>1. Due(p, P \ {k}, A) = Due(p, P, A) /\ Due(p, P, A) \in 0..1
    BY <1>4 DEF Due
  <2>1a. (IF s = 200 THEN n + 1 ELSE n) + Cardinality(P \ {k})
           <= p.unanswered + Due(p, P \ {k}, A)
    BY <1>1, <1>2, <2>1 DEF Tally
  <2>2. Tally(p, P \ {k}, A, IF s = 200 THEN n + 1 ELSE n)
    BY <1>1, <1>2, <2>1a DEF Tally
  <2>3. QED
    BY <1>4, <2>2
<1>5. QED
  BY <1>3, <1>4
-----------------------------------------------------------------------------
LEMMA AppendPlaces ==
  ASSUME NEW w \in Seq(Event), NEW e \in Event, NEW f \in Event
  PROVE  /\ IsFiniteSet(Places(w, f)) /\ Cardinality(Places(w, f)) \in Nat
         /\ Cardinality(Places(Append(w, e), f)) =
              IF f = e THEN Cardinality(Places(w, f)) + 1
              ELSE Cardinality(Places(w, f))
<1>1. IsFiniteSet(1..Len(w)) /\ Places(w, f) \in SUBSET (1..Len(w))
  BY FS_Interval DEF Places
<1>2. IsFiniteSet(Places(w, f)) /\ Cardinality(Places(w, f)) \in Nat
  BY <1>1, FS_Subset, FS_CardinalityType
<1>3. CASE f = e
  <2>1. Places(Append(w, e), f) = Places(w, f) \cup {Len(w) + 1}
    BY <1>3 DEF Places
  <2>2. Len(w) + 1 \notin Places(w, f)
    BY DEF Places
  <2>3. QED
    BY <1>2, <1>3, <2>1, <2>2, FS_AddElement
<1>4. CASE f # e
  <2>1. Places(Append(w, e), f) = Places(w, f)
    BY <1>4 DEF Places
  <2>2. QED
    BY <1>2, <1>4, <2>1
<1>5. QED
  BY <1>2, <1>3, <1>4

LEMMA EventInitInv == EventInit => EInv
<1> SUFFICES ASSUME EventInit PROVE EInv
  OBVIOUS
<1>1. EventTypes
  BY DEF EventInit, EventTypes, PublishType, EventKind
<1>2. ASSUME NEW e \in Event PROVE TallyOf(e)
  <2>1. /\ publish[e] \in PublishType /\ publish[e].state = "new"
        /\ publish[e].attempt = 0 /\ publish[e].unanswered = 0
    BY <1>1 DEF EventInit, EventTypes
  <2>2. Unhandled(e) = {} /\ OnTheWay(e) = {}
    BY DEF EventInit, Unhandled, OnTheWay
  <2>3. {i \in DOMAIN wire : wire[i] = e} = {}
    BY DEF EventInit
  <2>4. Copies(e) = 0
    BY <2>3, FS_EmptySet DEF Copies
  <2>5. QED
    BY <2>1, <2>2, <2>4, TallyOpens DEF TallyOf
<1>3. InTurn /\ BroadcastsStarted /\ OrderHasCause
  BY DEF EventInit, InTurn, BroadcastsStarted, OrderHasCause
<1>4. QED
  BY <1>1, <1>2, <1>3 DEF EInv

(* What a step that broadcasts nothing has to respect.                     *)
LEMMA OrderKept ==
  ASSUME EInv, wire' = wire, publish' \in [Event -> PublishType],
         \A e \in Event :
           /\ publish[e].state # "new" => publish'[e].state # "new"
           /\ publish[e].state = "new" /\ publish'[e].state # "new" =>
                CallerFree(e)
           /\ Returned(e) => Returned(e)'
           /\ publish'[e].unanswered >= publish[e].unanswered
  PROVE  InTurn' /\ BroadcastsStarted' /\ OrderHasCause'
<1>1. InTurn'
  BY DEF EInv, InTurn, CallerFree
<1>2. \A i \in DOMAIN wire : wire[i] \in Event
  BY DEF EInv, EventTypes
<1>3. BroadcastsStarted'
  BY <1>2 DEF EInv, BroadcastsStarted
<1>4. \A e \in Event :
        /\ publish[e].unanswered \in Nat /\ publish'[e].unanswered \in Nat
        /\ publish[e].unanswered > 0 => publish'[e].unanswered > 0
  BY DEF EInv, EventTypes, PublishType
<1>5. OrderHasCause'
  BY <1>2, <1>4 DEF EInv, OrderHasCause
<1>6. QED
  BY <1>1, <1>3, <1>5

(* A step of one event's publish, in its account and in nothing else's.    *)
LEMMA OneTally ==
  ASSUME EInv, NEW e \in Event, wire' = wire, NEW p \in PublishType,
         publish' = [publish EXCEPT ![e] = p],
         requests' \subseteq Event \X Nat, answers' \subseteq Event \X Answer,
         \A r : r[1] # e => (r \in requests' <=> r \in requests),
         \A a : a[1] # e => (a \in answers' <=> a \in answers),
         Tally(p, Unhandled(e)', OnTheWay(e)', Copies(e)),
         publish[e].state = "new" => CallerFree(e),
         p.state # "new", p.unanswered >= publish[e].unanswered,
         Returned(e) => p.state \in {"true", "false"}
  PROVE  EInv'
<1>1. /\ EventTypes' /\ publish'[e] = p
      /\ \A f \in Event \ {e} : publish'[f] = publish[f]
  BY DEF EInv, EventTypes
<1>2. ASSUME NEW f \in Event PROVE TallyOf(f)'
  <2>1. Copies(f)' = Copies(f)
    BY DEF Copies
  <2>2. CASE f = e
    BY <1>1, <2>1, <2>2 DEF TallyOf
  <2>3. CASE f # e
    <3>1. Unhandled(f)' = Unhandled(f)
      BY <2>3 DEF Unhandled
    <3>2. OnTheWay(f)' = OnTheWay(f)
      BY <2>3 DEF OnTheWay
    <3>3. QED
      BY <1>1, <2>1, <2>3, <3>1, <3>2 DEF EInv, TallyOf
  <2>4. QED
    BY <2>2, <2>3
<1>3. \A f \in Event :
        /\ publish[f].state # "new" => publish'[f].state # "new"
        /\ publish[f].state = "new" /\ publish'[f].state # "new" =>
             CallerFree(f)
        /\ Returned(f) => Returned(f)'
        /\ publish'[f].unanswered >= publish[f].unanswered
  <2>1. TAKE f \in Event
  <2>2. CASE f = e
    BY <1>1, <2>2 DEF Returned
  <2>3. CASE f # e
    <3>1. publish[f].unanswered \in Nat
      BY DEF EInv, EventTypes, PublishType
    <3>2. QED
      BY <1>1, <2>3, <3>1 DEF Returned
  <2>4. QED
    BY <2>2, <2>3
<1>4. QED
  BY <1>1, <1>2, <1>3, OrderKept DEF EInv, EventTypes
-----------------------------------------------------------------------------
LEMMA PublishEventInv ==
  ASSUME NEW e \in Event, EInv, PublishEvent(e) PROVE EInv'
<1>1. PICK kind \in EventKind :
        publish' = [publish EXCEPT ![e].state = "sending", ![e].kind = kind]
  BY DEF PublishEvent
<1>2. /\ publish[e].state = "new" /\ CallerFree(e)
      /\ requests' = requests /\ answers' = answers /\ wire' = wire
  BY DEF PublishEvent
<1> DEFINE a == [publish[e] EXCEPT !.state = "sending"]
           p == [a EXCEPT !.kind = kind]
<1>3. publish' = [publish EXCEPT ![e] = p]
  BY <1>1 DEF EInv, EventTypes
<1>4. TallyOf(e) /\ publish[e] \in PublishType
  BY DEF EInv, EventTypes
<1>5. Tally(p, Unhandled(e), OnTheWay(e), Copies(e))
  BY <1>2, <1>4, TallyStarts DEF TallyOf
<1>6. a \in PublishType /\ a.state = "sending"
      /\ a.unanswered = publish[e].unanswered
  BY <1>4 DEF PublishType
<1> HIDE DEF a
<1>7. p \in PublishType /\ p.state = "sending"
      /\ p.unanswered = publish[e].unanswered
  BY <1>6 DEF PublishType
<1> HIDE DEF p
<1>8. Unhandled(e)' = Unhandled(e) /\ OnTheWay(e)' = OnTheWay(e)
  BY <1>2 DEF Unhandled, OnTheWay
<1>9. publish[e].unanswered \in Nat
  BY <1>4 DEF PublishType
<1>10. /\ requests' \subseteq Event \X Nat /\ answers' \subseteq Event \X Answer
       /\ ~Returned(e)
  BY <1>2 DEF EInv, EventTypes, Returned
<1>11. Tally(p, Unhandled(e)', OnTheWay(e)', Copies(e))
  BY <1>5, <1>8
<1>12. p.unanswered >= publish[e].unanswered
  BY <1>7, <1>9
<1>13. QED
  BY <1>2, <1>3, <1>7, <1>10, <1>11, <1>12, OneTally

LEMMA PostInv == ASSUME NEW e \in Event, EInv, Post(e) PROVE EInv'
<1> DEFINE p == [publish[e] EXCEPT !.state = "waiting"]
           k == publish[e].attempt
<1>1. /\ publish[e] \in PublishType /\ publish[e].state = "sending"
      /\ publish' = [publish EXCEPT ![e] = p]
      /\ requests' = requests \cup {<<e, k>>}
      /\ answers' = answers /\ wire' = wire /\ TallyOf(e)
  BY DEF EInv, EventTypes, Post
<1>2. Unhandled(e)' = Unhandled(e) \cup {k} /\ k \in Nat
  BY <1>1 DEF Unhandled, PublishType
<1>3. OnTheWay(e)' = OnTheWay(e)
  BY <1>1 DEF OnTheWay
<1>4. Tally(p, Unhandled(e) \cup {k}, OnTheWay(e), Copies(e))
  BY <1>1, TallyPosts DEF TallyOf
<1>5. p \in PublishType /\ p.state = "waiting"
      /\ p.unanswered = publish[e].unanswered /\ p.unanswered \in Nat
  BY <1>1 DEF PublishType
<1>6. /\ requests' \subseteq Event \X Nat /\ answers' \subseteq Event \X Answer
      /\ ~Returned(e)
  BY <1>1, <1>2 DEF EInv, EventTypes, Returned
<1>7. /\ \A r : r[1] # e => (r \in requests' <=> r \in requests)
      /\ \A a : a[1] # e => (a \in answers' <=> a \in answers)
  BY <1>1
<1> HIDE DEF p, k
<1>8. Tally(p, Unhandled(e)', OnTheWay(e)', Copies(e))
  BY <1>2, <1>3, <1>4
<1>9. p.unanswered >= publish[e].unanswered
  BY <1>5
<1>10. QED
  BY <1>1, <1>5, <1>6, <1>7, <1>8, <1>9, OneTally

LEMMA NextAttemptKeeps ==
  ASSUME NEW e \in Event, NEW p \in PublishType
  PROVE  LET q == NextAttempt(p, e) IN
           q.state # "new" /\ q.unanswered = p.unanswered
BY DEF NextAttempt, PublishType

LEMMA CannotConnectInv ==
  ASSUME NEW e \in Event, EInv, CannotConnect(e) PROVE EInv'
<1> DEFINE p == NextAttempt(publish[e], e)
<1>1. /\ publish[e] \in PublishType /\ publish[e].state = "sending"
      /\ publish' = [publish EXCEPT ![e] = p] /\ TallyOf(e)
      /\ requests' = requests /\ answers' = answers /\ wire' = wire
  BY DEF EInv, EventTypes, CannotConnect
<1>2. OnTheWay(e) = {}
  BY <1>1 DEF TallyOf, Tally
<1>3. Tally(p, Unhandled(e), {}, Copies(e))
  BY <1>1, TallyFails DEF TallyOf
<1>4. Unhandled(e)' = Unhandled(e) /\ OnTheWay(e)' = {}
  BY <1>1, <1>2 DEF Unhandled, OnTheWay
<1>5. p.state # "new" /\ p.unanswered = publish[e].unanswered
  BY <1>1, NextAttemptKeeps
<1>6. /\ requests' \subseteq Event \X Nat /\ answers' \subseteq Event \X Answer
      /\ ~Returned(e) /\ publish[e].unanswered \in Nat
  BY <1>1 DEF EInv, EventTypes, Returned, PublishType
<1> HIDE DEF p
<1>7. p \in PublishType
  BY <1>3 DEF Tally
<1>8. Tally(p, Unhandled(e)', OnTheWay(e)', Copies(e))
  BY <1>3, <1>4
<1>9. p.unanswered >= publish[e].unanswered
  BY <1>5, <1>6
<1>10. QED
  BY <1>1, <1>5, <1>6, <1>7, <1>8, <1>9, OneTally

LEMMA GiveUpInv == ASSUME NEW e \in Event, EInv, GiveUp(e) PROVE EInv'
<1> DEFINE q == [publish[e] EXCEPT !.unanswered = @ + 1]
           p == NextAttempt(q, e)
<1>0. publish' = [publish EXCEPT ![e] = p]
  BY DEF GiveUp
<1>1. /\ publish[e] \in PublishType /\ publish[e].state = "waiting"
      /\ TallyOf(e)
      /\ requests' = requests /\ answers' = {a \in answers : a[1] # e}
      /\ wire' = wire
  BY DEF EInv, EventTypes, GiveUp
<1>2. Tally(p, Unhandled(e), {}, Copies(e))
  BY <1>1, TallyGivesUp DEF TallyOf
<1>3. Unhandled(e)' = Unhandled(e) /\ OnTheWay(e)' = {}
  BY <1>1 DEF Unhandled, OnTheWay
<1>4. q \in PublishType /\ q.unanswered = publish[e].unanswered + 1
      /\ publish[e].unanswered \in Nat
  BY <1>1 DEF PublishType
<1> HIDE DEF q
<1>5. p.state # "new" /\ p.unanswered = q.unanswered
  BY <1>4, NextAttemptKeeps
<1>6. /\ requests' \subseteq Event \X Nat /\ answers' \subseteq Event \X Answer
      /\ ~Returned(e)
  BY <1>1 DEF EInv, EventTypes, Returned
<1>7. /\ \A r : r[1] # e => (r \in requests' <=> r \in requests)
      /\ \A a : a[1] # e => (a \in answers' <=> a \in answers)
  BY <1>1
<1> HIDE DEF p
<1>8. p \in PublishType
  BY <1>2 DEF Tally
<1>9. Tally(p, Unhandled(e)', OnTheWay(e)', Copies(e))
  BY <1>2, <1>3
<1>10. p.unanswered >= publish[e].unanswered
  BY <1>4, <1>5
<1>11. QED
  BY <1>0, <1>1, <1>5, <1>6, <1>7, <1>8, <1>9, <1>10, OneTally

LEMMA AnsweredInv == ASSUME NEW a \in answers, EInv, Answered(a) PROVE EInv'
<1> DEFINE e == a[1]
           p == IF a[2] = 200 THEN [publish[e] EXCEPT !.state = "true"]
                ELSE NextAttempt(publish[e], e)
<1>1. /\ e \in Event /\ a[2] \in Answer /\ a = <<e, a[2]>>
      /\ publish[e] \in PublishType
      /\ publish' = [publish EXCEPT ![e] = p] /\ TallyOf(e)
      /\ requests' = requests /\ answers' = answers \ {a}
      /\ wire' = wire
  BY DEF EInv, EventTypes, Answered
<1>2. a[2] \in OnTheWay(e)
  BY <1>1 DEF OnTheWay
<1>3. /\ publish[e].state = "waiting"
      /\ \A s \in OnTheWay(e) : s = a[2]
  BY <1>1, <1>2 DEF TallyOf, Tally
<1>4. Unhandled(e)' = Unhandled(e) /\ OnTheWay(e)' = {}
  BY <1>1, <1>3 DEF Unhandled, OnTheWay
<1>5. Tally(p, Unhandled(e), {}, Copies(e))
  BY <1>1, <1>2, TallySucceeds, TallyFails DEF TallyOf
<1>6. p.state # "new" /\ p.unanswered = publish[e].unanswered
  <2>1. CASE a[2] = 200
    BY <1>1, <2>1 DEF PublishType
  <2>2. CASE a[2] # 200
    BY <1>1, <2>2, NextAttemptKeeps
  <2>3. QED
    BY <2>1, <2>2
<1>7. /\ requests' \subseteq Event \X Nat /\ answers' \subseteq Event \X Answer
      /\ ~Returned(e) /\ publish[e].unanswered \in Nat
  BY <1>1, <1>3 DEF EInv, EventTypes, Returned, PublishType
<1>8. /\ \A r : r[1] # e => (r \in requests' <=> r \in requests)
      /\ \A b : b[1] # e => (b \in answers' <=> b \in answers)
  BY <1>1
<1> HIDE DEF p
<1>9. p \in PublishType
  BY <1>5 DEF Tally
<1>10. Tally(p, Unhandled(e)', OnTheWay(e)', Copies(e))
  BY <1>4, <1>5
<1>11. p.unanswered >= publish[e].unanswered
  BY <1>6, <1>7
<1>12. publish[e].state # "new"
  BY <1>3
<1> HIDE DEF e
<1>13. QED
  BY <1>1, <1>6, <1>7, <1>8, <1>9, <1>10, <1>11, <1>12, OneTally
-----------------------------------------------------------------------------
(* A request is handled only for an event whose caller waits for it, or    *)
(* has given an attempt up.                                                *)
LEMMA UnhandledHasCause ==
  ASSUME NEW e \in Event, TallyOf(e), NEW k \in Unhandled(e), Returned(e)
  PROVE  publish[e].unanswered > 0
<1>1. /\ Cardinality(Unhandled(e)) \in Nat /\ Cardinality(Unhandled(e)) # 0
  BY FS_CardinalityType, FS_EmptySet DEF TallyOf, Tally
<1>2. /\ publish[e].state = "true" => Copies(e) >= 1
      /\ Copies(e) + Cardinality(Unhandled(e))
           <= publish[e].unanswered
              + IF publish[e].state = "true" THEN 1 ELSE 0
      /\ Copies(e) \in Nat /\ publish[e].unanswered \in Nat
  BY DEF TallyOf, Tally, Due, Returned, PublishType
<1>3. QED
  BY <1>1, <1>2

LEMMA HandleRequestInv ==
  ASSUME NEW r \in requests, EInv, HandleRequest(r) PROVE EInv'
<1> DEFINE e == r[1]
           k == r[2]
           waits == StillWaits(e, k)
<1>1. /\ e \in Event /\ k \in Nat /\ r = <<e, k>> /\ publish' = publish
      /\ requests' = requests \ {r} /\ TallyOf(e)
      /\ publish[e] \in PublishType /\ publish[e].kind \in EventKind
  BY DEF EInv, EventTypes, HandleRequest, PublishType
<1>2. Refusal(publish[e].kind) \in Answer
  BY <1>1 DEF Refusal, EventKind, Answer
<1>3. PICK s \in Answer :
        /\ answers' = answers \cup IF waits THEN {<<e, s>>} ELSE {}
        /\ wire' = IF s = 200 THEN Append(wire, e) ELSE wire
  BY <1>2 DEF HandleRequest, Broadcasts, Answer
<1>4. EventTypes'
  BY <1>1, <1>3 DEF EInv, EventTypes
<1>5. ASSUME NEW f \in Event
      PROVE  /\ Copies(f) \in Nat
             /\ Copies(f)' = IF f = e /\ s = 200 THEN Copies(f) + 1
                             ELSE Copies(f)
  <2>1. Copies(f) = Cardinality(Places(wire, f)) /\ wire \in Seq(Event)
    BY DEF Copies, Places, EInv, EventTypes
  <2>2. Copies(f)' = Cardinality(Places(wire', f))
    BY DEF Copies, Places
  <2>3. QED
    BY <1>1, <1>3, <2>1, <2>2, AppendPlaces
<1>6. ASSUME NEW f \in Event PROVE TallyOf(f)'
  <2>1. CASE f = e
    <3>1. Unhandled(e)' = Unhandled(e) \ {k} /\ k \in Unhandled(e)
      BY <1>1 DEF Unhandled
    <3>2. OnTheWay(e)' = IF waits THEN OnTheWay(e) \cup {s} ELSE OnTheWay(e)
      BY <1>1, <1>3 DEF OnTheWay
    <3>3. Copies(e)' = IF s = 200 THEN Copies(e) + 1 ELSE Copies(e)
      BY <1>1, <1>5
    <3>4. Tally(publish[e], Unhandled(e)', OnTheWay(e)', Copies(e)')
      <4>1. Tally(publish[e], Unhandled(e), OnTheWay(e), Copies(e))
        BY <1>1 DEF TallyOf
      <4>2. CASE waits
        <5>1. Tally(publish[e], Unhandled(e) \ {k}, OnTheWay(e) \cup {s},
                      IF s = 200 THEN Copies(e) + 1 ELSE Copies(e))
          BY <3>1, <4>1, <4>2, TallyHandled DEF StillWaits
        <5>2. QED
          BY <3>1, <3>2, <3>3, <4>2, <5>1
      <4>3. CASE ~waits
        <5>1. Tally(publish[e], Unhandled(e) \ {k}, OnTheWay(e),
                      IF s = 200 THEN Copies(e) + 1 ELSE Copies(e))
          <6>1. ~(publish[e].state = "waiting" /\ publish[e].attempt = k)
            BY <4>3 DEF StillWaits
          <6> HIDE DEF e, k, waits
          <6>2. QED
            BY <3>1, <4>1, <6>1, TallyHandled
        <5>2. QED
          BY <3>1, <3>2, <3>3, <4>3, <5>1
      <4>4. QED
        BY <4>2, <4>3
    <3>5. QED
      BY <1>1, <2>1, <3>4 DEF TallyOf
  <2>2. CASE f # e
    <3>1. Unhandled(f)' = Unhandled(f)
      BY <1>1, <2>2 DEF Unhandled
    <3>2. OnTheWay(f)' = OnTheWay(f)
      BY <1>1, <1>3, <2>2 DEF OnTheWay
    <3>3. QED
      BY <1>1, <1>5, <2>2, <3>1, <3>2 DEF EInv, TallyOf
  <2>3. QED
    BY <2>1, <2>2
<1>7. k \in Unhandled(e)
  BY <1>1 DEF Unhandled
<1>8. InTurn'
  BY <1>1 DEF EInv, InTurn, Returned
<1>9. publish[e].state # "new"
  BY <1>1, <1>7 DEF TallyOf, Tally
<1>10. \A i \in DOMAIN wire : wire[i] \in Event /\ publish[wire[i]].state # "new"
  BY DEF EInv, EventTypes, BroadcastsStarted
<1>11. CASE s # 200
  <2>1. wire' = wire
    BY <1>3, <1>11
  <2>2. BroadcastsStarted' /\ OrderHasCause'
    BY <1>1, <2>1 DEF EInv, BroadcastsStarted, OrderHasCause
  <2>3. QED
    BY <1>4, <1>6, <1>8, <2>2 DEF EInv
<1>12. CASE s = 200
  <2>1. /\ wire' = Append(wire, e) /\ wire \in Seq(Event)
        /\ DOMAIN wire = 1..Len(wire)
        /\ DOMAIN wire' = 1..(Len(wire) + 1) /\ Len(wire) \in Nat
        /\ wire'[Len(wire) + 1] = e
        /\ \A i \in DOMAIN wire : wire'[i] = wire[i]
    BY <1>1, <1>3, <1>12 DEF EInv, EventTypes
  <2>2. BroadcastsStarted'
    BY <1>1, <1>9, <1>10, <2>1 DEF BroadcastsStarted
  <2>3. OrderHasCause'
    <3> SUFFICES ASSUME NEW i \in DOMAIN wire', NEW j \in DOMAIN wire', i < j,
                        CallerOf[wire'[i]] = CallerOf[wire'[j]],
                        wire'[i] > wire'[j]
                 PROVE  publish[wire'[j]].unanswered > 0
      BY <1>1 DEF OrderHasCause
    <3>1. i \in DOMAIN wire /\ wire'[i] = wire[i]
      BY <2>1
    <3>2. CASE j \in DOMAIN wire
      BY <2>1, <3>1, <3>2 DEF EInv, OrderHasCause
    <3>3. CASE j \notin DOMAIN wire
      <4>1. wire'[j] = e
        BY <2>1, <3>3
      <4>2. e < wire[i]
        BY <1>1, <1>10, <3>1, <4>1, EventAssumption
      <4>3. Returned(e)
        BY <1>1, <1>10, <3>1, <4>1, <4>2 DEF EInv, InTurn
      <4>4. QED
        BY <1>1, <1>7, <4>1, <4>3, UnhandledHasCause
    <3>4. QED
      BY <3>2, <3>3
  <2>4. QED
    BY <1>4, <1>6, <1>8, <2>2, <2>3 DEF EInv
<1>13. QED
  BY <1>11, <1>12
-----------------------------------------------------------------------------
(* The copies of an event and the requests that may still become one are   *)
(* covered by the attempts made for it, callers take turns, and the        *)
(* broadcasts of one caller are in order: for every set of events and any  *)
(* number of attempts.                                                     *)
THEOREM EventInvariant == EventSpec => []EInv
<1>1. EInv /\ [EventNext]_eventvars => EInv'
  <2> SUFFICES ASSUME EInv, [EventNext]_eventvars PROVE EInv'
    OBVIOUS
  <2>1. ASSUME NEW e \in Event, PublishEvent(e) PROVE EInv'
    BY <2>1, PublishEventInv
  <2>2. ASSUME NEW e \in Event, Post(e) PROVE EInv'
    BY <2>2, PostInv
  <2>3. ASSUME NEW e \in Event, CannotConnect(e) PROVE EInv'
    BY <2>3, CannotConnectInv
  <2>4. ASSUME NEW e \in Event, GiveUp(e) PROVE EInv'
    BY <2>4, GiveUpInv
  <2>5. ASSUME NEW r \in requests, HandleRequest(r) PROVE EInv'
    BY <2>5, HandleRequestInv
  <2>6. ASSUME NEW a \in answers, Answered(a) PROVE EInv'
    BY <2>6, AnsweredInv
  <2>7. CASE UNCHANGED eventvars
    BY <2>7 DEF eventvars, EInv, EventTypes, TallyOf, Unhandled, OnTheWay,
                Copies, InTurn, Returned, BroadcastsStarted, OrderHasCause
  <2>8. QED
    BY <2>1, <2>2, <2>3, <2>4, <2>5, <2>6, <2>7 DEF EventNext
<1>2. QED
  BY <1>1, EventInitInv, PTL DEF EventSpec

LEMMA CopiesCounted == EInv => CopiesHaveCause
<1> SUFFICES ASSUME EInv, NEW e \in Event
             PROVE  /\ publish[e].state = "true" =>
                         Copies(e) \in 1..(1 + publish[e].unanswered)
                    /\ publish[e].state = "false" =>
                         Copies(e) \in 0..publish[e].unanswered
  BY DEF CopiesHaveCause
<1>1. Tally(publish[e], Unhandled(e), OnTheWay(e), Copies(e))
  BY DEF EInv, TallyOf
<1>2. /\ Cardinality(Unhandled(e)) \in Nat /\ Copies(e) \in Nat
      /\ publish[e].unanswered \in Nat
  BY <1>1, FS_CardinalityType DEF Tally, PublishType
<1>3. /\ publish[e].state = "true" => Copies(e) >= 1
      /\ publish[e].state \in {"true", "false"} =>
           Copies(e) + Cardinality(Unhandled(e))
             <= publish[e].unanswered
                + IF publish[e].state = "true" THEN 1 ELSE 0
  BY <1>1 DEF Tally, Due
<1>4. QED
  BY <1>2, <1>3

(* A publish_event that returned True left a copy on the wire, and any     *)
(* further copy, or one of an event reported as failed, has an attempt of  *)
(* the publisher that got no answer.                                       *)
THEOREM CopiesAlwaysHaveCause == EventSpec => [](CopiesHaveCause)
BY EventInvariant, CopiesCounted, PTL

(* Subscribers see the events of one caller in its order, unless an        *)
(* attempt for the earlier one got no answer.                              *)
THEOREM OrderAlwaysHasCause == EventSpec => [](OrderHasCause)
<1>1. EInv => OrderHasCause
  BY DEF EInv
<1>2. QED
  BY <1>1, EventInvariant, PTL
=============================================================================
