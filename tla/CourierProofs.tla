--------------------------- MODULE CourierProofs ---------------------------
(***************************************************************************)
(* The courier's table of channels, its limits and its broadcasts, for any *)
(* number of connections, channels and publications.                       *)
(***************************************************************************)
EXTENDS CourierHub, FiniteSetTheorems, WellFoundedInduction, TLAPS

-----------------------------------------------------------------------------
(* Induction over the naturals, by a set that is closed under it: lists    *)
(* are cleaned up by a recursive function.                                 *)
LEMMA LeastElement ==
  ASSUME NEW T \in SUBSET Nat, T # {}
  PROVE  \E x \in T : \A y \in T : x <= y
<1>. DEFINE R == {ss \in Nat \X Nat : ss[1] < ss[2]}
<1>1. IsWellFoundedOn(R, Nat)
  BY NatLessThanWellFounded DEF OpToRel
<1>2. \A y \in Nat, x \in Nat : <<y, x>> \notin R => x <= y
  OBVIOUS
<1>. HIDE DEF R
<1>3. PICK x \in T : \A y \in T : <<y, x>> \notin R
  BY <1>1, WFMin
<1>. QED  BY <1>2, <1>3

LEMMA SetInduction ==
  ASSUME NEW S \in SUBSET Nat, 0 \in S, \A n \in S : n + 1 \in S
  PROVE  S = Nat
<1>. SUFFICES ASSUME Nat \ S # {} PROVE FALSE
  OBVIOUS
<1>1. PICK m \in Nat \ S : \A y \in Nat \ S : m <= y
  BY LeastElement
<1>2. m # 0 /\ m - 1 \in Nat
  BY <1>1
<1>3. m - 1 \in S
  BY <1>1, <1>2
<1>. QED  BY <1>2, <1>3

(* The recursion has a solution.                                           *)
LEMMA KeptIs ==
  ASSUME NEW U, NEW s \in Seq(U), NEW D
  PROVE  Kept(s, D) = [i \in 0..Len(s) |->
           IF i = 0 THEN <<>>
           ELSE IF s[i] \in D THEN Kept(s, D)[i - 1]
           ELSE Append(Kept(s, D)[i - 1], s[i])]
<1>. DEFINE Step(v, i) == IF s[i] \in D THEN v ELSE Append(v, s[i])
            Solves(g, n) ==
              g = [i \in 0..n |-> IF i = 0 THEN <<>> ELSE Step(g[i - 1], i)]
            S == {n \in Nat : \E g : Solves(g, n)}
<1>1. 0 \in S
  <2>1. Solves([i \in 0..0 |-> <<>>], 0)
    OBVIOUS
  <2>. QED  BY <2>1
<1>2. ASSUME NEW n \in S PROVE n + 1 \in S
  <2>1. PICK g : Solves(g, n)
    OBVIOUS
  <2>. HIDE DEF Step
  <2>. DEFINE h == [i \in 0..(n + 1) |->
                      IF i = n + 1 THEN Step(g[n], i) ELSE g[i]]
  <2>2. Solves(h, n + 1)
    <3>1. ASSUME NEW i \in 0..(n + 1)
          PROVE  h[i] = IF i = 0 THEN <<>> ELSE Step(h[i - 1], i)
      <4>1. CASE i = n + 1
        BY <4>1
      <4>2. CASE i \in 0..n
        <5>1. g[i] = IF i = 0 THEN <<>> ELSE Step(g[i - 1], i)
          BY <2>1, <4>2
        <5>2. h[i] = g[i] /\ (i # 0 => h[i - 1] = g[i - 1])
          BY <4>2
        <5>. QED  BY <5>1, <5>2
      <4>. QED  BY <4>1, <4>2
    <3>. QED  BY <3>1
  <2>3. \E f : Solves(f, n + 1)
    <3>. HIDE DEF h, Solves
    <3>. QED  BY <2>2
  <2>. QED  BY <2>3
<1>. HIDE DEF Solves
<1>3. S = Nat
  BY <1>1, <1>2, SetInduction
<1>4. Len(s) \in S
  <2>1. Len(s) \in Nat
    OBVIOUS
  <2>. HIDE DEF S
  <2>. QED  BY <1>3, <2>1
<1>5. \E g : Solves(g, Len(s))
  BY <1>4
<1>6. Kept(s, D) = CHOOSE g : Solves(g, Len(s))
  BY DEF Kept, Solves
<1>7. Solves(Kept(s, D), Len(s))
  BY <1>5, <1>6
<1>. QED  BY <1>7 DEF Solves

LEMMA KeptAt ==
  ASSUME NEW U, NEW s \in Seq(U), NEW D
  PROVE  /\ Kept(s, D)[0] = <<>>
         /\ \A n \in Nat : n + 1 <= Len(s) =>
              Kept(s, D)[n + 1] = IF s[n + 1] \in D THEN Kept(s, D)[n]
                                  ELSE Append(Kept(s, D)[n], s[n + 1])
<1>. DEFINE K == Kept(s, D)
<1>1. K = [i \in 0..Len(s) |->
             IF i = 0 THEN <<>>
             ELSE IF s[i] \in D THEN K[i - 1] ELSE Append(K[i - 1], s[i])]
  BY KeptIs
<1>2. Len(s) \in Nat
  OBVIOUS
<1>. HIDE DEF K
<1>3. K[0] = <<>>
  BY <1>1, <1>2
<1>4. ASSUME NEW n \in Nat, n + 1 <= Len(s)
      PROVE  K[n + 1] = IF s[n + 1] \in D THEN K[n]
                        ELSE Append(K[n], s[n + 1])
  <2>1. n + 1 \in 0..Len(s) /\ n + 1 # 0 /\ (n + 1) - 1 = n
    BY <1>2, <1>4
  <2>. QED  BY <1>1, <2>1
<1>. QED  BY <1>3, <1>4 DEF K

(* v is what the clean-up makes of the first n elements of s.              *)
Cleaned(U, s, D, n, v) ==
  /\ v \in Seq(U) /\ Len(v) <= n
  /\ \A i \in 1..n : s[i] \notin D => \E k \in 1..Len(v) : v[k] = s[i]
  /\ \A k \in 1..Len(v) : v[k] \notin D /\ \E i \in k..n : s[i] = v[k]
  /\ NoTwice(s) => \A j, k \in 1..Len(v) : j # k => v[j] # v[k]
  /\ \A j, k \in 1..Len(v) :
       j < k => \E g, h \in 1..n : g < h /\ s[g] = v[j] /\ s[h] = v[k]

LEMMA CleanedStep ==
  ASSUME NEW U, NEW s \in Seq(U), NEW D, NEW v,
         NEW n \in Nat, n + 1 <= Len(s), Cleaned(U, s, D, n, v)
  PROVE  Cleaned(U, s, D, n + 1,
                 IF s[n + 1] \in D THEN v ELSE Append(v, s[n + 1]))
<1>1. n + 1 \in 1..Len(s) /\ s[n + 1] \in U
  OBVIOUS
<1>2. CASE s[n + 1] \in D
  <2>1. Cleaned(U, s, D, n + 1, v)
    <3>1. 1..n \subseteq 1..(n + 1)
      OBVIOUS
    <3>2. ASSUME NEW k \in 1..Len(v)
          PROVE  v[k] \notin D /\ \E i \in k..(n + 1) : s[i] = v[k]
      <4>1. v[k] \notin D /\ \E i \in k..n : s[i] = v[k]
        BY DEF Cleaned
      <4>2. k..n \subseteq k..(n + 1)
        OBVIOUS
      <4>. QED  BY <4>1, <4>2
    <3>3. \A j, k \in 1..Len(v) : j < k =>
            \E g, h \in 1..(n + 1) : g < h /\ s[g] = v[j] /\ s[h] = v[k]
      BY <3>1 DEF Cleaned
    <3>4. \A i \in 1..(n + 1) : s[i] \notin D => i \in 1..n
      BY <1>2
    <3>. QED  BY <3>2, <3>3, <3>4 DEF Cleaned
  <2>. QED  BY <1>2, <2>1
<1>3. CASE s[n + 1] \notin D
  <2>. DEFINE w == Append(v, s[n + 1])
  <2>1. /\ w \in Seq(U) /\ Len(w) = Len(v) + 1 /\ Len(v) \in Nat
        /\ \A k \in 1..Len(v) : w[k] = v[k]
        /\ w[Len(v) + 1] = s[n + 1]
        /\ Len(v) <= n
    BY <1>1 DEF Cleaned
  <2>. HIDE DEF w
  <2>2. ASSUME NEW i \in 1..(n + 1), s[i] \notin D
        PROVE  \E k \in 1..Len(w) : w[k] = s[i]
    <3>1. CASE i = n + 1
      BY <2>1, <3>1
    <3>2. CASE i \in 1..n
      <4>1. PICK k \in 1..Len(v) : v[k] = s[i]
        BY <2>2, <3>2 DEF Cleaned
      <4>. QED  BY <2>1, <4>1
    <3>. QED  BY <3>1, <3>2
  <2>3. ASSUME NEW k \in 1..Len(w)
        PROVE  w[k] \notin D /\ \E i \in k..(n + 1) : s[i] = w[k]
    <3>1. CASE k = Len(v) + 1
      BY <1>3, <2>1, <3>1
    <3>2. CASE k \in 1..Len(v)
      <4>1. v[k] \notin D /\ \E i \in k..n : s[i] = v[k]
        BY <3>2 DEF Cleaned
      <4>. QED  BY <2>1, <3>2, <4>1
    <3>. QED  BY <2>1, <3>1, <3>2
  <2>4. ASSUME NoTwice(s), NEW j \in 1..Len(w), NEW k \in 1..Len(w), j # k
        PROVE  w[j] # w[k]
    <3>1. ASSUME NEW l \in 1..Len(v), v[l] = s[n + 1] PROVE FALSE
      <4>1. PICK i \in l..n : s[i] = v[l]
        BY DEF Cleaned
      <4>2. i \in DOMAIN s /\ n + 1 \in DOMAIN s /\ i # n + 1
        BY <1>1
      <4>. QED  BY <2>4, <3>1, <4>1, <4>2 DEF NoTwice
    <3>2. CASE j \in 1..Len(v) /\ k \in 1..Len(v)
      BY <2>1, <2>4, <3>2 DEF Cleaned
    <3>3. CASE j = Len(v) + 1 /\ k \in 1..Len(v)
      BY <2>1, <3>1, <3>3
    <3>4. CASE k = Len(v) + 1 /\ j \in 1..Len(v)
      BY <2>1, <3>1, <3>4
    <3>. QED  BY <2>1, <2>4, <3>2, <3>3, <3>4
  <2>5. ASSUME NEW j \in 1..Len(w), NEW k \in 1..Len(w), j < k
        PROVE  \E g, h \in 1..(n + 1) : g < h /\ s[g] = w[j] /\ s[h] = w[k]
    <3>1. j \in 1..Len(v)
      BY <2>1, <2>5
    <3>2. CASE k = Len(v) + 1
      <4>1. PICK g \in j..n : s[g] = v[j]
        BY <3>1 DEF Cleaned
      <4>2. g \in 1..(n + 1) /\ n + 1 \in 1..(n + 1) /\ g < n + 1
        BY <3>1, <4>1
      <4>. QED  BY <2>1, <3>1, <3>2, <4>1, <4>2
    <3>3. CASE k \in 1..Len(v)
      <4>1. PICK g \in 1..n, h \in 1..n : g < h /\ s[g] = v[j] /\ s[h] = v[k]
        BY <2>5, <3>1, <3>3 DEF Cleaned
      <4>2. g \in 1..(n + 1) /\ h \in 1..(n + 1)
        OBVIOUS
      <4>. QED  BY <2>1, <3>1, <3>3, <4>1, <4>2
    <3>. QED  BY <2>1, <3>2, <3>3
  <2>6. Cleaned(U, s, D, n + 1, w)
    BY <2>1, <2>2, <2>3, <2>4, <2>5 DEF Cleaned
  <2>. QED  BY <1>3, <2>6 DEF w
<1>. QED  BY <1>2, <1>3

(* What remains is a list of the others in the same order, in which nobody *)
(* has moved back.                                                         *)
LEMMA WithoutProps ==
  ASSUME NEW U, NEW s \in Seq(U), NEW D
  PROVE  /\ Without(s, D) \in Seq(U)
         /\ Range(Without(s, D)) = Range(s) \ D
         /\ NoTwice(s) => NoTwice(Without(s, D))
         /\ \A k \in DOMAIN Without(s, D) :
              \E i \in DOMAIN s : k <= i /\ s[i] = Without(s, D)[k]
         /\ \A j, k \in DOMAIN Without(s, D) : j < k =>
              \E g, h \in DOMAIN s :
                g < h /\ s[g] = Without(s, D)[j] /\ s[h] = Without(s, D)[k]
<1>. DEFINE S == {n \in Nat :
                    n <= Len(s) => Cleaned(U, s, D, n, Kept(s, D)[n])}
<1>0. Len(s) \in Nat
  OBVIOUS
<1>1. 0 \in S
  <2>1. Kept(s, D)[0] = <<>>
    BY KeptAt
  <2>2. Cleaned(U, s, D, 0, <<>>)
    BY DEF Cleaned
  <2>. QED  BY <2>1, <2>2
<1>2. ASSUME NEW n \in S PROVE n + 1 \in S
  <2>1. n \in Nat
    OBVIOUS
  <2>2. ASSUME n + 1 <= Len(s)
        PROVE  Cleaned(U, s, D, n + 1, Kept(s, D)[n + 1])
    <3>2. Kept(s, D)[n + 1] =
            IF s[n + 1] \in D THEN Kept(s, D)[n]
            ELSE Append(Kept(s, D)[n], s[n + 1])
      BY <2>1, <2>2, KeptAt
    <3>3. Cleaned(U, s, D, n, Kept(s, D)[n])
      <4>1. n <= Len(s) => Cleaned(U, s, D, n, Kept(s, D)[n])
        OBVIOUS
      <4>. QED  BY <1>0, <2>1, <2>2, <4>1
    <3>. QED  BY <2>1, <2>2, <3>2, <3>3, CleanedStep
  <2>. QED  BY <2>1, <2>2
<1>3. Cleaned(U, s, D, Len(s), Without(s, D))
  <2>1. S = Nat
    <3>. HIDE DEF S
    <3>. QED  BY <1>1, <1>2, SetInduction DEF S
  <2>. QED  BY <1>0, <2>1 DEF Without
<1>. DEFINE v == Without(s, D)
<1>. HIDE DEF v
<1>4. Cleaned(U, s, D, Len(s), v)
  BY <1>3 DEF v
<1>5. v \in Seq(U) /\ DOMAIN v = 1..Len(v) /\ DOMAIN s = 1..Len(s)
  BY <1>4 DEF Cleaned
<1>6. Range(v) = Range(s) \ D
  <2>1. ASSUME NEW k \in 1..Len(v) PROVE v[k] \in Range(s) \ D
    <3>1. v[k] \notin D /\ \E i \in k..Len(s) : s[i] = v[k]
      BY <1>4 DEF Cleaned
    <3>. QED  BY <1>0, <1>5, <3>1 DEF Range
  <2>2. ASSUME NEW i \in 1..Len(s), s[i] \notin D PROVE s[i] \in Range(v)
    <3>1. \E k \in 1..Len(v) : v[k] = s[i]
      BY <1>4, <2>2 DEF Cleaned
    <3>. QED  BY <1>5, <3>1 DEF Range
  <2>. QED  BY <1>5, <2>1, <2>2 DEF Range
<1>7. NoTwice(s) => NoTwice(v)
  BY <1>4, <1>5 DEF Cleaned, NoTwice
<1>8. ASSUME NEW k \in DOMAIN v
      PROVE  \E i \in DOMAIN s : k <= i /\ s[i] = v[k]
  <2>1. PICK i \in k..Len(s) : s[i] = v[k]
    BY <1>4, <1>5 DEF Cleaned
  <2>. QED  BY <1>0, <1>5, <2>1
<1>9. ASSUME NEW j \in DOMAIN v, NEW k \in DOMAIN v, j < k
      PROVE  \E g, h \in DOMAIN s : g < h /\ s[g] = v[j] /\ s[h] = v[k]
  <2>1. \E g, h \in 1..Len(s) : g < h /\ s[g] = v[j] /\ s[h] = v[k]
    BY <1>4, <1>5, <1>9 DEF Cleaned
  <2>. QED  BY <1>5, <2>1
<1>. QED  BY <1>5, <1>6, <1>7, <1>8, <1>9 DEF v
-----------------------------------------------------------------------------
(* A table of channels, as it is or is about to be.                        *)
Table(t) == /\ t \in [DOMAIN t -> Seq(Clients)]
            /\ DOMAIN t \subseteq Channels /\ IsFiniteSet(DOMAIN t)

Walker(w) == /\ w.size \in Nat /\ w.left \in Nat
             /\ w.seen \in SUBSET Channels

GoesOn(v, w, t, ch) ==
  \E left \in Nat, seen \in SUBSET Channels :
    /\ v = [w EXCEPT !.seen = seen, !.left = left]
    /\ ch \in DOMAIN t /\ t[ch] # <<>>

(* An iteration goes on to an entry that has somebody in it, and has one   *)
(* entry less to see.                                                      *)
LEMMA OnwardsType ==
  ASSUME NEW t, Table(t), NEW w, Walker(w), NEW ch, NEW v \in Onwards(t, w, ch)
  PROVE  GoesOn(v, w, t, ch)
<1>1. PICK E \in Passable(t, w) :
        /\ v = [w EXCEPT !.seen = @ \cup E \cup {ch},
                         !.left = @ - Cardinality(E) - 1]
        /\ Cardinality(E) < w.left
        /\ ch \in Unseen(t, w) /\ t[ch] # <<>>
  BY DEF Onwards
<1>2. E \subseteq DOMAIN t /\ ch \in DOMAIN t
  BY <1>1 DEF Passable, Unseen
<1>3. Cardinality(E) \in Nat
  BY <1>2, FS_Subset, FS_CardinalityType DEF Table
<1>. DEFINE less == w.left - Cardinality(E) - 1
            more == w.seen \cup E \cup {ch}
<1>4. less \in Nat /\ more \in SUBSET Channels
  BY <1>1, <1>2, <1>3 DEF Walker, Table
<1>5. v = [w EXCEPT !.seen = more, !.left = less]
  BY <1>1
<1>. HIDE DEF less, more
<1>. QED  BY <1>1, <1>2, <1>4, <1>5 DEF GoesOn

LEMMA RoundType ==
  ASSUME NEW state \in {"asleep", "round", "stopped", "died"}
  PROVE  Round(state) \in BeatType
BY DEF Round, BeatType

LEMMA NoticeHasType ==
  ASSUME NEW state \in {"none", "running", "done", "failed", "expired"}
  PROVE  Notice(state) \in NoticeType
<1>1. <<>> \in Seq(Clients)
  OBVIOUS
<1>. QED  BY <1>1 DEF Notice, NoticeType

LEMMA StartWalkType ==
  ASSUME TypeOK
  PROVE  /\ StartWalk(beat) \in BeatType /\ Walker(StartWalk(beat))
         /\ StartWalk(notice) \in NoticeType /\ Walker(StartWalk(notice))
<1>1. Cardinality(DOMAIN channels) \in Nat
  BY FS_CardinalityType DEF TypeOK
<1>2. beat \in BeatType /\ notice \in NoticeType
  BY DEF TypeOK
<1>. QED  BY <1>1, <1>2 DEF StartWalk, Walker, BeatType, NoticeType

(* The heartbeat after it has gone on: in the list of some channel, or at  *)
(* the end of its round.                                                   *)
InList(b, t) ==
  /\ b.state = "round" /\ b.live
  /\ b.ch \in DOMAIN t /\ t[b.ch] # <<>>
  /\ b.ws = t[b.ch][1] /\ b.dead = {}

LEMMA ProceedGives ==
  ASSUME NEW t, Table(t), NEW w \in BeatType, Proceed(t, w)
  PROVE  /\ beat' \in BeatType
         /\ InList(beat', t) \/ (beat'.state # "round" /\ ~beat'.live)
<1>1. Walker(w)
  BY DEF Walker, BeatType
<1>2. ASSUME NEW ch \in DOMAIN t, NEW v \in Onwards(t, w, ch),
             beat' = Ping(v, ch, t)
      PROVE  beat' \in BeatType /\ InList(beat', t)
  <2>0. GoesOn(v, w, t, ch)
    BY <1>1, OnwardsType
  <2>1. PICK left \in Nat, seen \in SUBSET Channels :
          /\ v = [w EXCEPT !.seen = seen, !.left = left]
          /\ t[ch] # <<>>
    BY <2>0 DEF GoesOn
  <2>2. v \in BeatType
    BY <2>1 DEF BeatType
  <2>3. t[ch] \in Seq(Clients) /\ ch \in Channels
    BY DEF Table
  <2>4. t[ch][1] \in Clients
    BY <2>1, <2>3
  <2>5. beat' \in BeatType
    BY <1>2, <2>2, <2>3, <2>4 DEF Ping, BeatType
  <2>6. InList(beat', t)
    BY <1>2, <2>1, <2>2 DEF Ping, BeatType, InList
  <2>. QED  BY <2>5, <2>6
<1>3. CASE beat' = LoopTop
  <2>1. beat' = Round("stopped") \/ beat' = Round("asleep")
    BY <1>3 DEF LoopTop
  <2>2. beat' \in BeatType
    BY <2>1, RoundType
  <2>3. beat'.state # "round" /\ ~beat'.live
    BY <2>1 DEF Round
  <2>. QED  BY <2>2, <2>3
<1>4. CASE beat' = Round("died")
  <2>1. beat' \in BeatType
    BY <1>4, RoundType
  <2>2. beat'.state # "round" /\ ~beat'.live
    BY <1>4 DEF Round
  <2>. QED  BY <2>1, <2>2
<1>. QED  BY <1>2, <1>3, <1>4 DEF Proceed

LEMMA TellType ==
  ASSUME NEW t, Table(t), NEW w \in NoticeType, Tell(t, w)
  PROVE  /\ notice' \in NoticeType
         /\ server' \in {"stopping", "exiting"}
<1>1. Walker(w)
  BY DEF Walker, NoticeType
<1>2. ASSUME NEW ch \in DOMAIN t, NEW v \in Onwards(t, w, ch),
             notice' = [v EXCEPT !.state = "running", !.todo = Tail(t[ch])]
      PROVE  notice' \in NoticeType
  <2>0. GoesOn(v, w, t, ch)
    BY <1>1, OnwardsType
  <2>1. PICK left \in Nat, seen \in SUBSET Channels :
          /\ v = [w EXCEPT !.seen = seen, !.left = left]
          /\ t[ch] # <<>>
    BY <2>0 DEF GoesOn
  <2>2. v \in NoticeType
    BY <2>1 DEF NoticeType
  <2>3. t[ch] \in Seq(Clients)
    BY DEF Table
  <2>4. Tail(t[ch]) \in Seq(Clients)
    BY <2>1, <2>3
  <2>. QED  BY <1>2, <2>2, <2>4 DEF NoticeType
<1>3. Notice("done") \in NoticeType /\ Notice("failed") \in NoticeType
  BY NoticeHasType
<1>. QED  BY <1>2, <1>3 DEF Tell
-----------------------------------------------------------------------------
(* What the steps do to the table.                                         *)
LEMMA ChannelsTable == TypeOK => Table(channels)
BY DEF TypeOK, Table

LEMMA OpenedTable ==
  ASSUME TypeOK, NEW ch \in Channels
  PROVE  /\ Table(Opened(ch)) /\ DOMAIN Opened(ch) = DOMAIN channels \cup {ch}
         /\ \A d \in DOMAIN channels : Opened(ch)[d] = channels[d]
         /\ ch \notin DOMAIN channels => Opened(ch)[ch] = <<>>
<1>1. IsFiniteSet(DOMAIN channels \cup {ch})
  BY FS_AddElement DEF TypeOK
<1>2. <<>> \in Seq(Clients)
  OBVIOUS
<1>. QED  BY <1>1, <1>2 DEF TypeOK, Table, Opened

LEMMA RemovedTable ==
  ASSUME NEW t, Table(t), NEW ch, NEW D
  PROVE  /\ Table(Removed(t, ch, D)) /\ DOMAIN Removed(t, ch, D) = DOMAIN t
         /\ \A d \in DOMAIN t :
              Removed(t, ch, D)[d] = IF d = ch THEN Without(t[d], D) ELSE t[d]
<1>1. \A d \in DOMAIN t : Without(t[d], D) \in Seq(Clients)
  BY WithoutProps DEF Table
<1>. QED  BY <1>1 DEF Table, Removed

LEMMA DeletedTable ==
  ASSUME NEW t, Table(t), NEW ch
  PROVE  Table([d \in DOMAIN t \ {ch} |-> t[d]])
<1>1. IsFiniteSet(DOMAIN t \ {ch})
  BY FS_RemoveElement DEF Table
<1>. QED  BY <1>1 DEF Table

LEMMA TableBecomesType ==
  ASSUME TypeOK, NEW t, Table(t), TableBecomes(t)
  PROVE  /\ Table(channels') /\ channels' = t
         /\ beat' \in BeatType /\ notice' \in NoticeType
         /\ casts' \in [Posts -> CastType]
         /\ churned' \subseteq {"beat", "notice"}
<1>1. beat' \in BeatType
  BY DEF TypeOK, TableBecomes, BeatType
<1>2. notice' \in NoticeType
  BY DEF TypeOK, TableBecomes, NoticeType
<1>3. casts' \in [Posts -> CastType]
  <2>1. ASSUME NEW cast \in CastType, NEW live \in BOOLEAN
        PROVE  [cast EXCEPT !.live = live] \in CastType
    BY DEF CastType
  <2>. DEFINE live(p) ==
                casts[p].live /\ casts[p].ch \notin DOMAIN channels \ DOMAIN t
  <2>2. casts' = [p \in Posts |-> [casts[p] EXCEPT !.live = live(p)]]
    BY DEF TableBecomes
  <2>3. \A p \in Posts : casts[p] \in CastType /\ live(p) \in BOOLEAN
    BY DEF TypeOK
  <2>. HIDE DEF live
  <2>. QED  BY <2>1, <2>2, <2>3
<1>4. churned' \subseteq {"beat", "notice"}
  BY DEF TypeOK, TableBecomes, Walking
<1>. QED  BY <1>1, <1>2, <1>3, <1>4 DEF TableBecomes

LEMMA ReachType ==
  ASSUME NEW cast \in CastType, NEW list \in Seq(Clients)
  PROVE  Reach(cast, list) \in CastType
<1>1. <<>> \in Seq(Clients)
  OBVIOUS
<1>2. NoCast \in CastType
  BY <1>1 DEF NoCast, CastType
<1>3. CASE cast.live /\ cast.pos < Len(list)
  <2>1. cast.pos \in Nat /\ cast.sent \in Seq(Clients) /\ Len(list) \in Nat
    BY DEF CastType
  <2>2. list[cast.pos + 1] \in Clients
    BY <1>3, <2>1
  <2>3. Append(cast.sent, list[cast.pos + 1]) \in Seq(Clients)
    BY <2>1, <2>2
  <2>. DEFINE sent == Append(cast.sent, list[cast.pos + 1])
  <2>4. Reach(cast, list) =
          [cast EXCEPT !.pos = cast.pos + 1, !.sent = sent]
    BY <1>3 DEF Reach
  <2>5. sent \in Seq(Clients) /\ cast.pos + 1 \in Nat
    BY <2>1, <2>3
  <2>. HIDE DEF sent
  <2>. QED  BY <2>4, <2>5 DEF CastType
<1>. QED  BY <1>2, <1>3 DEF Reach
-----------------------------------------------------------------------------
LEMMA InitType == Init => TypeOK
<1>. SUFFICES ASSUME Init PROVE TypeOK
  OBVIOUS
<1>1. channels \in [{} -> Seq(Clients)] /\ DOMAIN channels = {}
  BY DEF Init
<1>2. <<>> \in Seq(Clients) /\ IsFiniteSet({})
  BY FS_EmptySet
<1>3. NoCast \in CastType
  BY <1>2 DEF NoCast, CastType
<1>4. beat \in BeatType /\ notice \in NoticeType
  BY RoundType, NoticeHasType DEF Init
<1>. QED  BY <1>1, <1>2, <1>3, <1>4 DEF Init, TypeOK

(* BeatNext, given who of its channel is dead by now.                      *)
BeatStep(dead) ==
  LET list == IF beat.live THEN channels[beat.ch] ELSE <<>>
      t == Removed(channels, beat.ch, dead)
  IN  IF beat.pos < Len(list)
      THEN /\ beat' = [beat EXCEPT !.pos = @ + 1, !.dead = dead,
                                   !.ws = list[beat.pos + 1]]
           /\ UNCHANGED <<channels, registry>>
      ELSE /\ channels' = t
           /\ registry' = registry \ dead
           /\ Proceed(t, beat)

(* The list the heartbeat goes through is in the table, if it is live.     *)
BeatLive == beat.live => beat.ch \in DOMAIN channels

LEMMA NextType ==
  ASSUME TypeOK, BeatLive, [Next]_vars
  PROVE  TypeOK'
<1>. USE CourierAssumption DEF CourierAssumption
<1>0. Table(channels)
  BY ChannelsTable
<1>1. ASSUME NEW c \in Clients, Connect(c) PROVE TypeOK'
  BY <1>1 DEF Connect, TypeOK
<1>2. ASSUME NEW c \in Clients, AcceptFails(c) PROVE TypeOK'
  BY <1>2 DEF AcceptFails, TypeOK
<1>3. ASSUME NEW c \in Clients, Serve(c) PROVE TypeOK'
  <2>. DEFINE o == Opened(Path[c])
              t == [o EXCEPT ![Path[c]] = Append(@, c)]
  <2>1. Path[c] \in Channels
    OBVIOUS
  <2>2. Table(o) /\ Path[c] \in DOMAIN o
    BY <2>1, OpenedTable
  <2>3. Table(t)
    <3>. HIDE DEF o
    <3>1. o[Path[c]] \in Seq(Clients)
      BY <2>2 DEF Table
    <3>2. Append(o[Path[c]], c) \in Seq(Clients)
      BY <3>1
    <3>. QED  BY <2>2, <3>2 DEF Table
  <2>4. TableBecomes(t)
    BY <1>3 DEF Serve
  <2>. HIDE DEF t
  <2>5. /\ Table(channels')
        /\ beat' \in BeatType /\ notice' \in NoticeType
        /\ casts' \in [Posts -> CastType]
        /\ churned' \subseteq {"beat", "notice"}
    BY <2>3, <2>4, TableBecomesType
  <2>. QED  BY <1>3, <2>5 DEF Serve, TypeOK, Table
<1>4. ASSUME NEW c \in Clients, Refuse(c) PROVE TypeOK'
  <2>1. Path[c] \in Channels
    OBVIOUS
  <2>2. Table(Opened(Path[c])) /\ TableBecomes(Opened(Path[c]))
    BY <1>4, <2>1, OpenedTable DEF Refuse
  <2>3. /\ Table(channels')
        /\ beat' \in BeatType /\ notice' \in NoticeType
        /\ casts' \in [Posts -> CastType]
        /\ churned' \subseteq {"beat", "notice"}
    BY <2>2, TableBecomesType
  <2>. QED  BY <1>4, <2>1, <2>3 DEF Refuse, TypeOK, Table
<1>5. ASSUME NEW c \in Clients, SeeShutdown(c) PROVE TypeOK'
  BY <1>5 DEF SeeShutdown, TypeOK
<1>6. ASSUME NEW c \in Clients, Leave(c) PROVE TypeOK'
  <2>. DEFINE r == Removed(channels, Path[c], {c})
              t == IF ShouldCleanUp(r, Path[c])
                   THEN [d \in DOMAIN r \ {Path[c]} |-> r[d]] ELSE r
  <2>1. Table(r)
    BY <1>0, RemovedTable
  <2>2. Table(t)
    <3>. HIDE DEF r
    <3>. QED  BY <2>1, DeletedTable
  <2>3. TableBecomes(t)
    BY <1>6 DEF Leave
  <2>. HIDE DEF t
  <2>4. /\ Table(channels')
        /\ beat' \in BeatType /\ notice' \in NoticeType
        /\ casts' \in [Posts -> CastType]
        /\ churned' \subseteq {"beat", "notice"}
    BY <2>2, <2>3, TableBecomesType
  <2>. QED  BY <1>6, <2>4 DEF Leave, TypeOK, Table
<1>7. ASSUME NEW c \in Clients, PeerLeaves(c) PROVE TypeOK'
  BY <1>7 DEF PeerLeaves, TypeOK
<1>8. ASSUME NEW p \in Posts, BroadcastNext(p) PROVE TypeOK'
  <2>1. casts[p] \in CastType
    BY DEF TypeOK
  <2>2. Subscribers(channels, casts[p].ch) \in Seq(Clients)
    BY <1>0 DEF Table, Subscribers
  <2>3. Reach(casts[p], Subscribers(channels, casts[p].ch)) \in CastType
    BY <2>1, <2>2, ReachType
  <2>. QED  BY <1>8, <2>3 DEF BroadcastNext, TypeOK
<1>9. ASSUME NEW p \in Posts, NEW ch \in Channels, Publish(p, ch)
      PROVE  TypeOK'
  <2>. DEFINE list == Subscribers(channels, ch)
              cast == [NoCast EXCEPT !.on = TRUE, !.live = TRUE, !.ch = ch,
                                     !.whom = Range(list)]
  <2>1. list \in Seq(Clients)
    BY <1>0 DEF Table, Subscribers
  <2>2. cast \in CastType
    <3>1. <<>> \in Seq(Clients)
      OBVIOUS
    <3>2. Range(list) \in SUBSET Clients
      BY <2>1 DEF Range
    <3>. HIDE DEF list
    <3>. QED  BY <3>1, <3>2 DEF NoCast, CastType
  <2>3. Reach(cast, list) \in CastType
    BY <2>1, <2>2, ReachType
  <2>4. casts' = [casts EXCEPT ![p] = Reach(cast, list)]
    BY <1>9 DEF Publish
  <2>. HIDE DEF cast, list
  <2>5. casts' \in [Posts -> CastType]
    BY <2>3, <2>4 DEF TypeOK
  <2>6. Table(channels')
    BY <1>9, OpenedTable DEF Publish
  <2>. QED  BY <1>9, <2>5, <2>6 DEF Publish, TypeOK, Table, Walking
<1>10. CASE Wake
  <2>1. beat' \in BeatType
    <3>1. CASE beat' = LoopTop
      BY <3>1, RoundType DEF LoopTop
    <3>2. CASE Proceed(channels, StartWalk(beat))
      BY <1>0, <3>2, StartWalkType, ProceedGives
    <3>. QED  BY <1>10, <3>1, <3>2 DEF Wake
  <2>. QED  BY <1>10, <2>1 DEF Wake, TypeOK
<1>11. CASE BeatNext
  <2>1. PICK lost \in {{}} \cup {{c} : c \in {beat.ws} \cap
                                        {d \in Clients : SendMayFail(d)}} :
          BeatStep(beat.dead \cup lost)
    BY <1>11 DEF BeatNext, BeatStep
  <2>. DEFINE dead == beat.dead \cup lost
              list == IF beat.live THEN channels[beat.ch] ELSE <<>>
              t == Removed(channels, beat.ch, dead)
  <2>2. beat \in BeatType /\ dead \in SUBSET Clients
    BY <2>1 DEF TypeOK, BeatType
  <2>3. list \in Seq(Clients)
    BY <1>0 DEF BeatLive, Table
  <2>4. Table(t)
    BY <1>0, RemovedTable
  <2>. HIDE DEF dead, list, t
  <2>5. CASE beat.pos < Len(list)
    <3>1. list[beat.pos + 1] \in Clients /\ beat.pos + 1 \in Nat
      BY <2>2, <2>3, <2>5 DEF BeatType
    <3>2. beat' = [beat EXCEPT !.pos = @ + 1, !.dead = dead,
                               !.ws = list[beat.pos + 1]]
      BY <2>1, <2>5 DEF BeatStep, dead, list
    <3>3. beat' \in BeatType
      BY <2>2, <3>1, <3>2 DEF BeatType
    <3>. QED  BY <1>11, <2>1, <2>5, <3>3 DEF BeatNext, BeatStep, TypeOK,
                                             dead, list
  <2>6. CASE ~(beat.pos < Len(list))
    <3>1. channels' = t /\ registry' = registry \ dead /\ Proceed(t, beat)
      BY <2>1, <2>6 DEF BeatStep, dead, list, t
    <3>2. beat' \in BeatType
      BY <2>2, <2>4, <3>1, ProceedGives
    <3>. QED  BY <1>11, <2>4, <3>1, <3>2 DEF BeatNext, TypeOK, Table
  <2>. QED  BY <2>5, <2>6
<1>12. CASE Signal
  <2>1. CASE notice' = Notice("done") /\ server' = "exiting"
    BY <1>12, <2>1, NoticeHasType DEF Signal, TypeOK
  <2>2. CASE Tell(channels, StartWalk(notice))
    <3>1. notice' \in NoticeType /\ server' \in {"stopping", "exiting"}
      BY <1>0, <2>2, StartWalkType, TellType
    <3>. QED  BY <1>12, <3>1 DEF Signal, TypeOK
  <2>. QED  BY <1>12, <2>1, <2>2 DEF Signal
<1>13. CASE NoticeNext
  <2>1. CASE notice.todo # <<>>
    <3>1. notice \in NoticeType
      BY DEF TypeOK
    <3>2. Tail(notice.todo) \in Seq(Clients)
      BY <2>1, <3>1 DEF NoticeType
    <3>3. notice' \in NoticeType
      BY <1>13, <2>1, <3>1, <3>2 DEF NoticeNext, NoticeType
    <3>. QED  BY <1>13, <2>1, <3>3 DEF NoticeNext, TypeOK
  <2>2. CASE Tell(channels, notice)
    <3>1. notice' \in NoticeType /\ server' \in {"stopping", "exiting"}
      BY <1>0, <2>2, TellType DEF TypeOK
    <3>. QED  BY <1>13, <3>1 DEF NoticeNext, TypeOK
  <2>. QED  BY <1>13, <2>1, <2>2 DEF NoticeNext
<1>14. CASE NoticeTimesOut
  BY <1>14, NoticeHasType DEF NoticeTimesOut, TypeOK
<1>15. CASE CloseDown
  <2>1. <<>> \in Seq(Clients)
    OBVIOUS
  <2>. QED  BY <1>15, <2>1, RoundType DEF CloseDown, TypeOK
<1>16. CASE UNCHANGED vars
  BY <1>16 DEF vars, TypeOK
<1>. QED
  BY <1>1, <1>2, <1>3, <1>4, <1>5, <1>6, <1>7, <1>8, <1>9, <1>10, <1>11,
     <1>12, <1>13, <1>14, <1>15, <1>16 DEF Next, Handler
-----------------------------------------------------------------------------
(* The lists of a table: everyone once, under the channel it asked for,    *)
(* and with a handler that has still to remove it.                         *)
ListsOK(t, a) ==
  \A ch \in DOMAIN t :
    /\ NoTwice(t[ch])
    /\ \A c \in Range(t[ch]) : Path[c] = ch /\ a[c] \in {"served", "closing"}

Lost(c) == c \in gone \/ at[c] \in {"closing", "done"}

(* Whom the heartbeat pings or has found dead is of the channel it is at,  *)
(* and the dead are lost.                                                  *)
BeatOK ==
  /\ BeatLive
  /\ beat.state = "round" =>
       /\ \A d \in beat.dead \cup {beat.ws} : d \in Clients /\ Path[d] = beat.ch
       /\ \A d \in beat.dead : Lost(d)

AgreeInv == TableAgrees /\ BeatOK /\ IsFiniteSet(registry)

LEMMA AgreesIs ==
  TableAgrees <=>
    /\ registry = Listed(channels) /\ ListsOK(channels, at)
    /\ \A c \in Clients : at[c] = "served" /\ c \notin gone => c \in registry
BY DEF TableAgrees, ListsOK

LEMMA OpenedLists ==
  ASSUME TypeOK, NEW ch \in Channels, NEW a, ListsOK(channels, a)
  PROVE  ListsOK(Opened(ch), a) /\ Listed(Opened(ch)) = Listed(channels)
<1>. DEFINE o == Opened(ch)
<1>1. /\ DOMAIN o = DOMAIN channels \cup {ch}
      /\ \A d \in DOMAIN channels : o[d] = channels[d]
      /\ ch \notin DOMAIN channels => o[ch] = <<>>
  BY OpenedTable
<1>2. Range(<<>>) = {} /\ NoTwice(<<>>)
  BY DEF Range, NoTwice
<1>. HIDE DEF o
<1>3. ListsOK(o, a)
  <2>1. ASSUME NEW d \in DOMAIN o
        PROVE  /\ NoTwice(o[d])
               /\ \A c \in Range(o[d]) :
                    Path[c] = d /\ a[c] \in {"served", "closing"}
    <3>1. CASE d \in DOMAIN channels
      BY <1>1, <3>1 DEF ListsOK
    <3>2. CASE d \notin DOMAIN channels
      BY <1>1, <1>2, <3>2
    <3>. QED  BY <3>1, <3>2
  <2>. QED  BY <2>1 DEF ListsOK
<1>4. Listed(o) = Listed(channels)
  <2>1. \A d \in DOMAIN channels : Range(o[d]) = Range(channels[d])
    BY <1>1
  <2>2. \A d \in DOMAIN o \ DOMAIN channels : Range(o[d]) = {}
    BY <1>1, <1>2
  <2>. QED  BY <1>1, <2>1, <2>2 DEF Listed
<1>. QED  BY <1>3, <1>4 DEF o

LEMMA RemovedLists ==
  ASSUME NEW t, Table(t), NEW ch, NEW D, NEW a, ListsOK(t, a),
         \A d \in D : Path[d] = ch
  PROVE  /\ ListsOK(Removed(t, ch, D), a)
         /\ Listed(Removed(t, ch, D)) = Listed(t) \ D
<1>. DEFINE r == Removed(t, ch, D)
<1>1. /\ DOMAIN r = DOMAIN t
      /\ \A d \in DOMAIN t : r[d] = IF d = ch THEN Without(t[d], D) ELSE t[d]
  BY RemovedTable
<1>. HIDE DEF r
<1>2. ASSUME NEW d \in DOMAIN t
      PROVE  /\ Range(r[d]) = Range(t[d]) \ D
             /\ NoTwice(r[d])
  <2>1. t[d] \in Seq(Clients) /\ NoTwice(t[d])
    BY DEF Table, ListsOK
  <2>2. CASE d = ch
    BY <1>1, <2>1, <2>2, WithoutProps
  <2>3. CASE d # ch
    <3>1. Range(t[d]) \cap D = {}
      BY <2>3 DEF ListsOK
    <3>. QED  BY <1>1, <2>1, <2>3, <3>1
  <2>. QED  BY <2>2, <2>3
<1>3. ListsOK(r, a)
  BY <1>1, <1>2 DEF ListsOK
<1>4. Listed(r) = Listed(t) \ D
  BY <1>1, <1>2 DEF Listed
<1>. QED  BY <1>3, <1>4 DEF r

LEMMA AppendOne ==
  ASSUME NEW s \in Seq(Clients), NEW c \in Clients, c \notin Range(s),
         NoTwice(s)
  PROVE  /\ Range(Append(s, c)) = Range(s) \cup {c}
         /\ NoTwice(Append(s, c))
<1>. DEFINE w == Append(s, c)
<1>1. /\ DOMAIN w = 1..(Len(s) + 1) /\ Len(s) \in Nat
      /\ \A i \in 1..Len(s) : w[i] = s[i]
      /\ w[Len(s) + 1] = c /\ DOMAIN s = 1..Len(s)
  OBVIOUS
<1>. HIDE DEF w
<1>2. Range(w) = Range(s) \cup {c}
  <2>1. ASSUME NEW i \in 1..(Len(s) + 1) PROVE w[i] \in Range(s) \cup {c}
    <3>1. CASE i = Len(s) + 1
      BY <1>1, <3>1
    <3>2. CASE i \in 1..Len(s)
      BY <1>1, <3>2 DEF Range
    <3>. QED  BY <1>1, <3>1, <3>2
  <2>2. \A i \in 1..Len(s) : s[i] \in Range(w)
    BY <1>1 DEF Range
  <2>3. c \in Range(w)
    BY <1>1 DEF Range
  <2>. QED  BY <1>1, <2>1, <2>2, <2>3 DEF Range
<1>3. NoTwice(w)
  <2>1. \A i \in 1..Len(s) : s[i] # c
    BY <1>1 DEF Range
  <2>. QED  BY <1>1, <2>1 DEF NoTwice
<1>. QED  BY <1>2, <1>3 DEF w

(* Nobody who is lost comes back.                                          *)
LEMMA LostStays ==
  ASSUME TypeOK, [Next]_vars, NEW d \in Clients, Lost(d)
  PROVE  Lost(d)'
<1>1. ASSUME NEW c \in Clients, Connect(c) \/ AcceptFails(c) \/ Serve(c)
                                \/ Refuse(c) \/ SeeShutdown(c) \/ PeerLeaves(c)
      PROVE  Lost(d)'
  BY <1>1 DEF Connect, AcceptFails, Serve, Refuse, SeeShutdown, PeerLeaves,
              Lost, TypeOK
<1>2. ASSUME NEW c \in Clients, Leave(c) PROVE Lost(d)'
  <2>1. gone' = gone \cup {c} /\ at' = [at EXCEPT ![c] = "done"]
    BY <1>2 DEF Leave
  <2>. QED  BY <2>1 DEF Lost, TypeOK
<1>3. ASSUME UNCHANGED <<at, gone>> PROVE Lost(d)'
  BY <1>3 DEF Lost
<1>4. ASSUME NEW p \in Posts, NEW ch, Publish(p, ch) \/ BroadcastNext(p)
      PROVE  UNCHANGED <<at, gone>>
  BY <1>4 DEF Publish, BroadcastNext
<1>5. ASSUME Wake \/ BeatNext \/ Signal \/ NoticeNext \/ NoticeTimesOut
             \/ CloseDown \/ UNCHANGED vars
      PROVE  UNCHANGED <<at, gone>>
  BY <1>5 DEF Wake, BeatNext, Signal, NoticeNext, NoticeTimesOut, CloseDown,
              vars
<1>. QED  BY <1>1, <1>2, <1>3, <1>4, <1>5 DEF Next, Handler

(* A change of the table leaves the heartbeat where it is.                 *)
LEMMA BeatStays ==
  ASSUME TypeOK, BeatOK, [Next]_vars,
         \/ \E t : TableBecomes(t)
         \/ beat' = beat /\ DOMAIN channels \subseteq DOMAIN channels'
  PROVE  BeatOK'
<1>1. /\ beat'.state = beat.state /\ beat'.ch = beat.ch
      /\ beat'.ws = beat.ws /\ beat'.dead = beat.dead
      /\ beat'.live => beat.live /\ beat'.ch \in DOMAIN channels'
  BY DEF TableBecomes, BeatOK, BeatLive, TypeOK, BeatType
<1>2. beat.state = "round" => \A d \in beat.dead : Lost(d)'
  BY LostStays DEF BeatOK
<1>. QED  BY <1>1, <1>2 DEF BeatOK, BeatLive
-----------------------------------------------------------------------------
(* Wherever the heartbeat goes on to, it is in a list of the table.        *)
LEMMA ProceedOK ==
  ASSUME Table(channels'), ListsOK(channels', at), NEW w \in BeatType,
         Proceed(channels', w)
  PROVE  BeatOK'
<1>1. /\ beat' \in BeatType
      /\ InList(beat', channels') \/ (beat'.state # "round" /\ ~beat'.live)
  BY ProceedGives
<1>2. ASSUME beat'.state = "round" PROVE BeatOK'
  <2>0. /\ beat'.live /\ beat'.dead = {} /\ beat'.ch \in DOMAIN channels'
        /\ beat'.ws = channels'[beat'.ch][1] /\ channels'[beat'.ch] # <<>>
    BY <1>1, <1>2 DEF InList
  <2>. DEFINE s == channels'[beat'.ch]
  <2>3. s \in Seq(Clients) /\ s # <<>>
    BY <2>0 DEF Table
  <2>4. 1 \in DOMAIN s
    BY <2>3
  <2>1. /\ beat'.live /\ beat'.dead = {} /\ beat'.ch \in DOMAIN channels'
        /\ beat'.ws \in Range(s)
    BY <2>0, <2>4 DEF Range
  <2>2. beat'.ws \in Clients /\ Path[beat'.ws] = beat'.ch
    BY <2>1 DEF ListsOK, Table, Range
  <2>. QED  BY <2>1, <2>2 DEF BeatOK, BeatLive
<1>3. ASSUME beat'.state # "round" PROVE BeatOK'
  BY <1>1, <1>3 DEF InList, BeatOK, BeatLive
<1>. QED  BY <1>2, <1>3

LEMMA InitAgree == Init => AgreeInv
<1>. SUFFICES ASSUME Init PROVE AgreeInv
  OBVIOUS
<1>1. DOMAIN channels = {} /\ registry = {} /\ IsFiniteSet({})
  BY FS_EmptySet DEF Init
<1>2. registry = Listed(channels)
  BY <1>1 DEF Listed
<1>3. TableAgrees
  BY <1>1, <1>2 DEF Init, TableAgrees
<1>4. BeatOK
  BY DEF Init, Round, BeatOK, BeatLive
<1>. QED  BY <1>1, <1>3, <1>4 DEF AgreeInv

LEMMA NextAgree ==
  ASSUME TypeOK, AgreeInv, [Next]_vars
  PROVE  AgreeInv'
<1>. USE CourierAssumption DEF CourierAssumption
<1>0. /\ Table(channels) /\ TypeOK /\ BeatOK /\ IsFiniteSet(registry)
      /\ registry = Listed(channels) /\ ListsOK(channels, at)
      /\ \A c \in Clients : at[c] = "served" /\ c \notin gone => c \in registry
  BY ChannelsTable, AgreesIs DEF AgreeInv
<1>1. ASSUME NEW c \in Clients, at[c] \in {"new", "accepting"},
             at' = [at EXCEPT ![c] = IF at[c] = "new" /\ ~ShuttingDown
                                     THEN "accepting" ELSE "done"],
             UNCHANGED <<registry, gone>>,
             BeatOK',
             registry = Listed(channels'), ListsOK(channels', at)
      PROVE  AgreeInv'
  <2>1. ListsOK(channels', at')
    BY <1>0, <1>1 DEF ListsOK, TypeOK
  <2>2. \A d \in Clients :
          at'[d] = "served" /\ d \notin gone' => d \in registry'
    BY <1>0, <1>1 DEF TypeOK
  <2>. QED  BY <1>0, <1>1, <2>1, <2>2 DEF AgreeInv, TableAgrees, ListsOK
<1>2. ASSUME NEW c \in Clients, Connect(c) PROVE AgreeInv'
  <2>1. BeatOK'
    BY <1>0, <1>2, BeatStays DEF Connect
  <2>2. at' = [at EXCEPT ![c] = IF at[c] = "new" /\ ~ShuttingDown
                                THEN "accepting" ELSE "done"]
    BY <1>2 DEF Connect
  <2>. QED  BY <1>0, <1>1, <1>2, <2>1, <2>2 DEF Connect
<1>3. ASSUME NEW c \in Clients, AcceptFails(c) PROVE AgreeInv'
  <2>1. BeatOK'
    BY <1>0, <1>3, BeatStays DEF AcceptFails
  <2>2. at' = [at EXCEPT ![c] = IF at[c] = "new" /\ ~ShuttingDown
                                THEN "accepting" ELSE "done"]
    BY <1>3 DEF AcceptFails
  <2>. QED  BY <1>0, <1>1, <1>3, <2>1, <2>2 DEF AcceptFails
<1>4. ASSUME NEW c \in Clients, Refuse(c) PROVE AgreeInv'
  <2>1. TableBecomes(Opened(Path[c])) /\ Path[c] \in Channels
    BY <1>4 DEF Refuse
  <2>2. BeatOK'
    BY <1>0, <2>1, BeatStays
  <2>3. at' = [at EXCEPT ![c] = IF at[c] = "new" /\ ~ShuttingDown
                                THEN "accepting" ELSE "done"]
    BY <1>4 DEF Refuse
  <2>4. channels' = Opened(Path[c])
    BY <2>1 DEF TableBecomes
  <2>5. registry = Listed(channels') /\ ListsOK(channels', at)
    BY <1>0, <2>1, <2>4, OpenedLists
  <2>. QED  BY <1>0, <1>1, <1>4, <2>2, <2>3, <2>5 DEF Refuse
<1>5. ASSUME NEW c \in Clients, Serve(c) PROVE AgreeInv'
  <2>. DEFINE ch == Path[c]
              o == Opened(ch)
              t == [o EXCEPT ![ch] = Append(@, c)]
  <2>1. /\ at[c] = "accepting" /\ TableBecomes(t)
        /\ registry' = registry \cup {c}
        /\ at' = [at EXCEPT ![c] = "served"] /\ gone' = gone
    BY <1>5 DEF Serve
  <2>2. /\ Table(o) /\ ch \in DOMAIN o
        /\ ListsOK(o, at) /\ Listed(o) = registry
    <3>1. ch \in Channels
      OBVIOUS
    <3>. QED  BY <1>0, <3>1, OpenedTable, OpenedLists
  <2>3. BeatOK'
    BY <1>0, <2>1, BeatStays
  <2>4. channels' = t
    BY <2>1 DEF TableBecomes
  <2>. HIDE DEF o
  <2>5. c \notin Listed(o)
    <3>1. ASSUME NEW d \in DOMAIN o PROVE c \notin Range(o[d])
      BY <2>1, <2>2 DEF ListsOK
    <3>. QED  BY <3>1 DEF Listed
  <2>6. o[ch] \in Seq(Clients)
    BY <2>2 DEF Table
  <2>7. /\ Range(Append(o[ch], c)) = Range(o[ch]) \cup {c}
        /\ NoTwice(Append(o[ch], c))
    <3>1. c \notin Range(o[ch]) /\ NoTwice(o[ch])
      BY <2>2, <2>5 DEF Listed, ListsOK
    <3>. QED  BY <2>6, <3>1, AppendOne
  <2>8. /\ DOMAIN t = DOMAIN o /\ t[ch] = Append(o[ch], c)
        /\ \A d \in DOMAIN o \ {ch} : t[d] = o[d]
    BY <2>2
  <2>. HIDE DEF t
  <2>9. ListsOK(t, at')
    <3>1. ASSUME NEW d \in DOMAIN o
          PROVE  /\ NoTwice(t[d])
                 /\ \A e \in Range(t[d]) :
                      Path[e] = d /\ at'[e] \in {"served", "closing"}
      <4>1. NoTwice(t[d])
        BY <2>2, <2>7, <2>8 DEF ListsOK
      <4>2. \A e \in Range(o[d]) :
              e \in Clients /\ Path[e] = d /\ at[e] \in {"served", "closing"}
        BY <2>2 DEF ListsOK, Table, Range
      <4>3. \A e \in Range(t[d]) : e \in Range(o[d]) \/ (d = ch /\ e = c)
        BY <2>7, <2>8
      <4>. QED  BY <2>1, <4>1, <4>2, <4>3 DEF TypeOK
    <3>. QED  BY <2>8, <3>1 DEF ListsOK
  <2>10. Listed(t) = registry \cup {c}
    <3>1. \A d \in DOMAIN o :
            Range(t[d]) = IF d = ch THEN Range(o[d]) \cup {c} ELSE Range(o[d])
      BY <2>7, <2>8
    <3>. QED  BY <2>2, <2>8, <3>1 DEF Listed
  <2>11. IsFiniteSet(registry')
    BY <1>0, <2>1, FS_AddElement
  <2>12. \A d \in Clients :
          at'[d] = "served" /\ d \notin gone' => d \in registry'
    BY <1>0, <2>1 DEF TypeOK
  <2>. QED  BY <2>1, <2>3, <2>4, <2>9, <2>10, <2>11, <2>12
            DEF AgreeInv, TableAgrees, ListsOK
<1>6. ASSUME NEW c \in Clients, SeeShutdown(c) PROVE AgreeInv'
  <2>1. BeatOK'
    BY <1>0, <1>6, BeatStays DEF SeeShutdown
  <2>2. /\ at' = [at EXCEPT ![c] = "closing"]
        /\ UNCHANGED <<channels, registry, gone>>
    BY <1>6 DEF SeeShutdown
  <2>3. ListsOK(channels', at')
    BY <1>0, <2>2 DEF ListsOK, TypeOK
  <2>4. \A d \in Clients :
          at'[d] = "served" /\ d \notin gone' => d \in registry'
    BY <1>0, <2>2 DEF TypeOK
  <2>. QED  BY <1>0, <2>1, <2>2, <2>3, <2>4 DEF AgreeInv, TableAgrees, ListsOK
<1>7. ASSUME NEW c \in Clients, Leave(c) PROVE AgreeInv'
  <2>. DEFINE ch == Path[c]
              r == Removed(channels, ch, {c})
              t == IF ShouldCleanUp(r, ch)
                   THEN [d \in DOMAIN r \ {ch} |-> r[d]] ELSE r
  <2>1. /\ TableBecomes(t) /\ registry' = registry \ {c}
        /\ gone' = gone \cup {c} /\ at' = [at EXCEPT ![c] = "done"]
    BY <1>7 DEF Leave
  <2>2. /\ Table(r) /\ ListsOK(r, at) /\ Listed(r) = registry \ {c}
    BY <1>0, RemovedTable, RemovedLists
  <2>3. BeatOK'
    BY <1>0, <2>1, BeatStays
  <2>4. channels' = t
    BY <2>1 DEF TableBecomes
  <2>. HIDE DEF r
  <2>5. ListsOK(t, at) /\ Listed(t) = registry \ {c}
    <3>1. CASE ~ShouldCleanUp(r, ch)
      BY <2>2, <3>1
    <3>2. CASE ShouldCleanUp(r, ch)
      <4>. DEFINE s == [d \in DOMAIN r \ {ch} |-> r[d]]
      <4>1. ch \in DOMAIN r => r[ch] = <<>>
        BY <3>2 DEF ShouldCleanUp
      <4>2. Range(<<>>) = {}
        BY DEF Range
      <4>3. /\ DOMAIN s = DOMAIN r \ {ch}
            /\ \A d \in DOMAIN s : s[d] = r[d]
        OBVIOUS
      <4>. HIDE DEF s
      <4>4. ListsOK(s, at)
        BY <2>2, <4>3 DEF ListsOK
      <4>5. Listed(s) = Listed(r)
        BY <4>1, <4>2, <4>3 DEF Listed
      <4>. QED  BY <2>2, <3>2, <4>4, <4>5 DEF s
    <3>. QED  BY <3>1, <3>2
  <2>. HIDE DEF t
  <2>6. ListsOK(t, at')
    <3>1. ASSUME NEW d \in DOMAIN t, NEW e \in Range(t[d])
          PROVE  Path[e] = d /\ at'[e] \in {"served", "closing"}
      <4>1. e \in registry \ {c}
        BY <2>5 DEF Listed
      <4>2. Path[e] = d /\ at[e] \in {"served", "closing"}
        BY <2>5 DEF ListsOK
      <4>. QED  BY <2>1, <4>1, <4>2 DEF TypeOK
    <3>. QED  BY <2>5, <3>1 DEF ListsOK
  <2>7. IsFiniteSet(registry')
    BY <1>0, <2>1, FS_RemoveElement
  <2>8. \A d \in Clients :
          at'[d] = "served" /\ d \notin gone' => d \in registry'
    BY <1>0, <2>1 DEF TypeOK
  <2>. QED  BY <2>1, <2>3, <2>4, <2>5, <2>6, <2>7, <2>8
            DEF AgreeInv, TableAgrees, ListsOK
<1>8. ASSUME NEW c \in Clients, PeerLeaves(c) PROVE AgreeInv'
  <2>1. BeatOK'
    BY <1>0, <1>8, BeatStays DEF PeerLeaves
  <2>. QED  BY <1>0, <1>8, <2>1 DEF PeerLeaves, AgreeInv, TableAgrees, ListsOK
<1>9. ASSUME NEW p \in Posts, NEW ch \in Channels, Publish(p, ch)
      PROVE  AgreeInv'
  <2>1. channels' = Opened(ch) /\ UNCHANGED <<registry, at, gone, beat>>
    BY <1>9 DEF Publish
  <2>2. DOMAIN channels \subseteq DOMAIN channels'
    BY <2>1, OpenedTable
  <2>3. BeatOK'
    BY <1>0, <2>1, <2>2, BeatStays
  <2>4. registry = Listed(channels') /\ ListsOK(channels', at)
    BY <1>0, <2>1, OpenedLists
  <2>. QED  BY <1>0, <2>1, <2>3, <2>4 DEF AgreeInv, TableAgrees, ListsOK
<1>10. ASSUME UNCHANGED <<channels, registry, at, gone, beat>> PROVE AgreeInv'
  <2>1. BeatOK'
    BY <1>0, <1>10, BeatStays
  <2>. QED  BY <1>0, <1>10, <2>1 DEF AgreeInv, TableAgrees, ListsOK
<1>11. CASE Wake
  <2>1. UNCHANGED <<channels, registry, at, gone>>
    BY <1>11 DEF Wake
  <2>2. BeatOK'
    <3>1. CASE beat' = LoopTop
      <4>1. beat' = Round("stopped") \/ beat' = Round("asleep")
        BY <3>1 DEF LoopTop
      <4>. QED  BY <4>1 DEF Round, BeatOK, BeatLive
    <3>2. CASE Proceed(channels, StartWalk(beat))
      BY <1>0, <2>1, <3>2, StartWalkType, ProceedOK
    <3>. QED  BY <1>11, <3>1, <3>2 DEF Wake
  <2>. QED  BY <1>0, <2>1, <2>2 DEF AgreeInv, TableAgrees, ListsOK
<1>12. CASE BeatNext
  <2>1. PICK lost \in {{}} \cup {{c} : c \in {beat.ws} \cap
                                        {d \in Clients : SendMayFail(d)}} :
          BeatStep(beat.dead \cup lost)
    BY <1>12 DEF BeatNext, BeatStep
  <2>. DEFINE dead == beat.dead \cup lost
              list == IF beat.live THEN channels[beat.ch] ELSE <<>>
              t == Removed(channels, beat.ch, dead)
  <2>2. UNCHANGED <<at, gone>> /\ beat.state = "round"
    BY <1>12 DEF BeatNext
  <2>3. \A d \in dead : d \in Clients /\ Path[d] = beat.ch /\ Lost(d)
    BY <1>0, <2>1, <2>2 DEF BeatOK, SendMayFail, Lost
  <2>4. list \in Seq(Clients) /\ beat \in BeatType
    BY <1>0 DEF BeatOK, BeatLive, Table, TypeOK
  <2>5. Table(t) /\ ListsOK(t, at) /\ Listed(t) = registry \ dead
    BY <1>0, <2>3, RemovedTable, RemovedLists
  <2>. HIDE DEF dead, list, t
  <2>6. CASE beat.pos < Len(list)
    <3>1. beat' = [beat EXCEPT !.pos = @ + 1, !.dead = dead,
                               !.ws = list[beat.pos + 1]]
      BY <2>1, <2>6 DEF BeatStep, dead, list
    <3>2. UNCHANGED <<channels, registry>>
      BY <2>1, <2>6 DEF BeatStep, dead, list
    <3>3. beat.live /\ list = channels[beat.ch] /\ beat.ch \in DOMAIN channels
      BY <1>0, <2>6, <2>4 DEF list, BeatOK, BeatLive, BeatType
    <3>4. list[beat.pos + 1] \in Range(list)
      BY <2>4, <2>6 DEF Range, BeatType
    <3>5. list[beat.pos + 1] \in Clients /\ Path[list[beat.pos + 1]] = beat.ch
      BY <1>0, <2>4, <3>3, <3>4 DEF ListsOK, Range
    <3>6. /\ beat'.ws = list[beat.pos + 1] /\ beat'.dead = dead
          /\ beat'.ch = beat.ch /\ beat'.live = beat.live
      BY <2>4, <3>1 DEF BeatType
    <3>7. BeatOK'
      BY <2>2, <2>3, <3>2, <3>3, <3>5, <3>6 DEF BeatOK, BeatLive, Lost
    <3>. QED  BY <1>0, <2>2, <3>2, <3>7 DEF AgreeInv, TableAgrees, ListsOK
  <2>7. CASE ~(beat.pos < Len(list))
    <3>1. channels' = t /\ registry' = registry \ dead /\ Proceed(t, beat)
      BY <2>1, <2>7 DEF BeatStep, dead, list, t
    <3>2. BeatOK'
      BY <2>4, <2>5, <3>1, ProceedOK
    <3>3. IsFiniteSet(registry')
      BY <1>0, <3>1, FS_Subset
    <3>4. \A c \in Clients :
            at'[c] = "served" /\ c \notin gone' => c \in registry'
      BY <1>0, <2>2, <2>3, <3>1 DEF Lost
    <3>. QED  BY <2>2, <2>5, <3>1, <3>2, <3>3, <3>4
              DEF AgreeInv, TableAgrees, ListsOK
  <2>. QED  BY <2>6, <2>7
<1>13. CASE CloseDown
  <2>1. CASE UNCHANGED <<channels, beat>>
    BY <1>10, <1>13, <2>1 DEF CloseDown
  <2>2. CASE /\ beat' = Round("stopped")
             /\ channels' = [ch \in DOMAIN channels |-> <<>>]
    <3>1. UNCHANGED <<registry, at, gone>> /\ Quiet
      BY <1>13 DEF CloseDown
    <3>2. Range(<<>>) = {} /\ NoTwice(<<>>)
      BY DEF Range, NoTwice
    <3>3. Listed(channels) = {}
      <4>1. ASSUME NEW ch \in DOMAIN channels, NEW c \in Range(channels[ch])
            PROVE  FALSE
        <5>1. c \in Clients /\ at[c] \in {"served", "closing"}
          BY <1>0 DEF ListsOK, Table, Range
        <5>. QED  BY <3>1, <5>1 DEF Quiet
      <4>. QED  BY <4>1 DEF Listed
    <3>4. Listed(channels') = {} /\ ListsOK(channels', at')
      BY <2>2, <3>2 DEF Listed, ListsOK
    <3>5. BeatOK'
      BY <2>2 DEF Round, BeatOK, BeatLive
    <3>. QED  BY <1>0, <3>1, <3>3, <3>4, <3>5 DEF AgreeInv, TableAgrees, ListsOK
  <2>. QED  BY <1>13, <2>1, <2>2 DEF CloseDown
<1>14. ASSUME NEW p \in Posts, BroadcastNext(p) PROVE AgreeInv'
  BY <1>10, <1>14 DEF BroadcastNext
<1>15. ASSUME Signal \/ NoticeNext \/ NoticeTimesOut \/ UNCHANGED vars
       PROVE  AgreeInv'
  BY <1>10, <1>15 DEF Signal, NoticeNext, NoticeTimesOut, vars
<1>. QED
  BY <1>2, <1>3, <1>4, <1>5, <1>6, <1>7, <1>8, <1>9, <1>11, <1>12, <1>13,
     <1>14, <1>15 DEF Next, Handler
-----------------------------------------------------------------------------
LEMMA Inductive == Spec => [](TypeOK /\ AgreeInv)
<1>1. Init => TypeOK /\ AgreeInv
  BY InitType, InitAgree
<1>2. TypeOK /\ AgreeInv /\ [Next]_vars => (TypeOK /\ AgreeInv)'
  <2>1. TypeOK /\ AgreeInv /\ [Next]_vars => TypeOK'
    BY NextType DEF AgreeInv, BeatOK
  <2>. QED  BY <2>1, NextAgree
<1>. QED  BY <1>1, <1>2, PTL DEF Spec

(* The fields of the hub have their types: the iterations over the table   *)
(* never see more entries than there were, the lists hold connections.     *)
THEOREM TypeCorrect == Spec => []TypeOK
BY Inductive, PTL

(* However connections, publications, the heartbeat and the shutdown       *)
(* interleave, the table and the registry hold the same connections, each  *)
(* once, and every connection that is served and still there.              *)
THEOREM TablesAlwaysAgree == Spec => []TableAgrees
<1>1. TypeOK /\ AgreeInv => TableAgrees
  BY DEF AgreeInv
<1>. QED  BY <1>1, Inductive, PTL
-----------------------------------------------------------------------------
(* The limits, of the registry: the limits on the total and per channel    *)
(* are checked on the lists, which hold the same connections.              *)
AtMost(limit, S) == limit = 0 \/ Cardinality(S) <= limit
OnChannel(R, ch) == {d \in R : Path[d] = ch}
OfUser(R, u) == {d \in R : User[d] = u}

LimitsInv ==
  /\ AtMost(MaxTotal, registry)
  /\ \A ch \in Channels : AtMost(MaxPerChannel, OnChannel(registry, ch))
  /\ \A u : u # Anonymous => AtMost(MaxPerUser, OfUser(registry, u))

LEMMA FewerInLimit ==
  ASSUME NEW S, IsFiniteSet(S), NEW T \in SUBSET S, NEW limit \in Nat,
         AtMost(limit, S)
  PROVE  AtMost(limit, T)
<1>1. Cardinality(T) <= Cardinality(S) /\ IsFiniteSet(T)
  BY FS_Subset
<1>2. Cardinality(S) \in Nat /\ Cardinality(T) \in Nat
  BY <1>1, FS_CardinalityType
<1>. QED  BY <1>1, <1>2 DEF AtMost

LEMMA OneMoreInLimit ==
  ASSUME NEW S, IsFiniteSet(S), NEW n \in Nat, Cardinality(S) <= n,
         NEW limit \in Nat, Under(limit, n), NEW x
  PROVE  AtMost(limit, S \cup {x})
<1>1. /\ IsFiniteSet(S \cup {x})
      /\ Cardinality(S \cup {x}) =
           IF x \in S THEN Cardinality(S) ELSE Cardinality(S) + 1
  BY FS_AddElement
<1>2. Cardinality(S) \in Nat /\ Cardinality(S \cup {x}) \in Nat
  BY <1>1, FS_CardinalityType
<1>3. Cardinality(S \cup {x}) <= Cardinality(S) + 1
  BY <1>1, <1>2
<1>. QED  BY <1>2, <1>3 DEF AtMost, Under

LEMMA RangeSmall ==
  ASSUME NEW s \in Seq(Clients)
  PROVE  IsFiniteSet(Range(s)) /\ Cardinality(Range(s)) <= Len(s)
<1>1. Len(s) \in Nat /\ DOMAIN s = 1..Len(s)
  OBVIOUS
<1>2. IsFiniteSet(1..Len(s)) /\ Cardinality(1..Len(s)) = Len(s)
  BY <1>1, FS_Interval
<1>3. s \in [1..Len(s) -> Range(s)]
  BY <1>1 DEF Range
<1>4. s \in Surjection(1..Len(s), Range(s))
  BY <1>1, <1>3 DEF Range, Surjection
<1>. QED  BY <1>2, <1>4, FS_Surjection

(* The number of entries in the lists is the number of connections.        *)
LEMMA TotalIsRegistry ==
  ASSUME TypeOK, AgreeInv
  PROVE  Cardinality(registry) = Cardinality(Entries)
<1>. DEFINE E == Entries
            f == [e \in E |-> channels[e[1]][e[2]]]
<1>1. /\ registry = Listed(channels) /\ ListsOK(channels, at)
      /\ IsFiniteSet(registry)
  BY AgreesIs DEF AgreeInv
<1>2. \A e \in E : /\ e[1] \in DOMAIN channels /\ e[2] \in DOMAIN channels[e[1]]
                   /\ e = <<e[1], e[2]>>
  BY DEF Entries
<1>3. \A d \in DOMAIN channels : \A i \in DOMAIN channels[d] : <<d, i>> \in E
  BY DEF Entries
<1>. HIDE DEF E
<1>4. f \in [E -> registry]
  <2>1. ASSUME NEW e \in E PROVE channels[e[1]][e[2]] \in registry
    BY <1>1, <1>2 DEF Listed, Range
  <2>. QED  BY <2>1
<1>5. ASSUME NEW e \in E, NEW g \in E, f[e] = f[g] PROVE e = g
  <2>1. channels[e[1]][e[2]] = channels[g[1]][g[2]]
    BY <1>5
  <2>2. Path[channels[e[1]][e[2]]] = e[1] /\ Path[channels[g[1]][g[2]]] = g[1]
    BY <1>1, <1>2 DEF ListsOK, Range
  <2>3. e[1] = g[1]
    BY <2>1, <2>2
  <2>4. e[2] = g[2]
    BY <1>1, <1>2, <2>1, <2>3 DEF ListsOK, NoTwice
  <2>. QED  BY <1>2, <2>3, <2>4
<1>6. ASSUME NEW c \in registry PROVE \E e \in E : f[e] = c
  <2>1. PICK d \in DOMAIN channels : c \in Range(channels[d])
    BY <1>1 DEF Listed
  <2>2. PICK i \in DOMAIN channels[d] : channels[d][i] = c
    BY <2>1 DEF Range
  <2>3. <<d, i>> \in E
    BY <1>3
  <2>4. f[<<d, i>>] = c
    BY <2>2, <2>3
  <2>. QED  BY <2>3, <2>4
<1>7. DOMAIN f = E
  OBVIOUS
<1>. HIDE DEF f
<1>8. f \in Injection(E, registry) /\ f \in Surjection(E, registry)
  BY <1>4, <1>5, <1>6, <1>7 DEF Injection, IsInjective, Surjection
<1>9. Cardinality(E) = Cardinality(registry)
  BY <1>1, <1>8, FS_Injection
<1>. QED  BY <1>9 DEF E

LEMMA ServeWithinLimits ==
  ASSUME TypeOK, AgreeInv, LimitsInv, NEW c \in Clients, Serve(c)
  PROVE  LimitsInv'
<1>. USE CourierAssumption DEF CourierAssumption
<1>. DEFINE ch == Path[c]
<1>1. registry' = registry \cup {c} /\ WithinLimits(c) /\ ch \in Channels
  BY DEF Serve
<1>2. IsFiniteSet(registry) /\ Cardinality(registry) \in Nat
  BY FS_CardinalityType DEF AgreeInv
<1>3. AtMost(MaxTotal, registry')
  <2>0. Under(MaxTotal, Cardinality(Entries))
    BY <1>1 DEF WithinLimits
  <2>1. Under(MaxTotal, Cardinality(registry))
    BY <2>0, TotalIsRegistry
  <2>2. Cardinality(registry) <= Cardinality(registry)
    BY <1>2
  <2>3. AtMost(MaxTotal, registry \cup {c})
    BY <1>2, <2>1, <2>2, OneMoreInLimit
  <2>. QED  BY <1>1, <2>3
<1>4. ASSUME NEW d \in Channels
      PROVE  AtMost(MaxPerChannel, OnChannel(registry', d))
  <2>1. IsFiniteSet(OnChannel(registry, d))
    BY <1>2, FS_Subset DEF OnChannel
  <2>2. CASE d # ch
    BY <1>1, <2>2 DEF OnChannel, LimitsInv
  <2>3. CASE d = ch
    <3>. DEFINE s == Opened(ch)[ch]
    <3>1. /\ s \in Seq(Clients)
          /\ Listed(Opened(ch)) = registry /\ ListsOK(Opened(ch), at)
      BY <1>1, OpenedTable, OpenedLists, AgreesIs DEF Table, AgreeInv
    <3>. HIDE DEF s
    <3>2. OnChannel(registry, d) \subseteq Range(s)
      BY <2>3, <3>1 DEF OnChannel, Listed, ListsOK, s
    <3>3. /\ IsFiniteSet(Range(s)) /\ Cardinality(Range(s)) <= Len(s)
          /\ Len(s) \in Nat
      BY <3>1, RangeSmall
    <3>4. Cardinality(OnChannel(registry, d)) <= Cardinality(Range(s))
      BY <3>2, <3>3, FS_Subset
    <3>5. Cardinality(OnChannel(registry, d)) <= Len(s)
      BY <2>1, <3>3, <3>4, FS_CardinalityType
    <3>6. Under(MaxPerChannel, Len(s))
      BY <1>1 DEF WithinLimits, s
    <3>7. AtMost(MaxPerChannel, OnChannel(registry, d) \cup {c})
      BY <2>1, <3>3, <3>5, <3>6, OneMoreInLimit
    <3>8. OnChannel(registry', d) = OnChannel(registry, d) \cup {c}
      BY <1>1, <2>3 DEF OnChannel
    <3>. QED  BY <3>7, <3>8
  <2>. QED  BY <2>2, <2>3
<1>5. ASSUME NEW u, u # Anonymous
      PROVE  AtMost(MaxPerUser, OfUser(registry', u))
  <2>1. IsFiniteSet(OfUser(registry, u))
    BY <1>2, FS_Subset DEF OfUser
  <2>2. CASE u # User[c]
    BY <1>1, <1>5, <2>2 DEF OfUser, LimitsInv
  <2>3. CASE u = User[c]
    <3>1. Under(MaxPerUser, Cardinality(OfUser(registry, u)))
      BY <1>1, <1>5, <2>3 DEF WithinLimits, OfUser
    <3>2. Cardinality(OfUser(registry, u)) \in Nat
      BY <2>1, FS_CardinalityType
    <3>3. AtMost(MaxPerUser, OfUser(registry, u) \cup {c})
      BY <2>1, <3>1, <3>2, OneMoreInLimit
    <3>4. OfUser(registry', u) = OfUser(registry, u) \cup {c}
      BY <1>1, <2>3 DEF OfUser
    <3>. QED  BY <3>3, <3>4
  <2>. QED  BY <2>2, <2>3
<1>. QED  BY <1>3, <1>4, <1>5 DEF LimitsInv

(* Only a client that is served enters the registry.                       *)
LEMMA RegistryShrinks ==
  ASSUME [Next]_vars, ~\E c \in Clients : Serve(c)
  PROVE  registry' \subseteq registry
<1>1. ASSUME NEW c \in Clients, Connect(c) \/ AcceptFails(c) \/ Refuse(c)
                                \/ SeeShutdown(c) \/ PeerLeaves(c)
      PROVE  registry' = registry
  BY <1>1 DEF Connect, AcceptFails, Refuse, SeeShutdown, PeerLeaves
<1>2. ASSUME NEW c \in Clients, Leave(c) PROVE registry' = registry \ {c}
  BY <1>2 DEF Leave
<1>3. ASSUME NEW p \in Posts, NEW ch, Publish(p, ch) \/ BroadcastNext(p)
      PROVE  registry' = registry
  BY <1>3 DEF Publish, BroadcastNext
<1>4. BeatNext => registry' \subseteq registry
  BY DEF BeatNext
<1>5. Wake \/ Signal \/ NoticeNext \/ NoticeTimesOut \/ CloseDown
      \/ UNCHANGED vars => registry' = registry
  BY DEF Wake, Signal, NoticeNext, NoticeTimesOut, CloseDown, vars
<1>. QED  BY <1>1, <1>2, <1>3, <1>4, <1>5 DEF Next, Handler

LEMMA NextLimits ==
  ASSUME TypeOK, AgreeInv, LimitsInv, [Next]_vars
  PROVE  LimitsInv'
<1>. USE CourierAssumption DEF CourierAssumption
<1>1. CASE \E c \in Clients : Serve(c)
  BY <1>1, ServeWithinLimits
<1>2. CASE ~\E c \in Clients : Serve(c)
  <2>1. registry' \subseteq registry /\ IsFiniteSet(registry)
    BY <1>2, RegistryShrinks DEF AgreeInv
  <2>2. AtMost(MaxTotal, registry')
    BY <2>1, FewerInLimit DEF LimitsInv
  <2>3. ASSUME NEW ch \in Channels
        PROVE  AtMost(MaxPerChannel, OnChannel(registry', ch))
    <3>1. OnChannel(registry', ch) \subseteq OnChannel(registry, ch)
      BY <2>1 DEF OnChannel
    <3>2. IsFiniteSet(OnChannel(registry, ch))
      BY <2>1, FS_Subset DEF OnChannel
    <3>. QED  BY <3>1, <3>2, FewerInLimit DEF LimitsInv
  <2>4. ASSUME NEW u, u # Anonymous
        PROVE  AtMost(MaxPerUser, OfUser(registry', u))
    <3>1. OfUser(registry', u) \subseteq OfUser(registry, u)
      BY <2>1 DEF OfUser
    <3>2. IsFiniteSet(OfUser(registry, u))
      BY <2>1, FS_Subset DEF OfUser
    <3>. QED  BY <2>4, <3>1, <3>2, FewerInLimit DEF LimitsInv
  <2>. QED  BY <2>2, <2>3, <2>4 DEF LimitsInv
<1>. QED  BY <1>1, <1>2

LEMMA LimitsFollow ==
  ASSUME TypeOK, AgreeInv, LimitsInv
  PROVE  LimitsHold
<1>. USE CourierAssumption DEF CourierAssumption
<1>. DEFINE Live == {c \in Clients : at[c] = "served" /\ c \notin gone}
<1>1. Live \subseteq registry /\ IsFiniteSet(registry)
  BY AgreesIs DEF AgreeInv
<1>2. AtMost(MaxTotal, Live)
  BY <1>1, FewerInLimit DEF LimitsInv
<1>3. ASSUME NEW c \in Live
      PROVE  AtMost(MaxPerChannel, {d \in Live : Path[d] = Path[c]})
  <2>1. Path[c] \in Channels
    OBVIOUS
  <2>2. {d \in Live : Path[d] = Path[c]} \subseteq OnChannel(registry, Path[c])
    BY <1>1 DEF OnChannel
  <2>3. IsFiniteSet(OnChannel(registry, Path[c]))
    BY <1>1, FS_Subset DEF OnChannel
  <2>. QED  BY <2>1, <2>2, <2>3, FewerInLimit DEF LimitsInv
<1>4. ASSUME NEW c \in Live, User[c] # Anonymous
      PROVE  AtMost(MaxPerUser, {d \in Live : User[d] = User[c]})
  <2>1. {d \in Live : User[d] = User[c]} \subseteq OfUser(registry, User[c])
    BY <1>1 DEF OfUser
  <2>2. IsFiniteSet(OfUser(registry, User[c]))
    BY <1>1, FS_Subset DEF OfUser
  <2>. QED  BY <1>4, <2>1, <2>2, FewerInLimit DEF LimitsInv
<1>. HIDE DEF Live
<1>. QED  BY <1>2, <1>3, <1>4 DEF LimitsHold, AtMost, Live

(* The limits hold of the connections really served, for any limits and    *)
(* any number of clients.                                                  *)
THEOREM LimitsAlwaysHold == Spec => []LimitsHold
<1>1. Init => LimitsInv
  <2>. SUFFICES ASSUME Init PROVE LimitsInv
    OBVIOUS
  <2>1. /\ registry = {} /\ \A ch : OnChannel({}, ch) = {}
        /\ \A u : OfUser({}, u) = {}
    BY DEF Init, OnChannel, OfUser
  <2>2. \A limit \in Nat : AtMost(limit, {})
    BY FS_EmptySet DEF AtMost
  <2>. QED  BY <2>1, <2>2, CourierAssumption DEF LimitsInv, CourierAssumption
<1>2. TypeOK /\ AgreeInv /\ LimitsInv /\ [Next]_vars => LimitsInv'
  BY NextLimits
<1>3. TypeOK /\ AgreeInv /\ LimitsInv => LimitsHold
  BY LimitsFollow
<1>. QED  BY <1>1, <1>2, <1>3, Inductive, PTL DEF Spec
-----------------------------------------------------------------------------
(* Ephemeral channels: one whose subscribers have all left is deleted by   *)
(* the last of them, who finds its list empty.                             *)
Idle(a, ch) ==
  \A c \in Clients : Path[c] = ch => a[c] \in {"new", "accepting", "done"}

LEMMA EphemeralIs ==
  EphemeralDeleted <=>
    \A ch \in Ephemeral \cap DOMAIN channels : Idle(at, ch) => ch \in unserved
BY DEF EphemeralDeleted, Idle

LEMMA IdleBefore ==
  ASSUME EphemeralDeleted,
         \A ch \in DOMAIN channels' : ch \in DOMAIN channels \cup unserved',
         unserved \subseteq unserved',
         \A c \in Clients : at'[c] \in {"new", "accepting", "done"}
                              => at[c] \in {"new", "accepting", "done"}
  PROVE  EphemeralDeleted'
<1>1. \A ch : Idle(at', ch) => Idle(at, ch)
  BY DEF Idle
<1>. QED  BY <1>1, EphemeralIs DEF EphemeralDeleted, Idle

LEMMA NextEphemeral ==
  ASSUME TypeOK, AgreeInv, EphemeralDeleted, [Next]_vars
  PROVE  EphemeralDeleted'
<1>. USE CourierAssumption DEF CourierAssumption
<1>0. /\ Table(channels) /\ ListsOK(channels, at) /\ at \in [Clients ->
           {"new", "accepting", "served", "closing", "done"}]
  BY ChannelsTable, AgreesIs DEF AgreeInv, TypeOK
<1>1. ASSUME NEW c \in Clients,
             Connect(c) \/ AcceptFails(c) \/ SeeShutdown(c) \/ PeerLeaves(c)
      PROVE  EphemeralDeleted'
  <2>1. UNCHANGED <<channels, unserved>>
    BY <1>1 DEF Connect, AcceptFails, SeeShutdown, PeerLeaves
  <2>2. \A d \in Clients : at'[d] \in {"new", "accepting", "done"}
                             => at[d] \in {"new", "accepting", "done"}
    BY <1>0, <1>1 DEF Connect, AcceptFails, SeeShutdown, PeerLeaves
  <2>. QED  BY <2>1, <2>2, IdleBefore
<1>2. ASSUME NEW c \in Clients, Refuse(c) PROVE EphemeralDeleted'
  <2>1. /\ channels' = Opened(Path[c]) /\ at' = [at EXCEPT ![c] = "done"]
        /\ unserved' = unserved \cup ({Path[c]} \ DOMAIN channels)
        /\ at[c] = "accepting" /\ Path[c] \in Channels
    BY <1>2 DEF Refuse, TableBecomes
  <2>2. DOMAIN channels' = DOMAIN channels \cup {Path[c]}
    BY <2>1, OpenedTable
  <2>3. \A d \in Clients : at'[d] \in {"new", "accepting", "done"}
                             => at[d] \in {"new", "accepting", "done"}
    BY <1>0, <2>1
  <2>. QED  BY <2>1, <2>2, <2>3, IdleBefore
<1>3. ASSUME NEW c \in Clients, Serve(c) PROVE EphemeralDeleted'
  <2>. DEFINE ch == Path[c]
  <2>1. /\ channels' = [Opened(ch) EXCEPT ![ch] = Append(@, c)]
        /\ at' = [at EXCEPT ![c] = "served"] /\ at[c] = "accepting"
        /\ unserved' = unserved \ {ch} /\ ch \in Channels
    BY <1>3 DEF Serve, TableBecomes
  <2>2. DOMAIN channels' = DOMAIN channels \cup {ch}
    BY <2>1, OpenedTable
  <2>3. ~Idle(at', ch)
    BY <1>0, <2>1 DEF Idle
  <2>4. \A d : Idle(at', d) => Idle(at, d)
    BY <1>0, <2>1 DEF Idle
  <2>. QED  BY <2>1, <2>2, <2>3, <2>4 DEF EphemeralDeleted, Idle
<1>4. ASSUME NEW c \in Clients, Leave(c) PROVE EphemeralDeleted'
  <2>. DEFINE ch == Path[c]
              r == Removed(channels, ch, {c})
  <2>1. /\ channels' = IF ShouldCleanUp(r, ch)
                       THEN [d \in DOMAIN r \ {ch} |-> r[d]] ELSE r
        /\ at' = [at EXCEPT ![c] = "done"] /\ unserved' = unserved
    BY <1>4 DEF Leave, TableBecomes
  <2>2. /\ DOMAIN r = DOMAIN channels
        /\ ch \in DOMAIN channels => r[ch] = Without(channels[ch], {c})
    BY <1>0, RemovedTable
  <2>. HIDE DEF r
  <2>3. /\ DOMAIN channels' \subseteq DOMAIN channels
        /\ ch \in DOMAIN channels' => ~ShouldCleanUp(r, ch)
    BY <2>1, <2>2
  <2>4. ASSUME ch \in DOMAIN channels', ch \in Ephemeral PROVE ~Idle(at', ch)
    <3>1. ch \in DOMAIN channels /\ r[ch] # <<>>
      BY <2>2, <2>3, <2>4 DEF ShouldCleanUp
    <3>2. channels[ch] \in Seq(Clients)
      BY <1>0, <3>1 DEF Table
    <3>. DEFINE w == Without(channels[ch], {c})
    <3>3. /\ w \in Seq(Clients) /\ w # <<>>
          /\ Range(w) = Range(channels[ch]) \ {c}
      BY <2>2, <3>1, <3>2, WithoutProps
    <3>. HIDE DEF w
    <3>4. 1 \in DOMAIN w /\ w[1] \in Clients
      BY <3>3
    <3>5. w[1] \in Range(channels[ch]) \ {c}
      BY <3>3, <3>4 DEF Range
    <3>6. Path[w[1]] = ch /\ at[w[1]] \in {"served", "closing"} /\ w[1] # c
      BY <1>0, <3>1, <3>5 DEF ListsOK
    <3>7. at'[w[1]] = at[w[1]]
      BY <1>0, <2>1, <3>4, <3>6
    <3>. QED  BY <3>4, <3>6, <3>7 DEF Idle
  <2>5. ASSUME NEW d, d # ch PROVE Idle(at', d) => Idle(at, d)
    BY <1>0, <2>1, <2>5 DEF Idle
  <2>. QED  BY <2>1, <2>3, <2>4, <2>5 DEF EphemeralDeleted, Idle
<1>5. ASSUME NEW p \in Posts, NEW ch \in Channels, Publish(p, ch)
      PROVE  EphemeralDeleted'
  <2>1. /\ channels' = Opened(ch) /\ at' = at
        /\ unserved' = unserved \cup ({ch} \ DOMAIN channels)
    BY <1>5 DEF Publish
  <2>2. DOMAIN channels' = DOMAIN channels \cup {ch}
    BY <2>1, OpenedTable
  <2>. QED  BY <2>1, <2>2, IdleBefore
<1>6. ASSUME DOMAIN channels' = DOMAIN channels, UNCHANGED <<at, unserved>>
      PROVE  EphemeralDeleted'
  BY <1>6, IdleBefore
<1>7. CASE BeatNext
  <2>1. \A D : DOMAIN Removed(channels, beat.ch, D) = DOMAIN channels
    BY <1>0, RemovedTable
  <2>2. DOMAIN channels' = DOMAIN channels
    BY <1>7, <2>1 DEF BeatNext
  <2>. QED  BY <1>6, <1>7, <2>2 DEF BeatNext
<1>8. CASE CloseDown
  BY <1>6, <1>8 DEF CloseDown
<1>9. ASSUME NEW p \in Posts, BroadcastNext(p) PROVE EphemeralDeleted'
  BY <1>6, <1>9 DEF BroadcastNext
<1>10. ASSUME Wake \/ Signal \/ NoticeNext \/ NoticeTimesOut \/ UNCHANGED vars
       PROVE  EphemeralDeleted'
  BY <1>6, <1>10 DEF Wake, Signal, NoticeNext, NoticeTimesOut, vars
<1>. QED
  BY <1>1, <1>2, <1>3, <1>4, <1>5, <1>7, <1>8, <1>9, <1>10 DEF Next, Handler

(* An ephemeral channel that somebody once subscribed to is deleted with   *)
(* its last subscriber, whatever else removed clients from its list.       *)
THEOREM EphemeralAlwaysDeleted == Spec => []EphemeralDeleted
<1>1. Init => EphemeralDeleted
  <2>. SUFFICES ASSUME Init PROVE EphemeralDeleted
    OBVIOUS
  <2>1. DOMAIN channels = {}
    BY DEF Init
  <2>. QED  BY <2>1 DEF EphemeralDeleted
<1>2. TypeOK /\ AgreeInv /\ EphemeralDeleted /\ [Next]_vars => EphemeralDeleted'
  BY NextEphemeral
<1>. QED  BY <1>1, <1>2, Inductive, PTL DEF Spec
-----------------------------------------------------------------------------
(* Broadcasts: nobody a broadcast has sent to is in its list from its      *)
(* index on, because lists are appended to by newcomers only, and removing *)
(* somebody moves the others to the front.  For the same reason those that *)
(* were there at its start stay before the newcomers, so that a broadcast  *)
(* has sent to them alone until it has sent to as many of them as are left.*)
FirstCome(list, whom) ==
  \A i, j \in DOMAIN list : i < j /\ list[j] \in whom => list[i] \in whom

Met(cast) == Cardinality(Range(cast.sent) \cap cast.whom)

CastFits(cast, t, a) ==
  /\ NoTwice(cast.sent) /\ Len(cast.sent) = cast.pos
  /\ IsFiniteSet(cast.whom)
  /\ \A c \in Range(cast.sent) \cup cast.whom : a[c] \notin {"new", "accepting"}
  /\ cast.live =>
       /\ cast.ch \in DOMAIN t
       /\ \A i \in DOMAIN t[cast.ch] :
            i > cast.pos => t[cast.ch][i] \notin Range(cast.sent)
       /\ FirstCome(t[cast.ch], cast.whom)
       /\ \/ Met(cast) = cast.pos
          \/ Met(cast) >= Cardinality(cast.whom \cap Range(t[cast.ch]))

CastOK(p) == CastFits(casts[p], channels, at)

CastsOK == \A p \in Posts : CastOK(p)

(* From s to v: nobody has moved back, or behind another, and whoever is   *)
(* new was being accepted, and is last.                                    *)
Shifts(s, v) ==
  /\ \A k \in DOMAIN v : \/ at[v[k]] = "accepting"
                         \/ \E i \in DOMAIN s : k <= i /\ s[i] = v[k]
  /\ \A j, k \in DOMAIN v :
       j < k /\ at[v[k]] # "accepting" =>
         \E g, h \in DOMAIN s : g < h /\ s[g] = v[j] /\ s[h] = v[k]

(* Those of a finite set that are in a list, and what fewer of them are.   *)
LEMMA FewerThere ==
  ASSUME NEW A, NEW B, IsFiniteSet(A), B \subseteq A
  PROVE  /\ IsFiniteSet(B) /\ Cardinality(B) \in Nat /\ Cardinality(A) \in Nat
         /\ Cardinality(B) <= Cardinality(A)
BY FS_Subset, FS_CardinalityType

(* A broadcast keeps its promise while the table changes.                  *)
LEMMA CastStays ==
  ASSUME TypeOK, Table(channels'), NEW p \in Posts, CastOK(p),
         casts'[p].sent = casts[p].sent, casts'[p].pos = casts[p].pos,
         casts'[p].ch = casts[p].ch, casts'[p].whom = casts[p].whom,
         casts'[p].live => casts[p].live /\ casts[p].ch \in DOMAIN channels',
         \A ch \in DOMAIN channels \cap DOMAIN channels' :
           Shifts(channels[ch], channels'[ch]),
         \A c \in Clients : at'[c] \in {"new", "accepting"}
                              => at[c] \in {"new", "accepting"}
  PROVE  CastOK(p)'
<1>. DEFINE ch == casts[p].ch
            sent == casts[p].sent
            pos == casts[p].pos
            whom == casts[p].whom
            met == Met(casts[p])
<1>1. /\ sent \in Seq(Clients) /\ pos \in Nat /\ whom \subseteq Clients
      /\ IsFiniteSet(whom) /\ Met(casts'[p]) = met
  BY DEF TypeOK, CastType, CastOK, CastFits, Met
<1>2. \A c \in Range(sent) \cup whom : at'[c] \notin {"new", "accepting"}
  BY <1>1 DEF CastOK, CastFits, Range
<1>3. ASSUME casts'[p].live
      PROVE  /\ ch \in DOMAIN channels'
             /\ \A i \in DOMAIN channels'[ch] :
                  i > pos => channels'[ch][i] \notin Range(sent)
             /\ FirstCome(channels'[ch], whom)
             /\ met = pos \/ met >= Cardinality(whom \cap Range(channels'[ch]))
  <2>1. ch \in DOMAIN channels /\ ch \in DOMAIN channels'
    BY <1>3 DEF CastOK, CastFits
  <2>. DEFINE s == channels[ch]
              v == channels'[ch]
  <2>2. s \in Seq(Clients) /\ v \in Seq(Clients)
    BY <2>1, ChannelsTable DEF Table
  <2>3. /\ Shifts(s, v)
        /\ \A i \in DOMAIN s : i > pos => s[i] \notin Range(sent)
        /\ FirstCome(s, whom)
        /\ met = pos \/ met >= Cardinality(whom \cap Range(s))
    BY <1>3, <2>1 DEF CastOK, CastFits
  <2>4. \A c \in Range(sent) \cup whom : at[c] \notin {"new", "accepting"}
    BY DEF CastOK, CastFits
  <2>0. met \in Nat
    BY <1>1, FewerThere DEF Met
  <2>. HIDE DEF s, v, sent, pos, whom, met
  <2>5. ASSUME NEW k \in DOMAIN v, k > pos PROVE v[k] \notin Range(sent)
    <3>1. CASE at[v[k]] = "accepting"
      BY <2>4, <3>1
    <3>2. CASE \E i \in DOMAIN s : k <= i /\ s[i] = v[k]
      <4>1. PICK i \in DOMAIN s : k <= i /\ s[i] = v[k]
        BY <3>2
      <4>2. i > pos
        BY <1>1, <2>2, <2>5, <4>1
      <4>. QED  BY <2>3, <4>1, <4>2
    <3>. QED  BY <2>3, <3>1, <3>2 DEF Shifts
  <2>6. ASSUME NEW j \in DOMAIN v, NEW k \in DOMAIN v, j < k, v[k] \in whom
        PROVE  v[j] \in whom
    <3>1. at[v[k]] # "accepting"
      BY <2>4, <2>6
    <3>2. PICK g \in DOMAIN s, h \in DOMAIN s :
            g < h /\ s[g] = v[j] /\ s[h] = v[k]
      BY <2>3, <2>6, <3>1 DEF Shifts
    <3>. QED  BY <2>3, <2>6, <3>2 DEF FirstCome
  <2>7. whom \cap Range(v) \subseteq whom \cap Range(s)
    <3>1. ASSUME NEW k \in DOMAIN v, v[k] \in whom PROVE v[k] \in Range(s)
      <4>1. \E i \in DOMAIN s : k <= i /\ s[i] = v[k]
        BY <2>3, <2>4, <3>1 DEF Shifts
      <4>. QED  BY <4>1 DEF Range
    <3>. QED  BY <3>1 DEF Range
  <2>8. /\ Cardinality(whom \cap Range(v)) \in Nat
        /\ Cardinality(whom \cap Range(s)) \in Nat
        /\ Cardinality(whom \cap Range(v)) <= Cardinality(whom \cap Range(s))
    <3>1. IsFiniteSet(whom \cap Range(s))
      BY <1>1, FewerThere DEF whom
    <3>. QED  BY <2>7, <3>1, FewerThere
  <2>9. met = pos \/ met >= Cardinality(whom \cap Range(v))
    BY <2>0, <2>3, <2>8
  <2>10. FirstCome(v, whom)
    BY <2>6 DEF FirstCome
  <2>. QED  BY <2>1, <2>5, <2>9, <2>10 DEF v
<1>. QED
  BY <1>1, <1>2, <1>3 DEF CastOK, CastFits

(* One more is sent to: one of those there at the start, or a newcomer,    *)
(* behind all of them.                                                     *)
LEMMA MeetsOneMore ==
  ASSUME NEW list \in Seq(Clients), NEW pos \in Nat, pos + 1 \in DOMAIN list,
         NEW old, NEW new, NEW whom \in SUBSET Clients, IsFiniteSet(whom),
         FirstCome(list, whom),
         NEW c, c = list[pos + 1], c \notin Range(old.sent),
         old.whom = whom, new.whom = whom,
         Range(new.sent) = Range(old.sent) \cup {c},
         \/ Met(old) = pos
         \/ Met(old) >= Cardinality(whom \cap Range(list))
  PROVE  \/ Met(new) = pos + 1
         \/ Met(new) >= Cardinality(whom \cap Range(list))
<1>. DEFINE S == Range(old.sent) \cap whom
            L == whom \cap Range(list)
<1>1. /\ IsFiniteSet(S) /\ Cardinality(S) \in Nat /\ Cardinality(L) \in Nat
      /\ Met(old) = Cardinality(S)
  BY FewerThere DEF Met
<1>2. CASE c \in whom
  <2>1. Range(new.sent) \cap whom = S \cup {c} /\ c \notin S
    BY <1>2
  <2>2. Met(new) = Cardinality(S \cup {c})
    BY <2>1 DEF Met
  <2>3. Cardinality(S \cup {c}) = Cardinality(S) + 1
    <3>. HIDE DEF S
    <3>. QED  BY <1>1, <2>1, FS_AddElement
  <2>. HIDE DEF S, L
  <2>. QED  BY <1>1, <2>2, <2>3 DEF L
<1>3. CASE c \notin whom
  <2>1. Range(new.sent) \cap whom = S
    BY <1>3
  <2>2. Met(new) = Cardinality(S)
    BY <2>1 DEF Met
  <2>3. L \subseteq Range(SubSeq(list, 1, pos))
    <3>1. DOMAIN list = 1..Len(list) /\ Len(list) \in Nat
      OBVIOUS
    <3>2. ASSUME NEW i \in DOMAIN list, list[i] \in whom PROVE i \in 1..pos
      <4>1. ~(pos + 1 < i) /\ i # pos + 1
        BY <1>3, <3>2 DEF FirstCome
      <4>. QED  BY <3>1, <4>1
    <3>3. /\ DOMAIN SubSeq(list, 1, pos) = 1..pos
          /\ \A i \in 1..pos : SubSeq(list, 1, pos)[i] = list[i]
      BY <3>1
    <3>. QED  BY <3>2, <3>3 DEF Range
  <2>4. SubSeq(list, 1, pos) \in Seq(Clients) /\ Len(SubSeq(list, 1, pos)) = pos
    OBVIOUS
  <2>5. Cardinality(L) <= pos
    <3>. DEFINE R == Range(SubSeq(list, 1, pos))
    <3>1. IsFiniteSet(R) /\ Cardinality(R) <= pos
      BY <2>4, RangeSmall
    <3>2. Cardinality(L) <= Cardinality(R) /\ Cardinality(R) \in Nat
      BY <2>3, <3>1, FewerThere
    <3>. HIDE DEF L, R
    <3>. QED  BY <1>1, <3>1, <3>2
  <2>. HIDE DEF S, L
  <2>6. Met(new) = pos + 1 \/ Met(new) >= Cardinality(L)
    BY <1>1, <2>2, <2>5 DEF L
  <2>. QED  BY <2>6 DEF L
<1>. QED  BY <1>2, <1>3

(* It keeps it when it goes on itself.                                     *)
LEMMA CastReaches ==
  ASSUME TypeOK, AgreeInv, NEW p \in Posts, NEW cast \in CastType,
         NEW t, Table(t), ListsOK(t, at), t = channels', at' = at,
         CastFits(cast, t, at),
         casts'[p] = Reach(cast, Subscribers(t, cast.ch))
  PROVE  CastOK(p)'
<1>. DEFINE list == Subscribers(t, cast.ch)
<1>0. /\ cast.sent \in Seq(Clients) /\ cast.pos \in Nat
      /\ cast.whom \subseteq Clients
  BY DEF CastType
<1>1. CASE cast.live /\ cast.pos < Len(list)
  <2>1. list = t[cast.ch] /\ cast.ch \in DOMAIN t
    BY <1>1 DEF Subscribers, CastFits
  <2>2. list \in Seq(Clients)
    BY <2>1 DEF Table
  <2>. DEFINE n == cast.pos + 1
              c == list[n]
              sent == Append(cast.sent, c)
              whom == cast.whom
  <2>3. casts'[p] = [cast EXCEPT !.pos = n, !.sent = sent]
    BY <1>1 DEF Reach
  <2>. HIDE DEF list
  <2>4. n \in DOMAIN list /\ n > cast.pos /\ c \in Clients
    BY <1>0, <1>1, <2>2
  <2>fits. /\ NoTwice(cast.sent) /\ Len(cast.sent) = cast.pos /\ IsFiniteSet(whom)
           /\ \A d \in Range(cast.sent) \cup whom : at[d] \notin {"new", "accepting"}
           /\ \A i \in DOMAIN list : i > cast.pos => list[i] \notin Range(cast.sent)
           /\ FirstCome(list, whom)
           /\ Met(cast) = cast.pos \/ Met(cast) >= Cardinality(whom \cap Range(list))
    BY <1>1, <2>1 DEF CastFits
  <2>5. c \notin Range(cast.sent)
    BY <2>4, <2>fits
  <2>6. Range(sent) = Range(cast.sent) \cup {c} /\ NoTwice(sent)
    BY <1>0, <2>4, <2>5, <2>fits, AppendOne
  <2>7. c \in Range(list) /\ Len(sent) = n
    BY <1>0, <2>4, <2>fits DEF Range
  <2>8. NoTwice(list) /\ at[c] \in {"served", "closing"}
    BY <2>1, <2>7 DEF ListsOK
  <2>9. /\ casts'[p].sent = sent /\ casts'[p].pos = n
        /\ casts'[p].ch = cast.ch /\ casts'[p].whom = whom
    BY <2>3 DEF CastType
  <2>met. \/ Met(casts'[p]) = n
          \/ Met(casts'[p]) >= Cardinality(whom \cap Range(list))
    BY <1>0, <2>2, <2>4, <2>5, <2>6, <2>9, <2>fits, MeetsOneMore
  <2>. HIDE DEF c, sent, whom
  <2>10. \A d \in Range(sent) \cup whom : at'[d] \notin {"new", "accepting"}
    BY <2>6, <2>8, <2>fits DEF whom
  <2>11. ASSUME NEW i \in DOMAIN list, i > n
         PROVE  list[i] \notin Range(sent)
    <3>1. i > cast.pos /\ i # n
      BY <1>0, <2>2, <2>11
    <3>2. list[i] \notin Range(cast.sent)
      BY <2>fits, <3>1
    <3>3. list[i] # c
      BY <2>4, <2>8, <3>1 DEF NoTwice, c
    <3>. QED  BY <2>6, <3>2, <3>3
  <2>12. IsFiniteSet(whom) /\ FirstCome(list, whom)
    BY <2>fits DEF whom
  <2>. QED  BY <2>1, <2>6, <2>7, <2>9, <2>met, <2>10, <2>11, <2>12
            DEF CastOK, CastFits
<1>2. CASE ~(cast.live /\ cast.pos < Len(list))
  <2>1. casts'[p] = NoCast
    BY <1>2 DEF Reach
  <2>2. Range(<<>>) = {} /\ NoTwice(<<>>) /\ IsFiniteSet({}) /\ Len(<<>>) = 0
    BY FS_EmptySet DEF Range, NoTwice
  <2>3. /\ casts'[p].sent = <<>> /\ ~casts'[p].live /\ casts'[p].pos = 0
        /\ casts'[p].whom = {}
    BY <2>1 DEF NoCast
  <2>. QED  BY <2>2, <2>3 DEF CastOK, CastFits
<1>. QED  BY <1>1, <1>2

(* The changes of the table are shifts of its lists.                       *)
LEMMA Unshifted == \A s : Shifts(s, s) \/ ~(s \in Seq(Clients))
<1>1. ASSUME NEW s \in Seq(Clients), NEW k \in DOMAIN s
      PROVE  \E i \in DOMAIN s : k <= i /\ s[i] = s[k]
  <2>1. k \in Nat /\ k <= k
    OBVIOUS
  <2>. QED  BY <2>1
<1>2. ASSUME NEW s, NEW j \in DOMAIN s, NEW k \in DOMAIN s, j < k
      PROVE  \E g, h \in DOMAIN s : g < h /\ s[g] = s[j] /\ s[h] = s[k]
  BY <1>2
<1>. QED  BY <1>1, <1>2 DEF Shifts

LEMMA RemovedShifts ==
  ASSUME TypeOK, NEW ch, NEW D, NEW d \in DOMAIN channels
  PROVE  Shifts(channels[d], Removed(channels, ch, D)[d])
<1>1. channels[d] \in Seq(Clients) /\ Table(channels)
  BY ChannelsTable DEF Table
<1>2. CASE d # ch
  BY <1>1, <1>2, RemovedTable, Unshifted
<1>3. CASE d = ch
  <2>1. Shifts(channels[d], Without(channels[d], D))
    BY <1>1, WithoutProps DEF Shifts
  <2>. QED  BY <1>1, <1>3, <2>1, RemovedTable
<1>. QED  BY <1>2, <1>3

LEMMA OpenedShifts ==
  ASSUME TypeOK, NEW ch \in Channels, NEW d \in DOMAIN channels
  PROVE  Shifts(channels[d], Opened(ch)[d])
<1>1. Opened(ch)[d] = channels[d] /\ channels[d] \in Seq(Clients)
  BY OpenedTable, ChannelsTable DEF Table
<1>. QED  BY <1>1, Unshifted

LEMMA AppendShifts ==
  ASSUME TypeOK, NEW c \in Clients, at[c] = "accepting",
         NEW d \in DOMAIN channels
  PROVE  Shifts(channels[d],
                [Opened(Path[c]) EXCEPT ![Path[c]] = Append(@, c)][d])
<1>. DEFINE ch == Path[c]
            o == Opened(ch)
            t == [o EXCEPT ![ch] = Append(@, c)]
            s == channels[d]
<1>. SUFFICES Shifts(s, t[d])
  OBVIOUS
<1>1. /\ o[d] = s /\ s \in Seq(Clients) /\ d \in DOMAIN o
      /\ ch \in DOMAIN o
  BY CourierAssumption, OpenedTable, ChannelsTable DEF Table, CourierAssumption
<1>. HIDE DEF o
<1>2. CASE d # ch
  <2>1. t[d] = s
    BY <1>1, <1>2
  <2>. QED  BY <1>1, <2>1, Unshifted
<1>3. CASE d = ch
  <2>1. t[d] = Append(s, c)
    BY <1>1, <1>3
  <2>. DEFINE w == Append(s, c)
  <2>2. /\ DOMAIN w = 1..(Len(s) + 1) /\ Len(s) \in Nat
        /\ w[Len(s) + 1] = c /\ \A k \in 1..Len(s) : w[k] = s[k]
        /\ DOMAIN s = 1..Len(s)
    BY <1>1
  <2>. HIDE DEF w, s
  <2>3. ASSUME NEW k \in DOMAIN w
        PROVE  \/ at[w[k]] = "accepting"
               \/ \E i \in DOMAIN s : k <= i /\ s[i] = w[k]
    <3>1. CASE k = Len(s) + 1
      BY <2>2, <3>1
    <3>2. CASE k \in 1..Len(s)
      <4>1. k <= k /\ s[k] = w[k] /\ k \in DOMAIN s
        BY <2>2, <3>2
      <4>. QED  BY <4>1
    <3>. QED  BY <2>2, <2>3, <3>1, <3>2
  <2>4. ASSUME NEW j \in DOMAIN w, NEW k \in DOMAIN w, j < k,
               at[w[k]] # "accepting"
        PROVE  \E g, h \in DOMAIN s : g < h /\ s[g] = w[j] /\ s[h] = w[k]
    <3>1. k # Len(s) + 1
      BY <2>2, <2>4
    <3>2. j \in 1..Len(s) /\ k \in 1..Len(s)
      BY <2>2, <2>4, <3>1
    <3>. QED  BY <2>2, <2>4, <3>2
  <2>5. Shifts(s, w)
    BY <2>3, <2>4 DEF Shifts
  <2>. QED  BY <2>1, <2>5 DEF w
<1>. QED  BY <1>2, <1>3

(* What a change of the table does to a broadcast.                         *)
LEMMA TableCast ==
  ASSUME TypeOK, CastsOK, NEW t, TableBecomes(t), NEW p \in Posts
  PROVE  /\ CastOK(p) /\ channels' = t
         /\ casts'[p].sent = casts[p].sent /\ casts'[p].pos = casts[p].pos
         /\ casts'[p].ch = casts[p].ch /\ casts'[p].whom = casts[p].whom
         /\ casts'[p].on = casts[p].on
         /\ casts'[p].live => casts[p].live /\ casts[p].ch \in DOMAIN channels'
<1>1. casts[p] \in CastType
  BY DEF TypeOK
<1>2. casts'[p] =
        [casts[p] EXCEPT
           !.live = @ /\ casts[p].ch \notin DOMAIN channels \ DOMAIN t]
  BY DEF TableBecomes
<1>3. casts[p].live => casts[p].ch \in DOMAIN channels
  BY DEF CastsOK, CastOK, CastFits
<1>4. CastOK(p) /\ channels' = t
  BY DEF CastsOK, TableBecomes
<1>. QED  BY <1>1, <1>2, <1>3, <1>4 DEF CastType

LEMMA NextCasts ==
  ASSUME TypeOK, AgreeInv, TypeOK', CastsOK, [Next]_vars
  PROVE  CastsOK'
<1>. USE CourierAssumption DEF CourierAssumption
<1>0. /\ Table(channels) /\ Table(channels') /\ ListsOK(channels, at)
      /\ at \in [Clients ->
           {"new", "accepting", "served", "closing", "done"}]
  BY ChannelsTable, AgreesIs DEF AgreeInv, TypeOK, Table
<1>1. ASSUME NEW t, TableBecomes(t),
             \A ch \in DOMAIN channels \cap DOMAIN t :
               Shifts(channels[ch], t[ch]),
             \A c \in Clients : at'[c] \in {"new", "accepting"}
                                  => at[c] \in {"new", "accepting"}
      PROVE  CastsOK'
  <2>1. ASSUME NEW p \in Posts PROVE CastOK(p)'
    BY <1>0, <1>1, TableCast, CastStays
  <2>. QED  BY <2>1 DEF CastsOK
<1>2. ASSUME UNCHANGED casts, DOMAIN channels \subseteq DOMAIN channels',
             \A ch \in DOMAIN channels : Shifts(channels[ch], channels'[ch]),
             \A c \in Clients : at'[c] \in {"new", "accepting"}
                                  => at[c] \in {"new", "accepting"}
      PROVE  CastsOK'
  <2>1. ASSUME NEW p \in Posts PROVE CastOK(p)'
    <3>1. CastOK(p)
      BY DEF CastsOK
    <3>2. casts'[p].live => casts[p].live /\ casts[p].ch \in DOMAIN channels'
      BY <1>2, <3>1 DEF CastOK, CastFits
    <3>. QED  BY <1>0, <1>2, <3>1, <3>2, CastStays
  <2>. QED  BY <2>1 DEF CastsOK
<1>3. \A ch \in DOMAIN channels : Shifts(channels[ch], channels[ch])
  BY <1>0, Unshifted DEF Table
<1>4. ASSUME NEW c \in Clients, Connect(c) \/ AcceptFails(c)
                                \/ SeeShutdown(c) \/ PeerLeaves(c)
      PROVE  CastsOK'
  <2>1. UNCHANGED <<casts, channels>>
    BY <1>4 DEF Connect, AcceptFails, SeeShutdown, PeerLeaves
  <2>2. \A d \in Clients : at'[d] \in {"new", "accepting"}
                             => at[d] \in {"new", "accepting"}
    BY <1>0, <1>4 DEF Connect, AcceptFails, SeeShutdown, PeerLeaves
  <2>. QED  BY <1>2, <1>3, <2>1, <2>2
<1>5. ASSUME NEW c \in Clients, Serve(c) PROVE CastsOK'
  <2>. DEFINE t == [Opened(Path[c]) EXCEPT ![Path[c]] = Append(@, c)]
  <2>1. /\ TableBecomes(t) /\ at[c] = "accepting"
        /\ at' = [at EXCEPT ![c] = "served"]
    BY <1>5 DEF Serve
  <2>2. \A ch \in DOMAIN channels : Shifts(channels[ch], t[ch])
    BY <2>1, AppendShifts
  <2>. HIDE DEF t
  <2>3. \A d \in Clients : at'[d] \in {"new", "accepting"}
                             => at[d] \in {"new", "accepting"}
    BY <1>0, <2>1
  <2>. QED  BY <1>1, <2>1, <2>2, <2>3
<1>6. ASSUME NEW c \in Clients, Refuse(c) PROVE CastsOK'
  <2>1. /\ TableBecomes(Opened(Path[c])) /\ Path[c] \in Channels
        /\ at' = [at EXCEPT ![c] = "done"]
    BY <1>6 DEF Refuse
  <2>2. \A ch \in DOMAIN channels : Shifts(channels[ch], Opened(Path[c])[ch])
    BY <2>1, OpenedShifts
  <2>3. \A d \in Clients : at'[d] \in {"new", "accepting"}
                             => at[d] \in {"new", "accepting"}
    BY <1>0, <2>1
  <2>. QED  BY <1>1, <2>1, <2>2, <2>3
<1>7. ASSUME NEW c \in Clients, Leave(c) PROVE CastsOK'
  <2>. DEFINE ch == Path[c]
              r == Removed(channels, ch, {c})
              t == IF ShouldCleanUp(r, ch)
                   THEN [d \in DOMAIN r \ {ch} |-> r[d]] ELSE r
  <2>1. TableBecomes(t) /\ at' = [at EXCEPT ![c] = "done"]
    BY <1>7 DEF Leave
  <2>2. /\ DOMAIN r = DOMAIN channels
        /\ \A d \in DOMAIN channels : Shifts(channels[d], r[d])
    BY <1>0, RemovedTable, RemovedShifts
  <2>. HIDE DEF r
  <2>3. \A d \in DOMAIN t : d \in DOMAIN r /\ t[d] = r[d]
    OBVIOUS
  <2>. HIDE DEF t
  <2>4. \A d \in Clients : at'[d] \in {"new", "accepting"}
                             => at[d] \in {"new", "accepting"}
    BY <1>0, <2>1
  <2>. QED  BY <1>1, <2>1, <2>2, <2>3, <2>4
<1>8. ASSUME NEW p \in Posts, NEW ch \in Channels, Publish(p, ch)
      PROVE  CastsOK'
  <2>. DEFINE t == Opened(ch)
              list == Subscribers(channels, ch)
              cast == [NoCast EXCEPT !.on = TRUE, !.live = TRUE, !.ch = ch,
                                     !.whom = Range(list)]
  <2>1. /\ channels' = t /\ at' = at
        /\ casts' = [casts EXCEPT ![p] = Reach(cast, list)]
    BY <1>8 DEF Publish
  <2>2. /\ Table(t) /\ ListsOK(t, at) /\ ch \in DOMAIN t
        /\ DOMAIN channels \subseteq DOMAIN t
        /\ ch \in DOMAIN channels => t[ch] = channels[ch]
        /\ ch \notin DOMAIN channels => t[ch] = <<>>
    BY <1>0, OpenedTable, OpenedLists
  <2>3. \A d \in DOMAIN channels : Shifts(channels[d], t[d])
    BY OpenedShifts
  <2>. HIDE DEF t
  <2>4. Subscribers(t, ch) = list
    BY <2>2 DEF Subscribers
  <2>5. list \in Seq(Clients)
    BY <2>2, <2>4 DEF Subscribers, Table
  <2>. HIDE DEF list
  <2>6. /\ cast \in CastType /\ cast.sent = <<>> /\ cast.ch = ch
        /\ cast.pos = 0 /\ cast.whom = Range(list)
    <3>1. Range(list) \in SUBSET Clients /\ <<>> \in Seq(Clients)
      BY <2>5 DEF Range
    <3>. QED  BY <3>1 DEF NoCast, CastType
  <2>7. /\ Range(<<>>) = {} /\ NoTwice(<<>>) /\ Len(<<>>) = 0
        /\ Cardinality({}) = 0
    BY FS_EmptySet DEF Range, NoTwice
  <2>. HIDE DEF cast
  <2>there. /\ IsFiniteSet(Range(list)) /\ FirstCome(list, Range(list))
            /\ \A c \in Range(list) : at[c] \notin {"new", "accepting"}
            /\ t[ch] = list
    <3>1. t[ch] = list
      BY <2>2, <2>4 DEF Subscribers
    <3>2. \A c \in Range(list) : at[c] \in {"served", "closing"}
      BY <2>2, <3>1 DEF ListsOK
    <3>. QED  BY <2>5, <3>1, <3>2, RangeSmall DEF FirstCome, Range
  <2>fits. CastFits(cast, t, at)
    BY <2>2, <2>6, <2>7, <2>there DEF CastFits, Met
  <2>8. casts'[p] = Reach(cast, Subscribers(t, cast.ch))
    BY <2>1, <2>4, <2>6 DEF TypeOK
  <2>9. CastOK(p)'
    BY <2>1, <2>2, <2>6, <2>8, <2>fits, CastReaches
  <2>10. ASSUME NEW q \in Posts, q # p PROVE CastOK(q)'
    <3>1. casts'[q] = casts[q] /\ CastOK(q)
      BY <2>1, <2>10 DEF TypeOK, CastsOK
    <3>2. casts'[q].live => casts[q].live /\ casts[q].ch \in DOMAIN channels'
      BY <2>1, <2>2, <3>1 DEF CastOK, CastFits
    <3>. QED  BY <1>0, <2>1, <2>3, <3>1, <3>2, CastStays
  <2>. QED  BY <2>9, <2>10 DEF CastsOK
<1>9. ASSUME NEW p \in Posts, BroadcastNext(p) PROVE CastsOK'
  <2>1. /\ channels' = channels /\ at' = at
        /\ casts' = [casts EXCEPT
             ![p] = Reach(casts[p], Subscribers(channels, casts[p].ch))]
    BY <1>9 DEF BroadcastNext
  <2>2. casts[p] \in CastType /\ CastOK(p)
    BY DEF TypeOK, CastsOK
  <2>3. casts'[p] = Reach(casts[p], Subscribers(channels, casts[p].ch))
    BY <2>1 DEF TypeOK
  <2>4. CastOK(p)'
    BY <1>0, <2>1, <2>2, <2>3, CastReaches DEF CastOK
  <2>5. ASSUME NEW q \in Posts, q # p PROVE CastOK(q)'
    <3>1. casts'[q] = casts[q] /\ CastOK(q)
      BY <2>1, <2>5 DEF TypeOK, CastsOK
    <3>. QED  BY <2>1, <3>1 DEF CastOK
  <2>. QED  BY <2>4, <2>5 DEF CastsOK
<1>10. CASE BeatNext
  <2>1. UNCHANGED <<at, casts>>
    BY <1>10 DEF BeatNext
  <2>2. channels' = channels \/ \E D : channels' = Removed(channels, beat.ch, D)
    BY <1>10 DEF BeatNext
  <2>3. CASE channels' = channels
    BY <1>2, <1>3, <2>1, <2>3
  <2>4. CASE \E D : channels' = Removed(channels, beat.ch, D)
    <3>1. PICK D : channels' = Removed(channels, beat.ch, D)
      BY <2>4
    <3>2. /\ DOMAIN channels' = DOMAIN channels
          /\ \A d \in DOMAIN channels : Shifts(channels[d], channels'[d])
      BY <1>0, <3>1, RemovedTable, RemovedShifts
    <3>. QED  BY <1>2, <2>1, <3>2
  <2>. QED  BY <2>2, <2>3, <2>4
<1>11. CASE CloseDown
  <2>1. UNCHANGED <<at, casts>>
    BY <1>11 DEF CloseDown
  <2>2. channels' = channels \/ channels' = [ch \in DOMAIN channels |-> <<>>]
    BY <1>11 DEF CloseDown
  <2>3. \A s : Shifts(s, <<>>)
    BY DEF Shifts
  <2>4. CASE channels' = [ch \in DOMAIN channels |-> <<>>]
    BY <1>2, <2>1, <2>3, <2>4
  <2>. QED  BY <1>2, <1>3, <2>1, <2>2, <2>4
<1>12. ASSUME Wake \/ Signal \/ NoticeNext \/ NoticeTimesOut \/ UNCHANGED vars
       PROVE  CastsOK'
  <2>1. UNCHANGED <<channels, at, casts>>
    BY <1>12 DEF Wake, Signal, NoticeNext, NoticeTimesOut, vars
  <2>. QED  BY <1>2, <1>3, <2>1
<1>. QED
  BY <1>4, <1>5, <1>6, <1>7, <1>8, <1>9, <1>10, <1>11, <1>12 DEF Next, Handler

LEMMA AlwaysCasts == Spec => []CastsOK
<1>1. Init => CastsOK
  <2>. SUFFICES ASSUME Init PROVE CastsOK
    OBVIOUS
  <2>1. Range(<<>>) = {} /\ NoTwice(<<>>) /\ Len(<<>>) = 0 /\ IsFiniteSet({})
    BY FS_EmptySet DEF Range, NoTwice
  <2>2. ASSUME NEW p \in Posts PROVE CastOK(p)
    <3>1. /\ casts[p].sent = <<>> /\ ~casts[p].live /\ casts[p].pos = 0
          /\ casts[p].whom = {}
      BY DEF Init, NoCast
    <3>. QED  BY <2>1, <3>1 DEF CastOK, CastFits
  <2>. QED  BY <2>2 DEF CastsOK
<1>2. /\ TypeOK /\ AgreeInv /\ TypeOK' /\ AgreeInv' /\ CastsOK /\ [Next]_vars
      => CastsOK'
  BY NextCasts
<1>. QED  BY <1>1, <1>2, Inductive, PTL DEF Spec

(* No broadcast sends to a client twice, whoever leaves, is removed by the *)
(* heartbeat or joins while it waits for a send.                           *)
THEOREM SentAlwaysOnce == Spec => []SentOnce
<1>1. CastsOK => SentOnce
  BY DEF CastsOK, CastOK, CastFits, SentOnce
<1>. QED  BY <1>1, AlwaysCasts, PTL

(* What of two sets of a third is left over.                               *)
LEMMA MoreThanLeft ==
  ASSUME NEW W, IsFiniteSet(W), NEW N, NEW S,
         Cardinality(W \cap N) <= Cardinality(S \cap W)
  PROVE  Cardinality((W \cap N) \ S) <= Cardinality(W \ N)
<1>. DEFINE A == (W \cap N) \ S
            B == (W \cap N) \cap S
            C == (W \ N) \cap S
<1>1. /\ IsFiniteSet(A) /\ IsFiniteSet(B) /\ IsFiniteSet(C)
      /\ Cardinality(A) \in Nat /\ Cardinality(B) \in Nat
      /\ Cardinality(C) \in Nat
      /\ Cardinality(C) <= Cardinality(W \ N) /\ Cardinality(W \ N) \in Nat
  <2>1. IsFiniteSet(W \ N) /\ A \subseteq W /\ B \subseteq W /\ C \subseteq W \ N
    BY FewerThere
  <2>. QED  BY <2>1, FewerThere
<1>2. W \cap N = A \cup B /\ A \cap B = {} /\ S \cap W = B \cup C /\ B \cap C = {}
  OBVIOUS
<1>. HIDE DEF A, B, C
<1>3. /\ Cardinality(A \cup B) = Cardinality(A) + Cardinality(B)
      /\ Cardinality(B \cup C) = Cardinality(B) + Cardinality(C)
  <2>1. Cardinality(A \cap B) = 0 /\ Cardinality(B \cap C) = 0
    BY <1>2, FS_EmptySet
  <2>2. /\ Cardinality(A \cup B)
             = Cardinality(A) + Cardinality(B) - Cardinality(A \cap B)
        /\ Cardinality(B \cup C)
             = Cardinality(B) + Cardinality(C) - Cardinality(B \cap C)
    BY <1>1, FS_Union
  <2>. QED  BY <1>1, <2>1, <2>2
<1>4. Cardinality(A) <= Cardinality(W \ N)
  BY <1>1, <1>2, <1>3
<1>. QED  BY <1>4 DEF A

(* Nothing ends a broadcast but itself.                                    *)
LEMMA EndsItself ==
  ASSUME TypeOK, CastsOK, [Next]_vars, NEW p \in Posts,
         casts[p].on, ~casts'[p].on
  PROVE  BroadcastNext(p)
<1>1. ASSUME NEW t, TableBecomes(t) PROVE FALSE
  BY <1>1, TableCast
<1>2. ASSUME NEW q \in Posts, q # p, casts' = [casts EXCEPT ![q] = casts'[q]]
      PROVE  FALSE
  BY <1>2 DEF TypeOK
<1>3. ASSUME NEW q \in Posts, BroadcastNext(q) \/ \E ch \in Channels : Publish(q, ch)
      PROVE  BroadcastNext(p)
  <2>1. casts' = [casts EXCEPT ![q] = casts'[q]]
    BY <1>3 DEF BroadcastNext, Publish, TypeOK
  <2>2. q = p
    BY <1>2, <2>1
  <2>. QED  BY <1>3, <2>2 DEF Publish
<1>4. casts' # casts
  OBVIOUS
<1>5. ASSUME NEW c \in Clients, Connect(c) \/ Handler(c) \/ PeerLeaves(c)
      PROVE  FALSE
  BY <1>1, <1>4, <1>5 DEF Connect, Handler, AcceptFails, Serve, Refuse,
                          SeeShutdown, Leave, PeerLeaves
<1>. QED
  BY <1>3, <1>4, <1>5 DEF Next, Wake, BeatNext, Signal, NoticeNext,
                          NoticeTimesOut, CloseDown, vars

(* A broadcast that ends has sent to as many as its list holds, and until  *)
(* then only to those that were there at its start: of these as many have  *)
(* gone as were sent to and are not there any more.                        *)
LEMMA MissedAreFew ==
  ASSUME TypeOK, CastsOK, NEW p \in Posts,
         LET list == Subscribers(channels, casts[p].ch)
         IN  ~(casts[p].live /\ casts[p].pos < Len(list))
  PROVE  LET cast == casts[p]
             Now == IF cast.live THEN Range(channels[cast.ch]) ELSE {}
         IN  Cardinality((cast.whom \cap Now) \ Range(cast.sent))
               <= Cardinality(cast.whom \ Now)
<1>. DEFINE cast == casts[p]
            Now == IF cast.live THEN Range(channels[cast.ch]) ELSE {}
            W == cast.whom
            S == Range(cast.sent)
<1>1. /\ cast.sent \in Seq(Clients) /\ cast.pos \in Nat
      /\ IsFiniteSet(W) /\ Len(cast.sent) = cast.pos
  BY DEF TypeOK, CastType, CastsOK, CastOK, CastFits
<1>2. CASE cast.live
  <2>. DEFINE list == channels[cast.ch]
  <2>1. cast.ch \in DOMAIN channels
    BY <1>2 DEF CastsOK, CastOK, CastFits
  <2>2. list \in Seq(Clients) /\ Len(list) <= cast.pos
    BY <1>1, <1>2, <2>1, ChannelsTable DEF Table, Subscribers
  <2>3. Now = Range(list)
    BY <1>2
  <2>4. Met(cast) = cast.pos \/ Met(cast) >= Cardinality(W \cap Now)
    BY <1>2 DEF CastsOK, CastOK, CastFits
  <2>5. Met(cast) = Cardinality(S \cap W)
    BY DEF Met
  <2>6. IsFiniteSet(Now) /\ Cardinality(Now) <= Len(list)
    BY <2>2, <2>3, RangeSmall
  <2>. HIDE DEF cast, Now, W, S, list
  <2>7. Cardinality(W \cap Now) <= Cardinality(S \cap W)
    <3>1. Cardinality(W \cap Now) <= Cardinality(Now)
          /\ Cardinality(W \cap Now) \in Nat /\ Cardinality(Now) \in Nat
      BY <2>6, FewerThere
    <3>2. Cardinality(S \cap W) \in Nat
      BY <1>1, FewerThere
    <3>3. Len(list) \in Nat
      BY <2>2
    <3>. QED  BY <1>1, <2>2, <2>4, <2>5, <2>6, <3>1, <3>2, <3>3
  <2>8. Cardinality((W \cap Now) \ S) <= Cardinality(W \ Now)
    BY <1>1, <2>7, MoreThanLeft
  <2>. QED  BY <2>8 DEF cast, Now, W, S
<1>3. CASE ~cast.live
  <2>1. Now = {} /\ (W \cap Now) \ S = {} /\ W \ Now = W
    BY <1>3
  <2>2. Cardinality((W \cap Now) \ S) = 0 /\ Cardinality(W \ Now) \in Nat
    BY <1>1, <2>1, FS_EmptySet, FS_CardinalityType
  <2>3. Cardinality((W \cap Now) \ S) <= Cardinality(W \ Now)
    BY <2>2
  <2>. QED  BY <2>3
<1>. QED  BY <1>2, <1>3

(* Whoever leaves and joins during a broadcast, of the subscribers it had  *)
(* at its start no more are missed than have left.                         *)
THEOREM MissesAlwaysHaveCause == Spec => MissesHaveCause
<1>1. TypeOK /\ CastsOK /\ [Next]_vars =>
        [\A p \in Posts :
           casts[p].on /\ ~casts'[p].on =>
             LET cast == casts[p]
                 Now == IF cast.live THEN Range(channels[cast.ch]) ELSE {}
             IN  Cardinality((cast.whom \cap Now) \ Range(cast.sent))
                   <= Cardinality(cast.whom \ Now)]_vars
  <2>. SUFFICES ASSUME TypeOK, CastsOK, [Next]_vars, NEW p \in Posts,
                       casts[p].on, ~casts'[p].on
                PROVE  LET cast == casts[p]
                           Now == IF cast.live THEN Range(channels[cast.ch]) ELSE {}
                       IN  Cardinality((cast.whom \cap Now) \ Range(cast.sent))
                             <= Cardinality(cast.whom \ Now)
    OBVIOUS
  <2>1. BroadcastNext(p)
    BY EndsItself
  <2>2. casts'[p] = Reach(casts[p], Subscribers(channels, casts[p].ch))
    BY <2>1 DEF BroadcastNext, TypeOK
  <2>3. LET list == Subscribers(channels, casts[p].ch)
        IN  ~(casts[p].live /\ casts[p].pos < Len(list))
    BY <2>2 DEF Reach, TypeOK, CastType
  <2>. QED  BY <2>3, MissedAreFew
<1>. QED  BY <1>1, AlwaysCasts, TypeCorrect, PTL DEF Spec, MissesHaveCause
=============================================================================
