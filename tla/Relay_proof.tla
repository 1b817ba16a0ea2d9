----------------------------- MODULE Relay_proof -----------------------------
(***************************************************************************)
(* Proof that, for every capacity, flood limit and number of messages, the *)
(* memories of the relay path are exact and no more lines get through than *)
(* the limit allows, also when the clock is set back and forth.            *)
(***************************************************************************)
EXTENDS Relay, TLAPS, SequenceTheorems

-----------------------------------------------------------------------------
(* Sequences without duplicates.                                           *)

\* BoundedSeq in terms of Seq and Len.
LEMMA Bounded ==
    ASSUME NEW S, NEW n \in Nat, NEW s
    PROVE  s \in BoundedSeq(S, n) <=> s \in Seq(S) /\ Len(s) <= n
<1>1. ASSUME s \in BoundedSeq(S, n) PROVE s \in Seq(S) /\ Len(s) <= n
    <2>1. PICK m \in 0 .. n : s \in [1 .. m -> S]
        BY <1>1 DEF BoundedSeq, SeqOf
    <2> QED
        BY <2>1
<1>2. ASSUME s \in Seq(S), Len(s) <= n PROVE s \in BoundedSeq(S, n)
    <2>1. Len(s) \in 0 .. n /\ s \in [1 .. Len(s) -> S]
        BY <1>2
    <2> QED
        BY <2>1 DEF BoundedSeq, SeqOf
<1> QED
    BY <1>1, <1>2

LEMMA AppendNew ==
    ASSUME NEW S, NEW s \in Seq(S), IsInjective(s), NEW e \in S, e \notin ToSet(s)
    PROVE  /\ Append(s, e) \in Seq(S) /\ Len(Append(s, e)) = Len(s) + 1
           /\ IsInjective(Append(s, e)) /\ ToSet(Append(s, e)) = ToSet(s) \cup {e}
           /\ s # << >> => Head(Append(s, e)) = Head(s)
<1> DEFINE t == Append(s, e)
<1>1. /\ t \in Seq(S) /\ Len(s) \in Nat /\ Len(t) = Len(s) + 1 /\ t[Len(s) + 1] = e
      /\ \A i \in 1 .. Len(s) : t[i] = s[i]
      /\ DOMAIN s = 1 .. Len(s) /\ DOMAIN t = 1 .. Len(s) + 1
    OBVIOUS
<1> HIDE DEF t
<1>2. \A i \in 1 .. Len(s) : s[i] # e
    BY <1>1 DEF ToSet
<1>3. IsInjective(t)
    BY <1>1, <1>2 DEF IsInjective
<1>4. ToSet(t) = ToSet(s) \cup {e}
    BY <1>1 DEF ToSet
<1>5. s # << >> => Head(t) = Head(s)
    BY <1>1
<1> QED
    BY <1>1, <1>3, <1>4, <1>5 DEF t

LEMMA TailLess ==
    ASSUME NEW S, NEW s \in Seq(S), IsInjective(s), s # << >>
    PROVE  /\ Tail(s) \in Seq(S) /\ Len(Tail(s)) = Len(s) - 1 /\ Head(s) \in ToSet(s)
           /\ IsInjective(Tail(s)) /\ ToSet(Tail(s)) = ToSet(s) \ {Head(s)}
<1> DEFINE t == Tail(s)
<1>1. /\ t \in Seq(S) /\ Len(s) \in Nat \ {0} /\ Len(t) = Len(s) - 1 /\ Head(s) = s[1]
      /\ \A i \in 1 .. Len(t) : t[i] = s[i + 1]
      /\ DOMAIN s = 1 .. Len(s) /\ DOMAIN t = 1 .. Len(s) - 1
    OBVIOUS
<1> HIDE DEF t
<1>2. IsInjective(t)
    <2> SUFFICES ASSUME NEW a \in DOMAIN t, NEW b \in DOMAIN t, t[a] = t[b]
                 PROVE  a = b
        BY DEF IsInjective
    <2>1. a \in Nat /\ b \in Nat /\ a + 1 \in DOMAIN s /\ b + 1 \in DOMAIN s
        BY <1>1
    <2>2. t[a] = s[a + 1] /\ t[b] = s[b + 1]
        BY <1>1
    <2>3. a + 1 = b + 1
        BY <2>1, <2>2 DEF IsInjective
    <2> QED
        BY <2>1, <2>3
<1>3. ASSUME NEW e PROVE e \in ToSet(t) <=> e \in ToSet(s) /\ e # Head(s)
    <2>1. ASSUME NEW i \in 1 .. Len(s), s[i] = e, e # Head(s) PROVE e \in ToSet(t)
        <3>1. i - 1 \in DOMAIN t /\ t[i - 1] = e
            BY <1>1, <2>1
        <3> QED
            BY <3>1 DEF ToSet
    <2>2. ASSUME NEW i \in DOMAIN t, t[i] = e PROVE e \in ToSet(s) /\ e # Head(s)
        <3>1. i + 1 \in DOMAIN s /\ s[i + 1] = e /\ i + 1 # 1
            BY <1>1, <2>2
        <3> QED
            BY <1>1, <3>1 DEF ToSet, IsInjective
    <2> QED
        BY <1>1, <2>1, <2>2 DEF ToSet
<1>4. Head(s) \in ToSet(s)
    BY <1>1 DEF ToSet
<1> QED
    BY <1>1, <1>2, <1>3, <1>4 DEF t

LEMMA RemoveLess ==
    ASSUME NEW S, NEW s \in Seq(S), IsInjective(s), NEW e \in ToSet(s)
    PROVE  LET t == RemoveFirst(s, e)
           IN  t \in Seq(S) /\ Len(t) = Len(s) - 1 /\ IsInjective(t)
                 /\ ToSet(t) = ToSet(s) \ {e}
<1>1. PICK k \in 1 .. Len(s) : s[k] = e
    BY DEF ToSet
<1>2. \A i \in 1 .. Len(s) : s[i] = e <=> i = k
    BY <1>1 DEF IsInjective
<1> DEFINE t == SubSeq(s, 1, k - 1) \o SubSeq(s, k + 1, Len(s))
<1>3. RemoveFirst(s, e) = t
    <2>1. {i \in 1 .. Len(s) : s[i] = e} = {k}
        BY <1>1, <1>2
    <2>2. SelectInSeq(s, LAMBDA x : x = e) = k
        BY <2>1 DEF SelectInSeq, Min
    <2> QED
        BY <1>1, <2>2 DEF RemoveFirst, RemoveAt
<1>4. /\ t \in Seq(S) /\ Len(s) \in Nat /\ Len(t) = Len(s) - 1
      /\ \A i \in 1 .. Len(t) : t[i] = IF i < k THEN s[i] ELSE s[i + 1]
      /\ DOMAIN s = 1 .. Len(s) /\ DOMAIN t = 1 .. Len(s) - 1
    <2> DEFINE a == SubSeq(s, 1, k - 1)
               b == SubSeq(s, k + 1, Len(s))
    <2>1. Len(s) \in Nat /\ DOMAIN s = 1 .. Len(s)
        OBVIOUS
    <2>2. a \in Seq(S) /\ Len(a) = k - 1 /\ \A i \in 1 .. k - 1 : a[i] = s[i]
        <3>1. \A i \in 1 .. k - 1 : s[i] \in S
            BY <2>1
        <3> QED
            BY <2>1, <3>1, SubSeqProperties
    <2>3. b \in Seq(S) /\ Len(b) = Len(s) - k /\ \A i \in 1 .. Len(s) - k : b[i] = s[i + k]
        <3>1. \A i \in k + 1 .. Len(s) : s[i] \in S
            BY <2>1
        <3>2. /\ b \in Seq(S)
              /\ Len(b) = IF k + 1 <= Len(s) THEN Len(s) - (k + 1) + 1 ELSE 0
              /\ \A i \in 1 .. Len(s) - (k + 1) + 1 : b[i] = s[(k + 1) + i - 1]
            BY <2>1, <3>1, SubSeqProperties
        <3> HIDE DEF b
        <3>3. Len(s) - (k + 1) + 1 = Len(s) - k /\ Len(b) = Len(s) - k
            <4> DEFINE n == Len(s)
            <4>1. n \in Nat /\ k \in 1 .. n
                BY <2>1
            <4>2. Len(b) = IF k + 1 <= n THEN n - (k + 1) + 1 ELSE 0
                BY <3>2
            <4> HIDE DEF n
            <4>3. n - (k + 1) + 1 = n - k /\ Len(b) = n - k
                BY <4>1, <4>2
            <4> QED
                BY <4>3 DEF n
        <3>4. ASSUME NEW i \in 1 .. Len(s) - k PROVE b[i] = s[i + k]
            <4>1. (k + 1) + i - 1 = i + k
                BY <2>1
            <4> QED
                BY <3>2, <3>3, <4>1
        <3> QED
            BY <3>2, <3>3, <3>4
    <2>4. t = a \o b
        OBVIOUS
    <2> HIDE DEF a, b, t
    <2>5. t \in Seq(S) /\ Len(t) = Len(a) + Len(b)
        BY <2>2, <2>3, <2>4, ConcatProperties
    <2>6. ASSUME NEW i \in 1 .. Len(t) PROVE t[i] = IF i < k THEN s[i] ELSE s[i + 1]
        <3>1. t[i] = IF i <= Len(a) THEN a[i] ELSE b[i - Len(a)]
            BY <2>2, <2>3, <2>4, <2>5
        <3>2. i <= Len(a) <=> i < k
            BY <2>2, <2>5
        <3>3. CASE i < k
            BY <2>2, <3>1, <3>2, <3>3
        <3>4. CASE ~(i < k)
            <4>1. i - Len(a) \in 1 .. Len(s) - k /\ i - Len(a) + k = i + 1
                BY <2>1, <2>2, <2>3, <2>5, <3>4
            <4> QED
                BY <2>3, <3>1, <3>2, <3>4, <4>1
        <3> QED
            BY <3>3, <3>4
    <2> QED
        BY <2>1, <2>2, <2>3, <2>5, <2>6
<1> HIDE DEF t
<1>5. IsInjective(t)
    <2> SUFFICES ASSUME NEW i \in DOMAIN t, NEW j \in DOMAIN t, t[i] = t[j] PROVE i = j
        BY DEF IsInjective
    <2> DEFINE p == IF i < k THEN i ELSE i + 1
               q == IF j < k THEN j ELSE j + 1
    <2>1. p \in DOMAIN s /\ q \in DOMAIN s /\ t[i] = s[p] /\ t[j] = s[q]
        BY <1>4
    <2>2. p = q
        BY <2>1 DEF IsInjective
    <2>3. i \in Nat /\ j \in Nat
        BY <1>4
    <2> QED
        BY <2>2, <2>3
<1>6. ASSUME NEW x PROVE x \in ToSet(t) <=> x \in ToSet(s) /\ x # e
    <2>1. ASSUME NEW i \in 1 .. Len(s), s[i] = x, x # e PROVE x \in ToSet(t)
        <3>1. CASE i < k
            BY <1>4, <2>1, <3>1 DEF ToSet
        <3>2. CASE i > k
            <4>1. i - 1 \in DOMAIN t /\ t[i - 1] = x
                BY <1>4, <2>1, <3>2
            <4> QED
                BY <4>1 DEF ToSet
        <3> QED
            BY <1>1, <2>1, <3>1, <3>2
    <2>2. ASSUME NEW i \in DOMAIN t, t[i] = x PROVE x \in ToSet(s) /\ x # e
        BY <1>2, <1>4, <2>2 DEF ToSet
    <2> QED
        BY <1>4, <2>1, <2>2 DEF ToSet
<1> QED
    BY <1>3, <1>4, <1>5, <1>6

-----------------------------------------------------------------------------
(* The token bucket.                                                       *)

\* Seconds that have not been turned into tokens.  None if the clock is behind.
Elapsed == IF now > refilled_at THEN now - refilled_at ELSE 0

\* Tokens spent, tokens held and seconds on the way to the next one are paid
\* for by the full bucket of the start and by the time that went by.  The
\* bound on what was sent alone is not inductive: it does not say that the
\* tokens in the bucket were paid for.
BucketOK ==
    /\ tokens \in 0 .. Burst /\ refilled_at \in 0 .. MaxNow /\ now \in 1 .. MaxNow
    /\ sent \in Nat /\ forward \in 0 .. MaxForward
    /\ refilled_at = 0 => sent = 0
    /\ refilled_at # 0 => Secs * (sent + tokens) + Elapsed <= Secs * Burst + forward

CountOK == /\ dropped \in Nat /\ reported \in Nat /\ muted \in Nat
           /\ refused \in 0 .. MaxDropped
           /\ refused = reported + muted + dropped

LEMMA Constants == /\ Burst \in Nat /\ Secs \in Nat \ {0} /\ MaxNow \in Nat \ {0}
                   /\ HistoryCap \in Nat \ {0} /\ LinksCap \in Nat \ {0}
                   /\ MaxDropped \in Nat /\ MaxForward \in Nat /\ MaxPosts \in Nat
BY RelayAssumption

LEMMA LeastOf == \A a, b \in Nat : Least(a, b) \in Nat /\ Least(a, b) <= a /\ Least(a, b) <= b
BY DEF Least

LEMMA Div ==
    ASSUME NEW a \in Nat, NEW b \in Nat \ {0}
    PROVE  a \div b \in Nat /\ b * (a \div b) <= a
OBVIOUS

\* Refill loses no time and makes no tokens out of nothing.
LEMMA RefillOK ==
    ASSUME BucketOK
    PROVE  /\ Refill.tokens \in 0 .. Burst /\ Refill.at \in 1 .. now
           /\ Secs * (sent + Refill.tokens) + (now - Refill.at) <= Secs * Burst + forward
<1> DEFINE t == IF refilled_at = 0 THEN Burst
                ELSE IF now < refilled_at THEN Least(tokens, Burst) ELSE tokens
           a == IF refilled_at = 0 \/ now < refilled_at THEN now ELSE refilled_at
           n == (now - a) \div Secs
           T == IF n = 0 THEN t ELSE Least(Burst, t + n)
<1>1. Refill.tokens = T /\ Refill.at = a + n * Secs
    BY DEF Refill
<1>2. /\ tokens \in 0 .. Burst /\ refilled_at \in 0 .. MaxNow /\ now \in 1 .. MaxNow
      /\ sent \in Nat /\ forward \in Nat /\ Burst \in Nat /\ Secs \in Nat \ {0} /\ MaxNow \in Nat
    BY Constants DEF BucketOK
<1>3. t \in 0 .. Burst /\ a \in 1 .. now
    BY <1>2 DEF Least
<1>4. Secs * (sent + t) + (now - a) <= Secs * Burst + forward
    <2>1. CASE refilled_at = 0
        BY <1>2, <2>1 DEF BucketOK
    <2>2. CASE refilled_at # 0 /\ now < refilled_at
        <3>1. t = tokens /\ now - a = 0 /\ Elapsed = 0
            BY <1>2, <2>2 DEF Least, Elapsed
        <3> QED
            BY <1>2, <2>2, <3>1 DEF BucketOK
    <2>3. CASE refilled_at # 0 /\ ~(now < refilled_at)
        <3>1. t = tokens /\ now - a = Elapsed
            BY <1>2, <2>3 DEF Elapsed
        <3> QED
            BY <1>2, <2>3, <3>1 DEF BucketOK
    <2> QED
        BY <2>1, <2>2, <2>3
<1> HIDE DEF t, a
<1>5. n \in Nat /\ Secs * n <= now - a
    <2>1. now - a \in Nat
        BY <1>2, <1>3
    <2> QED
        BY <1>2, <2>1, Div
<1> HIDE DEF n
<1>6. T \in 0 .. Burst /\ T <= t + n
    BY <1>2, <1>3, <1>5 DEF Least
<1> HIDE DEF T
<1>7. Secs * (sent + T) <= Secs * (sent + t) + Secs * n
    <2>1. Secs * (sent + T) <= Secs * (sent + (t + n))
        BY <1>2, <1>3, <1>5, <1>6
    <2>2. Secs * (sent + (t + n)) = Secs * (sent + t) + Secs * n
        BY <1>2, <1>3, <1>5
    <2> QED
        BY <2>1, <2>2
<1>8. n * Secs = Secs * n /\ n * Secs \in Nat
    BY <1>2, <1>5
<1>9. a + n * Secs \in 1 .. now
    BY <1>2, <1>3, <1>5, <1>8
<1>10. Secs * (sent + T) + (now - (a + n * Secs)) <= Secs * Burst + forward
    <2> DEFINE p == Secs * (sent + T)
               q == Secs * (sent + t)
               r == Secs * n
               b == Secs * Burst
    <2>1. p \in Nat /\ q \in Nat /\ r \in Nat /\ b \in Nat
        BY <1>2, <1>3, <1>5, <1>6
    <2>2. n * Secs = r /\ p <= q + r /\ q + (now - a) <= b + forward
        BY <1>4, <1>7, <1>8
    <2> HIDE DEF p, q, r, b
    <2>3. p + (now - (a + n * Secs)) <= b + forward
        BY <1>2, <1>3, <2>1, <2>2
    <2> QED
        BY <2>3 DEF p, b
<1> QED
    BY <1>1, <1>6, <1>9, <1>10

\* Take.
LEMMA TakeOK ==
    ASSUME BucketOK, NEW n \in Nat, NEW untold \in Nat, Take(n, untold), UNCHANGED clock
    PROVE  BucketOK'
<1> DEFINE k == Through(n)
<1>1. now' = now /\ forward' = forward
    BY DEF clock
<1>2. CASE Burst = 0
    BY <1>1, <1>2 DEF Take, BucketOK, Elapsed
<1>3. CASE Burst # 0
    <2>1. /\ Refill.tokens \in 0 .. Burst /\ Refill.at \in 1 .. now
          /\ Secs * (sent + Refill.tokens) + (now - Refill.at) <= Secs * Burst + forward
        BY RefillOK
    <2> DEFINE T == Refill.tokens
               a == Refill.at
    <2>2. /\ tokens' = T - k /\ refilled_at' = a /\ sent' = sent + k
          /\ k = Least(n, T)
        BY <1>3 DEF Take, Through
    <2> HIDE DEF T, a, k
    <2>3. /\ T \in 0 .. Burst /\ a \in 1 .. now /\ now \in 1 .. MaxNow /\ sent \in Nat
          /\ Burst \in Nat /\ MaxNow \in Nat /\ forward \in 0 .. MaxForward
        BY <2>1, Constants DEF BucketOK, T, a
    <2>4. k \in Nat /\ k <= T
        BY <2>2, <2>3, LeastOf
    <2>5. sent' + tokens' = sent + T /\ sent' \in Nat /\ tokens' \in 0 .. Burst
        BY <2>2, <2>3, <2>4
    <2>6. Elapsed' = now - a
        BY <1>1, <2>2, <2>3 DEF Elapsed
    <2>7. Secs * (sent' + tokens') + Elapsed' <= Secs * Burst + forward'
        BY <1>1, <2>1, <2>5, <2>6 DEF T, a
    <2>8. refilled_at' \in 0 .. MaxNow /\ refilled_at' # 0
        BY <2>2, <2>3
    <2> QED
        BY <1>1, <2>3, <2>5, <2>7, <2>8 DEF BucketOK
<1> QED
    BY <1>2, <1>3

LEMMA ThroughOK ==
    ASSUME BucketOK, NEW n \in Nat
    PROVE  Through(n) \in 0 .. n
<1>1. Burst # 0 => Refill.tokens \in Nat
    BY RefillOK, Constants
<1> QED
    BY <1>1, LeastOf DEF Through

\* A handler that takes n lines, having written the notice of some of those
\* refused.
LEMMA CountTaken ==
    ASSUME BucketOK, CountOK, NEW n \in Nat, NEW untold \in Nat, Take(n, untold),
           reported' \in Nat, muted' \in Nat,
           reported' + muted' + untold = reported + muted + dropped
    PROVE  CountOK'
<1> DEFINE r == n - Through(n)
<1>1. r \in Nat
    BY ThroughOK
<1>2. /\ refused + r <= MaxDropped /\ refused' = refused + r /\ dropped' = untold + r
    BY DEF Take
<1> HIDE DEF r
<1>3. MaxDropped \in Nat /\ refused \in Nat /\ reported \in Nat /\ dropped \in Nat
      /\ muted \in Nat
    BY Constants DEF CountOK
<1>4. refused' \in 0 .. MaxDropped /\ dropped' \in Nat
    BY <1>1, <1>2, <1>3
<1>5. refused' = reported' + muted' + dropped'
    <2>1. refused = reported' + muted' + untold
        BY DEF CountOK
    <2> QED
        BY <1>1, <1>2, <1>3, <2>1
<1> QED
    BY <1>4, <1>5 DEF CountOK

LEMMA Later ==
    ASSUME NEW p \in Nat, NEW e \in Nat, NEW d \in Nat, NEW b \in Nat, NEW f \in Nat,
           NEW g \in Nat, p + e <= b + f, d <= e + (g - f)
    PROVE  p + d <= b + g
OBVIOUS

\* Tick, in either direction.
LEMMA TickOK ==
    ASSUME BucketOK, NEW t \in 1 .. MaxNow, Tick(t)
    PROVE  BucketOK'
<1>1. /\ now' = t /\ tokens' = tokens /\ refilled_at' = refilled_at /\ sent' = sent
      /\ forward' = forward + (IF t > now THEN t - now ELSE 0) /\ forward' <= MaxForward
    BY DEF Tick, bucket
<1>2. /\ now \in Nat /\ t \in Nat /\ refilled_at \in Nat /\ forward \in Nat
    BY Constants DEF BucketOK
<1>3. /\ forward' \in 0 .. MaxForward
      /\ Elapsed' \in Nat /\ Elapsed \in Nat /\ Elapsed' <= Elapsed + (forward' - forward)
    BY <1>1, <1>2, Constants DEF Elapsed
<1>4. ASSUME refilled_at # 0
      PROVE  Secs * (sent + tokens) + Elapsed' <= Secs * Burst + forward'
    <2> DEFINE p == Secs * (sent + tokens)
               b == Secs * Burst
    <2>1. p \in Nat /\ b \in Nat /\ p + Elapsed <= b + forward
        BY <1>4, Constants DEF BucketOK
    <2> HIDE DEF p, b
    <2>2. p + Elapsed' <= b + forward'
        <3>1. forward' \in Nat
            BY <1>3, Constants
        <3> QED
            BY <1>2, <1>3, <2>1, <3>1, Later
    <2> QED
        BY <2>2 DEF p, b
<1> QED
    BY <1>1, <1>3, <1>4 DEF BucketOK

\* What is paid for bounds what was sent.
LEMMA Paid ==
    ASSUME BucketOK PROVE sent <= Burst + forward \div Secs
<1>1. /\ sent \in Nat /\ tokens \in Nat /\ Burst \in Nat /\ Secs \in Nat \ {0} /\ forward \in Nat
    BY Constants DEF BucketOK
<1> DEFINE q == forward \div Secs
<1>2. q \in Nat /\ forward < Secs * q + Secs
    BY <1>1
<1>3. CASE refilled_at = 0
    BY <1>1, <1>2, <1>3 DEF BucketOK
<1>4. CASE refilled_at # 0
    <2>1. Secs * (sent + tokens) <= Secs * Burst + forward
        <3>1. Elapsed \in Nat
            BY DEF BucketOK, Elapsed
        <3>2. Secs * (sent + tokens) \in Nat /\ Secs * Burst \in Nat
            BY <1>1
        <3> QED
            BY <1>1, <1>4, <3>1, <3>2 DEF BucketOK
    <2>2. Secs * sent <= Secs * (sent + tokens)
        BY <1>1
    <2> HIDE DEF q
    <2>3. Secs * sent < Secs * (Burst + q + 1)
        BY <1>1, <1>2, <2>1, <2>2
    <2> QED
        BY <1>1, <1>2, <2>3 DEF q
<1> QED
    BY <1>3, <1>4

-----------------------------------------------------------------------------
(* History.                                                                *)

HistoryOK ==
    /\ entries \in [Ids -> Hashes \cup {None}]
    /\ order \in Seq(Ids) /\ Len(order) <= HistoryCap
    /\ IsInjective(order) /\ ToSet(order) = {m \in Ids : entries[m] # None}

\* Remember changes the entry of m and evicts, if anything, another one.
LEMMA RememberOK ==
    ASSUME HistoryOK, NEW m \in Ids, NEW h \in Hashes, HistoryRemember(m, h)
    PROVE  /\ HistoryOK' /\ entries'[m] = h
           /\ \A i \in Ids : i # m => entries'[i] \in {entries[i], None}
<1>1. h # None /\ HistoryCap \in Nat \ {0}
    BY RelayAssumption
<1>2. CASE entries[m] # None
    <2>1. entries' = [entries EXCEPT ![m] = h] /\ order' = order
        BY <1>2 DEF HistoryRemember
    <2> QED
        BY <1>1, <1>2, <2>1 DEF HistoryOK
<1>3. CASE entries[m] = None
    <2> DEFINE o == Append(order, m)
    <2>1. m \notin ToSet(order)
        BY <1>3 DEF HistoryOK
    <2>2. /\ o \in Seq(Ids) /\ Len(o) = Len(order) + 1 /\ Len(order) \in Nat /\ IsInjective(o)
          /\ ToSet(o) = ToSet(order) \cup {m} /\ (order # << >> => Head(o) = Head(order))
        BY <2>1, AppendNew DEF HistoryOK
    <2>3. IF Len(o) > HistoryCap
          THEN /\ entries' = [[entries EXCEPT ![m] = h] EXCEPT ![Head(o)] = None]
               /\ order' = Tail(o)
          ELSE entries' = [entries EXCEPT ![m] = h] /\ order' = o
        BY <1>3 DEF HistoryRemember
    <2> HIDE DEF o
    <2>4. CASE Len(o) > HistoryCap
        <3>1. order # << >> /\ o # << >>
            BY <1>1, <2>2, <2>4
        <3>2. /\ Tail(o) \in Seq(Ids) /\ Len(Tail(o)) = Len(o) - 1 /\ Head(o) \in ToSet(o)
              /\ IsInjective(Tail(o)) /\ ToSet(Tail(o)) = ToSet(o) \ {Head(o)}
            BY <2>2, <3>1, TailLess
        <3>3. Head(order) \in ToSet(order)
            BY <3>1, TailLess DEF HistoryOK
        <3>4. Head(o) \in Ids /\ Head(o) # m
            BY <2>1, <2>2, <3>1, <3>3 DEF HistoryOK
        <3>5. /\ entries' \in [Ids -> Hashes \cup {None}] /\ entries'[m] = h
              /\ \A i \in Ids : i # m => entries'[i] = IF i = Head(o) THEN None ELSE entries[i]
            BY <2>3, <2>4, <3>4 DEF HistoryOK
        <3>6. Len(order') <= HistoryCap
            BY <2>2, <2>3, <2>4, <3>2, Constants DEF HistoryOK
        <3>7. ToSet(order') = {i \in Ids : entries'[i] # None}
            BY <1>1, <2>2, <2>3, <2>4, <3>2, <3>4, <3>5 DEF HistoryOK
        <3> QED
            BY <2>3, <2>4, <3>2, <3>5, <3>6, <3>7 DEF HistoryOK
    <2>5. CASE ~(Len(o) > HistoryCap)
        <3>1. /\ entries' \in [Ids -> Hashes \cup {None}] /\ entries'[m] = h
              /\ \A i \in Ids : i # m => entries'[i] = entries[i]
            BY <2>3, <2>5 DEF HistoryOK
        <3>2. ToSet(order') = {i \in Ids : entries'[i] # None}
            BY <1>1, <2>2, <2>3, <2>5, <3>1 DEF HistoryOK
        <3> QED
            BY <1>1, <2>2, <2>3, <2>5, <3>1, <3>2 DEF HistoryOK
    <2> QED
        BY <2>4, <2>5
<1> QED
    BY <1>2, <1>3

\* Forget.
LEMMA ForgetOK ==
    ASSUME HistoryOK, NEW m \in Ids, entries[m] # None, HistoryForget(m)
    PROVE  HistoryOK' /\ \A i \in Ids : entries'[i] = IF i = m THEN None ELSE entries[i]
<1>1. m \in ToSet(order) /\ Len(order) \in Nat
    BY DEF HistoryOK
<1>2. /\ RemoveFirst(order, m) \in Seq(Ids) /\ Len(RemoveFirst(order, m)) = Len(order) - 1
      /\ IsInjective(RemoveFirst(order, m))
      /\ ToSet(RemoveFirst(order, m)) = ToSet(order) \ {m}
    BY <1>1, RemoveLess DEF HistoryOK
<1>3. entries' = [entries EXCEPT ![m] = None] /\ order' = RemoveFirst(order, m)
    BY DEF HistoryForget
<1>4. Len(order') <= HistoryCap
    BY <1>1, <1>2, <1>3, Constants DEF HistoryOK
<1> QED
    BY <1>2, <1>3, <1>4 DEF HistoryOK

-----------------------------------------------------------------------------
(* Links.                                                                  *)

IrcMap    == [Lines -> 1 .. MaxPosts \cup {None}]
RemoteMap == [Remotes -> Lines \cup {None}]
Mutual(f, g) == \A l \in Lines, r \in 1 .. MaxPosts : f[l] = r <=> g[r] = l

\* Beside the maps and the queue: no post in flight has a link yet, because
\* Discord numbers every post afresh.  Without that, a link could be made on an
\* id that another line already has.
LinksOK ==
    /\ by_irc \in IrcMap /\ by_remote \in RemoteMap /\ Mutual(by_irc, by_remote)
    /\ lorder \in Seq(Lines) /\ Len(lorder) <= LinksCap
    /\ IsInjective(lorder) /\ ToSet(lorder) = {l \in Lines : by_irc[l] # None}
    /\ posts \in 0 .. MaxPosts /\ inflight \subseteq Lines \X (1 .. posts)
    /\ \A r \in Remotes : by_remote[r] # None => r \in 1 .. posts
    /\ \A p \in inflight : by_remote[p[2]] = None
    /\ \A p, q \in inflight : p[2] = q[2] => p = q

LEMMA NoneIsNone == None \notin Lines /\ None \notin Nat
BY RelayAssumption

\* A link between two free ends.
LEMMA LinkUp ==
    ASSUME NEW f \in IrcMap, NEW g \in RemoteMap, Mutual(f, g),
           NEW l \in Lines, NEW r \in 1 .. MaxPosts, f[l] = None, g[r] = None
    PROVE  /\ [f EXCEPT ![l] = r] \in IrcMap /\ [g EXCEPT ![r] = l] \in RemoteMap
           /\ Mutual([f EXCEPT ![l] = r], [g EXCEPT ![r] = l])
<1> DEFINE F == [f EXCEPT ![l] = r]
           G == [g EXCEPT ![r] = l]
<1>1. /\ F \in IrcMap /\ F[l] = r /\ \A k \in Lines : k # l => F[k] = f[k]
      /\ \A k \in Lines : F[k] = None => k # l
    BY NoneIsNone DEF IrcMap
<1>2. G \in RemoteMap /\ G[r] = l /\ \A k \in 1 .. MaxPosts : k # r => G[k] = g[k]
    BY DEF RemoteMap, Remotes
<1> HIDE DEF F, G
<1>3. ASSUME NEW k \in Lines, NEW q \in 1 .. MaxPosts PROVE F[k] = q <=> G[q] = k
    BY <1>1, <1>2, NoneIsNone DEF Mutual
<1> QED
    BY <1>1, <1>2, <1>3 DEF Mutual, F, G

\* Both halves of a link go together.
LEMMA LinkDown ==
    ASSUME NEW f \in IrcMap, NEW g \in RemoteMap, Mutual(f, g), NEW l \in Lines, f[l] # None
    PROVE  LET d == Drop(f, g, l)
           IN  /\ d.irc \in IrcMap /\ d.remote \in RemoteMap /\ Mutual(d.irc, d.remote)
               /\ \A k \in Lines : d.irc[k] = IF k = l THEN None ELSE f[k]
               /\ \A r \in Remotes : d.remote[r] \in {g[r], None}
<1> DEFINE r == f[l]
           F == [f EXCEPT ![l] = None]
           G == [g EXCEPT ![r] = None]
<1>1. r \in 1 .. MaxPosts /\ g[r] = l
    BY DEF IrcMap, Mutual
<1>2. Drop(f, g, l) = [irc |-> F, remote |-> G]
    BY DEF Drop
<1>3. F \in IrcMap /\ \A k \in Lines : F[k] = IF k = l THEN None ELSE f[k]
    BY DEF IrcMap
<1> HIDE DEF r
<1>4. G \in RemoteMap /\ \A q \in Remotes : G[q] = IF q = r THEN None ELSE g[q]
    BY <1>1 DEF RemoteMap
<1>5. \A q \in 1 .. MaxPosts : q \in Remotes
    BY DEF Remotes
<1>6. \A q \in 1 .. MaxPosts : f[l] = q <=> q = r
    BY DEF r
<1> HIDE DEF F, G
<1>7. ASSUME NEW k \in Lines, NEW q \in 1 .. MaxPosts PROVE F[k] = q <=> G[q] = k
    BY <1>1, <1>3, <1>4, <1>5, <1>6, <1>7, NoneIsNone DEF Mutual
<1> QED
    BY <1>2, <1>3, <1>4, <1>7 DEF Mutual

\* What remains to be said of LinksOK' once the maps and the queue are right.
LEMMA RestOfLinks ==
    ASSUME LinksOK, NEW p \in inflight, posts' = posts, inflight' = inflight \ {p},
           by_remote' \in RemoteMap,
           \A r \in Remotes : r # p[2] => by_remote'[r] \in {by_remote[r], None}
    PROVE  /\ posts' \in 0 .. MaxPosts /\ inflight' \subseteq Lines \X (1 .. posts')
           /\ \A r \in Remotes : by_remote'[r] # None => r \in 1 .. posts'
           /\ \A q \in inflight' : by_remote'[q[2]] = None
           /\ \A q, w \in inflight' : q[2] = w[2] => q = w
<1>1. /\ posts \in 0 .. MaxPosts /\ inflight \subseteq Lines \X (1 .. posts)
      /\ \A r \in Remotes : by_remote[r] # None => r \in 1 .. posts
      /\ \A q \in inflight : by_remote[q[2]] = None
      /\ \A q, w \in inflight : q[2] = w[2] => q = w
    BY DEF LinksOK
<1>2. p[2] \in 1 .. posts
    BY <1>1
<1>3. ASSUME NEW q \in inflight' PROVE by_remote'[q[2]] = None
    <2>1. q \in inflight /\ q # p
        OBVIOUS
    <2>2. q[2] # p[2] /\ q[2] \in 1 .. posts
        BY <1>1, <2>1
    <2>3. q[2] \in Remotes
        BY <1>1, <2>2, Constants DEF Remotes
    <2> QED
        BY <1>1, <2>1, <2>2, <2>3
<1>4. \A r \in Remotes : by_remote'[r] # None => r \in 1 .. posts'
    BY <1>1, <1>2
<1> QED
    BY <1>1, <1>3, <1>4

\* Links::Remember: an old link of the line goes, then the oldest one.
LEMMA RememberLinkOK ==
    ASSUME LinksOK, NEW p \in inflight, RememberLink(p)
    PROVE  LinksOK'
<1> DEFINE l == p[1]
           r == p[2]
           a == Drop(by_irc, by_remote, l)
           f == [a.irc EXCEPT ![l] = r]
           g == [a.remote EXCEPT ![r] = l]
           o == IF by_irc[l] # None THEN lorder ELSE Append(lorder, l)
           b == Drop(f, g, Head(o))
<1>1. /\ by_irc \in IrcMap /\ by_remote \in RemoteMap /\ Mutual(by_irc, by_remote)
      /\ lorder \in Seq(Lines) /\ Len(lorder) <= LinksCap /\ Len(lorder) \in Nat
      /\ IsInjective(lorder) /\ ToSet(lorder) = {k \in Lines : by_irc[k] # None}
      /\ l \in Lines /\ r \in 1 .. posts /\ posts \in 0 .. MaxPosts /\ by_remote[r] = None
    BY DEF LinksOK
<1>2. r \in 1 .. MaxPosts /\ r \in Remotes
    BY <1>1, Constants DEF Remotes
<1>3. /\ posts' = posts /\ inflight' = inflight \ {p}
      /\ IF Len(o) > LinksCap
         THEN by_irc' = b.irc /\ by_remote' = b.remote /\ lorder' = Tail(o)
         ELSE by_irc' = f /\ by_remote' = g /\ lorder' = o
    BY DEF RememberLink, LinksRemember
<1>4. /\ a.irc \in IrcMap /\ a.remote \in RemoteMap /\ Mutual(a.irc, a.remote) /\ a.irc[l] = None
      /\ \A k \in Lines : k # l => a.irc[k] = by_irc[k]
      /\ \A q \in Remotes : a.remote[q] \in {by_remote[q], None}
    <2>1. CASE by_irc[l] = None
        <3>1. a = [irc |-> by_irc, remote |-> by_remote]
            BY <2>1 DEF Drop
        <3> HIDE DEF a
        <3> QED
            BY <1>1, <2>1, <3>1
    <2>2. CASE by_irc[l] # None
        <3>1. /\ a.irc \in IrcMap /\ a.remote \in RemoteMap /\ Mutual(a.irc, a.remote)
              /\ \A k \in Lines : a.irc[k] = IF k = l THEN None ELSE by_irc[k]
              /\ \A q \in Remotes : a.remote[q] \in {by_remote[q], None}
            BY <1>1, <2>2, LinkDown
        <3> HIDE DEF a
        <3> QED
            BY <1>1, <3>1
    <2> QED
        BY <2>1, <2>2
<1> HIDE DEF a
<1>5. /\ f \in IrcMap /\ g \in RemoteMap /\ Mutual(f, g)
      /\ f[l] = r /\ \A k \in Lines : k # l => f[k] = by_irc[k]
      /\ \A q \in Remotes : q # r => g[q] \in {by_remote[q], None}
    <2>1. a.remote[r] = None
        BY <1>1, <1>2, <1>4
    <2>2. f \in IrcMap /\ g \in RemoteMap /\ Mutual(f, g)
        BY <1>1, <1>2, <1>4, <2>1, LinkUp
    <2>3. f[l] = r /\ \A k \in Lines : k # l => f[k] = by_irc[k]
        BY <1>1, <1>4 DEF IrcMap
    <2>4. \A q \in Remotes : q # r => g[q] \in {by_remote[q], None}
        BY <1>4 DEF RemoteMap
    <2> QED
        BY <2>2, <2>3, <2>4
<1> HIDE DEF f, g
<1>6. /\ o \in Seq(Lines) /\ IsInjective(o) /\ ToSet(o) = {k \in Lines : f[k] # None}
      /\ Len(o) > LinksCap => o # << >> /\ Head(o) # l
      /\ Len(o) \in Nat /\ Len(o) <= LinksCap + 1
    <2>1. f[l] # None
        BY <1>2, <1>5, NoneIsNone
    <2>2. CASE by_irc[l] # None
        <3>1. o = lorder
            BY <2>2
        <3> HIDE DEF o
        <3>2. ToSet(o) = {k \in Lines : f[k] # None}
            BY <1>1, <1>5, <2>1, <2>2, <3>1
        <3> QED
            BY <1>1, <3>1, <3>2, Constants
    <2>3. CASE by_irc[l] = None
        <3>1. o = Append(lorder, l) /\ l \notin ToSet(lorder)
            BY <1>1, <2>3
        <3> HIDE DEF o
        <3>2. /\ o \in Seq(Lines) /\ Len(o) = Len(lorder) + 1
              /\ IsInjective(o) /\ ToSet(o) = ToSet(lorder) \cup {l}
              /\ lorder # << >> => Head(o) = Head(lorder)
            BY <1>1, <3>1, AppendNew
        <3>3. ToSet(o) = {k \in Lines : f[k] # None}
            BY <1>1, <1>5, <2>1, <3>2
        <3>4. ASSUME Len(o) > LinksCap PROVE o # << >> /\ Head(o) # l
            <4>1. lorder # << >>
                BY <1>1, <3>2, <3>4, Constants
            <4>2. Head(lorder) \in ToSet(lorder)
                BY <1>1, <4>1, TailLess
            <4> QED
                BY <3>1, <3>2, <4>1, <4>2
        <3> QED
            BY <1>1, <3>2, <3>3, <3>4, Constants
    <2> QED
        BY <2>2, <2>3
<1> HIDE DEF o, l, r
<1>7. /\ by_irc' \in IrcMap /\ by_remote' \in RemoteMap /\ Mutual(by_irc', by_remote')
      /\ lorder' \in Seq(Lines) /\ Len(lorder') <= LinksCap
      /\ IsInjective(lorder') /\ ToSet(lorder') = {k \in Lines : by_irc'[k] # None}
      /\ \A q \in Remotes : q # r => by_remote'[q] \in {by_remote[q], None}
    <2>1. CASE Len(o) > LinksCap
        <3> DEFINE h == Head(o)
        <3>1. /\ Tail(o) \in Seq(Lines) /\ Len(Tail(o)) = Len(o) - 1 /\ h \in ToSet(o)
              /\ IsInjective(Tail(o)) /\ ToSet(Tail(o)) = ToSet(o) \ {h}
            BY <1>6, <2>1, TailLess
        <3>2. h \in Lines /\ f[h] # None
            BY <1>6, <3>1
        <3>3. b = Drop(f, g, h)
            OBVIOUS
        <3> HIDE DEF b, h
        <3>4. /\ b.irc \in IrcMap /\ b.remote \in RemoteMap /\ Mutual(b.irc, b.remote)
              /\ \A k \in Lines : b.irc[k] = IF k = h THEN None ELSE f[k]
              /\ \A q \in Remotes : b.remote[q] \in {g[q], None}
            BY <1>5, <3>2, <3>3, LinkDown
        <3>5. by_irc' = b.irc /\ by_remote' = b.remote /\ lorder' = Tail(o)
            BY <1>3, <2>1
        <3>6. Len(lorder') <= LinksCap
            BY <1>6, <3>1, <3>5, Constants
        <3>7. ToSet(lorder') = {k \in Lines : by_irc'[k] # None}
            BY <1>6, <3>1, <3>4, <3>5
        <3>8. \A q \in Remotes : q # r => by_remote'[q] \in {by_remote[q], None}
            BY <1>5, <3>4, <3>5
        <3> QED
            BY <3>1, <3>4, <3>5, <3>6, <3>7, <3>8
    <2>2. CASE ~(Len(o) > LinksCap)
        <3>1. by_irc' = f /\ by_remote' = g /\ lorder' = o
            BY <1>3, <2>2
        <3>2. Len(lorder') <= LinksCap
            BY <1>6, <2>2, <3>1, Constants
        <3> QED
            BY <1>5, <1>6, <3>1, <3>2
    <2> QED
        BY <2>1, <2>2
<1>8. /\ posts' \in 0 .. MaxPosts /\ inflight' \subseteq Lines \X (1 .. posts')
      /\ \A q \in Remotes : by_remote'[q] # None => q \in 1 .. posts'
      /\ \A q \in inflight' : by_remote'[q[2]] = None
      /\ \A q, w \in inflight' : q[2] = w[2] => q = w
    BY <1>3, <1>7, RestOfLinks DEF r
<1> QED
    BY <1>7, <1>8 DEF LinksOK, Mutual, IrcMap, RemoteMap, Remotes

\* A post that failed makes no link.
LEMMA PostFailsOK ==
    ASSUME LinksOK, NEW p \in inflight, PostFails(p)
    PROVE  LinksOK'
<1>1. /\ posts' = posts /\ inflight' = inflight \ {p}
      /\ by_irc' = by_irc /\ by_remote' = by_remote /\ lorder' = lorder
    BY DEF PostFails, links
<1>2. /\ posts' \in 0 .. MaxPosts /\ inflight' \subseteq Lines \X (1 .. posts')
      /\ \A q \in Remotes : by_remote'[q] # None => q \in 1 .. posts'
      /\ \A q \in inflight' : by_remote'[q[2]] = None
      /\ \A q, w \in inflight' : q[2] = w[2] => q = w
    <2>1. by_remote' \in RemoteMap
        BY <1>1 DEF LinksOK
    <2> QED
        BY <1>1, <2>1, RestOfLinks
<1> QED
    BY <1>1, <1>2 DEF LinksOK, Mutual, IrcMap, RemoteMap, Remotes

\* A new post has a number of its own.
LEMMA RelayLineOK ==
    ASSUME LinksOK, NEW l \in Lines, RelayLine(l)
    PROVE  LinksOK'
<1>1. /\ posts' = posts + 1 /\ inflight' = inflight \cup {<<l, posts + 1>>}
      /\ posts \in 0 .. MaxPosts /\ posts < MaxPosts /\ inflight \subseteq Lines \X (1 .. posts)
      /\ by_irc' = by_irc /\ by_remote' = by_remote /\ lorder' = lorder
    BY DEF RelayLine, links, LinksOK
<1>2. posts + 1 \in 1 .. MaxPosts /\ posts + 1 \in Remotes /\ posts + 1 \notin 1 .. posts
    BY <1>1, Constants DEF Remotes
<1>3. inflight' \subseteq Lines \X (1 .. posts')
    <2>1. \A i \in 1 .. posts : i \in 1 .. posts + 1
        BY <1>1
    <2>2. posts + 1 \in 1 .. posts + 1
        BY <1>1
    <2> QED
        BY <1>1, <2>1, <2>2
<1>4. by_remote'[posts + 1] = None
    BY <1>1, <1>2 DEF LinksOK
<1>5. \A q \in inflight' : by_remote'[q[2]] = None
    BY <1>1, <1>4 DEF LinksOK
<1>6. ASSUME NEW q \in inflight', NEW w \in inflight', q[2] = w[2] PROVE q = w
    <2>1. \A x \in inflight : x[2] # posts + 1
        BY <1>1, <1>2
    <2> QED
        BY <1>1, <1>6, <2>1 DEF LinksOK
<1>7. \A r \in Remotes : by_remote'[r] # None => r \in 1 .. posts'
    BY <1>1 DEF LinksOK
<1>8. posts' \in 0 .. MaxPosts
    BY <1>1, Constants
<1> QED
    BY <1>1, <1>3, <1>5, <1>6, <1>7, <1>8 DEF LinksOK, Mutual, IrcMap, RemoteMap, Remotes

LEMMA LinksKept ==
    ASSUME LinksOK, UNCHANGED <<links, discord>> PROVE LinksOK'
BY DEF LinksOK, links, discord, Mutual, IrcMap, RemoteMap, Remotes

-----------------------------------------------------------------------------
(* What IRC saw.                                                           *)

ShownOK ==
    /\ uplink \in {"up", "down"} /\ unsent \subseteq Ids
    /\ shown \in [Ids -> Hashes \cup {None}]
    /\ \A m \in ToSet(order) \ unsent : shown[m] = entries[m]

\* Only a message of which a line got through is remembered, and then as it
\* was written.
LEMMA WriteShown ==
    ASSUME BucketOK, HistoryOK, ShownOK, NEW m \in Ids, NEW h \in Hashes,
           NEW n \in Nat, NEW bi \in BOOLEAN, Write(m, h, n, bi)
    PROVE  HistoryOK' /\ ShownOK'
<1> DEFINE k == Through(n)
<1>1. k \in Nat
    BY ThroughOK
<1>2. /\ IF k > 0 THEN HistoryRemember(m, h) ELSE UNCHANGED history
      /\ shown' = IF k > 0 /\ uplink = "up" THEN [shown EXCEPT ![m] = h] ELSE shown
      /\ unsent' = IF k = 0 THEN unsent
                   ELSE IF uplink = "up" THEN unsent \ {m} ELSE unsent \cup {m}
      /\ uplink' = uplink
    BY DEF Write, Reached, Uplink
<1> HIDE DEF k
<1>3. CASE k = 0
    BY <1>2, <1>3 DEF HistoryOK, ShownOK, history
<1>4. CASE k > 0
    <2>1. /\ HistoryOK' /\ entries'[m] = h
          /\ \A i \in Ids : i # m => entries'[i] \in {entries[i], None}
        BY <1>2, <1>4, RememberOK
    <2>2. /\ uplink' \in {"up", "down"} /\ unsent' \subseteq Ids
          /\ shown' \in [Ids -> Hashes \cup {None}]
          /\ \A i \in Ids : i # m => shown'[i] = shown[i] /\ (i \in unsent' <=> i \in unsent)
          /\ m \in unsent' \/ shown'[m] = h
        BY <1>1, <1>2, <1>4 DEF ShownOK
    <2>3. ASSUME NEW i \in ToSet(order') \ unsent' PROVE shown'[i] = entries'[i]
        <3>1. i \in Ids /\ entries'[i] # None
            BY <2>1 DEF HistoryOK
        <3>2. CASE i = m
            BY <2>1, <2>2, <2>3, <3>2
        <3>3. CASE i # m
            <4>1. entries'[i] = entries[i] /\ i \in ToSet(order) \ unsent
                BY <2>1, <2>2, <2>3, <3>1, <3>3 DEF HistoryOK
            <4> QED
                BY <2>2, <3>1, <3>3, <4>1 DEF ShownOK
        <3> QED
            BY <3>2, <3>3
    <2> QED
        BY <2>1, <2>2, <2>3 DEF ShownOK
<1> QED
    BY <1>1, <1>3, <1>4

LEMMA DeleteShown ==
    ASSUME HistoryOK, ShownOK, NEW m \in Ids, RelayDelete(m)
    PROVE  HistoryOK' /\ ShownOK'
<1>1. /\ entries[m] # None /\ HistoryForget(m)
      /\ uplink' = uplink /\ shown' = shown /\ unsent' = unsent
    BY DEF RelayDelete, irc
<1>2. HistoryOK' /\ \A i \in Ids : entries'[i] = IF i = m THEN None ELSE entries[i]
    BY <1>1, ForgetOK
<1>3. ASSUME NEW i \in ToSet(order') \ unsent' PROVE shown'[i] = entries'[i]
    <2>1. i \in Ids /\ entries'[i] # None
        BY <1>2 DEF HistoryOK
    <2>2. entries'[i] = entries[i] /\ i \in ToSet(order) \ unsent
        BY <1>1, <1>2, <2>1 DEF HistoryOK
    <2> QED
        BY <1>1, <2>2 DEF ShownOK
<1> QED
    BY <1>1, <1>2, <1>3 DEF ShownOK

-----------------------------------------------------------------------------
(* The inductive invariant.                                                *)

IInv == BucketOK /\ CountOK /\ HistoryOK /\ ShownOK /\ LinksOK

\* The members of Write's Take, told or untold.
LEMMA WriteCounts ==
    ASSUME BucketOK, CountOK, NEW m \in Ids, NEW h \in Hashes,
           NEW n \in Nat, NEW bi \in BOOLEAN, Write(m, h, n, bi)
    PROVE  BucketOK' /\ CountOK'
<1> DEFINE told == Through(n) > 0 /\ bi
           untold == Untold(Through(n), bi)
<1>1. untold = IF told THEN 0 ELSE dropped
    BY DEF Untold
<1>2. /\ Take(n, untold) /\ UNCHANGED clock
      /\ Notice(Through(n), bi)
    BY DEF Write
<1>a. \/ reported' = reported + (IF told THEN dropped ELSE 0) /\ muted' = muted
      \/ reported' = reported /\ muted' = muted + (IF told THEN dropped ELSE 0)
    BY <1>2 DEF Notice
<1> HIDE DEF told, untold
<1>3. /\ untold \in Nat /\ reported' \in Nat /\ muted' \in Nat
      /\ reported' + muted' + untold = reported + muted + dropped
    BY <1>1, <1>a DEF CountOK
<1> QED
    BY <1>2, <1>3, TakeOK, CountTaken

LEMMA BucketKept ==
    ASSUME BucketOK, CountOK, UNCHANGED <<bucket, clock>> PROVE BucketOK' /\ CountOK'
BY DEF BucketOK, CountOK, Elapsed, bucket, clock

LEMMA HistoryKept ==
    ASSUME HistoryOK, ShownOK, UNCHANGED <<history, irc>> PROVE HistoryOK' /\ ShownOK'
BY DEF HistoryOK, ShownOK, history, irc

LEMMA Start == ASSUME Init PROVE IInv
<1>1. BucketOK /\ CountOK
    BY Constants DEF Init, BucketOK, CountOK, Elapsed
<1>2. IsInjective(<< >>) /\ ToSet(<< >>) = {} /\ Len(<< >>) = 0
    BY DEF IsInjective, ToSet
<1>3. HistoryOK
    BY <1>2, Constants DEF Init, HistoryOK
<1>4. ShownOK
    BY <1>2 DEF Init, ShownOK
<1>5. LinksOK
    <2>1. \A l \in Lines, r \in 1 .. MaxPosts : l # None /\ r # None /\ r \in Remotes
        BY NoneIsNone DEF Remotes
    <2>2. Mutual(by_irc, by_remote)
        BY <2>1 DEF Init, Mutual
    <2> QED
        BY <1>2, <2>2, Constants DEF Init, LinksOK, IrcMap, RemoteMap
<1> QED
    BY <1>1, <1>3, <1>4, <1>5 DEF IInv

LEMMA Step == ASSUME IInv, [Next]_vars PROVE IInv'
<1> USE DEF IInv
<1>1. ASSUME NEW m \in Ids, NEW h \in Hashes, NEW n \in 1 .. MaxLines, NEW bi \in BOOLEAN,
             Message(m, h, n, bi) \/ Edit(m, h, n, bi)
      PROVE  IInv'
    <2>1. Write(m, h, n, bi) /\ n \in Nat
        BY <1>1, RelayAssumption DEF Message, Edit
    <2>2. UNCHANGED <<links, discord>>
        BY <2>1 DEF Write
    <2> QED
        BY <2>1, <2>2, WriteCounts, WriteShown, LinksKept
<1>2. ASSUME NEW m \in Ids, RelayDelete(m) PROVE IInv'
    <2>1. UNCHANGED <<bucket, clock, links, discord>>
        BY <1>2 DEF RelayDelete
    <2> QED
        BY <1>2, <2>1, BucketKept, DeleteShown, LinksKept
<1>3. CASE Reaction
    <2>1. /\ Take(1, dropped) /\ reported' = reported /\ muted' = muted
          /\ dropped \in Nat /\ reported \in Nat /\ muted \in Nat
        BY <1>3 DEF Reaction, CountOK
    <2>2. UNCHANGED clock /\ UNCHANGED <<history, irc>> /\ UNCHANGED <<links, discord>>
        BY <1>3 DEF Reaction
    <2>3. BucketOK' /\ CountOK'
        BY <2>1, <2>2, TakeOK, CountTaken
    <2> QED
        BY <2>2, <2>3, HistoryKept, LinksKept
<1>4. ASSUME NEW l \in Lines, RelayLine(l) PROVE IInv'
    <2>1. UNCHANGED <<bucket, clock>> /\ UNCHANGED <<history, irc>>
        BY <1>4 DEF RelayLine
    <2> QED
        BY <1>4, <2>1, BucketKept, HistoryKept, RelayLineOK
<1>5. ASSUME NEW p \in inflight, RememberLink(p) PROVE IInv'
    <2>1. UNCHANGED <<bucket, clock>> /\ UNCHANGED <<history, irc>>
        BY <1>5 DEF RememberLink
    <2> QED
        BY <1>5, <2>1, BucketKept, HistoryKept, RememberLinkOK
<1>6. ASSUME NEW p \in inflight, PostFails(p) PROVE IInv'
    <2>1. UNCHANGED <<bucket, clock>> /\ UNCHANGED <<history, irc>>
        BY <1>6 DEF PostFails
    <2> QED
        BY <1>6, <2>1, BucketKept, HistoryKept, PostFailsOK
<1>7. ASSUME NEW t \in 1 .. MaxNow, Tick(t) PROVE IInv'
    <2>1. UNCHANGED <<history, irc>> /\ UNCHANGED <<links, discord>> /\ UNCHANGED bucket
        BY <1>7 DEF Tick
    <2>2. CountOK'
        BY <2>1 DEF CountOK, bucket
    <2> QED
        BY <1>7, <2>1, <2>2, TickOK, HistoryKept, LinksKept
<1>8. CASE UplinkChanges
    <2>1. /\ UNCHANGED <<bucket, clock>> /\ UNCHANGED <<links, discord>> /\ UNCHANGED history
          /\ uplink' \in {"up", "down"} /\ shown' = shown /\ unsent' = unsent
        BY <1>8 DEF UplinkChanges
    <2>2. HistoryOK' /\ ShownOK'
        BY <2>1 DEF HistoryOK, ShownOK, history
    <2> QED
        BY <2>1, <2>2, BucketKept, LinksKept
<1>9. CASE UNCHANGED vars
    <2>1. /\ UNCHANGED <<bucket, clock>> /\ UNCHANGED <<history, irc>>
          /\ UNCHANGED <<links, discord>>
        BY <1>9 DEF vars
    <2> QED
        BY <2>1, BucketKept, HistoryKept, LinksKept
<1> QED
    BY <1>1, <1>2, <1>3, <1>4, <1>5, <1>6, <1>7, <1>8, <1>9 DEF Next

\* Every reachable state satisfies the inductive invariant.
THEOREM Inductive == Spec => []IInv
<1>1. Init => IInv
    BY Start
<1>2. IInv /\ [Next]_vars => IInv'
    BY Step
<1> QED
    BY <1>1, <1>2, PTL DEF Spec

\* The types: the bucket holds what it may, and neither memory outgrows its
\* capacity (TokenBucket, History and Links in relay.h).
THEOREM TypeCorrect == Spec => []TypeOK
<1>1. IInv => TypeOK
    <2> SUFFICES ASSUME IInv PROVE TypeOK
        OBVIOUS
    <2>1. /\ tokens \in 0 .. Burst /\ refilled_at \in 0 .. MaxNow /\ now \in 1 .. MaxNow
          /\ sent \in Nat /\ forward \in 0 .. MaxForward
        BY DEF IInv, BucketOK
    <2>2. /\ dropped \in 0 .. MaxDropped /\ reported \in Nat /\ muted \in Nat
          /\ refused \in 0 .. MaxDropped
        BY Constants DEF IInv, CountOK
    <2>3. order \in BoundedSeq(Ids, HistoryCap) /\ entries \in [Ids -> Hashes \cup {None}]
        BY Bounded, Constants DEF IInv, HistoryOK
    <2>4. lorder \in BoundedSeq(Lines, LinksCap)
        BY Bounded, Constants DEF IInv, LinksOK
    <2>5. /\ by_irc \in [Lines -> 1 .. MaxPosts \cup {None}]
          /\ by_remote \in [Remotes -> Lines \cup {None}]
        BY DEF IInv, LinksOK, IrcMap, RemoteMap
    <2>6. inflight \subseteq Lines \X (1 .. MaxPosts) /\ posts \in 0 .. MaxPosts
        <3>1. posts \in 0 .. MaxPosts /\ inflight \subseteq Lines \X (1 .. posts)
            BY DEF IInv, LinksOK
        <3>2. \A i \in 1 .. posts : i \in 1 .. MaxPosts
            BY <3>1, Constants
        <3> QED
            BY <3>1, <3>2
    <2>7. /\ uplink \in {"up", "down"} /\ shown \in [Ids -> Hashes \cup {None}]
          /\ unsent \subseteq Ids
        BY DEF IInv, ShownOK
    <2> QED
        BY <2>1, <2>2, <2>3, <2>4, <2>5, <2>6, <2>7 DEF TypeOK
<1> QED
    BY <1>1, Inductive, PTL

\* The eviction queue of History is exact, and what is remembered is what IRC
\* saw last.
THEOREM HistoryIsExact == Spec => []HistoryExact
<1>1. IInv => HistoryExact
    BY DEF IInv, HistoryOK, ShownOK, HistoryExact
<1> QED
    BY <1>1, Inductive, PTL

\* The maps of Links stay inverse to each other, whatever the order in which
\* Discord answers, and an id survives the way there and back.
THEOREM LinksAreExact == Spec => []LinksExact
<1>1. IInv => LinksExact
    <2> SUFFICES ASSUME IInv PROVE LinksExact
        OBVIOUS
    <2>1. /\ by_irc \in IrcMap /\ by_remote \in RemoteMap /\ Mutual(by_irc, by_remote)
          /\ \A r \in Remotes : by_remote[r] # None => r \in 1 .. posts
          /\ posts \in 0 .. MaxPosts
        BY DEF IInv, LinksOK
    <2>2. ASSUME NEW r \in Remotes PROVE RemoteIdFor(IrcIdFor(r)) = r
        <3>1. CASE by_remote[r] # None /\ by_irc[by_remote[r]] # None
            <4>1. by_remote[r] \in Lines /\ r \in 1 .. MaxPosts
                BY <2>1, <3>1, Constants DEF RemoteMap
            <4>2. by_irc[by_remote[r]] = r
                BY <2>1, <4>1 DEF Mutual
            <4> QED
                BY <3>1, <4>2 DEF IrcIdFor, RemoteIdFor, Irc
        <3>2. CASE ~(by_remote[r] # None /\ by_irc[by_remote[r]] # None)
            BY <3>2 DEF IrcIdFor, RemoteIdFor, Dc
        <3> QED
            BY <3>1, <3>2
    <2>3. ASSUME NEW l \in Lines, by_irc[l] # None
          PROVE  IrcIdFor(RemoteIdFor(Irc(l))) = Irc(l)
        <3>1. by_irc[l] \in 1 .. MaxPosts /\ by_remote[by_irc[l]] = l
            BY <2>1, <2>3 DEF IrcMap, Mutual
        <3>2. RemoteIdFor(Irc(l)) = by_irc[l]
            BY DEF RemoteIdFor, Irc
        <3> QED
            BY <2>3, <3>1, <3>2, NoneIsNone DEF IrcIdFor
    <2> QED
        BY <2>1, <2>2, <2>3 DEF IInv, LinksOK, LinksExact, Mutual
<1> QED
    BY <1>1, Inductive, PTL

\* The flood limit holds whatever the clock does, and a refused line leaves the
\* count only with a notice, which is lost only for want of a connection
\* (Take and RelayToIrc in bridgeserv.cpp, Uplink::SendInternal).
THEOREM FloodIsBounded == Spec => []FloodBound
<1>1. IInv => FloodBound
    BY Paid DEF IInv, CountOK, FloodBound
<1> QED
    BY <1>1, Inductive, PTL
=============================================================================
