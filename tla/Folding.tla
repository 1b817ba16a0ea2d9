------------------------------ MODULE Folding ------------------------------
(***************************************************************************)
(* Facts about FoldLeft for the proofs of the modules that use it.  Queues *)
(* of answers, rosters and lists of clients are handled one element after  *)
(* the other in the code, and the models fold the handler of one element   *)
(* over the sequence.  A fold is a recursive function on the subsets of    *)
(* the sequence's domain; it is shown that there is one, and what its      *)
(* value on the first i elements is.                                       *)
(*                                                                         *)
(* A proof about a fold of an operator has three steps: FoldExists with    *)
(* the operator as a function, so that the function the fold chooses       *)
(* satisfies its equation; FirstOf for the equation of stage i; and UpTo   *)
(* or Stages for what holds after every stage.                             *)
(***************************************************************************)
EXTENDS Naturals, SequencesExt, WellFoundedInduction, FiniteSetTheorems, TLAPS

LessThan == {p \in Nat \X Nat : p[1] < p[2]}

\* The order of the natural numbers, on which a loop counts, is well founded.
LEMMA LessThanWF == IsWellFoundedOn(LessThan, Nat)
BY NatLessThanWellFounded DEF OpToRel, LessThan

\* Induction up to n with a set in place of a formula: what holds before a loop
\* and is kept by each of its n rounds holds after every round.
LEMMA UpTo ==
    ASSUME NEW n \in Nat, NEW T, 0 \in T, \A i \in 1..n : i - 1 \in T => i \in T
    PROVE  \A i \in 0..n : i \in T
<1> SUFFICES ASSUME \E i \in 0..n : i \notin T PROVE FALSE
  OBVIOUS
<1> DEFINE U == {i \in 0..n : i \notin T}
<1>1. \E x \in U : \A y \in U : ~(<<y, x>> \in LessThan)
  <2>1. U \subseteq Nat /\ U # {}
    OBVIOUS
  <2> HIDE DEF U
  <2> QED
    BY <2>1, WFMin, LessThanWF
<1>2. PICK x \in U : \A y \in U : ~(<<y, x>> \in LessThan)
  BY <1>1
<1>3. x \in 1..n /\ x - 1 \in 0..n
  OBVIOUS
<1>4. x - 1 \in U
  BY <1>3
<1>5. <<x - 1, x>> \in LessThan
  BY <1>3 DEF LessThan
<1> QED
  BY <1>2, <1>4, <1>5

\* A function on S is defined by recursion where each element has a rank, and
\* the one its value is defined from has a smaller one.
Ranked(S, n, rank, down) ==
    /\ rank \in [S -> 0..n] /\ down \in [S -> S]
    /\ \A s \in S : rank[s] # 0 => rank[down[s]] < rank[s]

IsRec(f, S, rank, down, b, G) ==
    \A s \in S : f[s] = IF rank[s] = 0 THEN b ELSE G[<<s, f[down[s]]>>]

\* There is a function with a recursive definition along bounded ranks.
LEMMA Recursion ==
    ASSUME NEW S, NEW n \in Nat, NEW rank, NEW down, Ranked(S, n, rank, down),
           NEW A, NEW b \in A, NEW G \in [S \X A -> A]
    PROVE  \E f \in [S -> A] : IsRec(f, S, rank, down, b, G)
<1> USE DEF Ranked
<1> DEFINE D(k) == {s \in S : rank[s] <= k}
           Eq(f, s) == f[s] = IF rank[s] = 0 THEN b ELSE G[<<s, f[down[s]]>>]
           Good(k) == \E f \in [D(k) -> A] : \A s \in D(k) : Eq(f, s)
           T == {k \in 0..n : Good(k)}
<1>1. Good(0)
  <2> DEFINE f == [s \in D(0) |-> b]
  <2>1. f \in [D(0) -> A] /\ \A s \in D(0) : Eq(f, s)
    OBVIOUS
  <2> HIDE DEF D, Eq, f
  <2> QED
    BY <2>1
<1>2. ASSUME NEW k \in 1..n, Good(k - 1) PROVE Good(k)
  <2>1. PICK f \in [D(k - 1) -> A] : \A s \in D(k - 1) : Eq(f, s)
    BY <1>2
  <2> DEFINE g == [s \in D(k) |-> IF rank[s] = 0 THEN b ELSE G[<<s, f[down[s]]>>]]
  <2>2. ASSUME NEW s \in D(k), rank[s] # 0 PROVE down[s] \in D(k - 1) /\ down[s] \in D(k)
    <3>1. rank[down[s]] < rank[s] /\ rank[down[s]] \in 0..n /\ rank[s] \in 0..n
      BY <2>2
    <3> QED
      BY <3>1
  <2>3. g \in [D(k) -> A]
    BY <2>2
  <2>4. ASSUME NEW s \in D(k - 1) PROVE s \in D(k) /\ g[s] = f[s]
    <3>1. s \in D(k)
      <4>1. rank[s] \in 0..n
        OBVIOUS
      <4> QED
        BY <4>1
    <3> QED
      BY <2>1, <3>1
  <2>5. \A s \in D(k) : Eq(g, s)
    BY <2>2, <2>4
  <2> HIDE DEF D, Eq, g
  <2> QED
    BY <2>3, <2>5
<1>3. Good(n)
  <2> HIDE DEF Good
  <2>1. 0 \in T /\ \A k \in 1..n : k - 1 \in T => k \in T
    BY <1>1, <1>2
  <2> HIDE DEF T
  <2>2. \A k \in 0..n : k \in T
    BY <2>1, UpTo
  <2> USE DEF T
  <2> QED
    BY <2>2
<1>4. D(n) = S
  OBVIOUS
<1>5. \E f \in [D(n) -> A] : \A s \in D(n) : Eq(f, s)
  BY <1>3
<1> HIDE DEF D
<1> QED
  BY <1>4, <1>5 DEF IsRec

\* The largest element of a set of indices, which FoldLeft handles last.
LEMMA MaxOf ==
    ASSUME NEW n \in Nat, NEW s \in SUBSET (1..n), s # {}
    PROVE  Max(s) \in s /\ \A y \in s : Max(s) >= y
<1> DEFINE T == {i \in 0..n : (\E y \in s : y <= i) => \E x \in s : \A y \in s : y <= i => x >= y}
<1>1. 0 \in T
  OBVIOUS
<1>2. ASSUME NEW i \in 1..n, i - 1 \in T PROVE i \in T
  <2>1. CASE i \in s
    BY <2>1
  <2>2. CASE i \notin s
    <3>1. \A y \in s : y <= i => y <= i - 1
      BY <2>2
    <3>2. \A y \in s : y <= i - 1 => y <= i
      OBVIOUS
    <3> QED
      BY <1>2, <3>1, <3>2
  <2> QED
    BY <2>1, <2>2
<1>3. n \in T
  <2> HIDE DEF T
  <2> QED
    BY <1>1, <1>2, UpTo
<1>4. \A y \in s : y <= n
  OBVIOUS
<1>5. \E x \in s : \A y \in s : x >= y
  BY <1>3, <1>4
<1> QED
  BY <1>5 DEF Max

\* The last of the first i elements is the one at i.
LEMMA FirstOf ==
    ASSUME NEW i \in Nat, i # 0
    PROVE  1..i # {} /\ Max(1..i) = i /\ (1..i) \ {Max(1..i)} = 1..(i - 1)
<1>1. 1..i \in SUBSET (1..i) /\ 1..i # {} /\ i \in 1..i
  OBVIOUS
<1>2. Max(1..i) \in 1..i /\ \A y \in 1..i : Max(1..i) >= y
  BY <1>1, MaxOf
<1>3. Max(1..i) = i
  BY <1>1, <1>2
<1>4. (1..i) \ {i} = 1..(i - 1)
  OBVIOUS
<1> QED
  BY <1>1, <1>3, <1>4

\* f is defined as FoldLeft defines its function, with G for the operator.
IsFold(f, n, b, G, z) ==
    \A s \in SUBSET (1..n) :
       f[s] = IF s = {} THEN b ELSE G[<<f[s \ {Max(s)}], z[Max(s)]>>]

\* There is a function with the equation of a fold of G from b over z.
LEMMA FoldExists ==
    ASSUME NEW n \in Nat, NEW X, NEW z \in [1..n -> X], NEW A, NEW b \in A,
           NEW G \in [A \X X -> A]
    PROVE  \E f \in [SUBSET (1..n) -> A] : IsFold(f, n, b, G, z)
<1> DEFINE S == SUBSET (1..n)
           rank == [s \in S |-> IF s = {} THEN 0 ELSE Max(s)]
           down == [s \in S |-> IF s = {} THEN {} ELSE s \ {Max(s)}]
           H == [p \in S \X A |-> IF p[1] = {} THEN b ELSE G[<<p[2], z[Max(p[1])]>>]]
<1>1. \A s \in S : s # {} => Max(s) \in s /\ Max(s) \in 1..n
  BY MaxOf
<1>2. rank \in [S -> 0..n] /\ down \in [S -> S] /\ \A s \in S : rank[s] = 0 <=> s = {}
  <2>1. rank \in [S -> 0..n]
    BY <1>1
  <2>2. down \in [S -> S]
    OBVIOUS
  <2>3. \A s \in S : rank[s] = 0 <=> s = {}
    <3>1. 0 \notin 1..n
      OBVIOUS
    <3> QED
      BY <1>1, <3>1
  <2> QED
    BY <2>1, <2>2, <2>3
<1>3. ASSUME NEW s \in S, rank[s] # 0 PROVE rank[down[s]] < rank[s]
  <2>1. s # {} /\ rank[s] = Max(s) /\ down[s] = s \ {Max(s)}
    BY <1>3
  <2>2. CASE down[s] = {}
    BY <1>1, <2>1, <2>2
  <2>3. CASE down[s] # {}
    <3>1. down[s] \in S /\ Max(down[s]) \in down[s] /\ rank[down[s]] = Max(down[s])
      BY <1>1, <1>2, <2>3
    <3>2. Max(s) >= Max(down[s]) /\ Max(s) # Max(down[s])
      BY <2>1, <3>1, MaxOf
    <3>3. Max(s) \in 1..n /\ Max(down[s]) \in 1..n
      BY <1>1, <2>1, <3>1
    <3> DEFINE a == Max(s)
               e == Max(down[s])
    <3>4. rank[s] = a /\ rank[down[s]] = e
      BY <2>1, <3>1
    <3> HIDE DEF S, rank, down, a, e
    <3>5. a \in Nat /\ e \in Nat /\ a >= e /\ a # e
      BY <3>2, <3>3 DEF a, e
    <3>6. e < a
      BY <3>5
    <3> QED
      BY <3>4, <3>6
  <2> QED
    BY <2>2, <2>3
<1>4. H \in [S \X A -> A]
  BY <1>1
<1>5. \E f \in [S -> A] : IsRec(f, S, rank, down, b, H)
  <2>1. \A s \in S : rank[s] # 0 => rank[down[s]] < rank[s]
    BY <1>3
  <2>2. Ranked(S, n, rank, down)
    BY <1>2, <2>1 DEF Ranked
  <2> HIDE DEF S, rank, down, H
  <2> QED
    BY <1>4, <2>2, Recursion
<1>6. PICK f \in [S -> A] : \A s \in S : f[s] = IF rank[s] = 0 THEN b ELSE H[<<s, f[down[s]]>>]
  BY <1>5 DEF IsRec
<1>7. ASSUME NEW s \in S PROVE f[s] = IF s = {} THEN b ELSE G[<<f[s \ {Max(s)}], z[Max(s)]>>]
  <2>1. f[s] = IF s = {} THEN b ELSE H[<<s, f[down[s]]>>]
    BY <1>2, <1>6
  <2>2. f[down[s]] \in A
    BY <1>2
  <2> QED
    BY <2>1, <2>2
<1> QED
  BY <1>7 DEF IsFold

\* What holds of the value a loop starts from, and of the value after a round
\* if it holds of the one before, holds of the value after every round.
LEMMA Stages ==
    ASSUME NEW n \in Nat, NEW d, NEW A, d[0] \in A,
           \A i \in 1..n : d[i - 1] \in A => d[i] \in A
    PROVE  \A i \in 0..n : d[i] \in A
<1> DEFINE T == {i \in 0..n : d[i] \in A}
<1>1. 0 \in T /\ \A i \in 1..n : i - 1 \in T => i \in T
  OBVIOUS
<1>2. \A i \in 0..n : i \in T
  <2> HIDE DEF T
  <2> QED
    BY <1>1, UpTo
<1> QED
  BY <1>2

\* What holds of the value a fold starts from and is kept by each round holds of
\* the function the fold chooses at the whole of the sequence.
LEMMA LastStage ==
    ASSUME NEW n \in Nat, NEW I, NEW A, I[{}] \in A,
           \A s \in SUBSET (1..n) : s # {} /\ I[s \ {Max(s)}] \in A => I[s] \in A
    PROVE  I[1..n] \in A
<1> DEFINE d == [i \in 0..n |-> I[1..i]]
<1>1. d[0] \in A
  <2>1. 1..0 = {}
    OBVIOUS
  <2> QED
    BY <2>1
<1>2. ASSUME NEW i \in 1..n, d[i - 1] \in A PROVE d[i] \in A
  <2>1. 1..i \in SUBSET (1..n) /\ 1..i # {} /\ (1..i) \ {Max(1..i)} = 1..(i - 1)
    BY FirstOf
  <2>2. I[1..(i - 1)] \in A
    BY <1>2
  <2>3. I[1..i] \in A
    BY <2>1, <2>2
  <2> QED
    BY <2>3
<1>3. \A i \in 0..n : d[i] \in A
  <2> HIDE DEF d
  <2> QED
    BY <1>1, <1>2, Stages
<1> QED
  BY <1>3

\* A loop over all of S in the order of z.  D has the pairs of an element that
\* was handled and a value that shows it: the round of an element brings it
\* about, and no other round undoes it.
Handles(n, S, z, I, A, D) ==
    /\ n \in Nat /\ z \in [1..n -> S] /\ (\A e \in S : \E i \in 1..n : z[i] = e)
    /\ I[{}] \in A
    /\ \A s \in SUBSET (1..n) : s # {} /\ I[s \ {Max(s)}] \in A =>
          /\ I[s] \in A /\ <<z[Max(s)], I[s]>> \in D
          /\ \A e \in S : <<e, I[s \ {Max(s)}]>> \in D => <<e, I[s]>> \in D

\* After the loop every element shows it.
LEMMA EachDone ==
    ASSUME NEW n, NEW S, NEW z, NEW I, NEW A, NEW D, Handles(n, S, z, I, A, D)
    PROVE  I[1..n] \in A /\ \A e \in S : <<e, I[1..n]>> \in D
<1>0. n \in Nat /\ z \in [1..n -> S] /\ I[{}] \in A /\ \A e \in S : \E i \in 1..n : z[i] = e
  BY DEF Handles
<1> DEFINE J == [s \in SUBSET (1..n) |-> <<s, I[s]>>]
           B == {p \in (SUBSET (1..n)) \X A : \A i \in p[1] : <<z[i], p[2]>> \in D}
<1>1. J[{}] \in B
  BY <1>0
<1>2. ASSUME NEW s \in SUBSET (1..n), s # {}, J[s \ {Max(s)}] \in B PROVE J[s] \in B
  <2> DEFINE r == s \ {Max(s)}
  <2>1. r \in SUBSET (1..n) /\ J[r] = <<r, I[r]>> /\ J[s] = <<s, I[s]>>
    OBVIOUS
  <2> HIDE DEF J, r
  <2>0. <<r, I[r]>> \in B
    BY <1>2, <2>1 DEF r
  <2>2. I[r] \in A /\ \A i \in r : <<z[i], I[r]>> \in D
    BY <2>0
  <2>3. /\ I[s] \in A /\ <<z[Max(s)], I[s]>> \in D
        /\ \A e \in S : <<e, I[r]>> \in D => <<e, I[s]>> \in D
    BY <1>2, <2>2 DEF r, Handles
  <2>4. \A i \in s : i = Max(s) \/ i \in r
    BY DEF r
  <2>5. \A i \in s : <<z[i], I[s]>> \in D
    <3>1. ASSUME NEW i \in s PROVE <<z[i], I[s]>> \in D
      <4>1. z[i] \in S
        BY <1>0, <3>1
      <4> QED
        BY <2>2, <2>3, <2>4, <4>1
    <3> QED
      BY <3>1
  <2>6. <<s, I[s]>> \in B
    BY <2>3, <2>5
  <2> QED
    BY <2>1, <2>6
<1>3. J[1..n] \in B
  <2> HIDE DEF J, B
  <2> QED
    BY <1>0, <1>1, <1>2, LastStage
<1>4. J[1..n] = <<1..n, I[1..n]>>
  BY <1>0
<1> HIDE DEF J
<1> QED
  BY <1>0, <1>3, <1>4

\* A sequence without repetitions that is as long as a set has them all.
LEMMA GoesOver ==
    ASSUME NEW S, IsFiniteSet(S), NEW z \in [1..Cardinality(S) -> S], IsInjective(z)
    PROVE  \A e \in S : \E i \in 1..Cardinality(S) : z[i] = e
<1>1. Cardinality(S) \in Nat
  BY FS_CardinalityType
<1>2. z \in Injection(1..Cardinality(S), S)
  BY DEF Injection
<1>3. Cardinality(1..Cardinality(S)) = Cardinality(S)
  BY <1>1, FS_Interval
<1>4. z \in Surjection(1..Cardinality(S), S)
  BY <1>2, <1>3, FS_Injection
<1> QED
  BY <1>4 DEF Surjection

\* The sequence in which a loop goes over a finite set, each element once.
LEMMA SetToSeqIn ==
    ASSUME NEW S, IsFiniteSet(S)
    PROVE  /\ SetToSeq(S) \in [1..Cardinality(S) -> S] /\ Cardinality(S) \in Nat
           /\ \A i, j \in 1..Cardinality(S) : i # j => SetToSeq(S)[i] # SetToSeq(S)[j]
<1>1. PICK n \in Nat : ExistsBijection(1..n, S)
  BY FS_NatBijection
<1>2. Cardinality(S) \in Nat /\ ExistsBijection(1..Cardinality(S), S)
  BY FS_CardinalityType
<1>3. PICK f \in Bijection(1..Cardinality(S), S) : TRUE
  BY <1>2 DEF ExistsBijection
<1>4. f \in [1..Cardinality(S) -> S] /\ \A i, j \in DOMAIN f : f[i] = f[j] => i = j
  BY <1>3 DEF Bijection, Injection, IsInjective
<1>5. SetToSeq(S) \in [1..Cardinality(S) -> S] /\ IsInjective(SetToSeq(S))
  BY <1>4 DEF SetToSeq, IsInjective
<1> QED
  BY <1>2, <1>5 DEF IsInjective

\* And every element.
LEMMA SetToSeqAll ==
    ASSUME NEW S, IsFiniteSet(S)
    PROVE  \A e \in S : \E i \in 1..Cardinality(S) : SetToSeq(S)[i] = e
<1>1. SetToSeq(S) \in [1..Cardinality(S) -> S] /\ IsInjective(SetToSeq(S))
  <2>1. SetToSeq(S) \in [1..Cardinality(S) -> S]
    BY SetToSeqIn
  <2>2. ASSUME NEW i \in 1..Cardinality(S), NEW j \in 1..Cardinality(S),
               SetToSeq(S)[i] = SetToSeq(S)[j]
        PROVE  i = j
    BY <2>2, SetToSeqIn
  <2> QED
    BY <2>1, <2>2 DEF IsInjective
<1> QED
  BY <1>1, GoesOver

Picks(S, pick) == \A s \in SUBSET S : s # {} => pick[s] \in s

Visits(S, U, P, b, G) ==
    /\ P \in SUBSET ((SUBSET S) \X U) /\ <<{}, b>> \in P
    /\ \A s \in SUBSET S : \A x \in s : \A e \in U :
          <<s \ {x}, e>> \in P => <<s, G[<<x, e>>]>> \in P

Visitor(f, S, pick, U, P, b, G) ==
    /\ f \in [SUBSET S -> U]
    /\ \A s \in SUBSET S : /\ f[s] = IF s = {} THEN b ELSE G[<<pick[s], f[s \ {pick[s]}]>>]
                           /\ <<s, f[s]>> \in P

\* A loop in any order.  P has the pairs of what was visited and a value that is
\* fine then; a visit of any x makes of a fine value a fine one.  Then the
\* recursive function that visits its sets in the order of pick exists.
LEMMA AnyOrder ==
    ASSUME NEW S, IsFiniteSet(S), NEW pick, Picks(S, pick),
           NEW U, NEW b, NEW P, NEW G, Visits(S, U, P, b, G)
    PROVE  \E f : Visitor(f, S, pick, U, P, b, G)
<1> USE DEF Picks, Visits
<1> DEFINE W == SUBSET S
           n == Cardinality(S)
           rank == [s \in W |-> Cardinality(s)]
           down == [s \in W |-> IF s = {} THEN {} ELSE s \ {pick[s]}]
           H == [p \in W \X U |-> IF p[1] # {} /\ <<p[1], G[<<pick[p[1]], p[2]>>]>> \in P
                                  THEN G[<<pick[p[1]], p[2]>>] ELSE b]
<1>1. n \in Nat /\ \A s \in W : IsFiniteSet(s) /\ Cardinality(s) \in 0..n
  <2>1. n \in Nat
    BY FS_CardinalityType
  <2>2. ASSUME NEW s \in W PROVE IsFiniteSet(s) /\ Cardinality(s) \in 0..n
    <3>1. IsFiniteSet(s) /\ Cardinality(s) <= n
      BY FS_Subset
    <3> QED
      BY <2>1, <3>1, FS_CardinalityType
  <2> QED
    BY <2>1, <2>2
<1>2. \A s \in W : (s = {} <=> rank[s] = 0) /\ rank[s] \in 0..n
  BY <1>1, FS_EmptySet
<1>3. ASSUME NEW s \in W, s # {} PROVE down[s] = s \ {pick[s]} /\ down[s] \in W /\ rank[down[s]] = rank[s] - 1
  <2>1. Cardinality(s \ {pick[s]}) = Cardinality(s) - 1
    BY <1>1, <1>3, FS_RemoveElement
  <2> QED
    BY <1>3, <2>1
<1>4. Ranked(W, n, rank, down)
  <2>1. rank \in [W -> 0..n] /\ down \in [W -> W]
    BY <1>2
  <2>2. ASSUME NEW s \in W, rank[s] # 0 PROVE rank[down[s]] < rank[s]
    <3>1. s # {} /\ rank[s] \in Int
      <4>1. s # {} /\ rank[s] \in 0..n /\ n \in Nat
        BY <1>1, <1>2, <2>2
      <4> HIDE DEF rank, n
      <4> QED
        BY <4>1
    <3>2. rank[down[s]] = rank[s] - 1
      BY <1>3, <3>1
    <3> HIDE DEF rank, down
    <3> QED
      BY <3>1, <3>2
  <2> QED
    BY <2>1, <2>2 DEF Ranked
<1>5. b \in U /\ H \in [W \X U -> U]
  <2>1. \A p \in P : p[1] \in W /\ p[2] \in U
    OBVIOUS
  <2>2. b \in U
    BY <2>1
  <2>3. ASSUME NEW p \in W \X U PROVE H[p] \in U
    BY <2>1, <2>2
  <2> QED
    BY <2>2, <2>3
<1>6. PICK f \in [W -> U] : IsRec(f, W, rank, down, b, H)
  <2> HIDE DEF W, n, rank, down, H
  <2> QED
    BY <1>1, <1>4, <1>5, Recursion
<1>7. f[{}] = b
  BY <1>2, <1>6 DEF IsRec
<1>8. ASSUME NEW s \in W, s # {}, <<down[s], f[down[s]]>> \in P
      PROVE  f[s] = G[<<pick[s], f[down[s]]>>] /\ <<s, f[s]>> \in P
  <2>1. f[s] = H[<<s, f[down[s]]>>] /\ f[down[s]] \in U /\ pick[s] \in s
    BY <1>2, <1>3, <1>6, <1>8 DEF IsRec
  <2>2. <<s, G[<<pick[s], f[down[s]]>>]>> \in P
    BY <1>3, <1>8, <2>1
  <2> QED
    BY <1>8, <2>1, <2>2
<1> DEFINE T == {k \in 0..n : \A s \in W : rank[s] <= k => <<s, f[s]>> \in P}
<1> HIDE DEF rank, down
<1>9. 0 \in T
  <2>1. ASSUME NEW s \in W, rank[s] <= 0 PROVE <<s, f[s]>> \in P
    <3>1. s = {}
      BY <1>1, <1>2, <2>1
    <3> QED
      BY <1>7, <3>1
  <2> QED
    BY <1>1, <2>1
<1>10. ASSUME NEW k \in 1..n, k - 1 \in T PROVE k \in T
  <2>1. ASSUME NEW s \in W, rank[s] <= k PROVE <<s, f[s]>> \in P
    <3>1. CASE s = {}
      BY <1>7, <3>1
    <3>2. CASE s # {}
      <4>1. down[s] \in W /\ rank[down[s]] <= k - 1
        BY <1>1, <1>2, <1>3, <2>1, <3>2
      <4> QED
        BY <1>8, <1>10, <3>2, <4>1
    <3> QED
      BY <3>1, <3>2
  <2> QED
    BY <1>1, <2>1
<1>11. n \in T
  <2> HIDE DEF T, n
  <2>1. \A i \in 0..n : i \in T
    BY <1>1, <1>9, <1>10, UpTo
  <2> QED
    BY <1>1, <2>1
<1>12. \A s \in W : <<s, f[s]>> \in P
  BY <1>1, <1>2, <1>11
<1>13. ASSUME NEW s \in SUBSET S
       PROVE  /\ f[s] = IF s = {} THEN b ELSE G[<<pick[s], f[s \ {pick[s]}]>>]
              /\ <<s, f[s]>> \in P
  BY <1>3, <1>7, <1>8, <1>12
<1> QED
  BY <1>13 DEF Visitor

\* And what it comes to is fine for all that was to be visited.
LEMMA AllVisited ==
    ASSUME NEW S, IsFiniteSet(S), NEW pick, Picks(S, pick),
           NEW P, NEW I, <<{}, I[{}]>> \in P,
           \A s \in SUBSET S : s # {} /\ <<s \ {pick[s]}, I[s \ {pick[s]}]>> \in P
              => <<s, I[s]>> \in P
    PROVE  <<S, I[S]>> \in P
<1> USE DEF Picks
<1> DEFINE T == {k \in 0..Cardinality(S) : \A s \in SUBSET S : Cardinality(s) <= k => <<s, I[s]>> \in P}
<1>1. Cardinality(S) \in Nat /\ \A s \in SUBSET S : IsFiniteSet(s) /\ Cardinality(s) \in Nat
  BY FS_Subset, FS_CardinalityType
<1>2. 0 \in T
  <2>1. ASSUME NEW s \in SUBSET S, Cardinality(s) <= 0 PROVE <<s, I[s]>> \in P
    <3>1. s = {}
      BY <1>1, <2>1, FS_EmptySet
    <3> QED
      BY <3>1
  <2> QED
    BY <1>1, <2>1
<1>3. ASSUME NEW k \in 1..Cardinality(S), k - 1 \in T PROVE k \in T
  <2>1. ASSUME NEW s \in SUBSET S, Cardinality(s) <= k PROVE <<s, I[s]>> \in P
    <3>1. CASE s = {}
      BY <3>1
    <3>2. CASE s # {}
      <4>1. Cardinality(s \ {pick[s]}) = Cardinality(s) - 1
        BY <1>1, <3>2, FS_RemoveElement
      <4>2. s \ {pick[s]} \in SUBSET S /\ Cardinality(s \ {pick[s]}) <= k - 1
        BY <1>1, <2>1, <4>1
      <4> QED
        BY <1>3, <3>2, <4>2
    <3> QED
      BY <3>1, <3>2
  <2> QED
    BY <1>1, <2>1
<1>4. \A i \in 0..Cardinality(S) : i \in T
  <2> HIDE DEF T
  <2> QED
    BY <1>1, <1>2, <1>3, UpTo
<1> QED
  BY <1>1, <1>4
=============================================================================
