-------------------------- MODULE Replicas_proofs --------------------------
(***************************************************************************)
(* Proofs about Replicas, with QuorumCalls and MerkleTree, and about       *)
(* Handoff: what keeps the copies of a file where they belong.             *)
(*                                                                         *)
(* The recursive functions of these modules (sizes and filters of lists,   *)
(* the resolution of versions, the layers of a tree and their comparison)  *)
(* have to be known for every argument.  The induction that this takes is  *)
(* stated for sets: a set of numbers, or of sequences, that has the first  *)
(* and with each one the next has them all, because a least one that is    *)
(* missing cannot be.  A function that the definition chooses is the one   *)
(* that is built from below, by unique values.                             *)
(***************************************************************************)
EXTENDS Replicas, Handoff, WellFoundedInduction, FiniteSetTheorems, SequenceTheorems, TLAPS

(* Induction. *)

\* Numbers are well ordered.
LEMMA NatOrder == \E ord : IsWellFoundedOn(ord, Nat) /\ \A x, y \in Nat : <<y, x>> \in ord <=> y < x
<1>1. IsWellFoundedOn(OpToRel(<, Nat), Nat)
  BY NatLessThanWellFounded, Zenon
<1>2. \A x, y \in Nat : <<y, x>> \in OpToRel(<, Nat) <=> y < x
  BY Zenon DEF OpToRel
<1> QED BY <1>1, <1>2, Zenon

\* A set of numbers has a least one.
LEMMA LeastNat ==
  ASSUME NEW T \in SUBSET Nat, T # {}
  PROVE  \E x \in T : \A y \in T : x <= y
<1>1. PICK ord : IsWellFoundedOn(ord, Nat) /\ \A x, y \in Nat : <<y, x>> \in ord <=> y < x
  BY NatOrder
<1>2. PICK x \in T : \A y \in T : ~(<<y, x>> \in ord)
  BY <1>1, WFMin
<1>3. ASSUME NEW y \in T PROVE x <= y
  <2>1. x \in Nat /\ y \in Nat
    OBVIOUS
  <2>2. ~(<<y, x>> \in ord)
    BY <1>2, Zenon
  <2>3. ~(y < x)
    BY <1>1, <2>1, <2>2, Zenon
  <2> QED BY <2>1, <2>3
<1> QED BY <1>3

\* Induction over the numbers.
LEMMA NumberInduction ==
  ASSUME NEW T, 0 \in T, \A n \in Nat : n \in T => n + 1 \in T
  PROVE  Nat \subseteq T
<1> DEFINE B == {n \in Nat : n \notin T}
<1> SUFFICES ASSUME B # {} PROVE FALSE
  OBVIOUS
<1>1. PICK x \in B : \A y \in B : x <= y
  BY LeastNat
<1>2. x # 0 /\ x - 1 \in Nat /\ x - 1 \in T
  BY <1>1
<1> QED BY <1>1, <1>2

\* Induction over the sequences, which grow at the end.
LEMMA SequenceInduction ==
  ASSUME NEW E, NEW T, <<>> \in T, \A s \in Seq(E), e \in E : s \in T => Append(s, e) \in T
  PROVE  Seq(E) \subseteq T
<1> DEFINE L == {n \in Nat : \A s \in Seq(E) : Len(s) = n => s \in T}
<1>1. 0 \in L
  BY EmptySeq
<1>2. ASSUME NEW n \in Nat, n \in L PROVE n + 1 \in L
  <2> SUFFICES ASSUME NEW s \in Seq(E), Len(s) = n + 1 PROVE s \in T
    OBVIOUS
  <2> DEFINE f == [i \in 1 .. n |-> s[i]]
  <2>1. f \in Seq(E) /\ Len(f) = n /\ s[n + 1] \in E /\ s = Append(f, s[n + 1])
    OBVIOUS
  <2> HIDE DEF f
  <2>2. f \in T
    BY <1>2, <2>1
  <2> QED BY <2>1, <2>2
<1> HIDE DEF L
<1>3. Nat \subseteq L
  BY <1>1, <1>2, NumberInduction
<1> QED BY <1>3 DEF L

\* ch names an element of every subset of S.
Chooses(ch, S) == \A A \in SUBSET S : A # {} => ch[A] \in A

\* T has the empty set, and every other subset if it has what is left of it.
Closed(T, S, ch) == {} \in T /\ \A A \in SUBSET S : A # {} /\ A \ {ch[A]} \in T => A \in T

\* f is b for no element and what g makes, of the value for the rest and the
\* element that ch takes out, for others.
IsFold(f, S, ch, b, g) ==
  f[{}] = b /\ \A A \in SUBSET S : A # {} => f[A] = g[<<f[A \ {ch[A]}], ch[A]>>]

\* Induction over the subsets of a finite set, from which one element, that ch
\* names, is taken at a time.
LEMMA SubsetInduction ==
  ASSUME NEW S, IsFiniteSet(S), NEW ch, Chooses(ch, S),
         NEW T, Closed(T, S, ch)
  PROVE  SUBSET S \subseteq T
<1> USE DEF Chooses, Closed
<1> DEFINE L == {n \in Nat : \A A \in SUBSET S : Cardinality(A) = n => A \in T}
<1>1. 0 \in L
  BY FS_Subset, FS_EmptySet
<1>2. ASSUME NEW n \in Nat, n \in L PROVE n + 1 \in L
  <2> SUFFICES ASSUME NEW A \in SUBSET S, Cardinality(A) = n + 1 PROVE A \in T
    OBVIOUS
  <2>1. IsFiniteSet(A) /\ A # {}
    BY FS_Subset, FS_EmptySet
  <2>2. Cardinality(A \ {ch[A]}) = n
    <3>1. ch[A] \in A
      BY <2>1
    <3>2. Cardinality(A \ {ch[A]}) = Cardinality(A) - 1
      BY <2>1, <3>1, FS_RemoveElement
    <3> QED BY <3>2
  <2>3. A \ {ch[A]} \in T
    <3> DEFINE B == A \ {ch[A]}
    <3>1. B \in SUBSET S /\ Cardinality(B) = n
      BY <2>2
    <3> HIDE DEF B
    <3>2. B \in T
      BY <1>2, <3>1
    <3> QED BY <3>2 DEF B
  <2> QED BY <2>1, <2>3
<1> HIDE DEF L
<1>3. Nat \subseteq L
  BY <1>1, <1>2, NumberInduction
<1>4. ASSUME NEW A \in SUBSET S PROVE A \in T
  <2>1. Cardinality(A) \in L
    BY <1>3, FS_Subset, FS_CardinalityType
  <2> QED BY <2>1 DEF L
<1> QED BY <1>4

\* What a fold computes exists: a function of the subsets that says, for each, what
\* g makes of the value for the rest and the element that ch takes out.
LEMMA FoldExists ==
  ASSUME NEW S, IsFiniteSet(S), NEW ch, Chooses(ch, S),
         NEW V, NEW b \in V, NEW g \in [V \X S -> V]
  PROVE  \E f \in [SUBSET S -> V] : IsFold(f, S, ch, b, g)
<1> USE DEF Chooses
<1> DEFINE rhs(f) == [A \in SUBSET S |-> IF A = {} THEN b ELSE g[<<f[A \ {ch[A]}], ch[A]>>]]
           L == {n \in Nat : \E f \in [SUBSET S -> V] : \A A \in SUBSET S : Cardinality(A) <= n => f[A] = rhs(f)[A]}
<1>0. ASSUME NEW f \in [SUBSET S -> V] PROVE rhs(f) \in [SUBSET S -> V]
  OBVIOUS
<1>1. 0 \in L
  <2> DEFINE f == [A \in SUBSET S |-> b]
  <2>1. ASSUME NEW A \in SUBSET S, Cardinality(A) <= 0 PROVE A = {}
    BY <2>1, FS_Subset, FS_EmptySet, FS_CardinalityType
  <2>2. f \in [SUBSET S -> V] /\ \A A \in SUBSET S : Cardinality(A) <= 0 => f[A] = rhs(f)[A]
    BY <2>1
  <2> HIDE DEF f, rhs
  <2> QED BY <2>2
<1>2. ASSUME NEW n \in Nat, n \in L PROVE n + 1 \in L
  <2>1. PICK f \in [SUBSET S -> V] : \A A \in SUBSET S : Cardinality(A) <= n => f[A] = rhs(f)[A]
    BY <1>2
  <2>2. rhs(f) \in [SUBSET S -> V]
    BY <1>0
  <2>3. ASSUME NEW A \in SUBSET S, Cardinality(A) <= n + 1 PROVE rhs(f)[A] = rhs(rhs(f))[A]
    <3>1. CASE A = {}
      BY <3>1
    <3>2. CASE A # {}
      <4> DEFINE B == A \ {ch[A]}
      <4>1. IsFiniteSet(A) /\ Cardinality(A) \in Nat /\ Cardinality(B) = Cardinality(A) - 1
        BY <3>2, FS_Subset, FS_RemoveElement, FS_CardinalityType
      <4>2. B \in SUBSET S /\ Cardinality(B) <= n
        BY <2>3, <4>1
      <4>2a. f[B] = rhs(f)[B]
        <5> HIDE DEF rhs, B
        <5> QED BY <2>1, <4>2
      <4>3. rhs(f)[A] = g[<<f[B], ch[A]>>]
        BY <3>2
      <4>4. rhs(rhs(f))[A] = g[<<rhs(f)[B], ch[A]>>]
        BY <3>2
      <4> HIDE DEF rhs, B
      <4> QED BY <4>2a, <4>3, <4>4
    <3> QED BY <3>1, <3>2
  <2> HIDE DEF rhs
  <2> QED BY <2>2, <2>3
<1>3. Nat \subseteq L
  <2> HIDE DEF L
  <2> QED BY <1>1, <1>2, NumberInduction
<1>4. Cardinality(S) \in L
  <2> HIDE DEF L
  <2> QED BY <1>3, FS_CardinalityType
<1>5. PICK f \in [SUBSET S -> V] : \A A \in SUBSET S : Cardinality(A) <= Cardinality(S) => f[A] = rhs(f)[A]
  BY <1>4
<1>6. \A A \in SUBSET S : f[A] = rhs(f)[A]
  <2> HIDE DEF rhs
  <2> QED BY <1>5, FS_Subset
<1> QED BY <1>6 DEF IsFold

\* A set of indices has a greatest one.
LEMMA MaxIn ==
  ASSUME NEW n \in Nat, NEW A \in SUBSET (1 .. n), A # {}
  PROVE  Max(A) \in A /\ \A i \in A : i <= Max(A)
<1> DEFINE D == {m \in Nat : \A i \in A : i <= m}
<1>0. n \in D
  OBVIOUS
<1>1. PICK x \in D : \A y \in D : x <= y
  <2> HIDE DEF D
  <2>1. D \in SUBSET Nat
    BY DEF D
  <2> QED BY <1>0, <2>1, LeastNat
<1>2. x \in A
  <2> SUFFICES ASSUME x \notin A PROVE FALSE
    OBVIOUS
  <2>1. \A i \in A : i \in 1 .. n /\ i <= x /\ i # x
    BY <1>1
  <2>2. x \in Nat /\ x # 0
    <3>1. PICK i \in A : TRUE
      OBVIOUS
    <3> QED BY <2>1, <3>1
  <2>3. x - 1 \in Nat /\ \A i \in A : i <= x - 1
    BY <2>1, <2>2
  <2> QED BY <1>1, <2>2, <2>3
<1>3. \E m \in A : \A i \in A : m >= i
  BY <1>1, <1>2
<1>4. Max(A) \in A /\ \A i \in A : Max(A) >= i
  BY <1>3 DEF Max
<1> QED BY <1>4

\* The last of some elements of a sequence.
LEMMA MaxElement ==
  ASSUME NEW E, NEW s \in Seq(E), NEW A \in SUBSET DOMAIN s, A # {}
  PROVE  s[Max(A)] \in E
<1>1. Len(s) \in Nat /\ A \in SUBSET (1 .. Len(s))
  OBVIOUS
<1>2. Max(A) \in A
  BY <1>1, MaxIn
<1> QED BY <1>1, <1>2

-----------------------------------------------------------------------------
(* Folds over sequences from the left, of operations given as functions. *)

\* b is the first value and g the step to the next, with an element.
IsStep(g, b, V, E) == b \in V /\ g \in [V \X E -> V]

\* f is what FoldLeft makes of the elements of s with the indices in each set.
IsLeftFold(f, g, b, V, s) ==
  /\ f \in [SUBSET DOMAIN s -> V]
  /\ f[{}] = b
  /\ \A A \in SUBSET DOMAIN s : A # {} => f[A] = g[<<f[A \ {Max(A)}], s[Max(A)]>>]

\* h satisfies these equations where its values are in V.
Follows(h, g, b, V, s) ==
  /\ h[{}] = b
  /\ \A A \in SUBSET DOMAIN s :
       A # {} /\ h[A \ {Max(A)}] \in V => h[A] = g[<<h[A \ {Max(A)}], s[Max(A)]>>]

LEMMA LeftFoldExists ==
  ASSUME NEW E, NEW V, NEW b, NEW g, IsStep(g, b, V, E), NEW s \in Seq(E)
  PROVE  \E f : IsLeftFold(f, g, b, V, s)
<1> DEFINE n == Len(s)
           S == 1 .. n
           ch == [A \in SUBSET S |-> Max(A)]
           h == [p \in V \X S |-> g[<<p[1], s[p[2]]>>]]
<1>1. n \in Nat /\ DOMAIN s = S /\ IsFiniteSet(S) /\ \A i \in S : s[i] \in E
  BY FS_Interval
<1>2. Chooses(ch, S)
  BY <1>1, MaxIn DEF Chooses
<1>3. b \in V /\ h \in [V \X S -> V]
  BY <1>1 DEF IsStep
<1>4. \A v \in V, i \in S : h[<<v, i>>] = g[<<v, s[i]>>]
  OBVIOUS
<1>5. \A A \in SUBSET S : ch[A] = Max(A)
  OBVIOUS
<1> HIDE DEF h, ch, S, n
<1>6. PICK f \in [SUBSET S -> V] : IsFold(f, S, ch, b, h)
  BY <1>1, <1>2, <1>3, FoldExists
<1>7. ASSUME NEW A \in SUBSET S, A # {}
      PROVE  f[A] = g[<<f[A \ {Max(A)}], s[Max(A)]>>]
  <2>1. ch[A] = Max(A) /\ ch[A] \in S /\ A \ {ch[A]} \in SUBSET S
    BY <1>2, <1>5, <1>7 DEF Chooses
  <2>2. f[A] = h[<<f[A \ {ch[A]}], ch[A]>>]
    BY <1>6, <1>7 DEF IsFold
  <2>3. f[A \ {ch[A]}] \in V
    BY <2>1
  <2> QED BY <1>4, <2>1, <2>2, <2>3
<1>8. IsLeftFold(f, g, b, V, s)
  BY <1>1, <1>6, <1>7 DEF IsLeftFold, IsFold
<1> QED BY <1>8

LEMMA LeftFoldUnique ==
  ASSUME NEW E, NEW V, NEW b, NEW g, IsStep(g, b, V, E), NEW s \in Seq(E),
         NEW f, IsLeftFold(f, g, b, V, s), NEW h, Follows(h, g, b, V, s)
  PROVE  h[DOMAIN s] = f[DOMAIN s]
<1> DEFINE n == Len(s)
           S == 1 .. n
           ch == [A \in SUBSET S |-> Max(A)]
           T == {A \in SUBSET S : h[A] = f[A]}
<1>1. n \in Nat /\ DOMAIN s = S /\ IsFiniteSet(S)
  BY FS_Interval
<1>2. Chooses(ch, S)
  BY <1>1, MaxIn DEF Chooses
<1>3. \A A \in SUBSET S : ch[A] = Max(A)
  OBVIOUS
<1> HIDE DEF ch, S, n
<1>4. {} \in T
  BY DEF IsLeftFold, Follows
<1>5. ASSUME NEW A \in SUBSET S, A # {}, A \ {ch[A]} \in T PROVE A \in T
  <2>1. h[A \ {Max(A)}] = f[A \ {Max(A)}] /\ f[A \ {Max(A)}] \in V
    BY <1>1, <1>3, <1>5 DEF IsLeftFold
  <2>2. f[A] = g[<<f[A \ {Max(A)}], s[Max(A)]>>]
    BY <1>1, <1>5 DEF IsLeftFold
  <2>3. h[A] = g[<<h[A \ {Max(A)}], s[Max(A)]>>]
    BY <1>1, <1>5, <2>1 DEF Follows
  <2> QED BY <2>1, <2>2, <2>3
<1> HIDE DEF T
<1>6. SUBSET S \subseteq T
  <2>1. Closed(T, S, ch)
    BY <1>4, <1>5 DEF Closed
  <2> QED BY <1>1, <1>2, <2>1, SubsetInduction
<1> QED BY <1>1, <1>6 DEF T

\* The value for a sequence.
LeftFold(g, b, V, s) == (CHOOSE f : IsLeftFold(f, g, b, V, s))[DOMAIN s]

LEMMA LeftFoldIs ==
  ASSUME NEW E, NEW V, NEW b, NEW g, IsStep(g, b, V, E), NEW s \in Seq(E),
         NEW h, Follows(h, g, b, V, s)
  PROVE  h[DOMAIN s] = LeftFold(g, b, V, s) /\ LeftFold(g, b, V, s) \in V
<1> DEFINE f == CHOOSE f : IsLeftFold(f, g, b, V, s)
<1>1. IsLeftFold(f, g, b, V, s)
  BY LeftFoldExists, Zenon
<1>2. LeftFold(g, b, V, s) = f[DOMAIN s]
  BY DEF LeftFold
<1> HIDE DEF f
<1>3. h[DOMAIN s] = f[DOMAIN s]
  BY <1>1, LeftFoldUnique
<1> QED BY <1>1, <1>2, <1>3 DEF IsLeftFold

\* No element.
LEMMA LeftFoldEmpty ==
  ASSUME NEW E, NEW V, NEW b, NEW g, IsStep(g, b, V, E)
  PROVE  LeftFold(g, b, V, <<>>) = b
<1> DEFINE s == <<>>
           h == [A \in {{}} |-> b]
<1>1. s \in Seq(E) /\ DOMAIN s = {} /\ h[{}] = b /\ h[DOMAIN s] = b
  OBVIOUS
<1>2. Follows(h, g, b, V, s)
  BY <1>1 DEF Follows
<1> HIDE DEF h, s
<1>3. h[DOMAIN s] = LeftFold(g, b, V, s)
  <2>1. s \in Seq(E)
    BY <1>1
  <2> QED BY <1>2, <2>1, LeftFoldIs
<1> QED BY <1>1, <1>3 DEF s

\* One more element.
LEMMA LeftFoldAppend ==
  ASSUME NEW E, NEW V, NEW b, NEW g, IsStep(g, b, V, E), NEW s \in Seq(E), NEW e \in E
  PROVE  /\ LeftFold(g, b, V, s) \in V
         /\ LeftFold(g, b, V, Append(s, e)) = g[<<LeftFold(g, b, V, s), e>>]
<1> DEFINE n == Len(s)
           t == Append(s, e)
<1>1. /\ n \in Nat /\ DOMAIN s = 1 .. n
      /\ t \in Seq(E) /\ DOMAIN t = 1 .. (n + 1)
      /\ \A i \in 1 .. n : t[i] = s[i]
      /\ t[n + 1] = e
  OBVIOUS
<1> HIDE DEF t, n
<1>2. PICK f : IsLeftFold(f, g, b, V, t)
  BY <1>1, LeftFoldExists, Zenon
<1>3. f[DOMAIN t] = LeftFold(g, b, V, t)
  <2>1. Follows(f, g, b, V, t)
    BY <1>2 DEF IsLeftFold, Follows
  <2> QED BY <1>1, <2>1, LeftFoldIs
<1>4. \A A \in SUBSET DOMAIN s : A # {} => A \in SUBSET DOMAIN t /\ t[Max(A)] = s[Max(A)]
  <2> SUFFICES ASSUME NEW A \in SUBSET (1 .. n), A # {}
               PROVE  A \in SUBSET (1 .. (n + 1)) /\ t[Max(A)] = s[Max(A)]
    BY <1>1
  <2>1. Max(A) \in A
    BY <1>1, MaxIn
  <2>2. Max(A) \in 1 .. n
    BY <2>1
  <2> QED BY <1>1, <2>2
<1>5. f[DOMAIN s] = LeftFold(g, b, V, s) /\ LeftFold(g, b, V, s) \in V
  <2>1. Follows(f, g, b, V, s)
    <3>1. f[{}] = b
      BY <1>2 DEF IsLeftFold
    <3>2. ASSUME NEW A \in SUBSET DOMAIN s, A # {}
          PROVE  f[A] = g[<<f[A \ {Max(A)}], s[Max(A)]>>]
      <4>1. A \in SUBSET DOMAIN t /\ t[Max(A)] = s[Max(A)]
        BY <1>4, <3>2
      <4>2. f[A] = g[<<f[A \ {Max(A)}], t[Max(A)]>>]
        BY <1>2, <3>2, <4>1 DEF IsLeftFold
      <4> QED BY <4>1, <4>2
    <3> QED BY <3>1, <3>2 DEF Follows
  <2> QED BY <2>1, LeftFoldIs
<1>6. Max(DOMAIN t) = n + 1
  <2>0. n + 1 \in Nat /\ 1 \in 1 .. (n + 1)
    BY <1>1
  <2>1. 1 .. (n + 1) \in SUBSET (1 .. (n + 1)) /\ 1 .. (n + 1) # {} /\ n + 1 \in Nat
    BY <2>0
  <2>2. Max(1 .. (n + 1)) \in 1 .. (n + 1) /\ \A i \in 1 .. (n + 1) : i <= Max(1 .. (n + 1))
    BY <2>1, MaxIn
  <2> QED BY <1>1, <2>2
<1>7. DOMAIN t \ {n + 1} = DOMAIN s
  BY <1>1
<1>8. f[DOMAIN t] = g[<<f[DOMAIN s], e>>]
  <2>1. DOMAIN t \in SUBSET DOMAIN t /\ DOMAIN t # {}
    BY <1>1
  <2>2. f[DOMAIN t] = g[<<f[DOMAIN t \ {Max(DOMAIN t)}], t[Max(DOMAIN t)]>>]
    BY <1>2, <2>1 DEF IsLeftFold
  <2> QED BY <1>1, <1>6, <1>7, <2>2
<1> QED BY <1>3, <1>5, <1>8 DEF t

-----------------------------------------------------------------------------
(* The sizes of sequences of hints, and the filter. *)

LEMMA SizeOfIsFold ==
  \E g : /\ IsStep(g, 0, Nat, Hint)
         /\ \A v \in Nat, h \in Hint : g[<<v, h>>] = v + Size[h.key]
         /\ \A s \in Seq(Hint) : SizeOf(s) = LeftFold(g, 0, Nat, s)
<1> DEFINE g == [p \in Nat \X Hint |-> p[1] + Size[p[2].key]]
<1>1. \A h \in Hint : Size[h.key] \in Nat
  BY SizeAssumption DEF Hint
<1>2. IsStep(g, 0, Nat, Hint)
  BY <1>1 DEF IsStep
<1>3. \A v \in Nat, h \in Hint : g[<<v, h>>] = v + Size[h.key]
  OBVIOUS
<1> HIDE DEF g
<1>4. ASSUME NEW s \in Seq(Hint) PROVE SizeOf(s) = LeftFold(g, 0, Nat, s)
  <2> DEFINE eq(f) == f = [A \in SUBSET DOMAIN s |-> IF A = {} THEN 0 ELSE f[A \ {Max(A)}] + Size[s[Max(A)].key]]
             F == CHOOSE f : eq(f)
  <2>1. SizeOf(s) = F[DOMAIN s]
    BY Zenon DEF SizeOf, FoldLeft, MapThenFoldSet
  <2>2. \A A \in SUBSET DOMAIN s : A # {} => s[Max(A)] \in Hint
    BY MaxElement
  <2>3. PICK f : IsLeftFold(f, g, 0, Nat, s)
    BY <1>2, LeftFoldExists, Zenon
  <2>4. eq(f)
    <3>1. ASSUME NEW A \in SUBSET DOMAIN s, A # {} PROVE f[A] = f[A \ {Max(A)}] + Size[s[Max(A)].key]
      <4>1. f[A] = g[<<f[A \ {Max(A)}], s[Max(A)]>>] /\ f[A \ {Max(A)}] \in Nat
        BY <2>3, <3>1 DEF IsLeftFold
      <4> QED BY <1>3, <2>2, <3>1, <4>1
    <3> QED BY <2>3, <3>1 DEF IsLeftFold
  <2>5. eq(F)
    BY <2>4
  <2> HIDE DEF F
  <2>6. Follows(F, g, 0, Nat, s)
    <3>1. F[{}] = 0
      BY <2>5
    <3>2. ASSUME NEW A \in SUBSET DOMAIN s, A # {}, F[A \ {Max(A)}] \in Nat
          PROVE  F[A] = g[<<F[A \ {Max(A)}], s[Max(A)]>>]
      <4>1. F[A] = F[A \ {Max(A)}] + Size[s[Max(A)].key]
        BY <2>5, <3>2
      <4> QED BY <1>3, <2>2, <3>2, <4>1
    <3> QED BY <3>1, <3>2 DEF Follows
  <2>7. F[DOMAIN s] = LeftFold(g, 0, Nat, s)
    BY <1>2, <2>6, LeftFoldIs
  <2> QED BY <2>1, <2>7
<1> QED BY <1>2, <1>3, <1>4, Zenon

LEMMA SizeOfFacts ==
  /\ SizeOf(<<>>) = 0
  /\ \A s \in Seq(Hint), h \in Hint : SizeOf(s) \in Nat /\ SizeOf(Append(s, h)) = SizeOf(s) + Size[h.key]
<1>1. PICK g : /\ IsStep(g, 0, Nat, Hint)
               /\ \A v \in Nat, h \in Hint : g[<<v, h>>] = v + Size[h.key]
               /\ \A s \in Seq(Hint) : SizeOf(s) = LeftFold(g, 0, Nat, s)
  BY SizeOfIsFold, Zenon
<1>2. SizeOf(<<>>) = 0
  <2>1. <<>> \in Seq(Hint)
    OBVIOUS
  <2>2. LeftFold(g, 0, Nat, <<>>) = 0
    BY <1>1, LeftFoldEmpty
  <2> QED BY <1>1, <2>1, <2>2
<1>3. ASSUME NEW s \in Seq(Hint), NEW h \in Hint
      PROVE  SizeOf(s) \in Nat /\ SizeOf(Append(s, h)) = SizeOf(s) + Size[h.key]
  <2>1. LeftFold(g, 0, Nat, s) \in Nat /\ LeftFold(g, 0, Nat, Append(s, h)) = g[<<LeftFold(g, 0, Nat, s), h>>]
    BY <1>1, LeftFoldAppend
  <2>2. Append(s, h) \in Seq(Hint)
    OBVIOUS
  <2> QED BY <1>1, <2>1, <2>2
<1> QED BY <1>2, <1>3

LEMMA SizeOfType == \A s \in Seq(Hint) : SizeOf(s) \in Nat
<1>1. CASE Hint = {}
  <2>1. \A s \in Seq(Hint) : s = <<>>
    BY <1>1
  <2> QED BY <2>1, SizeOfFacts
<1>2. CASE Hint # {}
  BY <1>2, SizeOfFacts
<1> QED BY <1>1, <1>2

\* What the filter does, element by element.
LEMMA OnlyIsFold ==
  ASSUME NEW H
  PROVE  \E g : /\ IsStep(g, <<>>, Seq(Hint), Hint)
                /\ \A v \in Seq(Hint), h \in Hint : g[<<v, h>>] = IF h \in H THEN Append(v, h) ELSE v
                /\ \A s \in Seq(Hint) : Only(s, H) = LeftFold(g, <<>>, Seq(Hint), s)
<1> DEFINE g == [p \in Seq(Hint) \X Hint |-> IF p[2] \in H THEN Append(p[1], p[2]) ELSE p[1]]
<1>2. IsStep(g, <<>>, Seq(Hint), Hint)
  BY DEF IsStep
<1>3. \A v \in Seq(Hint), h \in Hint : g[<<v, h>>] = IF h \in H THEN Append(v, h) ELSE v
  OBVIOUS
<1> HIDE DEF g
<1>4. ASSUME NEW s \in Seq(Hint) PROVE Only(s, H) = LeftFold(g, <<>>, Seq(Hint), s)
  <2> DEFINE eq(f) == f = [A \in SUBSET DOMAIN s |->
                             IF A = {} THEN <<>>
                             ELSE IF s[Max(A)] \in H THEN Append(f[A \ {Max(A)}], s[Max(A)]) ELSE f[A \ {Max(A)}]]
             F == CHOOSE f : eq(f)
  <2>1. Only(s, H) = F[DOMAIN s]
    BY Zenon DEF Only, FoldLeft, MapThenFoldSet
  <2>2. \A A \in SUBSET DOMAIN s : A # {} => s[Max(A)] \in Hint
    BY MaxElement
  <2>3. PICK f : IsLeftFold(f, g, <<>>, Seq(Hint), s)
    BY <1>2, LeftFoldExists, Zenon
  <2>4. eq(f)
    <3>1. ASSUME NEW A \in SUBSET DOMAIN s, A # {}
          PROVE f[A] = IF s[Max(A)] \in H THEN Append(f[A \ {Max(A)}], s[Max(A)]) ELSE f[A \ {Max(A)}]
      <4>1. f[A] = g[<<f[A \ {Max(A)}], s[Max(A)]>>] /\ f[A \ {Max(A)}] \in Seq(Hint)
        BY <2>3, <3>1 DEF IsLeftFold
      <4> QED BY <1>3, <2>2, <3>1, <4>1
    <3> QED BY <2>3, <3>1 DEF IsLeftFold
  <2>5. eq(F)
    BY <2>4
  <2> HIDE DEF F
  <2>6. Follows(F, g, <<>>, Seq(Hint), s)
    <3>1. F[{}] = <<>>
      BY <2>5
    <3>2. ASSUME NEW A \in SUBSET DOMAIN s, A # {}, F[A \ {Max(A)}] \in Seq(Hint)
          PROVE  F[A] = g[<<F[A \ {Max(A)}], s[Max(A)]>>]
      <4>1. F[A] = IF s[Max(A)] \in H THEN Append(F[A \ {Max(A)}], s[Max(A)]) ELSE F[A \ {Max(A)}]
        BY <2>5, <3>2
      <4> QED BY <1>3, <2>2, <3>2, <4>1
    <3> QED BY <3>1, <3>2 DEF Follows
  <2>7. F[DOMAIN s] = LeftFold(g, <<>>, Seq(Hint), s)
    BY <1>2, <2>6, LeftFoldIs
  <2> QED BY <2>1, <2>7
<1> QED BY <1>2, <1>3, <1>4, Zenon

LEMMA OnlyFacts ==
  ASSUME NEW H
  PROVE  /\ Only(<<>>, H) = <<>>
         /\ \A s \in Seq(Hint), h \in Hint :
              Only(s, H) \in Seq(Hint) /\ Only(Append(s, h), H) = IF h \in H THEN Append(Only(s, H), h) ELSE Only(s, H)
<1>1. PICK g : /\ IsStep(g, <<>>, Seq(Hint), Hint)
               /\ \A v \in Seq(Hint), h \in Hint : g[<<v, h>>] = IF h \in H THEN Append(v, h) ELSE v
               /\ \A s \in Seq(Hint) : Only(s, H) = LeftFold(g, <<>>, Seq(Hint), s)
  BY OnlyIsFold, Zenon
<1>2. Only(<<>>, H) = <<>>
  <2>1. <<>> \in Seq(Hint)
    OBVIOUS
  <2>2. LeftFold(g, <<>>, Seq(Hint), <<>>) = <<>>
    BY <1>1, LeftFoldEmpty
  <2> QED BY <1>1, <2>1, <2>2
<1>3. ASSUME NEW s \in Seq(Hint), NEW h \in Hint
      PROVE  Only(s, H) \in Seq(Hint) /\ Only(Append(s, h), H) = IF h \in H THEN Append(Only(s, H), h) ELSE Only(s, H)
  <2> DEFINE v == LeftFold(g, <<>>, Seq(Hint), s)
  <2>1. v \in Seq(Hint) /\ LeftFold(g, <<>>, Seq(Hint), Append(s, h)) = g[<<v, h>>]
    BY <1>1, LeftFoldAppend
  <2>2. Append(s, h) \in Seq(Hint) /\ v = Only(s, H)
    BY <1>1
  <2> HIDE DEF v
  <2> QED BY <1>1, <2>1, <2>2
<1> QED BY <1>2, <1>3

\* The filter keeps elements that are there.
LEMMA OnlyElements ==
  ASSUME NEW H, NEW s \in Seq(Hint)
  PROVE  \A i \in 1 .. Len(Only(s, H)) : \E j \in 1 .. Len(s) : s[j] = Only(s, H)[i]
<1> DEFINE P(x) == \A i \in 1 .. Len(Only(x, H)) : \E j \in 1 .. Len(x) : x[j] = Only(x, H)[i]
           T == {x \in Seq(Hint) : P(x)}
<1>1. <<>> \in T
  BY OnlyFacts
<1>2. ASSUME NEW x \in Seq(Hint), NEW h \in Hint, x \in T PROVE Append(x, h) \in T
  <2> DEFINE y == Append(x, h)
             o == Only(x, H)
  <2>1. o \in Seq(Hint) /\ Only(y, H) = IF h \in H THEN Append(o, h) ELSE o
    BY OnlyFacts
  <2>2. y \in Seq(Hint) /\ Len(y) = Len(x) + 1 /\ (\A j \in 1 .. Len(x) : y[j] = x[j]) /\ y[Len(x) + 1] = h
    OBVIOUS
  <2>3. \A i \in 1 .. Len(o) : \E j \in 1 .. Len(x) : x[j] = o[i]
    BY <1>2
  <2> HIDE DEF y, o
  <2>4. P(y)
    <3> SUFFICES ASSUME NEW i \in 1 .. Len(Only(y, H)) PROVE \E j \in 1 .. Len(y) : y[j] = Only(y, H)[i]
      OBVIOUS
    <3>1. CASE i \in 1 .. Len(o)
      <4>1. Only(y, H)[i] = o[i]
        BY <2>1, <3>1
      <4>2. PICK j \in 1 .. Len(x) : x[j] = o[i]
        BY <2>3, <3>1
      <4>3. j \in 1 .. Len(y) /\ y[j] = o[i]
        BY <2>2, <4>2
      <4> QED BY <4>1, <4>3
    <3>2. CASE i \notin 1 .. Len(o)
      <4>1. h \in H /\ i = Len(o) + 1 /\ Only(y, H)[i] = h
        BY <2>1, <3>2
      <4>2. Len(x) + 1 \in 1 .. Len(y)
        BY <2>2
      <4> QED BY <2>2, <4>1, <4>2
    <3> QED BY <3>1, <3>2
  <2> QED BY <2>2, <2>4 DEF y
<1> HIDE DEF T
<1>3. Seq(Hint) \subseteq T
  BY <1>1, <1>2, SequenceInduction
<1> QED BY <1>3 DEF T

\* The sizes of what is kept and of what is not add up.
LEMMA SplitSize ==
  ASSUME NEW H, NEW K, \A h \in Hint : h \in H <=> h \notin K, NEW s \in Seq(Hint)
  PROVE  SizeOf(s) = SizeOf(Only(s, H)) + SizeOf(Only(s, K))
<1> DEFINE T == {x \in Seq(Hint) : SizeOf(x) = SizeOf(Only(x, H)) + SizeOf(Only(x, K))}
<1>1. <<>> \in T
  BY OnlyFacts, SizeOfFacts
<1>2. ASSUME NEW x \in Seq(Hint), NEW h \in Hint, x \in T PROVE Append(x, h) \in T
  <2>1. /\ Only(x, H) \in Seq(Hint) /\ Only(Append(x, h), H) = IF h \in H THEN Append(Only(x, H), h) ELSE Only(x, H)
        /\ Only(x, K) \in Seq(Hint) /\ Only(Append(x, h), K) = IF h \in K THEN Append(Only(x, K), h) ELSE Only(x, K)
    BY OnlyFacts
  <2>2. /\ SizeOf(Only(x, H)) \in Nat /\ SizeOf(Append(Only(x, H), h)) = SizeOf(Only(x, H)) + Size[h.key]
        /\ SizeOf(Only(x, K)) \in Nat /\ SizeOf(Append(Only(x, K), h)) = SizeOf(Only(x, K)) + Size[h.key]
        /\ SizeOf(x) \in Nat /\ SizeOf(Append(x, h)) = SizeOf(x) + Size[h.key]
    BY <2>1, SizeOfFacts
  <2>3. Size[h.key] \in Nat
    BY SizeAssumption DEF Hint
  <2>4. SizeOf(x) = SizeOf(Only(x, H)) + SizeOf(Only(x, K))
    BY <1>2
  <2> DEFINE y == Append(x, h)
  <2>5. CASE h \in H
    <3>1. SizeOf(Only(y, H)) = SizeOf(Only(x, H)) + Size[h.key] /\ SizeOf(Only(y, K)) = SizeOf(Only(x, K))
      BY <2>1, <2>2, <2>5
    <3> QED BY <2>2, <2>3, <2>4, <3>1
  <2>6. CASE h \in K
    <3>1. SizeOf(Only(y, H)) = SizeOf(Only(x, H)) /\ SizeOf(Only(y, K)) = SizeOf(Only(x, K)) + Size[h.key]
      BY <2>1, <2>2, <2>6
    <3> QED BY <2>2, <2>3, <2>4, <3>1
  <2> QED BY <2>5, <2>6
<1> HIDE DEF T
<1>3. Seq(Hint) \subseteq T
  BY <1>1, <1>2, SequenceInduction
<1> QED BY <1>3 DEF T

\* The first element's share.
LEMMA TailSize ==
  ASSUME NEW s \in Seq(Hint), s # <<>>
  PROVE  SizeOf(s) = Size[Head(s).key] + SizeOf(Tail(s))
<1> DEFINE T == {x \in Seq(Hint) : x # <<>> => SizeOf(x) = Size[Head(x).key] + SizeOf(Tail(x))}
<1>1. <<>> \in T
  OBVIOUS
<1>2. ASSUME NEW x \in Seq(Hint), NEW h \in Hint, x \in T PROVE Append(x, h) \in T
  <2>1. Size[h.key] \in Nat
    BY SizeAssumption DEF Hint
  <2>2. SizeOf(x) \in Nat /\ SizeOf(Append(x, h)) = SizeOf(x) + Size[h.key]
    BY SizeOfFacts
  <2>3. CASE x = <<>>
    <3>1. Head(Append(x, h)) = h /\ Tail(Append(x, h)) = <<>>
      BY <2>3
    <3> QED BY <2>1, <2>2, <2>3, <3>1, SizeOfFacts
  <2>4. CASE x # <<>>
    <3>1. Head(Append(x, h)) = Head(x) /\ Tail(Append(x, h)) = Append(Tail(x), h) /\ Tail(x) \in Seq(Hint)
      BY <2>4
    <3>2. SizeOf(Tail(x)) \in Nat /\ SizeOf(Append(Tail(x), h)) = SizeOf(Tail(x)) + Size[h.key]
      BY <3>1, SizeOfFacts
    <3>3. Size[Head(x).key] \in Nat
      <4>1. Head(x) \in Hint
        BY <2>4
      <4> QED BY <4>1, SizeAssumption DEF Hint
    <3>4. SizeOf(x) = Size[Head(x).key] + SizeOf(Tail(x))
      BY <1>2, <2>4
    <3>5. SizeOf(Append(x, h)) = Size[Head(x).key] + SizeOf(Append(Tail(x), h))
      BY <2>1, <2>2, <3>2, <3>3, <3>4
    <3>6. Append(x, h) \in Seq(Hint)
      OBVIOUS
    <3> QED BY <3>1, <3>5, <3>6
  <2> QED BY <2>3, <2>4
<1> HIDE DEF T
<1>3. Seq(Hint) \subseteq T
  BY <1>1, <1>2, SequenceInduction
<1> QED BY <1>3 DEF T

\* A hint that takes the place of one for the same chunk.
LEMMA ReplaceSize ==
  ASSUME NEW s \in Seq(Hint), NEW i \in 1 .. Len(s), NEW h \in Hint, h.key = s[i].key
  PROVE  [s EXCEPT ![i] = h] \in Seq(Hint) /\ SizeOf([s EXCEPT ![i] = h]) = SizeOf(s)
<1> DEFINE T == {x \in Seq(Hint) : \A j \in 1 .. Len(x) : h.key = x[j].key => SizeOf([x EXCEPT ![j] = h]) = SizeOf(x)}
<1>1. <<>> \in T
  OBVIOUS
<1>2. ASSUME NEW x \in Seq(Hint), NEW e \in Hint, x \in T PROVE Append(x, e) \in T
  <2> DEFINE y == Append(x, e)
  <2>0. y \in Seq(Hint) /\ Len(y) = Len(x) + 1 /\ (\A k \in 1 .. Len(x) : y[k] = x[k]) /\ y[Len(x) + 1] = e
    OBVIOUS
  <2> SUFFICES ASSUME NEW j \in 1 .. Len(y), h.key = y[j].key PROVE SizeOf([y EXCEPT ![j] = h]) = SizeOf(y)
    BY <2>0
  <2>1. SizeOf(x) \in Nat /\ SizeOf(y) = SizeOf(x) + Size[e.key]
    BY SizeOfFacts
  <2>1a. /\ [y EXCEPT ![j] = h] \in Seq(Hint) /\ Len([y EXCEPT ![j] = h]) = Len(x) + 1
         /\ \A k \in 1 .. Len(x) + 1 : [y EXCEPT ![j] = h][k] = IF k = j THEN h ELSE y[k]
    <3> HIDE DEF y
    <3> QED BY <2>0, ExceptSeq
  <2>2. CASE j = Len(x) + 1
    <3>1. [y EXCEPT ![j] = h] = Append(x, h)
      <4> DEFINE u == [y EXCEPT ![j] = h]
                 v == Append(x, h)
      <4>1. u \in Seq(Hint) /\ Len(u) = Len(x) + 1 /\ (\A k \in 1 .. Len(x) : u[k] = x[k]) /\ u[Len(x) + 1] = h
        BY <2>0, <2>1a, <2>2
      <4>2. v \in Seq(Hint) /\ Len(v) = Len(x) + 1 /\ (\A k \in 1 .. Len(x) : v[k] = x[k]) /\ v[Len(x) + 1] = h
        OBVIOUS
      <4> HIDE DEF u, v
      <4>3. \A k \in 1 .. Len(u) : u[k] = v[k]
        BY <4>1, <4>2
      <4> QED BY <4>1, <4>2, <4>3, SeqEqual DEF u, v
    <3>1a. h.key = e.key
      BY <2>0, <2>2
    <3>2. SizeOf(Append(x, h)) = SizeOf(x) + Size[h.key]
      BY SizeOfFacts
    <3> QED BY <2>1, <3>1, <3>1a, <3>2
  <2>3. CASE j \in 1 .. Len(x)
    <3> DEFINE z == [x EXCEPT ![j] = h]
    <3>0. z \in Seq(Hint) /\ h.key = x[j].key
      BY <2>0, <2>3
    <3>1. [y EXCEPT ![j] = h] = Append(z, e)
      <4> DEFINE u == [y EXCEPT ![j] = h]
                 v == Append(z, e)
      <4>1. u \in Seq(Hint) /\ Len(u) = Len(x) + 1 /\ u[Len(x) + 1] = e /\ u[j] = h
        BY <2>0, <2>1a, <2>3
      <4>1a. \A k \in 1 .. Len(x) : k # j => u[k] = x[k]
        BY <2>0, <2>1a, <2>3
      <4>2. z \in Seq(Hint) /\ Len(z) = Len(x) /\ z[j] = h /\ \A k \in 1 .. Len(x) : k # j => z[k] = x[k]
        BY <2>3, ExceptSeq
      <4>2a. v \in Seq(Hint) /\ Len(v) = Len(x) + 1 /\ (\A k \in 1 .. Len(x) : v[k] = z[k]) /\ v[Len(x) + 1] = e
        <5> HIDE DEF z
        <5> QED BY <4>2
      <4> HIDE DEF u, v, z
      <4>3. \A k \in 1 .. Len(u) : u[k] = v[k]
        <5> SUFFICES ASSUME NEW k \in 1 .. Len(u) PROVE u[k] = v[k]
          OBVIOUS
        <5>1. k = j \/ k = Len(x) + 1 \/ (k \in 1 .. Len(x) /\ k # j)
          BY <4>1
        <5>2. CASE k = j
          BY <2>3, <4>1, <4>2, <4>2a, <5>2
        <5>3. CASE k = Len(x) + 1
          BY <4>1, <4>2a, <5>3
        <5>4. CASE k \in 1 .. Len(x) /\ k # j
          BY <4>1a, <4>2, <4>2a, <5>4
        <5> QED BY <5>1, <5>2, <5>3, <5>4
      <4> QED BY <4>1, <4>2a, <4>3, SeqEqual DEF u, v
    <3>2. SizeOf(z) = SizeOf(x)
      BY <1>2, <2>3, <3>0
    <3> HIDE DEF z
    <3>3. SizeOf(Append(z, e)) = SizeOf(z) + Size[e.key]
      BY <3>0, SizeOfFacts
    <3> QED BY <2>1, <3>1, <3>2, <3>3
  <2> QED BY <2>0, <2>2, <2>3
<1> HIDE DEF T
<1>3. Seq(Hint) \subseteq T
  BY <1>1, <1>2, SequenceInduction
<1>4. s \in T
  BY <1>3
<1> QED BY <1>4 DEF T

-----------------------------------------------------------------------------
(* The size of all hints. *)

\* f is the size of the hints of each set of targets.
IsTotal(f, hs) ==
  /\ f \in [SUBSET Target -> Nat] /\ f[{}] = 0
  /\ \A A \in SUBSET Target : A # {} => f[A] = f[A \ {CHOOSE t \in A : TRUE}] + SizeOf(hs[CHOOSE t \in A : TRUE])
  /\ f[Target] = TotalSize(hs)

LEMMA TotalIsFold ==
  ASSUME NEW hs \in [Target -> Seq(Hint)]
  PROVE  \E f : IsTotal(f, hs)
<1> DEFINE ch == [A \in SUBSET Target |-> CHOOSE t \in A : TRUE]
           g == [p \in Nat \X Target |-> p[1] + SizeOf(hs[p[2]])]
           eq(f) == f = [A \in SUBSET Target |-> IF A = {} THEN 0
                           ELSE f[A \ {CHOOSE t \in A : TRUE}] + SizeOf(hs[CHOOSE t \in A : TRUE])]
           F == CHOOSE f : eq(f)
<1>1. TotalSize(hs) = F[Target]
  <2>1. DOMAIN hs = Target
    OBVIOUS
  <2> QED BY <2>1, Zenon DEF TotalSize, FoldFunction, FoldFunctionOnSet, MapThenFoldSet
<1>2. \A t \in Target : SizeOf(hs[t]) \in Nat
  BY SizeOfType
<1>3. \A A \in SUBSET Target : A # {} => (CHOOSE t \in A : TRUE) \in A
  OBVIOUS
<1>4. Chooses(ch, Target) /\ \A A \in SUBSET Target : ch[A] = CHOOSE t \in A : TRUE
  BY <1>3 DEF Chooses
<1>5. g \in [Nat \X Target -> Nat] /\ \A v \in Nat, t \in Target : g[<<v, t>>] = v + SizeOf(hs[t])
  BY <1>2
<1> HIDE DEF g, ch
<1>6. PICK f \in [SUBSET Target -> Nat] : IsFold(f, Target, ch, 0, g)
  <2>1. 0 \in Nat /\ IsFiniteSet(Target)
    BY SizeAssumption
  <2>2. Chooses(ch, Target)
    BY <1>4
  <2>3. g \in [Nat \X Target -> Nat]
    BY <1>5
  <2> QED BY <2>1, <2>2, <2>3, FoldExists
<1>7. eq(f)
  <2>1. ASSUME NEW A \in SUBSET Target, A # {}
        PROVE  f[A] = f[A \ {CHOOSE t \in A : TRUE}] + SizeOf(hs[CHOOSE t \in A : TRUE])
    <3>1. f[A] = g[<<f[A \ {ch[A]}], ch[A]>>] /\ f[A \ {ch[A]}] \in Nat /\ ch[A] \in Target
      BY <1>3, <1>4, <1>6, <2>1 DEF IsFold
    <3>2. f[A] = f[A \ {ch[A]}] + SizeOf(hs[ch[A]])
      BY <1>5, <3>1
    <3>3. ch[A] = CHOOSE t \in A : TRUE
      BY <1>4
    <3> QED BY <3>2, <3>3, Zenon
  <2> QED BY <1>6, <2>1 DEF IsFold
<1>8. eq(F)
  BY <1>7
<1> HIDE DEF F
<1>9. F[{}] = 0 /\ \A A \in SUBSET Target : A # {} => F[A] = F[A \ {CHOOSE t \in A : TRUE}] + SizeOf(hs[CHOOSE t \in A : TRUE])
  BY <1>8
<1>10. F \in [SUBSET Target -> Nat]
  <2> DEFINE T == {A \in SUBSET Target : F[A] \in Nat}
  <2>1. {} \in T
    BY <1>9
  <2>2. ASSUME NEW A \in SUBSET Target, A # {}, A \ {ch[A]} \in T PROVE A \in T
    <3>1. F[A \ {ch[A]}] \in Nat /\ ch[A] = CHOOSE t \in A : TRUE
      BY <1>4, <2>2
    <3>2. SizeOf(hs[ch[A]]) \in Nat
      BY <1>2, <1>3, <2>2, <3>1
    <3>3. F[A] = F[A \ {ch[A]}] + SizeOf(hs[ch[A]])
      BY <1>9, <2>2, <3>1
    <3> QED BY <3>1, <3>2, <3>3
  <2> HIDE DEF T
  <2>3. SUBSET Target \subseteq T
    <3>1. IsFiniteSet(Target) /\ Chooses(ch, Target)
      BY <1>4, SizeAssumption
    <3>2. Closed(T, Target, ch)
      BY <2>1, <2>2 DEF Closed
    <3> QED BY <3>1, <3>2, SubsetInduction
  <2>4. \A A \in SUBSET Target : F[A] \in Nat
    BY <2>3 DEF T
  <2>5. F = [A \in SUBSET Target |-> F[A]]
    BY <1>8
  <2> QED BY <2>4, <2>5
<1>11. IsTotal(F, hs)
  BY <1>1, <1>9, <1>10 DEF IsTotal
<1> QED BY <1>11

\* The hints of two stores that make up a third one.
LEMMA TotalSplit ==
  ASSUME NEW hs \in [Target -> Seq(Hint)], NEW as \in [Target -> Seq(Hint)], NEW bs \in [Target -> Seq(Hint)],
         \A t \in Target : SizeOf(hs[t]) = SizeOf(as[t]) + SizeOf(bs[t])
  PROVE  TotalSize(hs) = TotalSize(as) + TotalSize(bs)
<1> DEFINE ch == [A \in SUBSET Target |-> CHOOSE t \in A : TRUE]
<1>1. PICK f : IsTotal(f, hs)
  BY TotalIsFold
<1>2. PICK a : IsTotal(a, as)
  BY TotalIsFold
<1>3. PICK b : IsTotal(b, bs)
  BY TotalIsFold
<1> DEFINE T == {A \in SUBSET Target : f[A] = a[A] + b[A]}
<1>4. {} \in T
  BY <1>1, <1>2, <1>3 DEF IsTotal
<1>5. \A A \in SUBSET Target : A # {} => (CHOOSE t \in A : TRUE) \in A
  OBVIOUS
<1>6. Chooses(ch, Target) /\ \A A \in SUBSET Target : ch[A] = CHOOSE t \in A : TRUE
  BY <1>5 DEF Chooses
<1> HIDE DEF ch
<1>7. ASSUME NEW A \in SUBSET Target, A # {}, A \ {ch[A]} \in T PROVE A \in T
  <2> DEFINE t == ch[A]
             B == A \ {t}
  <2>1. t \in Target /\ B \in SUBSET Target /\ t = CHOOSE u \in A : TRUE
    BY <1>6, <1>7 DEF Chooses
  <2>2. /\ f[A] = f[B] + SizeOf(hs[t])
        /\ a[A] = a[B] + SizeOf(as[t])
        /\ b[A] = b[B] + SizeOf(bs[t])
    <3> HIDE DEF t
    <3> QED BY <1>1, <1>2, <1>3, <1>7, <2>1 DEF IsTotal
  <2>3. f[B] = a[B] + b[B] /\ a[B] \in Nat /\ b[B] \in Nat
    BY <1>2, <1>3, <1>7, <2>1 DEF IsTotal
  <2>4. SizeOf(as[t]) \in Nat /\ SizeOf(bs[t]) \in Nat /\ SizeOf(hs[t]) = SizeOf(as[t]) + SizeOf(bs[t])
    BY <2>1, SizeOfType
  <2>5. f[A] = a[A] + b[A]
    <3> HIDE DEF t, B
    <3>1. f[A] = (a[B] + b[B]) + (SizeOf(as[t]) + SizeOf(bs[t]))
      BY <2>2, <2>3, <2>4
    <3>2. \A p, q, x, y \in Nat : (p + q) + (x + y) = (p + x) + (q + y)
      OBVIOUS
    <3>3. (a[B] + b[B]) + (SizeOf(as[t]) + SizeOf(bs[t])) = (a[B] + SizeOf(as[t])) + (b[B] + SizeOf(bs[t]))
      BY <2>3, <2>4, <3>2, Zenon
    <3> QED BY <2>2, <3>1, <3>3, Zenon
  <2> QED BY <2>5
<1> HIDE DEF T
<1>8. Target \in T
  <2>1. IsFiniteSet(Target) /\ Chooses(ch, Target) /\ Closed(T, Target, ch)
    BY <1>4, <1>6, <1>7, SizeAssumption DEF Closed
  <2>2. SUBSET Target \subseteq T
    BY <2>1, SubsetInduction
  <2> QED BY <2>2
<1> QED BY <1>1, <1>2, <1>3, <1>8 DEF T, IsTotal

\* The hints of one target are replaced.
LEMMA TotalUpdate ==
  ASSUME NEW hs \in [Target -> Seq(Hint)], NEW t \in Target, NEW s \in Seq(Hint)
  PROVE  TotalSize([hs EXCEPT ![t] = s]) = TotalSize(hs) - SizeOf(hs[t]) + SizeOf(s)
<1> DEFINE ch == [A \in SUBSET Target |-> CHOOSE u \in A : TRUE]
           hn == [hs EXCEPT ![t] = s]
<1>0. hn \in [Target -> Seq(Hint)] /\ hn[t] = s /\ \A u \in Target : u # t => hn[u] = hs[u]
  OBVIOUS
<1> HIDE DEF hn
<1>1. PICK f : IsTotal(f, hs)
  BY TotalIsFold
<1>2. PICK a : IsTotal(a, hn)
  BY <1>0, TotalIsFold
<1> DEFINE d == SizeOf(s) - SizeOf(hs[t])
           T == {A \in SUBSET Target : a[A] = IF t \in A THEN f[A] + d ELSE f[A]}
<1>3. d \in Int /\ SizeOf(s) \in Nat /\ SizeOf(hs[t]) \in Nat
  BY SizeOfType
<1>4. {} \in T
  BY <1>1, <1>2 DEF IsTotal
<1>5. \A A \in SUBSET Target : A # {} => (CHOOSE u \in A : TRUE) \in A
  OBVIOUS
<1>6. Chooses(ch, Target) /\ \A A \in SUBSET Target : ch[A] = CHOOSE u \in A : TRUE
  BY <1>5 DEF Chooses
<1> HIDE DEF ch
<1>7. ASSUME NEW A \in SUBSET Target, A # {}, A \ {ch[A]} \in T PROVE A \in T
  <2> DEFINE u == ch[A]
             B == A \ {u}
  <2>1. u \in Target /\ u \in A /\ B \in SUBSET Target /\ u = CHOOSE x \in A : TRUE
    BY <1>6, <1>7 DEF Chooses
  <2>2. /\ f[A] = f[B] + SizeOf(hs[u])
        /\ a[A] = a[B] + SizeOf(hn[u])
    <3> HIDE DEF u
    <3> QED BY <1>1, <1>2, <1>7, <2>1 DEF IsTotal
  <2>3. f[B] \in Nat /\ SizeOf(hs[u]) \in Nat
    BY <1>1, <2>1, SizeOfType DEF IsTotal
  <2>4. a[B] = IF t \in B THEN f[B] + d ELSE f[B]
    BY <1>7
  <2>5. CASE u = t
    <3>1. a[B] = f[B] /\ t \in A
      BY <2>1, <2>4, <2>5
    <3>2. SizeOf(hn[u]) = SizeOf(hs[u]) + d
      BY <1>0, <1>3, <2>5
    <3>3. a[A] = f[A] + d
      <4> HIDE DEF d, B, u
      <4> QED BY <1>3, <2>2, <2>3, <3>1, <3>2
    <3> QED BY <3>1, <3>3
  <2>6. CASE u # t
    <3>1. SizeOf(hn[u]) = SizeOf(hs[u]) /\ (t \in A <=> t \in B)
      BY <1>0, <2>1, <2>6
    <3>2. a[A] = IF t \in A THEN f[A] + d ELSE f[A]
      <4> HIDE DEF d, B, u
      <4> QED BY <1>3, <2>2, <2>3, <2>4, <3>1
    <3> QED BY <3>2
  <2> QED BY <2>5, <2>6
<1> HIDE DEF T
<1>8. Target \in T
  <2>1. IsFiniteSet(Target) /\ Chooses(ch, Target) /\ Closed(T, Target, ch)
    BY <1>4, <1>6, <1>7, SizeAssumption DEF Closed
  <2>2. SUBSET Target \subseteq T
    BY <2>1, SubsetInduction
  <2> QED BY <2>2
<1>9. TotalSize(hn) = TotalSize(hs) + d /\ TotalSize(hs) \in Nat
  BY <1>1, <1>2, <1>8 DEF T, IsTotal
<1> QED BY <1>3, <1>9 DEF hn

-----------------------------------------------------------------------------
(* The invariant of the hint store. *)

\* A loop that has sent a hint, or failed to, still has it on its list.
LoopInv == \A t \in Target : phase[t] \in {"sent", "failed"} => todo[t] # <<>>

HandoffInv == HandoffTypeOK /\ LoopInv /\ Accounted /\ Durable

LEMMA HintFacts ==
  ASSUME NEW h \in Hint
  PROVE  /\ h.key \in Key /\ Size[h.key] \in Nat /\ h.attempts \in 0 .. MaxAttempts - 1
         /\ \A a \in 0 .. MaxAttempts - 1 : [h EXCEPT !.attempts = a] \in Hint
  BY SizeAssumption DEF Hint

\* The filters by key and by age.
LEMMA FilterFacts ==
  ASSUME NEW s \in Seq(Hint), NEW H
  PROVE  Only(s, H) \in Seq(Hint) /\ KeysOf(Only(s, H)) \subseteq KeysOf(s)
<1>1. Only(s, H) \in Seq(Hint)
  <2>1. CASE Hint = {}
    <3>1. s = <<>>
      BY <2>1
    <3> QED BY <3>1, OnlyFacts
  <2>2. CASE Hint # {}
    BY <2>2, OnlyFacts
  <2> QED BY <2>1, <2>2
<1>2. \A i \in 1 .. Len(Only(s, H)) : \E j \in 1 .. Len(s) : s[j] = Only(s, H)[i]
  BY OnlyElements
<1> QED BY <1>1, <1>2 DEF KeysOf

LEMMA DeleteSize ==
  ASSUME NEW s \in Seq(Hint), NEW k
  PROVE  SizeOf(s) = SizeOf(WithoutKey(s, k)) + SizeOf(WithKey(s, k))
  BY SplitSize DEF WithKey, WithoutKey

\* UpdateHint changes no size and adds no key.
LEMMA UpdatedFacts ==
  ASSUME NEW s \in Seq(Hint), NEW h \in Hint
  PROVE  /\ Updated(s, h) \in Seq(Hint)
         /\ SizeOf(Updated(s, h)) = SizeOf(s)
         /\ KeysOf(Updated(s, h)) \subseteq KeysOf(s)
<1> DEFINE I == {i \in 1 .. Len(s) : s[i].key = h.key}
           at == SelectInSeq(s, LAMBDA g : g.key = h.key)
<1>1. at = IF I # {} THEN Min(I) ELSE 0
  BY Zenon DEF SelectInSeq
<1>2. CASE I = {}
  <2>1. at = 0
    BY <1>1, <1>2
  <2>2. Updated(s, h) = s
    BY <2>1, Zenon DEF Updated
  <2> QED BY <2>2
<1>3. CASE I # {}
  <2>1. Min(I) \in I
    <3>1. \E x \in I : \A y \in I : x <= y
      <4>1. I \in SUBSET Nat
        OBVIOUS
      <4> HIDE DEF I
      <4> QED BY <1>3, <4>1, LeastNat
    <3> HIDE DEF I
    <3> QED BY <3>1 DEF Min
  <2>2. at = Min(I)
    BY <1>1, <1>3
  <2>3. at \in 1 .. Len(s) /\ s[at].key = h.key /\ at # 0
    BY <2>1, <2>2
  <2>4. Updated(s, h) = [s EXCEPT ![at] = h]
    BY <2>3, Zenon DEF Updated
  <2> HIDE DEF at
  <2>5. [s EXCEPT ![at] = h] \in Seq(Hint) /\ SizeOf([s EXCEPT ![at] = h]) = SizeOf(s)
    BY <2>3, ReplaceSize
  <2>6. KeysOf([s EXCEPT ![at] = h]) \subseteq KeysOf(s)
    BY <2>3, ExceptSeq DEF KeysOf
  <2> QED BY <2>4, <2>5, <2>6
<1> QED BY <1>2, <1>3

LEMMA TotalType == \A hs \in [Target -> Seq(Hint)] : TotalSize(hs) \in Nat
<1> SUFFICES ASSUME NEW hs \in [Target -> Seq(Hint)] PROVE TotalSize(hs) \in Nat
  OBVIOUS
<1>1. PICK f : IsTotal(f, hs)
  BY TotalIsFold
<1> QED BY <1>1 DEF IsTotal

\* A change of the hints of one target that counts the difference.
LEMMA StoreCounts ==
  ASSUME hints \in [Target -> Seq(Hint)], Accounted, Durable,
         NEW t \in Target, NEW s \in Seq(Hint), Store(t, s),
         total' = total - SizeOf(hints[t]) + SizeOf(s)
  PROVE  hints' \in [Target -> Seq(Hint)] /\ file' = hints' /\ Accounted' /\ total' \in Nat
<1>1. hints' = [hints EXCEPT ![t] = s] /\ file' = hints' /\ hints' \in [Target -> Seq(Hint)]
  BY DEF Store, Durable
<1>2. TotalSize(hints') = TotalSize(hints) - SizeOf(hints[t]) + SizeOf(s)
  BY <1>1, TotalUpdate
<1>3. TotalSize(hints') \in Nat
  BY <1>1, TotalType
<1>4. total' = TotalSize(hints')
  BY <1>2 DEF Accounted
<1> QED BY <1>1, <1>3, <1>4 DEF Accounted

LEMMA InitIInv == HandoffInit => HandoffInv
<1> SUFFICES ASSUME HandoffInit PROVE HandoffInv
  OBVIOUS
<1>1. HandoffTypeOK
  <2>1. <<>> \in Seq(Hint)
    OBVIOUS
  <2>2. [t \in Target |-> <<>>] \in [Target -> Seq(Hint)]
    BY <2>1
  <2>3. 0 \in 0 .. MaxAdds /\ 0 \in 0 .. MaxCrashes
    BY BoundsAssumption
  <2> DEFINE none == [t \in Target |-> <<>>]
  <2>4. hints = none /\ file = none /\ todo = none /\ total = 0 /\ adds = 0 /\ crashes = 0 /\ repeated = FALSE
    BY DEF HandoffInit
  <2>5. phase \in [Target -> {"idle", "copy", "deliver", "sent", "failed"}]
    BY DEF HandoffInit
  <2> HIDE DEF none
  <2> QED BY <2>2, <2>3, <2>4, <2>5 DEF HandoffTypeOK, none
<1>1a. LoopInv /\ Durable
  BY DEF HandoffInit, LoopInv, Durable
<1>2. Accounted
  <2>1. hints \in [Target -> Seq(Hint)] /\ \A t \in Target : hints[t] = <<>>
    BY DEF HandoffInit
  <2>2. \A t \in Target : SizeOf(hints[t]) = SizeOf(hints[t]) + SizeOf(hints[t])
    BY <2>1, SizeOfFacts
  <2>3. TotalSize(hints) = TotalSize(hints) + TotalSize(hints) /\ TotalSize(hints) \in Nat
    BY <2>1, <2>2, TotalSplit, TotalType
  <2> QED BY <2>3 DEF Accounted, HandoffInit
<1> QED BY <1>1, <1>1a, <1>2 DEF HandoffInv

LEMMA AddHintPreserves ==
  ASSUME HandoffInv, NEW t \in Target, NEW k \in Key, AddHint(t, k)
  PROVE  HandoffInv'
<1> DEFINE h == [id |-> adds + 1, key |-> k, attempts |-> 0]
<1> USE DEF HandoffInv
<1>1. adds' \in 0 .. MaxAdds /\ h \in Hint /\ Size[k] \in Nat /\ h.key = k
  BY SizeAssumption, LimitsAssumption, BoundsAssumption DEF AddHint, HandoffTypeOK, Hint
<1>2. UNCHANGED <<phase, todo, crashes>> /\ repeated' \in BOOLEAN
  BY DEF AddHint, loops, HandoffTypeOK
<1>3. hints \in [Target -> Seq(Hint)] /\ total \in Nat /\ hints[t] \in Seq(Hint)
  BY DEF HandoffTypeOK
<1> HIDE DEF h
<1>4. hints' \in [Target -> Seq(Hint)] /\ file' = hints' /\ Accounted' /\ total' \in Nat
  <2>1. CASE AddToStore(t, h)
    <3>1. CASE Len(hints[t]) < MaxHints
      <4>1. Store(t, Append(hints[t], h)) /\ total' = total + Size[h.key]
        BY <1>3, <2>1, <3>1, LimitsAssumption DEF AddToStore
      <4>2. SizeOf(hints[t]) \in Nat /\ SizeOf(Append(hints[t], h)) = SizeOf(hints[t]) + Size[h.key]
        BY <1>1, <1>3, SizeOfFacts
      <4>3. total' = total - SizeOf(hints[t]) + SizeOf(Append(hints[t], h))
        BY <1>1, <1>3, <4>1, <4>2
      <4>4. Append(hints[t], h) \in Seq(Hint)
        BY <1>1, <1>3
      <4> QED BY <1>3, <4>1, <4>3, <4>4, StoreCounts
    <3>2. CASE ~(Len(hints[t]) < MaxHints)
      <4> DEFINE s == Append(Tail(hints[t]), h)
      <4>1. Store(t, s) /\ total' = total - Size[Head(hints[t]).key] + Size[h.key]
        BY <2>1, <3>2 DEF AddToStore
      <4>2. hints[t] # <<>>
        BY <1>3, <3>2, LimitsAssumption
      <4>3. Tail(hints[t]) \in Seq(Hint) /\ Head(hints[t]) \in Hint
        BY <1>3, <4>2
      <4>4. SizeOf(hints[t]) = Size[Head(hints[t]).key] + SizeOf(Tail(hints[t]))
        BY <1>3, <4>2, TailSize
      <4>5. SizeOf(Tail(hints[t])) \in Nat /\ SizeOf(s) = SizeOf(Tail(hints[t])) + Size[h.key]
        BY <1>1, <4>3, SizeOfFacts
      <4>6. Size[Head(hints[t]).key] \in Nat
        BY <4>3, HintFacts
      <4>7. s \in Seq(Hint)
        BY <1>1, <4>3
      <4> HIDE DEF s
      <4>8. total' = total - SizeOf(hints[t]) + SizeOf(s)
        BY <1>1, <1>3, <4>1, <4>4, <4>5, <4>6
      <4> QED BY <1>3, <4>1, <4>7, <4>8, StoreCounts
    <3> QED BY <3>1, <3>2
  <2>2. CASE UNCHANGED <<hints, total, file>>
    BY <1>3, <2>2 DEF Accounted, Durable
  <2> QED BY <2>1, <2>2 DEF AddHint, h
<1>5. HandoffTypeOK'
  BY <1>1, <1>2, <1>4 DEF HandoffTypeOK
<1>6. LoopInv'
  BY <1>2 DEF LoopInv
<1> QED BY <1>4, <1>5, <1>6 DEF Durable

\* What the loops do with the store: DeleteHint, or UpdateHint.
LEMMA DeleteCounts ==
  ASSUME HandoffInv, NEW t \in Target, NEW k, DeleteHint(t, k)
  PROVE  hints' \in [Target -> Seq(Hint)] /\ file' = hints' /\ Accounted' /\ total' \in Nat
<1>1. hints \in [Target -> Seq(Hint)] /\ total \in Nat /\ hints[t] \in Seq(Hint)
  BY DEF HandoffInv, HandoffTypeOK
<1>2. WithoutKey(hints[t], k) \in Seq(Hint) /\ WithKey(hints[t], k) \in Seq(Hint)
  BY <1>1, FilterFacts DEF WithoutKey, WithKey
<1>3. SizeOf(hints[t]) = SizeOf(WithoutKey(hints[t], k)) + SizeOf(WithKey(hints[t], k))
  BY <1>1, DeleteSize
<1>4. SizeOf(WithoutKey(hints[t], k)) \in Nat /\ SizeOf(WithKey(hints[t], k)) \in Nat
  BY <1>2, SizeOfType
<1>5. Store(t, WithoutKey(hints[t], k)) /\ total' = total - SizeOf(WithKey(hints[t], k))
  BY DEF DeleteHint
<1>6. total' = total - SizeOf(hints[t]) + SizeOf(WithoutKey(hints[t], k))
  BY <1>1, <1>3, <1>4, <1>5
<1> QED BY <1>1, <1>2, <1>5, <1>6, StoreCounts DEF HandoffInv

LEMMA UpdateCounts ==
  ASSUME HandoffInv, NEW t \in Target, NEW h \in Hint, Store(t, Updated(hints[t], h)), UNCHANGED total
  PROVE  hints' \in [Target -> Seq(Hint)] /\ file' = hints' /\ Accounted' /\ total' \in Nat
<1>1. hints \in [Target -> Seq(Hint)] /\ total \in Nat /\ hints[t] \in Seq(Hint)
  BY DEF HandoffInv, HandoffTypeOK
<1>2. Updated(hints[t], h) \in Seq(Hint) /\ SizeOf(Updated(hints[t], h)) = SizeOf(hints[t]) /\ SizeOf(hints[t]) \in Nat
  BY <1>1, UpdatedFacts, SizeOfType
<1>3. total' = total - SizeOf(hints[t]) + SizeOf(Updated(hints[t], h))
  BY <1>1, <1>2
<1> QED BY <1>1, <1>2, <1>3, StoreCounts DEF HandoffInv

\* A failed hint that is kept is a hint with one attempt more.
LEMMA FailedHint ==
  ASSUME HandoffInv, NEW t \in Target, phase[t] = "failed",
         ~GiveUp([Head(todo[t]) EXCEPT !.attempts = @ + 1])
  PROVE  [Head(todo[t]) EXCEPT !.attempts = @ + 1] \in Hint
<1>1. Head(todo[t]) \in Hint
  <2>1. todo[t] \in Seq(Hint) /\ todo[t] # <<>>
    BY DEF HandoffInv, HandoffTypeOK, LoopInv
  <2> QED BY <2>1
<1>2. Head(todo[t]).attempts + 1 \in 0 .. MaxAttempts - 1
  BY <1>1, LimitsAssumption DEF GiveUp, Hint
<1> QED BY <1>1, <1>2, HintFacts

LEMMA LoopPreserves ==
  ASSUME HandoffInv, NEW t \in Target, OnPeerReconnect(t) \/ Loop(t)
  PROVE  HandoffInv'
<1> USE DEF HandoffInv
<1>1. CASE OnPeerReconnect(t)
  BY <1>1 DEF OnPeerReconnect, counts, HandoffTypeOK, LoopInv, Accounted, Durable
<1>2. CASE CopyHints(t)
  BY <1>2 DEF CopyHints, counts, HandoffTypeOK, LoopInv, Accounted, Durable
<1>3. CASE Deliver(t)
  BY <1>3 DEF Deliver, counts, HandoffTypeOK, LoopInv, Accounted, Durable
<1>4. CASE DeliveryEnds(t)
  BY <1>4 DEF DeliveryEnds, counts, HandoffTypeOK, LoopInv, Accounted, Durable
<1>5. ASSUME NextHint(t), UNCHANGED <<counts, repeated>>, phase[t] \in {"sent", "failed"},
             hints' \in [Target -> Seq(Hint)], file' = hints', Accounted', total' \in Nat
      PROVE  HandoffInv'
  <2>1. todo[t] \in Seq(Hint) /\ todo[t] # <<>>
    BY <1>5 DEF HandoffTypeOK, LoopInv
  <2>2. Tail(todo[t]) \in Seq(Hint)
    BY <2>1
  <2>3. HandoffTypeOK'
    BY <1>5, <2>2 DEF NextHint, counts, HandoffTypeOK
  <2>4. LoopInv'
    BY <1>5 DEF NextHint, HandoffTypeOK, LoopInv
  <2> QED BY <1>5, <2>3, <2>4 DEF Durable
<1>6. CASE Delivered(t)
  <2>1. DeleteHint(t, Head(todo[t]).key) /\ NextHint(t) /\ UNCHANGED <<counts, repeated>> /\ phase[t] = "sent"
    BY <1>6 DEF Delivered
  <2> QED BY <1>5, <2>1, DeleteCounts
<1>7. CASE DeliveryFailed(t)
  <2> DEFINE h == [Head(todo[t]) EXCEPT !.attempts = @ + 1]
  <2>1. /\ NextHint(t) /\ UNCHANGED <<counts, repeated>> /\ phase[t] = "failed"
        /\ \/ DeleteHint(t, h.key)
           \/ ~GiveUp(h) /\ Store(t, Updated(hints[t], h)) /\ UNCHANGED total
    BY <1>7 DEF DeliveryFailed
  <2>2. CASE DeleteHint(t, h.key)
    BY <1>5, <2>1, <2>2, DeleteCounts
  <2>3. CASE ~GiveUp(h) /\ Store(t, Updated(hints[t], h)) /\ UNCHANGED total
    <3>1. h \in Hint
      BY <2>1, <2>3, FailedHint
    <3> QED BY <1>5, <2>1, <2>3, <3>1, UpdateCounts
  <2> QED BY <2>1, <2>2, <2>3
<1> QED BY <1>1, <1>2, <1>3, <1>4, <1>6, <1>7 DEF Loop

\* Expiry.
LEMMA ExpirySplits ==
  ASSUME NEW hs \in [Target -> Seq(Hint)], NEW cutoff \in Nat
  PROVE  /\ Fresh(hs, cutoff) \in [Target -> Seq(Hint)]
         /\ TotalSize(hs) = TotalSize(Fresh(hs, cutoff)) + TotalSize(Expired(hs, cutoff))
         /\ TotalSize(Fresh(hs, cutoff)) \in Nat /\ TotalSize(Expired(hs, cutoff)) \in Nat
<1> DEFINE H == {h \in Hint : h.id > cutoff}
           K == {h \in Hint : h.id <= cutoff}
<1>1. \A h \in Hint : h \in H <=> h \notin K
  BY DEF Hint
<1>2. Fresh(hs, cutoff) \in [Target -> Seq(Hint)] /\ \A t \in Target : Fresh(hs, cutoff)[t] = Only(hs[t], H)
  BY FilterFacts DEF Fresh
<1>3. Expired(hs, cutoff) \in [Target -> Seq(Hint)] /\ \A t \in Target : Expired(hs, cutoff)[t] = Only(hs[t], K)
  BY FilterFacts DEF Expired
<1> HIDE DEF H, K
<1>4. \A t \in Target : SizeOf(hs[t]) = SizeOf(Only(hs[t], H)) + SizeOf(Only(hs[t], K))
  BY <1>1, SplitSize
<1>5. \A t \in Target : SizeOf(hs[t]) = SizeOf(Fresh(hs, cutoff)[t]) + SizeOf(Expired(hs, cutoff)[t])
  BY <1>2, <1>3, <1>4
<1>6. TotalSize(hs) = TotalSize(Fresh(hs, cutoff)) + TotalSize(Expired(hs, cutoff))
  BY <1>2, <1>3, <1>5, TotalSplit
<1> QED BY <1>2, <1>3, <1>6, TotalType

LEMMA PurgePreserves ==
  ASSUME HandoffInv, PurgeExpired
  PROVE  HandoffInv'
<1> USE DEF HandoffInv
<1>1. PICK cutoff \in 1 .. adds :
        /\ hints' = Fresh(hints, cutoff)
        /\ total' = total - TotalSize(Expired(hints, cutoff))
        /\ file' = [t \in Target |-> IF hints'[t] = hints[t] THEN file[t] ELSE hints'[t]]
  BY DEF PurgeExpired
<1>2. UNCHANGED <<phase, todo, adds, crashes, repeated>>
  BY DEF PurgeExpired, loops, counts
<1>3. hints \in [Target -> Seq(Hint)] /\ cutoff \in Nat
  BY DEF HandoffTypeOK
<1>4. hints' \in [Target -> Seq(Hint)] /\ total' = TotalSize(hints') /\ total' \in Nat
  <2>1. total = TotalSize(Fresh(hints, cutoff)) + TotalSize(Expired(hints, cutoff))
    BY <1>3, ExpirySplits DEF Accounted
  <2>2. /\ TotalSize(Fresh(hints, cutoff)) \in Nat /\ TotalSize(Expired(hints, cutoff)) \in Nat
        /\ Fresh(hints, cutoff) \in [Target -> Seq(Hint)]
    BY <1>3, ExpirySplits
  <2> QED BY <1>1, <2>1, <2>2
<1>5. file' = hints'
  BY <1>1, <1>4 DEF Durable
<1>6. HandoffTypeOK'
  BY <1>2, <1>4, <1>5 DEF HandoffTypeOK
<1>7. LoopInv'
  BY <1>2 DEF LoopInv
<1> QED BY <1>4, <1>5, <1>6, <1>7 DEF Accounted, Durable

LEMMA CrashPreserves ==
  ASSUME HandoffInv, Crash
  PROVE  HandoffInv'
<1> USE DEF HandoffInv
<1>1. PICK torn \in {{}} \cup {{t} : t \in {u \in Target : Writing(u)}}, cutoff \in 0 .. adds :
        LET loaded == [t \in Target |-> IF t \in torn THEN <<>> ELSE file[t]] IN
        /\ hints' = Fresh(loaded, cutoff)
        /\ file' = hints'
        /\ total' = TotalSize(loaded) - TotalSize(Expired(loaded, cutoff))
  BY DEF Crash
<1>2. /\ phase' = [t \in Target |-> "idle"] /\ todo' = [t \in Target |-> <<>>]
      /\ crashes' \in 0 .. MaxCrashes /\ UNCHANGED <<adds, repeated>>
  BY BoundsAssumption DEF Crash, HandoffTypeOK
<1> DEFINE loaded == [t \in Target |-> IF t \in torn THEN <<>> ELSE file[t]]
<1>3. cutoff \in Nat /\ file \in [Target -> Seq(Hint)]
  BY DEF HandoffTypeOK
<1>4. loaded \in [Target -> Seq(Hint)]
  <2>1. <<>> \in Seq(Hint)
    OBVIOUS
  <2> QED BY <1>3, <2>1
<1>5. hints' = Fresh(loaded, cutoff) /\ file' = hints' /\ total' = TotalSize(loaded) - TotalSize(Expired(loaded, cutoff))
  BY <1>1
<1> HIDE DEF loaded
<1>6. hints' \in [Target -> Seq(Hint)] /\ total' = TotalSize(hints') /\ total' \in Nat
  <2>1. /\ TotalSize(loaded) = TotalSize(Fresh(loaded, cutoff)) + TotalSize(Expired(loaded, cutoff))
        /\ TotalSize(Fresh(loaded, cutoff)) \in Nat /\ TotalSize(Expired(loaded, cutoff)) \in Nat
        /\ Fresh(loaded, cutoff) \in [Target -> Seq(Hint)]
    BY <1>3, <1>4, ExpirySplits
  <2> QED BY <1>5, <2>1
<1>7. HandoffTypeOK'
  <2>1. <<>> \in Seq(Hint)
    OBVIOUS
  <2> QED BY <1>2, <1>5, <1>6, <2>1 DEF HandoffTypeOK
<1>8. LoopInv'
  BY <1>2 DEF LoopInv
<1> QED BY <1>5, <1>6, <1>7, <1>8 DEF Accounted, Durable

LEMMA NextPreserves == HandoffInv /\ [HandoffNext]_handoffVars => HandoffInv'
<1> SUFFICES ASSUME HandoffInv, [HandoffNext]_handoffVars PROVE HandoffInv'
  OBVIOUS
<1>1. CASE UNCHANGED handoffVars
  BY <1>1 DEF handoffVars, HandoffInv, HandoffTypeOK, LoopInv, Accounted, Durable
<1>2. CASE HandoffNext
  <2>1. CASE PurgeExpired
    BY <2>1, PurgePreserves
  <2>2. CASE Crash
    BY <2>2, CrashPreserves
  <2>3. ASSUME NEW t \in Target, OnPeerReconnect(t) \/ Loop(t) PROVE HandoffInv'
    BY <2>3, LoopPreserves
  <2>4. ASSUME NEW t \in Target, NEW k \in Key, AddHint(t, k) PROVE HandoffInv'
    BY <2>4, AddHintPreserves
  <2> QED BY <1>2, <2>1, <2>2, <2>3, <2>4 DEF HandoffNext
<1> QED BY <1>1, <1>2

\* The hints on disk are those in memory, their sizes add up to the running total, and a
\* loop that has sent a hint still has it at hand: AddHint, DeleteHint, UpdateHint and
\* PurgeExpired keep this at every interleaving with the loops, and so does a restart.
THEOREM HandoffInvariant == HandoffSpec => []HandoffInv
  BY InitIInv, NextPreserves, PTL DEF HandoffSpec

\* The total that AddHint compares with the budget is the size of the hints stored,
\* whatever was evicted, expired, delivered twice or loaded again.
THEOREM SizesAccounted == HandoffSpec => []Accounted
<1>1. HandoffInv => Accounted
  BY DEF HandoffInv
<1> QED BY <1>1, HandoffInvariant, PTL

\* persistLocked: what a restart would load is what the store holds.
THEOREM HintsDurable == HandoffSpec => []Durable
<1>1. HandoffInv => Durable
  BY DEF HandoffInv
<1> QED BY <1>1, HandoffInvariant, PTL

\* Only AddHint brings a key into the store.
LEMMA StepAddsNoKey ==
  ASSUME HandoffInv, [HandoffNext]_handoffVars, adds' = adds, NEW u \in Target
  PROVE  KeysOf(hints'[u]) \subseteq KeysOf(hints[u])
<1>0. hints \in [Target -> Seq(Hint)] /\ file = hints /\ adds \in Nat
  BY BoundsAssumption DEF HandoffInv, HandoffTypeOK, Durable
<1>1. CASE UNCHANGED hints
  BY <1>1
<1>2. ASSUME NEW t \in Target, NEW k, DeleteHint(t, k)
      PROVE  KeysOf(hints'[u]) \subseteq KeysOf(hints[u])
  <2>1. hints'[u] = IF u = t THEN WithoutKey(hints[t], k) ELSE hints[u]
    BY <1>0, <1>2 DEF DeleteHint, Store
  <2>2. KeysOf(WithoutKey(hints[t], k)) \subseteq KeysOf(hints[t])
    BY <1>0, FilterFacts DEF WithoutKey
  <2> QED BY <2>1, <2>2
<1>3. ASSUME NEW t \in Target, NEW h \in Hint, Store(t, Updated(hints[t], h))
      PROVE  KeysOf(hints'[u]) \subseteq KeysOf(hints[u])
  <2>1. hints'[u] = IF u = t THEN Updated(hints[t], h) ELSE hints[u]
    BY <1>0, <1>3 DEF Store
  <2>2. KeysOf(Updated(hints[t], h)) \subseteq KeysOf(hints[t])
    BY <1>0, <1>3, UpdatedFacts
  <2> QED BY <2>1, <2>2
<1>4. CASE \E t \in Target, k \in Key : AddHint(t, k)
  BY <1>0, <1>4 DEF AddHint
<1>5. CASE PurgeExpired
  <2>1. PICK cutoff : hints' = Fresh(hints, cutoff)
    BY <1>5 DEF PurgeExpired
  <2>2. \E H : hints'[u] = Only(hints[u], H)
    BY <2>1 DEF Fresh
  <2> QED BY <1>0, <2>2, FilterFacts
<1>6. CASE Crash
  <2>1. PICK torn, cutoff : hints' = Fresh([t \in Target |-> IF t \in torn THEN <<>> ELSE file[t]], cutoff)
    BY <1>6 DEF Crash
  <2>2. \E H : hints'[u] = Only(IF u \in torn THEN <<>> ELSE hints[u], H)
    BY <1>0, <2>1 DEF Fresh
  <2>3. PICK H : hints'[u] = Only(IF u \in torn THEN <<>> ELSE hints[u], H)
    BY <2>2
  <2>4. CASE u \in torn
    <3>1. hints'[u] = <<>>
      BY <2>3, <2>4, OnlyFacts
    <3>2. KeysOf(hints'[u]) = {}
      BY <3>1 DEF KeysOf
    <3> QED BY <3>2
  <2>5. CASE u \notin torn
    BY <1>0, <2>3, <2>5, FilterFacts
  <2> QED BY <2>4, <2>5
<1>7. ASSUME NEW t \in Target, OnPeerReconnect(t) \/ Loop(t)
      PROVE  KeysOf(hints'[u]) \subseteq KeysOf(hints[u])
  <2>1. CASE OnPeerReconnect(t) \/ CopyHints(t) \/ Deliver(t) \/ DeliveryEnds(t)
    BY <1>1, <2>1 DEF OnPeerReconnect, CopyHints, Deliver, DeliveryEnds
  <2>2. CASE Delivered(t)
    BY <1>2, <2>2 DEF Delivered
  <2>3. CASE DeliveryFailed(t)
    <3> DEFINE h == [Head(todo[t]) EXCEPT !.attempts = @ + 1]
    <3>1. /\ phase[t] = "failed"
          /\ DeleteHint(t, h.key) \/ (~GiveUp(h) /\ Store(t, Updated(hints[t], h)))
      BY <2>3 DEF DeliveryFailed
    <3>2. ~GiveUp(h) => h \in Hint
      BY <3>1, FailedHint
    <3> QED BY <1>2, <1>3, <3>1, <3>2
  <2> QED BY <1>7, <2>1, <2>2, <2>3 DEF Loop
<1>8. CASE UNCHANGED handoffVars
  BY <1>1, <1>8 DEF handoffVars
<1> QED BY <1>4, <1>5, <1>6, <1>7, <1>8 DEF HandoffNext

\* UpdateHint with the loop's copy of a hint does not bring back one that was evicted,
\* expired or delivered in the meantime.
THEOREM NoHintComesBack == HandoffSpec => NothingComesBack
<1>1. HandoffInv /\ [HandoffNext]_handoffVars => [adds' = adds => \A t \in Target : KeysOf(hints'[t]) \subseteq KeysOf(hints[t])]_handoffVars
  BY StepAddsNoKey
<1> QED BY <1>1, HandoffInvariant, PTL DEF HandoffSpec, NothingComesBack

-----------------------------------------------------------------------------
(* Vector clocks and the resolution of versions. *)

Clock == [Node -> Nat]

\* a happened before b, or they are equal.
Leq(a, b) == \A n \in Node : a[n] <= b[n]

LEMMA CompareFacts ==
  ASSUME NEW a \in Clock, NEW b \in Clock
  PROVE  /\ Compare(a, b) = "Before" <=> Leq(a, b) /\ a # b
         /\ Compare(a, b) = "Concurrent" <=> ~Leq(a, b) /\ ~Leq(b, a)
         /\ Compare(a, b) = "Equal" <=> a = b
<1>0. DOMAIN a = Node /\ \A n \in Node : a[n] \in Nat /\ b[n] \in Nat
  BY DEF Clock
<1> DEFINE up == \E n \in Node : a[n] > b[n]
           down == \E n \in Node : b[n] > a[n]
<1>1. up <=> ~Leq(a, b)
  BY <1>0 DEF Leq
<1>2. down <=> ~Leq(b, a)
  BY <1>0 DEF Leq
<1>3. Leq(a, b) /\ Leq(b, a) <=> a = b
  <2>1. ASSUME Leq(a, b), Leq(b, a) PROVE a = b
    <3>1. \A n \in Node : a[n] = b[n]
      BY <1>0, <2>1 DEF Leq
    <3> QED BY <3>1 DEF Clock
  <2>2. ASSUME a = b PROVE Leq(a, b) /\ Leq(b, a)
    BY <1>0, <2>2 DEF Leq
  <2> QED BY <2>1, <2>2
<1> HIDE DEF up, down
<1>4. Compare(a, b) = CASE up /\ down -> "Concurrent"
                        [] up /\ ~down -> "After"
                        [] down /\ ~up -> "Before"
                        [] OTHER -> "Equal"
  BY <1>0 DEF Compare, up, down
<1>5. CASE up /\ down
  BY <1>1, <1>2, <1>3, <1>4, <1>5
<1>6. CASE up /\ ~down
  BY <1>1, <1>2, <1>3, <1>4, <1>6
<1>7. CASE ~up /\ down
  BY <1>1, <1>2, <1>3, <1>4, <1>7
<1>8. CASE ~up /\ ~down
  BY <1>1, <1>2, <1>3, <1>4, <1>8
<1> QED BY <1>5, <1>6, <1>7, <1>8

LEMMA LeqTransitive ==
  ASSUME NEW a \in Clock, NEW b \in Clock, NEW c \in Clock, Leq(a, b), Leq(b, c)
  PROVE  Leq(a, c)
<1> SUFFICES ASSUME NEW n \in Node PROVE a[n] <= c[n]
  BY DEF Leq
<1>1. a[n] \in Nat /\ b[n] \in Nat /\ c[n] \in Nat
  BY DEF Clock
<1>2. a[n] <= b[n] /\ b[n] <= c[n]
  BY DEF Leq
<1> QED BY <1>1, <1>2

\* What comes after a clock is not before what that clock is not before.
LEMMA NotBeforeUpward ==
  ASSUME NEW a \in Clock, NEW b \in Clock, NEW c \in Clock, Leq(a, b), Compare(a, c) # "Before"
  PROVE  Compare(b, c) # "Before"
<1> SUFFICES ASSUME Leq(b, c), b # c PROVE FALSE
  BY CompareFacts
<1>1. Leq(a, c)
  BY LeqTransitive
<1>2. a = c
  BY <1>1, CompareFacts
<1>4. Leq(c, b)
  BY <1>2
<1>5. \A n \in Node : b[n] \in Nat /\ c[n] \in Nat
  BY DEF Clock
<1>6. \A n \in Node : b[n] = c[n]
  BY <1>4, <1>5 DEF Leq
<1> QED BY <1>6 DEF Clock

LEMMA ResolveIsFold ==
  \E g : /\ g \in [Version \X Version -> Version]
         /\ \A v, w \in Version : g[<<v, w>>] = Better(v, w)
         /\ \A b \in Version, s \in Seq(Version) : FoldLeft(Better, b, s) = LeftFold(g, b, Version, s)
<1> DEFINE g == [p \in Version \X Version |-> Better(p[1], p[2])]
<1>1. \A v, w \in Version : Better(v, w) \in {v, w}
  BY DEF Better
<1>2. g \in [Version \X Version -> Version]
  BY <1>1
<1>3. \A v, w \in Version : g[<<v, w>>] = Better(v, w)
  OBVIOUS
<1> HIDE DEF g
<1>4. ASSUME NEW b \in Version, NEW s \in Seq(Version) PROVE FoldLeft(Better, b, s) = LeftFold(g, b, Version, s)
  <2> DEFINE eq(f) == f = [A \in SUBSET DOMAIN s |-> IF A = {} THEN b ELSE Better(f[A \ {Max(A)}], s[Max(A)])]
             F == CHOOSE f : eq(f)
  <2>0. IsStep(g, b, Version, Version)
    BY <1>2 DEF IsStep
  <2>1. FoldLeft(Better, b, s) = F[DOMAIN s]
    BY Zenon DEF FoldLeft, MapThenFoldSet
  <2>2. \A A \in SUBSET DOMAIN s : A # {} => s[Max(A)] \in Version
    BY MaxElement
  <2>3. PICK f : IsLeftFold(f, g, b, Version, s)
    BY <2>0, LeftFoldExists, Zenon
  <2>4. eq(f)
    <3>1. ASSUME NEW A \in SUBSET DOMAIN s, A # {} PROVE f[A] = Better(f[A \ {Max(A)}], s[Max(A)])
      <4>1. f[A] = g[<<f[A \ {Max(A)}], s[Max(A)]>>] /\ f[A \ {Max(A)}] \in Version
        BY <2>3, <3>1 DEF IsLeftFold
      <4> QED BY <1>3, <2>2, <3>1, <4>1
    <3> QED BY <2>3, <3>1 DEF IsLeftFold
  <2>5. eq(F)
    BY <2>4
  <2> HIDE DEF F
  <2>6. Follows(F, g, b, Version, s)
    <3>1. F[{}] = b
      BY <2>5
    <3>2. ASSUME NEW A \in SUBSET DOMAIN s, A # {}, F[A \ {Max(A)}] \in Version
          PROVE  F[A] = g[<<F[A \ {Max(A)}], s[Max(A)]>>]
      <4>1. F[A] = Better(F[A \ {Max(A)}], s[Max(A)])
        BY <2>5, <3>2
      <4> QED BY <1>3, <2>2, <3>2, <4>1
    <3> QED BY <3>1, <3>2 DEF Follows
  <2>7. F[DOMAIN s] = LeftFold(g, b, Version, s)
    BY <2>0, <2>6, LeftFoldIs
  <2> QED BY <2>1, <2>7
<1> QED BY <1>2, <1>3, <1>4, Zenon

LEMMA BetterFold ==
  ASSUME NEW b \in Version
  PROVE  /\ FoldLeft(Better, b, <<>>) = b
         /\ \A s \in Seq(Version), v \in Version :
              /\ FoldLeft(Better, b, s) \in Version
              /\ FoldLeft(Better, b, Append(s, v)) = Better(FoldLeft(Better, b, s), v)
<1>1. PICK g : /\ g \in [Version \X Version -> Version]
               /\ \A v, w \in Version : g[<<v, w>>] = Better(v, w)
               /\ \A c \in Version, s \in Seq(Version) : FoldLeft(Better, c, s) = LeftFold(g, c, Version, s)
  BY ResolveIsFold, Zenon
<1>2. IsStep(g, b, Version, Version)
  BY <1>1 DEF IsStep
<1>3. FoldLeft(Better, b, <<>>) = b
  <2>1. <<>> \in Seq(Version)
    OBVIOUS
  <2>2. LeftFold(g, b, Version, <<>>) = b
    BY <1>2, LeftFoldEmpty
  <2> QED BY <1>1, <2>1, <2>2, Zenon
<1>4. ASSUME NEW s \in Seq(Version), NEW v \in Version
      PROVE  /\ FoldLeft(Better, b, s) \in Version
             /\ FoldLeft(Better, b, Append(s, v)) = Better(FoldLeft(Better, b, s), v)
  <2>1. LeftFold(g, b, Version, s) \in Version /\ LeftFold(g, b, Version, Append(s, v)) = g[<<LeftFold(g, b, Version, s), v>>]
    BY <1>2, LeftFoldAppend
  <2>2. Append(s, v) \in Seq(Version)
    OBVIOUS
  <2>3. FoldLeft(Better, b, s) = LeftFold(g, b, Version, s)
    BY <1>1, Zenon
  <2>4. FoldLeft(Better, b, Append(s, v)) = LeftFold(g, b, Version, Append(s, v))
    BY <1>1, <2>2, Zenon
  <2>5. g[<<LeftFold(g, b, Version, s), v>>] = Better(LeftFold(g, b, Version, s), v)
    BY <1>1, <2>1, Zenon
  <2> QED BY <2>1, <2>3, <2>4, <2>5, Zenon
<1> QED BY <1>3, <1>4, Zenon

\* The clocks of the versions in C can be compared with one another.
Chain(C) == C \subseteq Version /\ \A v, w \in C : Compare(v.clock, w.clock) # "Concurrent"

\* m is one of the versions in C, and as new as b and the versions of s.
Newest(m, C, b, s) == m \in C /\ Leq(b.clock, m.clock) /\ \A i \in 1 .. Len(s) : Leq(s[i].clock, m.clock)

\* Of versions that can be compared, the resolution keeps a newest one.
LEMMA FoldNewest ==
  ASSUME NEW C, Chain(C), NEW b \in C
  PROVE  \A s \in Seq(C) : Newest(FoldLeft(Better, b, s), C, b, s)
<1> DEFINE F(s) == FoldLeft(Better, b, s)
           T == {s \in Seq(C) : Newest(F(s), C, b, s)}
<1>0. C \subseteq Version /\ b \in Version /\ Seq(C) \subseteq Seq(Version) /\ \A v \in C : v.clock \in Clock
  <2>1. C \subseteq Version /\ b \in Version
    BY DEF Chain
  <2>2. \A v \in C : v.clock \in Clock
    BY <2>1 DEF Version, Clock
  <2>3. ASSUME NEW s \in Seq(C) PROVE s \in Seq(Version)
    BY <2>1
  <2> QED BY <2>1, <2>2, <2>3
<1>1. <<>> \in T
  <2>1. F(<<>>) = b
    BY <1>0, BetterFold
  <2>2. Leq(b.clock, b.clock)
    <3>1. b.clock \in Clock
      BY <1>0
    <3> QED BY <3>1 DEF Leq, Clock
  <2> HIDE DEF F
  <2> QED BY <2>1, <2>2 DEF Newest
<1>2. ASSUME NEW s \in Seq(C), NEW e \in C, s \in T PROVE Append(s, e) \in T
  <2> DEFINE m == F(s)  t == Append(s, e)
  <2>1. F(t) = Better(m, e) /\ m \in C
    <3>1. F(Append(s, e)) = Better(F(s), e)
      BY <1>0, BetterFold
    <3> HIDE DEF F
    <3> QED BY <3>1, <1>2 DEF Newest
  <2>2. Newest(m, C, b, s)
    BY <1>2
  <2>3. t \in Seq(C) /\ Len(s) \in Nat /\ Len(t) = Len(s) + 1 /\ t[Len(s) + 1] = e /\ \A i \in 1 .. Len(s) : t[i] = s[i] /\ s[i] \in C
    OBVIOUS
  <2>4. m.clock \in Clock /\ e.clock \in Clock /\ Compare(m.clock, e.clock) # "Concurrent"
    BY <1>0, <2>1 DEF Chain
  <2> HIDE DEF m, t, F
  <2>5. ASSUME NEW k \in C, Leq(m.clock, k.clock), Leq(e.clock, k.clock)
        PROVE  Newest(k, C, b, t)
    <3>1. k.clock \in Clock /\ b.clock \in Clock
      BY <1>0
    <3>2. Leq(b.clock, k.clock)
      BY <3>1, <2>2, <2>4, <2>5, LeqTransitive DEF Newest
    <3>3. ASSUME NEW i \in 1 .. Len(t) PROVE Leq(t[i].clock, k.clock)
      <4>1. CASE i = Len(s) + 1
        BY <4>1, <2>3, <2>5
      <4>2. CASE i # Len(s) + 1
        <5>1. i \in 1 .. Len(s)
          BY <4>2, <2>3
        <5>2. t[i] = s[i] /\ s[i].clock \in Clock /\ Leq(s[i].clock, m.clock)
          BY <5>1, <2>2, <2>3, <1>0 DEF Newest
        <5> QED BY <5>2, <3>1, <2>4, <2>5, LeqTransitive
      <4> QED BY <4>1, <4>2
    <3> QED BY <3>2, <3>3 DEF Newest
  <2>6. CASE Compare(m.clock, e.clock) = "Before"
    <3>1. F(t) = e
      BY <2>1, <2>6 DEF Better
    <3>2. Leq(m.clock, e.clock) /\ Leq(e.clock, e.clock)
      BY <2>4, <2>6, CompareFacts DEF Leq, Clock
    <3> QED BY <3>1, <3>2, <2>3, <2>5 DEF t
  <2>7. CASE Compare(m.clock, e.clock) # "Before"
    <3>1. F(t) = m
      BY <2>1, <2>4, <2>7 DEF Better
    <3>2. Leq(m.clock, m.clock)
      BY <2>4 DEF Leq, Clock
    <3>3. Leq(e.clock, m.clock)
      BY <2>4, <2>7, <3>2, CompareFacts
    <3> QED BY <3>1, <3>2, <3>3, <2>1, <2>3, <2>5 DEF t
  <2> QED BY <2>6, <2>7 DEF t
<1> HIDE DEF T
<1>3. Seq(C) \subseteq T
  BY <1>1, <1>2, SequenceInduction
<1> QED BY <1>3 DEF T

LEMMA ResolveFacts ==
  ASSUME NEW versions \in Seq(Version), versions # <<>>
  PROVE  /\ Resolve(versions) \in Version
         /\ Comparable(versions) =>
              \A i \in DOMAIN versions : Leq(versions[i].clock, Resolve(versions).clock)
<1> DEFINE b == Head(versions)  s == Tail(versions)
           C == {versions[i] : i \in DOMAIN versions}
<1>1. /\ b = versions[1] /\ 1 \in DOMAIN versions /\ b \in Version /\ b \in C
      /\ s \in Seq(Version) /\ C \subseteq Version
      /\ Len(versions) \in Nat /\ Len(s) = Len(versions) - 1 /\ DOMAIN versions = 1 .. Len(versions)
      /\ \A i \in 1 .. Len(s) : s[i] = versions[i + 1]
  OBVIOUS
<1>2. s \in Seq(C)
  <2>1. \A i \in 1 .. Len(s) : i + 1 \in DOMAIN versions /\ s[i] \in C
    BY <1>1
  <2>2. s \in [1 .. Len(s) -> C] /\ Len(s) \in Nat
    <3> HIDE DEF C, s
    <3> QED BY <1>1, <2>1
  <2> QED BY <2>2
<1>3. Resolve(versions) = FoldLeft(Better, b, s)
  BY DEF Resolve
<1> HIDE DEF b, s
<1>4. Resolve(versions) \in Version
  BY <1>1, <1>3, BetterFold
<1>5. ASSUME Comparable(versions), NEW i \in DOMAIN versions
      PROVE  Leq(versions[i].clock, Resolve(versions).clock)
  <2>1. Chain(C)
    BY <1>1, <1>5 DEF Chain, Comparable
  <2> HIDE DEF C
  <2>2. Newest(Resolve(versions), C, b, s)
    BY <1>1, <1>2, <1>3, <2>1, FoldNewest
  <2>3. CASE i = 1
    BY <1>1, <2>2, <2>3 DEF Newest
  <2>4. CASE i # 1
    <3>1. i - 1 \in 1 .. Len(s) /\ s[i - 1] = versions[i]
      BY <1>1, <2>4
    <3> QED BY <3>1, <2>2 DEF Newest
  <2> QED BY <2>3, <2>4
<1> QED BY <1>4, <1>5

-----------------------------------------------------------------------------
(* Quorum calls: their types. *)

\* One call changes.
LEMMA OneCall ==
  ASSUME op \in [Op -> Call], NEW o \in Op, NEW c \in Call, op' = [op EXCEPT ![o] = c]
  PROVE  op' \in [Op -> Call] /\ op'[o] = c /\ \A q \in Op : q # o => op'[q] = op[q]
  OBVIOUS

\* What the steps make of a call.
Started(c, k, a) == [c EXCEPT !.pc = "wait", !.clock = k, !.after = a]
Acknowledged(c, n, p) == [c EXCEPT !.acks = n, !.pc = p]
Resolved(c, vs, b, k) == [c EXCEPT !.versions = vs, !.full = b, !.pc = "ok", !.clock = k]
Answering(c, vs) == [c EXCEPT !.versions = vs]
Failed(c) == [c EXCEPT !.pc = "failed"]

LEMMA StartedCall ==
  ASSUME NEW c \in Call, NEW k \in [Node -> Nat], NEW a \in SUBSET Op
  PROVE  LET d == Started(c, k, a)
         IN  d \in Call /\ d.pc = "wait" /\ d.clock = k /\ d.after = a /\ d.acks = c.acks
             /\ d.versions = c.versions /\ d.full = c.full
  BY DEF Call, Started

LEMMA AcknowledgedCall ==
  ASSUME NEW c \in Call, NEW n \in Nat, NEW p, p = "ok" \/ p = "wait"
  PROVE  LET d == Acknowledged(c, n, p)
         IN  d \in Call /\ d.pc = p /\ d.acks = n /\ d.clock = c.clock /\ d.after = c.after
             /\ d.versions = c.versions /\ d.full = c.full
  BY DEF Call, Acknowledged

LEMMA ResolvedCall ==
  ASSUME NEW c \in Call, NEW vs \in Seq(Version), NEW b \in BOOLEAN, NEW k \in [Node -> Nat]
  PROVE  LET d == Resolved(c, vs, b, k)
         IN  d \in Call /\ d.pc = "ok" /\ d.versions = vs /\ d.full = b /\ d.clock = k
             /\ d.acks = c.acks /\ d.after = c.after
  BY DEF Call, Resolved

LEMMA AnsweringCall ==
  ASSUME NEW c \in Call, NEW vs \in Seq(Version)
  PROVE  LET d == Answering(c, vs)
         IN  d \in Call /\ d.pc = c.pc /\ d.versions = vs /\ d.full = c.full /\ d.clock = c.clock
             /\ d.acks = c.acks /\ d.after = c.after
  BY DEF Call, Answering

LEMMA FailedCall ==
  ASSUME NEW c \in Call
  PROVE  LET d == Failed(c)
         IN  d \in Call /\ d.pc = "failed" /\ d.versions = c.versions /\ d.clock = c.clock
             /\ d.acks = c.acks /\ d.after = c.after /\ d.full = c.full
  BY DEF Call, Failed

LEMMA CallFacts ==
  ASSUME NEW c \in Call
  PROVE  /\ c.clock \in [Node -> Nat] /\ c.acks \in Nat /\ c.versions \in Seq(Version)
         /\ c.after \in SUBSET Op /\ c.full \in BOOLEAN /\ c.pc \in {"idle", "wait", "ok", "failed"}
  BY DEF Call

LEMMA MessageFacts ==
  ASSUME NEW x \in Message
  PROVE  /\ x.type \in {"write", "read", "ack", "version"} /\ x.op \in Op
         /\ x.type \in {"write", "read"} => x.to \in Node /\ x = [type |-> x.type, op |-> x.op, to |-> x.to]
         /\ x.type = "ack" => x.from \in Node /\ x = [type |-> "ack", op |-> x.op, from |-> x.from]
         /\ x.type = "version" => x.from \in Node /\ x.clock \in [Node -> Nat] /\ x.ts \in Nat
  BY DEF Message

LEMMA KeptSubset == \A S : Kept(S) \subseteq S
  BY DEF Kept

LEMMA HeardFacts ==
  ASSUME QTypeOK, NEW x \in wire, NEW k \in {"write", "read"}
  PROVE  Heard(x, k) \in Op \cup {NoCall}
<1>1. x.op \in Op
  BY MessageFacts DEF QTypeOK
<1>2. By[x.op] \in Node
  BY <1>1, QuorumAssumption
<1> QED BY <1>1, <1>2 DEF Heard, QTypeOK

LEMMA EndsType ==
  ASSUME QTypeOK, NEW o \in Op, Ends(o)
  PROVE  table' \in [Node -> [{"write", "read"} -> Op \cup {NoCall}]]
<1>1. By[o] \in Node /\ Kind[o] \in {"write", "read"}
  BY QuorumAssumption
<1> QED BY <1>1 DEF Ends, QTypeOK

LEMMA ReadCall ==
  ASSUME QTypeOK, NEW o \in Op, NEW versions \in Seq(Version), versions # <<>>, NEW full \in BOOLEAN,
         Read(o, versions, full)
  PROVE  /\ op' \in [Op -> Call]
         /\ op'[o].versions = versions /\ op'[o].full = full /\ op'[o].pc = "ok"
         /\ op'[o].clock = Resolve(versions).clock
         /\ op'[o].acks = op[o].acks /\ op'[o].after = op[o].after
         /\ \A q \in Op : q # o => op'[q] = op[q]
<1>1. op \in [Op -> Call] /\ op[o] \in Call
  BY DEF QTypeOK
<1>2. Resolve(versions) \in Version
  BY ResolveFacts
<1>3. Resolve(versions).clock \in [Node -> Nat]
  BY <1>2 DEF Version
<1> DEFINE d == Resolved(op[o], versions, full, Resolve(versions).clock)
<1>4. op' = [op EXCEPT ![o] = d]
  BY DEF Read, Resolved
<1>5. d \in Call /\ d.pc = "ok" /\ d.versions = versions /\ d.full = full /\ d.clock = Resolve(versions).clock
      /\ d.acks = op[o].acks /\ d.after = op[o].after
  BY <1>1, <1>3, ResolvedCall
<1> HIDE DEF d
<1>6. op' \in [Op -> Call] /\ op'[o] = d /\ \A q \in Op : q # o => op'[q] = op[q]
  BY <1>1, <1>4, <1>5, OneCall
<1> QED BY <1>5, <1>6

\* A call begins.
Begun(o, T) ==
  /\ op[o].pc = "idle"
  /\ op' \in [Op -> Call] /\ QTypeOK'
  /\ op'[o].pc = "wait" /\ op'[o].after = {q \in Op : Kind[q] = "write" /\ op[q].pc = "ok"}
  /\ op'[o].acks = op[o].acks /\ op'[o].versions = op[o].versions /\ op'[o].full = op[o].full
  /\ \A q \in Op : q # o => op'[q] = op[q]
  /\ wire' = wire \cup Request(o, T)
  /\ UNCHANGED <<meta, stale>>

LEMMA BeginCall ==
  ASSUME QTypeOK, NEW o \in Op, NEW T \in SUBSET Node, Begin(o, T)
  PROVE  Begun(o, T)
<1>1. op \in [Op -> Call] /\ op[o] \in Call /\ By[o] \in Node /\ Kind[o] \in {"write", "read"}
  BY QuorumAssumption DEF QTypeOK
<1>2. Increment(meta[By[o]].clock, By[o]) \in [Node -> Nat]
  <2>1. meta[By[o]].clock \in [Node -> Nat]
    BY <1>1 DEF QTypeOK
  <2> QED BY <1>1, <2>1 DEF Increment
<1> DEFINE k == Increment(meta[By[o]].clock, By[o])
           a == {q \in Op : Kind[q] = "write" /\ op[q].pc = "ok"}
           d == Started(op[o], k, a)
<1>3. op' = [op EXCEPT ![o] = d]
  BY DEF Begin, Started
<1>4. d \in Call /\ d.pc = "wait" /\ d.after = a /\ d.acks = op[o].acks /\ d.versions = op[o].versions
      /\ d.full = op[o].full
  <2>1. a \in SUBSET Op /\ k \in [Node -> Nat]
    BY <1>2
  <2> HIDE DEF a, k
  <2> QED BY <1>1, <2>1, StartedCall
<1> HIDE DEF d
<1>5. op' \in [Op -> Call] /\ op'[o] = d /\ \A q \in Op : q # o => op'[q] = op[q]
  BY <1>1, <1>3, <1>4, OneCall
<1>6. QTypeOK'
  <2>1. Request(o, T) \subseteq Message
    BY <1>1 DEF Request, Message
  <2>2. wire' \subseteq Message
    BY <2>1 DEF Begin, QTypeOK
  <2>3. table' \in [Node -> [{"write", "read"} -> Op \cup {NoCall}]]
    BY <1>1 DEF Begin, QTypeOK
  <2> QED BY <1>5, <2>2, <2>3 DEF Begin, QTypeOK
<1> QED BY <1>4, <1>5, <1>6 DEF Begin, Begun

\* A call ends before it has all its answers.
TimedOut(o) ==
  /\ op[o].pc = "wait"
  /\ op' \in [Op -> Call] /\ QTypeOK'
  /\ op'[o].pc \in {"ok", "failed"} /\ op'[o].acks = op[o].acks /\ op'[o].after = op[o].after
  /\ op'[o].versions = op[o].versions
  /\ op[o].versions = <<>> => op'[o].pc = "failed" /\ op'[o].clock = op[o].clock
  /\ op'[o].pc = "ok" => ~op'[o].full
  /\ \A q \in Op : q # o => op'[q] = op[q]
  /\ wire' \subseteq wire
  /\ UNCHANGED <<meta, stale>>

LEMMA TimeoutCall ==
  ASSUME QTypeOK, NEW o \in Op, Timeout(o)
  PROVE  TimedOut(o)
<1>1. op \in [Op -> Call] /\ op[o] \in Call /\ op[o].versions \in Seq(Version)
  BY CallFacts DEF QTypeOK
<1>2. /\ op' \in [Op -> Call]
      /\ op'[o].pc \in {"ok", "failed"} /\ op'[o].acks = op[o].acks /\ op'[o].after = op[o].after
      /\ op'[o].versions = op[o].versions
      /\ op[o].versions = <<>> => op'[o].pc = "failed" /\ op'[o].clock = op[o].clock
      /\ op'[o].pc = "ok" => ~op'[o].full
      /\ \A q \in Op : q # o => op'[q] = op[q]
  <2>1. CASE op[o].versions # <<>>
    <3>1. Read(o, op[o].versions, FALSE)
      BY <2>1 DEF Timeout
    <3> QED BY <1>1, <2>1, <3>1, ReadCall
  <2>2. CASE op[o].versions = <<>>
    <3> DEFINE d == Failed(op[o])
    <3>1. op' = [op EXCEPT ![o] = d]
      BY <2>2 DEF Timeout, Failed
    <3>2. d \in Call /\ d.pc = "failed" /\ d.versions = op[o].versions /\ d.clock = op[o].clock
          /\ d.acks = op[o].acks /\ d.after = op[o].after
      BY <1>1, FailedCall
    <3> HIDE DEF d
    <3>3. op' \in [Op -> Call] /\ op'[o] = d /\ \A q \in Op : q # o => op'[q] = op[q]
      BY <1>1, <3>1, <3>2, OneCall
    <3> QED BY <3>2, <3>3
  <2> QED BY <2>1, <2>2
<1>3. wire' \subseteq wire
  BY KeptSubset DEF Timeout
<1>4. QTypeOK'
  BY <1>2, <1>3, EndsType DEF Timeout, QTypeOK
<1> QED BY <1>2, <1>3, <1>4 DEF Timeout, TimedOut

\* An ack is counted by the call o.
Counted(x, o) ==
  /\ o \in Op /\ op[o].pc = "wait" /\ stale' = (stale \/ o # x.op)
  /\ op' \in [Op -> Call]
  /\ op'[o].acks = op[o].acks + 1 /\ op'[o].pc \in {"ok", "wait"} /\ (op'[o].pc = "ok" => W <= op[o].acks + 1)
  /\ op'[o].versions = op[o].versions /\ op'[o].after = op[o].after /\ op'[o].clock = op[o].clock
  /\ op'[o].full = op[o].full
  /\ \A q \in Op : q # o => op'[q] = op[q]

LEMMA AckCall ==
  ASSUME QTypeOK, NEW x \in wire, HandleWriteAck(x)
  PROVE  /\ wire' \subseteq wire \ {x} /\ QTypeOK' /\ meta' = meta /\ x.type = "ack"
         /\ (op' = op /\ stale' = stale) \/ Counted(x, Heard(x, "write"))
<1> DEFINE o == Heard(x, "write")
<1>1. op \in [Op -> Call] /\ o \in Op \cup {NoCall}
  BY HeardFacts DEF QTypeOK
<1>2. wire' \subseteq wire \ {x} /\ meta' = meta /\ x.type = "ack"
  BY KeptSubset DEF HandleWriteAck
<1> HIDE DEF o
<1>3. CASE o # NoCall /\ op[o].pc = "wait"
  <2> DEFINE n == op[o].acks + 1
             p == IF QuorumMet(n) THEN "ok" ELSE "wait"
             d == Acknowledged(op[o], n, p)
  <2>0. o \in Op /\ op[o] \in Call /\ op[o].acks \in Nat
    BY <1>1, <1>3, CallFacts
  <2>1. /\ op' = [op EXCEPT ![o] = d]
        /\ (Ends(o) \/ UNCHANGED table) /\ stale' = (stale \/ o # x.op)
    BY <1>3 DEF HandleWriteAck, o, Acknowledged
  <2>2. d \in Call /\ d.pc = p /\ d.acks = n /\ d.clock = op[o].clock /\ d.after = op[o].after
        /\ d.versions = op[o].versions /\ d.full = op[o].full
    <3>1. n \in Nat /\ p \in {"ok", "wait"}
      BY <2>0
    <3> HIDE DEF n, p
    <3>2. CASE p = "ok"
      BY <2>0, <3>1, <3>2, AcknowledgedCall
    <3>3. CASE p = "wait"
      BY <2>0, <3>1, <3>3, AcknowledgedCall
    <3> QED BY <3>1, <3>2, <3>3
  <2>3. p = "ok" => W <= n
    BY <2>0, QuorumAssumption DEF QuorumMet
  <2> HIDE DEF d
  <2>4. op' \in [Op -> Call] /\ op'[o] = d /\ \A q \in Op : q # o => op'[q] = op[q]
    BY <1>1, <2>0, <2>1, <2>2, OneCall
  <2>5. table' \in [Node -> [{"write", "read"} -> Op \cup {NoCall}]]
    BY <2>0, <2>1, EndsType DEF QTypeOK
  <2>6. QTypeOK'
    BY <1>2, <2>1, <2>4, <2>5 DEF QTypeOK
  <2>7. Counted(x, o)
    BY <1>3, <2>0, <2>1, <2>2, <2>3, <2>4 DEF Counted
  <2> QED BY <1>2, <2>6, <2>7 DEF o
<1>4. CASE ~(o # NoCall /\ op[o].pc = "wait")
  <2>1. op' = op /\ stale' = stale /\ UNCHANGED <<table, meta>>
    BY <1>4 DEF HandleWriteAck, o
  <2>2. QTypeOK'
    BY <1>2, <2>1 DEF QTypeOK
  <2> QED BY <1>2, <2>1, <2>2
<1> QED BY <1>3, <1>4

\* A version is counted by the call o.
Received(x, o) ==
  /\ o \in Op /\ op[o].pc = "wait" /\ stale' = (stale \/ o # x.op)
  /\ op' \in [Op -> Call]
  /\ op'[o].versions = Append(op[o].versions, [clock |-> x.clock, ts |-> x.ts, from |-> x.from])
  /\ op'[o].acks = op[o].acks /\ op'[o].after = op[o].after
  /\ \/ op'[o].pc = "wait"
     \/ op'[o].pc = "ok" /\ Len(op'[o].versions) >= R /\ op'[o].clock = Resolve(op'[o].versions).clock
  /\ \A q \in Op : q # o => op'[q] = op[q]

LEMMA ResponseCall ==
  ASSUME QTypeOK, NEW x \in wire, HandleReadResponse(x)
  PROVE  /\ wire' \subseteq wire \ {x} /\ QTypeOK' /\ meta' = meta /\ x.type = "version"
         /\ [clock |-> x.clock, ts |-> x.ts, from |-> x.from] \in Version
         /\ (op' = op /\ stale' = stale) \/ Received(x, Heard(x, "read"))
<1> DEFINE o == Heard(x, "read")
           v == [clock |-> x.clock, ts |-> x.ts, from |-> x.from]
           versions == Append(op[o].versions, v)
<1>1. op \in [Op -> Call] /\ o \in Op \cup {NoCall}
  BY HeardFacts DEF QTypeOK
<1>2. wire' \subseteq wire \ {x} /\ meta' = meta /\ x.type = "version"
  BY KeptSubset DEF HandleReadResponse
<1>3. v \in Version
  BY <1>2, MessageFacts DEF QTypeOK, Version
<1> HIDE DEF o, v
<1>4. CASE o # NoCall /\ op[o].pc = "wait"
  <2>0. o \in Op /\ op[o] \in Call /\ op[o].versions \in Seq(Version)
    BY <1>1, <1>4, CallFacts
  <2>1. versions \in Seq(Version) /\ versions # <<>>
    BY <1>3, <2>0
  <2>2. /\ \/ Len(versions) >= R /\ Read(o, versions, TRUE) /\ Ends(o)
           \/ op' = [op EXCEPT ![o] = Answering(op[o], versions)] /\ UNCHANGED table
        /\ stale' = (stale \/ o # x.op)
    BY <1>4 DEF HandleReadResponse, o, v, Answering
  <2> HIDE DEF versions
  <2>3. /\ op' \in [Op -> Call]
        /\ op'[o].versions = versions /\ op'[o].acks = op[o].acks /\ op'[o].after = op[o].after
        /\ \/ op'[o].pc = "wait"
           \/ op'[o].pc = "ok" /\ Len(versions) >= R /\ op'[o].clock = Resolve(versions).clock
        /\ \A q \in Op : q # o => op'[q] = op[q]
    <3>1. CASE Len(versions) >= R /\ Read(o, versions, TRUE)
      BY <2>0, <2>1, <3>1, ReadCall
    <3>2. CASE op' = [op EXCEPT ![o] = Answering(op[o], versions)]
      <4> DEFINE d == Answering(op[o], versions)
      <4>1. d \in Call /\ d.pc = op[o].pc /\ d.versions = versions /\ d.acks = op[o].acks /\ d.after = op[o].after
        BY <2>0, <2>1, AnsweringCall
      <4>2. op' = [op EXCEPT ![o] = d]
        BY <3>2
      <4> HIDE DEF d
      <4>3. op' \in [Op -> Call] /\ op'[o] = d /\ \A q \in Op : q # o => op'[q] = op[q]
        BY <1>1, <2>0, <4>1, <4>2, OneCall
      <4> QED BY <1>4, <4>1, <4>3
    <3> QED BY <2>2, <3>1, <3>2
  <2>4. table' \in [Node -> [{"write", "read"} -> Op \cup {NoCall}]]
    BY <2>0, <2>2, EndsType DEF QTypeOK
  <2>5. QTypeOK'
    BY <1>2, <2>2, <2>3, <2>4 DEF QTypeOK
  <2>6. Received(x, o)
    BY <1>4, <2>0, <2>2, <2>3 DEF Received, versions, v
  <2> QED BY <1>2, <1>3, <2>5, <2>6 DEF o, v
<1>5. CASE ~(o # NoCall /\ op[o].pc = "wait")
  <2>1. op' = op /\ stale' = stale /\ UNCHANGED <<table, meta>>
    BY <1>5 DEF HandleReadResponse, o
  <2>2. QTypeOK'
    BY <1>2, <2>1 DEF QTypeOK
  <2> QED BY <1>2, <1>3, <2>1, <2>2 DEF v
<1> QED BY <1>4, <1>5

\* A replica stores the version of x.
Stored(x) ==
  LET n == x.to  a == [type |-> "ack", op |-> x.op, from |-> n] IN
  /\ x.op \in Op /\ n \in Node /\ x = [type |-> "write", op |-> x.op, to |-> n]
  /\ wire' \subseteq (wire \ {x}) \cup {a}
  /\ meta'[n].clock = op[x.op].clock /\ meta'[n].held = meta[n].held \cup {x.op}
  /\ \A m \in Node : m # n => meta'[m] = meta[m]
  /\ op' = op
  /\ stale' = (stale \/ \E o \in meta[n].held : Compare(op[x.op].clock, op[o].clock) = "Before")

LEMMA StoreCall ==
  ASSUME QTypeOK, NEW x \in wire, NEW now \in Stamps, StoreVersion(x, now)
  PROVE  QTypeOK' /\ Stored(x)
<1>1. x.op \in Op /\ x.to \in Node /\ x = [type |-> "write", op |-> x.op, to |-> x.to]
  BY MessageFacts DEF StoreVersion, QTypeOK
<1>2. now \in Nat /\ op[x.op].clock \in [Node -> Nat]
  BY <1>1, CallFacts, QuorumAssumption DEF QTypeOK
<1>3. [type |-> "ack", op |-> x.op, from |-> x.to] \in Message
  BY <1>1 DEF Message
<1>4. wire' \subseteq (wire \ {x}) \cup {[type |-> "ack", op |-> x.op, from |-> x.to]}
  BY KeptSubset DEF StoreVersion
<1>5. /\ meta' \in [Node -> [found : BOOLEAN, clock : [Node -> Nat], ts : Nat, held : SUBSET Op]]
      /\ meta'[x.to].clock = op[x.op].clock /\ meta'[x.to].held = meta[x.to].held \cup {x.op}
      /\ \A m \in Node : m # x.to => meta'[m] = meta[m]
  BY <1>1, <1>2 DEF StoreVersion, QTypeOK
<1>6. QTypeOK'
  BY <1>3, <1>4, <1>5 DEF StoreVersion, QTypeOK
<1> QED BY <1>1, <1>4, <1>5, <1>6 DEF StoreVersion, Stored

\* A replica answers a read, if it has something.
Answered(x) ==
  LET v == [type |-> "version", op |-> x.op, from |-> x.to, clock |-> meta[x.to].clock, ts |-> meta[x.to].ts] IN
  /\ x.op \in Op /\ x.to \in Node /\ x = [type |-> "read", op |-> x.op, to |-> x.to]
  /\ wire' = wire \ {x} \/ wire' = (wire \ {x}) \cup {v}
  /\ UNCHANGED <<meta, op, stale>>

LEMMA AnswerCall ==
  ASSUME QTypeOK, NEW x \in wire, ReadVersion(x)
  PROVE  QTypeOK' /\ Answered(x)
<1>1. x.op \in Op /\ x.to \in Node /\ x = [type |-> "read", op |-> x.op, to |-> x.to]
  BY MessageFacts DEF ReadVersion, QTypeOK
<1> DEFINE v == meta[x.to]
<1>2. v.clock \in [Node -> Nat] /\ v.ts \in Nat
  BY <1>1 DEF QTypeOK
<1>3. [type |-> "version", op |-> x.op, from |-> x.to, clock |-> v.clock, ts |-> v.ts] \in Message
  BY <1>1, <1>2 DEF Message
<1>4. QTypeOK'
  BY <1>3 DEF ReadVersion, QTypeOK
<1> QED BY <1>1, <1>4 DEF ReadVersion, Answered

-----------------------------------------------------------------------------
(* Quorum calls: the invariant, for the nodes T that keep the key. *)

\* The replica that a message goes to or comes from, and the kind of call that it is of.
Place(x) == IF x.type \in {"write", "read"} THEN x.to ELSE x.from
KindOf(x) == IF x.type \in {"write", "ack"} THEN "write" ELSE "read"

\* The nodes whose answers a read has counted.
Froms(o) == {op[o].versions[i].from : i \in DOMAIN op[o].versions}

\* The nodes that hold a write and whose ack is no longer under way.
Acked(T, o) ==
  {n \in T : o \in meta[n].held /\ [type |-> "ack", op |-> o, from |-> n] \notin wire}

\* The nodes that hold the write w, and whose answer to r, if there is one, is not older.
Good(T, r, w) ==
  {n \in T :
     /\ w \in meta[n].held
     /\ \A x \in wire : x.type = "version" /\ x.op = r /\ x.from = n => Compare(x.clock, op[w].clock) # "Before"
     /\ \A i \in DOMAIN op[r].versions :
          op[r].versions[i].from = n => Compare(op[r].versions[i].clock, op[w].clock) # "Before"}

\* Messages are of calls that have begun, to and from their replicas.
WireInv(T) == \A x \in wire : op[x.op].pc # "idle" /\ Kind[x.op] = KindOf(x) /\ Place(x) \in T

\* A replica holds the writes that reached it, and has a clock that precedes none of theirs.
HeldInv(T) ==
  \A n \in Node : \A o \in meta[n].held :
    /\ n \in T /\ Kind[o] = "write" /\ op[o].pc # "idle"
    /\ [type |-> "write", op |-> o, to |-> n] \notin wire
    /\ Compare(meta[n].clock, op[o].clock) # "Before"

AckInv == \A x \in wire : x.type = "ack" => x.op \in meta[x.from].held

\* A node answers a read once.
AnswerInv ==
  \A x \in wire :
    /\ x.type = "read" => /\ x.to \notin Froms(x.op)
                          /\ \A y \in wire : y.type = "version" /\ y.op = x.op => y.from # x.to
    /\ x.type = "version" => /\ x.from \notin Froms(x.op)
                             /\ \A y \in wire : y.type = "version" /\ y.op = x.op /\ y.from = x.from => y = x

\* A write counts acks of different nodes, a read answers of different nodes.
WriteInv(T, o) ==
  /\ op[o].versions = << >>
  /\ op[o].acks <= Cardinality(Acked(T, o))
  /\ op[o].pc = "ok" => W <= op[o].acks
ReadInv(T, o) ==
  /\ op[o].pc = "idle" => op[o].versions = << >>
  /\ Froms(o) \subseteq T /\ Len(op[o].versions) <= Cardinality(Froms(o))
  /\ op[o].pc = "ok" /\ op[o].full =>
       Len(op[o].versions) >= R /\ op[o].clock = Resolve(op[o].versions).clock
CallInv(T) == \A o \in Op : IF Kind[o] = "write" THEN WriteInv(T, o) ELSE ReadInv(T, o)

\* A quorum holds each write that succeeded before a call began, and answers with nothing older.
AfterInv(T) ==
  \A r \in Op : \A w \in op[r].after :
    /\ Kind[w] = "write" /\ op[w].pc = "ok"
    /\ Kind[r] = "read" => W <= Cardinality(Good(T, r, w))

QInv(T) == ~stale => WireInv(T) /\ HeldInv(T) /\ AckInv /\ AnswerInv /\ CallInv(T) /\ AfterInv(T)

-----------------------------------------------------------------------------
(* Quorum calls: each step keeps it. *)

\* What no step undoes.
Steady ==
  /\ \A q \in Op : op[q].pc # "idle" => op'[q].pc # "idle"
  /\ \A q \in Op : op[q].pc # "idle" /\ Kind[q] = "write" => op'[q].clock = op[q].clock
  /\ \A q \in Op : op[q].pc = "ok" => op'[q] = op[q]
  /\ \A n \in Node : meta[n].held \subseteq meta'[n].held

\* The acks that a write has not counted, if any, are the same.
LEMMA AckedGrows ==
  ASSUME NEW T \in SUBSET Node, NEW o \in Op, Steady,
         \A n \in T : o \in meta[n].held /\ [type |-> "ack", op |-> o, from |-> n] \in wire'
                        => [type |-> "ack", op |-> o, from |-> n] \in wire
  PROVE  Acked(T, o) \subseteq Acked(T, o)'
<1> SUFFICES ASSUME NEW n \in Acked(T, o) PROVE n \in Acked(T, o)'
  OBVIOUS
<1>1. n \in T /\ n \in Node /\ o \in meta[n].held /\ [type |-> "ack", op |-> o, from |-> n] \notin wire
  BY DEF Acked
<1>2. o \in meta'[n].held
  BY <1>1 DEF Steady
<1> QED BY <1>1, <1>2 DEF Acked

LEMMA CardinalityGrows ==
  ASSUME NEW T \in SUBSET Node, NEW A \in SUBSET T, NEW B \in SUBSET T, A \subseteq B
  PROVE  Cardinality(A) \in Nat /\ Cardinality(B) \in Nat /\ Cardinality(A) <= Cardinality(B)
<1>1. IsFiniteSet(T) /\ IsFiniteSet(B) /\ IsFiniteSet(A)
  BY QuorumAssumption, FS_Subset
<1> QED BY <1>1, FS_Subset, FS_CardinalityType

\* A new answer of a node that holds the write w is not older than w.
NewAnswer(x, w) == x.type = "version" => (w \in meta[x.from].held => Compare(x.clock, op[w].clock) # "Before")

LEMMA GoodGrows ==
  ASSUME NEW T \in SUBSET Node, NEW r \in Op, NEW w \in Op, Steady, op'[w].clock = op[w].clock,
         \A x \in wire' : x \in wire \/ NewAnswer(x, w),
         \A i \in DOMAIN op'[r].versions :
           \/ i \in DOMAIN op[r].versions /\ op'[r].versions[i] = op[r].versions[i]
           \/ \E x \in wire : /\ x.type = "version" /\ x.op = r
                              /\ x.from = op'[r].versions[i].from /\ x.clock = op'[r].versions[i].clock
  PROVE  Good(T, r, w) \subseteq Good(T, r, w)'
<1> SUFFICES ASSUME NEW n \in Good(T, r, w) PROVE n \in Good(T, r, w)'
  OBVIOUS
<1>1. /\ n \in T /\ n \in Node /\ w \in meta[n].held
      /\ \A x \in wire : x.type = "version" /\ x.op = r /\ x.from = n => Compare(x.clock, op[w].clock) # "Before"
      /\ \A i \in DOMAIN op[r].versions :
           op[r].versions[i].from = n => Compare(op[r].versions[i].clock, op[w].clock) # "Before"
  BY DEF Good
<1>2. w \in meta'[n].held
  BY <1>1 DEF Steady
<1>3. ASSUME NEW x \in wire', x.type = "version", x.op = r, x.from = n
      PROVE  Compare(x.clock, op'[w].clock) # "Before"
  BY <1>1, <1>3 DEF NewAnswer
<1>4. ASSUME NEW i \in DOMAIN op'[r].versions, op'[r].versions[i].from = n
      PROVE  Compare(op'[r].versions[i].clock, op'[w].clock) # "Before"
  BY <1>1, <1>4
<1> QED BY <1>1, <1>2, <1>3, <1>4 DEF Good

\* The last conjunct of the invariant, from that.
LEMMA AfterGrows ==
  ASSUME QTypeOK, NEW T \in SUBSET Node, AfterInv(T), Steady,
         \A r \in Op : op'[r].after = op[r].after,
         \A w \in Op : \A x \in wire' : Kind[w] = "write" => x \in wire \/ NewAnswer(x, w),
         \A r \in Op : \A i \in DOMAIN op'[r].versions :
           \/ i \in DOMAIN op[r].versions /\ op'[r].versions[i] = op[r].versions[i]
           \/ \E x \in wire : /\ x.type = "version" /\ x.op = r
                              /\ x.from = op'[r].versions[i].from /\ x.clock = op'[r].versions[i].clock
  PROVE  AfterInv(T)'
<1> SUFFICES ASSUME NEW r \in Op, NEW w \in op'[r].after
             PROVE  /\ Kind[w] = "write" /\ op'[w].pc = "ok"
                    /\ Kind[r] = "read" => W <= Cardinality(Good(T, r, w)')
  BY DEF AfterInv
<1>1. w \in op[r].after /\ w \in Op
  BY CallFacts DEF QTypeOK
<1>2. Kind[w] = "write" /\ op[w].pc = "ok" /\ (Kind[r] = "read" => W <= Cardinality(Good(T, r, w)))
  BY <1>1 DEF AfterInv
<1>3. op'[w] = op[w]
  BY <1>1, <1>2 DEF Steady
<1>4. Good(T, r, w) \subseteq Good(T, r, w)'
  BY <1>1, <1>2, <1>3, GoodGrows
<1>5. Good(T, r, w) \in SUBSET T /\ Good(T, r, w)' \in SUBSET T
  BY DEF Good
<1>6. Cardinality(Good(T, r, w)) <= Cardinality(Good(T, r, w)') /\ Cardinality(Good(T, r, w)) \in Nat /\ Cardinality(Good(T, r, w)') \in Nat
  BY <1>4, <1>5, CardinalityGrows
<1>7. W \in Nat
  BY QuorumAssumption
<1> QED BY <1>2, <1>3, <1>6, <1>7

LEMMA SameFroms ==
  ASSUME NEW o, op'[o].versions = op[o].versions
  PROVE  Froms(o)' = Froms(o)
  BY DEF Froms

\* The facts on which each step works.
QAssumed(T) == QTypeOK /\ ~stale /\ WireInv(T) /\ HeldInv(T) /\ AckInv /\ AnswerInv /\ CallInv(T) /\ AfterInv(T)
QShown(T) == (WireInv(T) /\ HeldInv(T) /\ AckInv /\ AnswerInv /\ CallInv(T) /\ AfterInv(T))'

\* A write that is as it was.
LEMMA SameWrite ==
  ASSUME QTypeOK, NEW T \in SUBSET Node, NEW o \in Op, WriteInv(T, o), Acked(T, o) \subseteq Acked(T, o)',
         op'[o].acks = op[o].acks, op'[o].versions = op[o].versions, op'[o].pc = "ok" => op[o].pc = "ok"
  PROVE  WriteInv(T, o)'
<1>1. Acked(T, o) \in SUBSET T /\ Acked(T, o)' \in SUBSET T
  BY DEF Acked
<1>2. Cardinality(Acked(T, o)) \in Nat /\ Cardinality(Acked(T, o)') \in Nat
      /\ Cardinality(Acked(T, o)) <= Cardinality(Acked(T, o)')
  BY <1>1, CardinalityGrows
<1>3. op[o].acks \in Nat
  BY CallFacts DEF QTypeOK
<1> QED BY <1>2, <1>3 DEF WriteInv

LEMMA SameRead ==
  ASSUME NEW T, NEW o \in Op, ReadInv(T, o), op'[o] = op[o]
  PROVE  ReadInv(T, o)'
<1>1. Froms(o)' = Froms(o)
  BY SameFroms
<1> QED BY <1>1 DEF ReadInv

LEMMA BeginKeeps ==
  ASSUME NEW T \in SUBSET Node, QAssumed(T), NEW o \in Op, Begun(o, T)
  PROVE  QShown(T)
<1> USE DEF QAssumed
<1>0. Kind \in [Op -> {"write", "read"}]
  BY QuorumAssumption
<1>1. Steady
  BY DEF Begun, Steady
<1>2. \A x \in wire' : x \in wire \/ (x.op = o /\ x.type = Kind[o] /\ x.to \in T /\ x = [type |-> Kind[o], op |-> o, to |-> x.to])
  BY DEF Begun, Request
<1>3. \A x \in wire : x.op \in Op /\ op[x.op].pc # "idle" /\ x.op # o
  BY MessageFacts DEF Begun, WireInv, QTypeOK
<1>4. WireInv(T)'
  <2> SUFFICES ASSUME NEW x \in wire' PROVE op'[x.op].pc # "idle" /\ Kind[x.op] = KindOf(x) /\ Place(x) \in T
    BY DEF WireInv, KindOf, Place
  <2>1. CASE x \in wire
    BY <1>1, <1>3, <2>1 DEF WireInv, Steady
  <2>2. CASE x \notin wire
    BY <1>0, <1>2, <2>2 DEF Begun, KindOf, Place
  <2> QED BY <2>1, <2>2
<1>5. HeldInv(T)'
  <2> SUFFICES ASSUME NEW n \in Node, NEW q \in meta[n].held
               PROVE  /\ n \in T /\ Kind[q] = "write" /\ op'[q].pc # "idle"
                      /\ [type |-> "write", op |-> q, to |-> n] \notin wire'
                      /\ Compare(meta[n].clock, op'[q].clock) # "Before"
    BY DEF HeldInv, Begun
  <2>1. /\ n \in T /\ Kind[q] = "write" /\ op[q].pc # "idle"
        /\ [type |-> "write", op |-> q, to |-> n] \notin wire
        /\ Compare(meta[n].clock, op[q].clock) # "Before" /\ q \in Op
    BY DEF HeldInv, QTypeOK
  <2>2. q # o
    BY <2>1 DEF Begun
  <2>3. op'[q] = op[q]
    BY <2>1, <2>2 DEF Begun
  <2>4. [type |-> "write", op |-> q, to |-> n] \notin wire'
    BY <1>2, <2>1, <2>2
  <2> QED BY <2>1, <2>3, <2>4
<1>6. AckInv'
  BY <1>0, <1>2 DEF AckInv, Begun
<1>7. AnswerInv'
  <2>1. \A q \in Op : Froms(q)' = Froms(q)
    BY SameFroms DEF Begun
  <2>2. \A y \in wire' : y.type = "version" => y \in wire /\ y.op # o
    BY <1>0, <1>2, <1>3
  <2>3. ASSUME NEW x \in wire', x.type = "read"
        PROVE  x.to \notin Froms(x.op)' /\ \A y \in wire' : y.type = "version" /\ y.op = x.op => y.from # x.to
    <3>1. CASE x \in wire
      BY <1>3, <2>1, <2>2, <2>3, <3>1 DEF AnswerInv
    <3>2. CASE x \notin wire
      <4>1. x.op = o /\ Kind[o] = "read"
        BY <1>2, <2>3, <3>2
      <4>2. op[o].versions = <<>>
        BY <4>1 DEF CallInv, ReadInv, Begun
      <4>3. Froms(o) = {}
        BY <4>2 DEF Froms
      <4> QED BY <2>1, <2>2, <4>1, <4>3
    <3> QED BY <3>1, <3>2
  <2>4. ASSUME NEW x \in wire', x.type = "version"
        PROVE  /\ x.from \notin Froms(x.op)'
               /\ \A y \in wire' : y.type = "version" /\ y.op = x.op /\ y.from = x.from => y = x
    BY <1>3, <2>1, <2>2, <2>4 DEF AnswerInv
  <2> HIDE DEF QAssumed
  <2> QED BY <2>3, <2>4 DEF AnswerInv
<1>8. CallInv(T)'
  <2> SUFFICES ASSUME NEW q \in Op PROVE IF Kind[q] = "write" THEN WriteInv(T, q)' ELSE ReadInv(T, q)'
    BY DEF CallInv
  <2>1. CASE Kind[q] = "write"
    <3>1. WriteInv(T, q)
      BY <2>1 DEF CallInv
    <3>2. Acked(T, q) \subseteq Acked(T, q)'
      <4>1. \A n \in T : [type |-> "ack", op |-> q, from |-> n] \in wire' => [type |-> "ack", op |-> q, from |-> n] \in wire
        BY <1>0, <1>2
      <4> QED BY <1>1, <4>1, AckedGrows
    <3>3. op'[q].acks = op[q].acks /\ op'[q].versions = op[q].versions /\ (op'[q].pc = "ok" => op[q].pc = "ok")
      BY DEF Begun
    <3>4. WriteInv(T, q)'
      BY <3>1, <3>2, <3>3, SameWrite
    <3> QED BY <2>1, <3>4
  <2>2. CASE Kind[q] # "write"
    <3>1. ReadInv(T, q)
      BY <2>2 DEF CallInv
    <3>2. CASE q # o
      BY <2>2, <3>1, <3>2, SameRead DEF Begun
    <3>3. CASE q = o
      <4>1. Froms(q)' = Froms(q)
        BY SameFroms DEF Begun
      <4>2. ReadInv(T, q)'
        BY <3>1, <3>3, <4>1 DEF ReadInv, Begun
      <4> QED BY <2>2, <4>2
    <3> QED BY <3>2, <3>3
  <2> QED BY <2>1, <2>2
<1>9. AfterInv(T)'
  <2> SUFFICES ASSUME NEW r \in Op, NEW w \in op'[r].after
               PROVE  /\ Kind[w] = "write" /\ op'[w].pc = "ok"
                      /\ Kind[r] = "read" => W <= Cardinality(Good(T, r, w)')
    BY DEF AfterInv
  <2>1. w \in Op /\ Kind[w] = "write" /\ op[w].pc = "ok" /\ (r # o => w \in op[r].after)
    <3>1. CASE r = o
      BY <3>1 DEF Begun
    <3>2. CASE r # o
      BY <3>2, CallFacts DEF Begun, AfterInv, QTypeOK
    <3> QED BY <3>1, <3>2
  <2>2. op'[w] = op[w]
    BY <1>1, <2>1 DEF Steady
  <2>3. \A x \in wire' : x \in wire \/ NewAnswer(x, w)
    BY <1>0, <1>2 DEF NewAnswer
  <2>4. Good(T, r, w) \subseteq Good(T, r, w)'
    <3>1. op'[r].versions = op[r].versions
      BY DEF Begun
    <3> QED BY <1>1, <2>1, <2>2, <2>3, <3>1, GoodGrows
  <2>5. Good(T, r, w) \in SUBSET T /\ Good(T, r, w)' \in SUBSET T
    BY DEF Good
  <2>6. Cardinality(Good(T, r, w)) <= Cardinality(Good(T, r, w)') /\ Cardinality(Good(T, r, w)) \in Nat
        /\ Cardinality(Good(T, r, w)') \in Nat /\ W \in Nat
    BY <2>4, <2>5, CardinalityGrows, QuorumAssumption
  <2>7. ASSUME Kind[r] = "read" PROVE W <= Cardinality(Good(T, r, w))
    <3>1. CASE r # o
      BY <2>1, <2>7, <3>1 DEF AfterInv
    <3>2. CASE r = o
      <4>1. op[r].versions = <<>>
        BY <2>7, <3>2 DEF CallInv, ReadInv, Begun
      <4>2. Acked(T, w) \subseteq Good(T, r, w)
        BY <1>3, <3>2, <4>1 DEF Acked, Good
      <4>3. W <= op[w].acks /\ op[w].acks <= Cardinality(Acked(T, w)) /\ op[w].acks \in Nat
        BY <2>1, CallFacts DEF CallInv, WriteInv, QTypeOK
      <4>4. Acked(T, w) \in SUBSET T
        BY DEF Acked
      <4>5. Cardinality(Acked(T, w)) <= Cardinality(Good(T, r, w)) /\ Cardinality(Acked(T, w)) \in Nat
        BY <2>5, <4>2, <4>4, CardinalityGrows
      <4> QED BY <2>6, <4>3, <4>5
    <3> QED BY <3>1, <3>2
  <2> QED BY <2>1, <2>2, <2>6, <2>7
<1> QED BY <1>4, <1>5, <1>6, <1>7, <1>8, <1>9 DEF QShown

\* A step that only takes messages away and changes no versions: the wire.
LEMMA FewerMessages ==
  ASSUME NEW T \in SUBSET Node, QAssumed(T), Steady, wire' \subseteq wire, meta' = meta,
         \A q \in Op : op'[q].after = op[q].after
  PROVE  /\ WireInv(T)' /\ HeldInv(T)' /\ AckInv'
         /\ (\A q \in Op : op'[q].versions = op[q].versions) => AnswerInv' /\ AfterInv(T)'
         /\ \A q \in Op : Acked(T, q) \subseteq Acked(T, q)'
<1> USE DEF QAssumed
<1>1. \A x \in wire : x.op \in Op
  BY MessageFacts DEF QTypeOK
<1>2. WireInv(T)'
  BY <1>1 DEF WireInv, Steady, KindOf, Place
<1>3. HeldInv(T)'
  <2> SUFFICES ASSUME NEW n \in Node, NEW q \in meta[n].held
               PROVE  /\ n \in T /\ Kind[q] = "write" /\ op'[q].pc # "idle"
                      /\ [type |-> "write", op |-> q, to |-> n] \notin wire'
                      /\ Compare(meta[n].clock, op'[q].clock) # "Before"
    BY DEF HeldInv
  <2>1. /\ n \in T /\ Kind[q] = "write" /\ op[q].pc # "idle"
        /\ [type |-> "write", op |-> q, to |-> n] \notin wire
        /\ Compare(meta[n].clock, op[q].clock) # "Before" /\ q \in Op
    BY DEF HeldInv, QTypeOK
  <2> QED BY <2>1 DEF Steady
<1>4. AckInv'
  BY DEF AckInv
<1>5. ASSUME \A q \in Op : op'[q].versions = op[q].versions PROVE AnswerInv'
  <2>1. \A q \in Op : Froms(q)' = Froms(q)
    BY <1>5, SameFroms
  <2> SUFFICES ASSUME NEW x \in wire'
               PROVE  /\ x.type = "read" => /\ x.to \notin Froms(x.op)'
                                            /\ \A y \in wire' : y.type = "version" /\ y.op = x.op => y.from # x.to
                      /\ x.type = "version" =>
                           /\ x.from \notin Froms(x.op)'
                           /\ \A y \in wire' : y.type = "version" /\ y.op = x.op /\ y.from = x.from => y = x
    BY DEF AnswerInv
  <2>2. x \in wire /\ x.op \in Op
    BY <1>1
  <2> QED BY <2>1, <2>2 DEF AnswerInv
<1>6. ASSUME \A q \in Op : op'[q].versions = op[q].versions PROVE AfterInv(T)'
  BY <1>6, AfterGrows
<1>7. ASSUME NEW q \in Op PROVE Acked(T, q) \subseteq Acked(T, q)'
  BY AckedGrows
<1> QED BY <1>2, <1>3, <1>4, <1>5, <1>6, <1>7

LEMMA TimeoutKeeps ==
  ASSUME NEW T \in SUBSET Node, QAssumed(T), NEW o \in Op, TimedOut(o)
  PROVE  QShown(T)
<1>0. QTypeOK /\ CallInv(T)
  BY DEF QAssumed
<1>1. Kind[o] = "write" => op[o].versions = <<>>
  BY <1>0 DEF CallInv, WriteInv
<1>2. Steady
  BY <1>1 DEF Steady, TimedOut
<1>3. (\A q \in Op : op'[q].versions = op[q].versions) /\ (\A q \in Op : op'[q].after = op[q].after)
  BY DEF TimedOut
<1>4. WireInv(T)' /\ HeldInv(T)' /\ AckInv' /\ AnswerInv' /\ AfterInv(T)' /\ \A q \in Op : Acked(T, q) \subseteq Acked(T, q)'
  BY <1>2, <1>3, FewerMessages DEF TimedOut
<1>5. CallInv(T)'
  <2> SUFFICES ASSUME NEW q \in Op PROVE IF Kind[q] = "write" THEN WriteInv(T, q)' ELSE ReadInv(T, q)'
    BY DEF CallInv
  <2>1. CASE Kind[q] = "write"
    <3>1. WriteInv(T, q)
      BY <1>0, <2>1 DEF CallInv
    <3>2. op'[q].acks = op[q].acks /\ op'[q].versions = op[q].versions /\ (op'[q].pc = "ok" => op[q].pc = "ok")
      BY <1>1, <2>1 DEF TimedOut
    <3>3. WriteInv(T, q)'
      BY <1>0, <1>4, <3>1, <3>2, SameWrite
    <3> QED BY <2>1, <3>3
  <2>2. CASE Kind[q] # "write"
    <3>1. ReadInv(T, q)
      BY <1>0, <2>2 DEF CallInv
    <3>2. CASE q # o
      BY <2>2, <3>1, <3>2, SameRead DEF TimedOut
    <3>3. CASE q = o
      <4>1. Froms(q)' = Froms(q)
        BY SameFroms DEF TimedOut
      <4>2. ReadInv(T, q)'
        BY <3>1, <3>3, <4>1 DEF ReadInv, TimedOut
      <4> QED BY <2>2, <4>2
    <3> QED BY <3>2, <3>3
  <2> QED BY <2>1, <2>2
<1> QED BY <1>4, <1>5 DEF QShown

\* A step that changes no call and takes messages away.
LEMMA LossKeeps ==
  ASSUME NEW T \in SUBSET Node, QAssumed(T), op' = op, meta' = meta, wire' \subseteq wire
  PROVE  QShown(T)
<1>0. QTypeOK /\ CallInv(T)
  BY DEF QAssumed
<1>1. Steady
  BY DEF Steady
<1>2. WireInv(T)' /\ HeldInv(T)' /\ AckInv' /\ AnswerInv' /\ AfterInv(T)' /\ \A q \in Op : Acked(T, q) \subseteq Acked(T, q)'
  BY <1>1, FewerMessages
<1>3. CallInv(T)'
  <2> SUFFICES ASSUME NEW q \in Op PROVE IF Kind[q] = "write" THEN WriteInv(T, q)' ELSE ReadInv(T, q)'
    BY DEF CallInv
  <2>1. CASE Kind[q] = "write"
    BY <1>0, <1>2, <2>1, SameWrite DEF CallInv
  <2>2. CASE Kind[q] # "write"
    BY <1>0, <2>2, SameRead DEF CallInv
  <2> QED BY <2>1, <2>2
<1> QED BY <1>2, <1>3 DEF QShown

LEMMA AckKeeps ==
  ASSUME NEW T \in SUBSET Node, QAssumed(T), NEW x \in wire, x.type = "ack", wire' \subseteq wire \ {x}, meta' = meta,
         Counted(x, x.op)
  PROVE  QShown(T)
<1> DEFINE o == x.op
<1>0. QTypeOK /\ CallInv(T) /\ AckInv /\ WireInv(T)
  BY DEF QAssumed
<1>1. o \in Op /\ Kind[o] = "write" /\ x.from \in T /\ x = [type |-> "ack", op |-> o, from |-> x.from] /\ o \in meta[x.from].held
  BY <1>0, MessageFacts DEF QTypeOK, WireInv, KindOf, Place, AckInv
<1> HIDE DEF o
<1>2. Steady
  BY <1>1 DEF Steady, Counted, o
<1>3. (\A q \in Op : op'[q].versions = op[q].versions) /\ (\A q \in Op : op'[q].after = op[q].after)
  BY DEF Counted
<1>4. WireInv(T)' /\ HeldInv(T)' /\ AckInv' /\ AnswerInv' /\ AfterInv(T)' /\ \A q \in Op : Acked(T, q) \subseteq Acked(T, q)'
  BY <1>2, <1>3, FewerMessages
<1>5. CallInv(T)'
  <2> SUFFICES ASSUME NEW q \in Op PROVE IF Kind[q] = "write" THEN WriteInv(T, q)' ELSE ReadInv(T, q)'
    BY DEF CallInv
  <2>1. CASE q # o
    <3>1. op'[q] = op[q]
      BY <2>1 DEF Counted, o
    <3>2. CASE Kind[q] = "write"
      BY <1>0, <1>4, <3>1, <3>2, SameWrite DEF CallInv
    <3>3. CASE Kind[q] # "write"
      BY <1>0, <3>1, <3>3, SameRead DEF CallInv
    <3> QED BY <3>2, <3>3
  <2>2. CASE q = o
    <3> DEFINE A == Acked(T, o)  B == Acked(T, o)'
    <3>1. A \in SUBSET T /\ B \in SUBSET T /\ A \subseteq B
      BY <1>1, <1>4 DEF Acked
    <3>2. x.from \notin A /\ x.from \in B
      BY <1>1 DEF Acked
    <3> HIDE DEF A, B
    <3>3. IsFiniteSet(A) /\ A \cup {x.from} \in SUBSET T /\ A \cup {x.from} \subseteq B
      <4>1. IsFiniteSet(T)
        BY QuorumAssumption, FS_Subset
      <4> QED BY <1>1, <3>1, <3>2, <4>1, FS_Subset
    <3>4. Cardinality(A) \in Nat /\ Cardinality(A \cup {x.from}) = Cardinality(A) + 1
      BY <3>2, <3>3, FS_AddElement, FS_CardinalityType
    <3>5. Cardinality(A) + 1 <= Cardinality(B) /\ Cardinality(B) \in Nat
      BY <3>1, <3>3, <3>4, CardinalityGrows
    <3>6. WriteInv(T, o) /\ op[o].acks \in Nat
      BY <1>0, <1>1, CallFacts DEF CallInv, QTypeOK
    <3>7. op'[o].versions = <<>> /\ op'[o].acks <= Cardinality(B) /\ (op'[o].pc = "ok" => W <= op'[o].acks)
      BY <3>4, <3>5, <3>6 DEF WriteInv, Counted, o, A
    <3>8. WriteInv(T, o)'
      BY <3>7 DEF WriteInv, B
    <3> QED BY <1>1, <2>2, <3>8
  <2> QED BY <2>1, <2>2
<1> QED BY <1>4, <1>5 DEF QShown

LEMMA AppendFroms ==
  ASSUME NEW s \in Seq(Version), NEW v \in Version
  PROVE  {Append(s, v)[i].from : i \in DOMAIN Append(s, v)} = {s[i].from : i \in DOMAIN s} \cup {v.from}
<1> DEFINE t == Append(s, v)
<1>1. /\ Len(s) \in Nat /\ DOMAIN s = 1 .. Len(s) /\ DOMAIN t = 1 .. Len(s) + 1 /\ t[Len(s) + 1] = v
      /\ \A i \in 1 .. Len(s) : t[i] = s[i]
  OBVIOUS
<1> HIDE DEF t
<1>2. ASSUME NEW i \in DOMAIN t PROVE t[i].from \in {s[j].from : j \in DOMAIN s} \cup {v.from}
  <2>1. CASE i = Len(s) + 1
    BY <1>1, <2>1
  <2>2. CASE i # Len(s) + 1
    <3>1. i \in 1 .. Len(s)
      BY <1>1, <2>2
    <3> QED BY <1>1, <3>1
  <2> QED BY <2>1, <2>2
<1>3. ASSUME NEW j \in DOMAIN s PROVE s[j].from \in {t[i].from : i \in DOMAIN t}
  <2>1. j \in DOMAIN t /\ t[j] = s[j]
    BY <1>1
  <2> QED BY <2>1
<1>4. v.from \in {t[i].from : i \in DOMAIN t}
  <2>1. Len(s) + 1 \in DOMAIN t
    BY <1>1
  <2> QED BY <1>1, <2>1
<1>5. {t[i].from : i \in DOMAIN t} = {s[i].from : i \in DOMAIN s} \cup {v.from}
  BY <1>2, <1>3, <1>4
<1> QED BY <1>5 DEF t

LEMMA ResponseKeeps ==
  ASSUME NEW T \in SUBSET Node, QAssumed(T), NEW x \in wire, x.type = "version", wire' \subseteq wire \ {x}, meta' = meta,
         [clock |-> x.clock, ts |-> x.ts, from |-> x.from] \in Version, Received(x, x.op)
  PROVE  QShown(T)
<1> DEFINE o == x.op
           v == [clock |-> x.clock, ts |-> x.ts, from |-> x.from]
<1>0. QTypeOK /\ CallInv(T) /\ AnswerInv /\ WireInv(T) /\ AfterInv(T)
  BY DEF QAssumed
<1>1. o \in Op /\ Kind[o] = "read" /\ x.from \in T /\ v.from = x.from /\ v.clock = x.clock /\ v \in Version
  BY <1>0, MessageFacts DEF QTypeOK, WireInv, KindOf, Place
<1>2. op[o].versions \in Seq(Version) /\ op'[o].versions = Append(op[o].versions, v)
  BY <1>0, <1>1, CallFacts DEF QTypeOK, Received
<1> HIDE DEF v
<1>3. /\ Len(op[o].versions) \in Nat /\ Len(op'[o].versions) = Len(op[o].versions) + 1
      /\ DOMAIN op[o].versions = 1 .. Len(op[o].versions) /\ DOMAIN op'[o].versions = 1 .. Len(op[o].versions) + 1
      /\ op'[o].versions[Len(op[o].versions) + 1] = v
      /\ \A i \in 1 .. Len(op[o].versions) : op'[o].versions[i] = op[o].versions[i]
  BY <1>1, <1>2
<1>4. Froms(o)' = Froms(o) \cup {x.from}
  <2>1. Froms(o)' = {Append(op[o].versions, v)[i].from : i \in DOMAIN Append(op[o].versions, v)}
    BY <1>2 DEF Froms
  <2>2. Froms(o) = {op[o].versions[i].from : i \in DOMAIN op[o].versions}
    BY DEF Froms
  <2> QED BY <1>1, <1>2, <2>1, <2>2, AppendFroms
<1> HIDE DEF o
<1>5. Steady
  BY <1>1 DEF Steady, Received, o
<1>6. (\A q \in Op : q # o => op'[q] = op[q]) /\ (\A q \in Op : op'[q].after = op[q].after)
  BY DEF Received, o
<1>7. WireInv(T)' /\ HeldInv(T)' /\ AckInv' /\ \A q \in Op : Acked(T, q) \subseteq Acked(T, q)'
  BY <1>5, <1>6, FewerMessages
<1>8. AnswerInv'
  <2> SUFFICES ASSUME NEW z \in wire'
               PROVE  /\ z.type = "read" => /\ z.to \notin Froms(z.op)'
                                            /\ \A y \in wire' : y.type = "version" /\ y.op = z.op => y.from # z.to
                      /\ z.type = "version" =>
                           /\ z.from \notin Froms(z.op)'
                           /\ \A y \in wire' : y.type = "version" /\ y.op = z.op /\ y.from = z.from => y = z
    BY DEF AnswerInv
  <2>1. z \in wire /\ z # x /\ z.op \in Op
    BY <1>0, MessageFacts DEF QTypeOK
  <2>2. CASE z.op # o
    <3>1. Froms(z.op)' = Froms(z.op)
      BY <1>6, <2>1, <2>2, SameFroms
    <3> QED BY <1>0, <2>1, <3>1 DEF AnswerInv
  <2>3. CASE z.op = o
    <3>1. z.type = "read" => z.to # x.from
      BY <1>0, <2>1, <2>3 DEF AnswerInv, o
    <3>2. z.type = "version" => z.from # x.from
      BY <1>0, <2>1, <2>3 DEF AnswerInv, o
    <3> QED BY <1>0, <1>4, <2>1, <2>3, <3>1, <3>2 DEF AnswerInv
  <2> QED BY <2>2, <2>3
<1>9. CallInv(T)'
  <2> SUFFICES ASSUME NEW q \in Op PROVE IF Kind[q] = "write" THEN WriteInv(T, q)' ELSE ReadInv(T, q)'
    BY DEF CallInv
  <2>1. CASE q # o
    <3>1. op'[q] = op[q]
      BY <1>6, <2>1
    <3>2. CASE Kind[q] = "write"
      BY <1>0, <1>7, <3>1, <3>2, SameWrite DEF CallInv
    <3>3. CASE Kind[q] # "write"
      BY <1>0, <3>1, <3>3, SameRead DEF CallInv
    <3> QED BY <3>2, <3>3
  <2>2. CASE q = o
    <3>1. ReadInv(T, o)
      BY <1>0, <1>1 DEF CallInv
    <3>2. x.from \notin Froms(o) /\ Froms(o) \subseteq T
      BY <1>0, <3>1 DEF AnswerInv, ReadInv, o
    <3>3. IsFiniteSet(Froms(o))
      BY <3>2, QuorumAssumption, FS_Subset
    <3>4. Cardinality(Froms(o)) \in Nat /\ Cardinality(Froms(o)') = Cardinality(Froms(o)) + 1
      BY <1>4, <3>2, <3>3, FS_AddElement, FS_CardinalityType
    <3>5. Len(op[o].versions) <= Cardinality(Froms(o))
      BY <3>1 DEF ReadInv
    <3>6. Froms(o)' \subseteq T /\ Len(op'[o].versions) <= Cardinality(Froms(o)')
      BY <1>1, <1>3, <1>4, <3>2, <3>4, <3>5
    <3>7. op'[o].pc # "idle" /\ (op'[o].pc = "ok" => Len(op'[o].versions) >= R /\ op'[o].clock = Resolve(op'[o].versions).clock)
      BY DEF Received, o
    <3>8. ReadInv(T, o)'
      BY <3>6, <3>7 DEF ReadInv
    <3> QED BY <1>1, <2>2, <3>8
  <2> QED BY <2>1, <2>2
<1>10. AfterInv(T)'
  <2>1. \A w \in Op : \A y \in wire' : Kind[w] = "write" => y \in wire \/ NewAnswer(y, w)
    OBVIOUS
  <2>2. ASSUME NEW r \in Op, NEW i \in DOMAIN op'[r].versions
        PROVE  \/ i \in DOMAIN op[r].versions /\ op'[r].versions[i] = op[r].versions[i]
               \/ \E y \in wire : /\ y.type = "version" /\ y.op = r
                                  /\ y.from = op'[r].versions[i].from /\ y.clock = op'[r].versions[i].clock
    <3>1. CASE r # o
      BY <1>6, <2>2, <3>1
    <3>2. CASE r = o
      <4>1. CASE i = Len(op[o].versions) + 1
        <5>1. op'[r].versions[i] = v
          BY <1>3, <3>2, <4>1
        <5>2. x.op = r /\ x.from = op'[r].versions[i].from /\ x.clock = op'[r].versions[i].clock
          BY <1>1, <3>2, <5>1 DEF o
        <5> QED BY <5>2
      <4>2. CASE i # Len(op[o].versions) + 1
        <5>1. i \in 1 .. Len(op[o].versions)
          BY <1>3, <2>2, <3>2, <4>2
        <5> QED BY <1>3, <3>2, <5>1
      <4> QED BY <4>1, <4>2
    <3> QED BY <3>1, <3>2
  <2> QED BY <1>0, <1>5, <1>6, <2>1, <2>2, AfterGrows
<1> QED BY <1>7, <1>8, <1>9, <1>10 DEF QShown

LEMMA StoreKeeps ==
  ASSUME NEW T \in SUBSET Node, QAssumed(T), NEW x \in wire, Stored(x), ~stale'
  PROVE  QShown(T)
<1> DEFINE o == x.op  n == x.to  a == [type |-> "ack", op |-> o, from |-> n]
<1>0. QTypeOK /\ CallInv(T) /\ AnswerInv /\ WireInv(T) /\ AfterInv(T) /\ HeldInv(T) /\ AckInv /\ ~stale
  BY DEF QAssumed
<1>1. /\ o \in Op /\ n \in Node /\ x = [type |-> "write", op |-> o, to |-> n]
      /\ wire' \subseteq (wire \ {x}) \cup {a}
      /\ meta'[n].clock = op[o].clock /\ meta'[n].held = meta[n].held \cup {o}
      /\ \A m \in Node : m # n => meta'[m] = meta[m]
      /\ op' = op
      /\ \A q \in meta[n].held : Compare(op[o].clock, op[q].clock) # "Before"
  BY <1>0 DEF Stored
<1>2. a.type = "ack" /\ a.op = o /\ a.from = n
  OBVIOUS
<1>3. x.type = "write"
  BY <1>1
<1>4. Kind[o] = "write" /\ op[o].pc # "idle" /\ n \in T
  BY <1>0, <1>3 DEF WireInv, KindOf, Place
<1>5. o \notin meta[n].held
  BY <1>0, <1>1 DEF HeldInv
<1>6. \A y \in wire' : y \in wire \/ y = a
  BY <1>1
<1> HIDE DEF o, n
<1>7. Steady
  BY <1>1 DEF Steady
<1>8. WireInv(T)'
  BY <1>0, <1>1, <1>2, <1>4, <1>6 DEF WireInv, KindOf, Place
<1>9. HeldInv(T)'
  <2> SUFFICES ASSUME NEW m \in Node, NEW q \in meta'[m].held
               PROVE  /\ m \in T /\ Kind[q] = "write" /\ op[q].pc # "idle"
                      /\ [type |-> "write", op |-> q, to |-> m] \notin wire'
                      /\ Compare(meta'[m].clock, op[q].clock) # "Before"
    BY <1>1 DEF HeldInv
  <2>0. [type |-> "write", op |-> q, to |-> m] # a
    <3>1. [type |-> "write", op |-> q, to |-> m].type = "write"
      OBVIOUS
    <3> QED BY <1>2, <3>1
  <2>1. CASE q \in meta[m].held
    <3>1. /\ m \in T /\ Kind[q] = "write" /\ op[q].pc # "idle"
          /\ [type |-> "write", op |-> q, to |-> m] \notin wire
          /\ Compare(meta[m].clock, op[q].clock) # "Before" /\ q \in Op
      BY <1>0, <2>1 DEF HeldInv, QTypeOK
    <3>2. [type |-> "write", op |-> q, to |-> m] \notin wire'
      BY <1>6, <2>0, <3>1
    <3>3. Compare(meta'[m].clock, op[q].clock) # "Before"
      BY <1>1, <2>1, <3>1
    <3> QED BY <3>1, <3>2, <3>3
  <2>2. CASE q \notin meta[m].held
    <3>1. m = n /\ q = o
      BY <1>1, <2>2
    <3>2. op[o].clock \in Clock
      BY <1>0, <1>1, CallFacts DEF QTypeOK, Clock
    <3>3. Compare(op[o].clock, op[o].clock) # "Before"
      BY <3>2, CompareFacts
    <3>4. x \notin wire'
      BY <1>1, <1>2, <1>3
    <3> QED BY <1>1, <1>4, <3>1, <3>3, <3>4
  <2> QED BY <2>1, <2>2
<1>10. AckInv'
  <2> SUFFICES ASSUME NEW y \in wire', y.type = "ack" PROVE y.op \in meta'[y.from].held
    BY DEF AckInv
  <2>1. CASE y \in wire
    <3>1. y.from \in Node /\ y.op \in meta[y.from].held
      BY <1>0, <2>1, MessageFacts DEF AckInv, QTypeOK
    <3> QED BY <1>7, <3>1 DEF Steady
  <2>2. CASE y = a
    BY <1>1, <1>2, <2>2
  <2> QED BY <1>6, <2>1, <2>2
<1>11. AnswerInv'
  <2>1. \A q \in Op : Froms(q)' = Froms(q)
    BY <1>1, SameFroms
  <2>2. \A y \in wire' : y.type \in {"read", "version"} => y \in wire /\ y.op \in Op
    BY <1>0, <1>2, <1>6, MessageFacts DEF QTypeOK
  <2> HIDE DEF a
  <2> SUFFICES ASSUME NEW z \in wire'
               PROVE  /\ z.type = "read" => /\ z.to \notin Froms(z.op)'
                                            /\ \A y \in wire' : y.type = "version" /\ y.op = z.op => y.from # z.to
                      /\ z.type = "version" =>
                           /\ z.from \notin Froms(z.op)'
                           /\ \A y \in wire' : y.type = "version" /\ y.op = z.op /\ y.from = z.from => y = z
    BY DEF AnswerInv
  <2>3. z.type = "read" => /\ z.to \notin Froms(z.op)'
                           /\ \A y \in wire' : y.type = "version" /\ y.op = z.op => y.from # z.to
    BY <1>0, <2>1, <2>2 DEF AnswerInv
  <2>4. z.type = "version" =>
                           /\ z.from \notin Froms(z.op)'
                           /\ \A y \in wire' : y.type = "version" /\ y.op = z.op /\ y.from = z.from => y = z
    BY <1>0, <2>1, <2>2 DEF AnswerInv
  <2> QED BY <2>3, <2>4
<1>12. CallInv(T)'
  <2> SUFFICES ASSUME NEW q \in Op PROVE IF Kind[q] = "write" THEN WriteInv(T, q)' ELSE ReadInv(T, q)'
    BY DEF CallInv
  <2>1. Acked(T, q) \subseteq Acked(T, q)'
    <3>1. ASSUME NEW m \in T, q \in meta[m].held, [type |-> "ack", op |-> q, from |-> m] \in wire'
          PROVE  [type |-> "ack", op |-> q, from |-> m] \in wire
      <4> DEFINE b == [type |-> "ack", op |-> q, from |-> m]
      <4>1. b.op = q /\ b.from = m
        OBVIOUS
      <4>2. b # a
        <5> HIDE DEF a, b
        <5> QED BY <1>2, <1>5, <3>1, <4>1
      <4> QED BY <1>6, <3>1, <4>2
    <3> QED BY <1>7, <3>1, AckedGrows
  <2>2. CASE Kind[q] = "write"
    BY <1>0, <1>1, <2>1, <2>2, SameWrite DEF CallInv
  <2>3. CASE Kind[q] # "write"
    BY <1>0, <1>1, <2>3, SameRead DEF CallInv
  <2> QED BY <2>2, <2>3
<1>13. AfterInv(T)'
  <2>1. \A w \in Op : \A y \in wire' : Kind[w] = "write" => y \in wire \/ NewAnswer(y, w)
    BY <1>2, <1>6 DEF NewAnswer
  <2> QED BY <1>0, <1>1, <1>7, <2>1, AfterGrows
<1> QED BY <1>8, <1>9, <1>10, <1>11, <1>12, <1>13 DEF QShown

LEMMA AnswerKeeps ==
  ASSUME NEW T \in SUBSET Node, QAssumed(T), NEW x \in wire, Answered(x)
  PROVE  QShown(T)
<1> DEFINE o == x.op  n == x.to
           v == [type |-> "version", op |-> o, from |-> n, clock |-> meta[n].clock, ts |-> meta[n].ts]
<1>0. QTypeOK /\ CallInv(T) /\ AnswerInv /\ WireInv(T) /\ AfterInv(T) /\ HeldInv(T) /\ AckInv
  BY DEF QAssumed
<1>1. /\ o \in Op /\ n \in Node /\ x = [type |-> "read", op |-> o, to |-> n]
      /\ wire' \subseteq (wire \ {x}) \cup {v} /\ meta' = meta /\ op' = op
  BY DEF Answered
<1>2. v.type = "version" /\ v.op = o /\ v.from = n /\ v.clock = meta[n].clock
  OBVIOUS
<1>3. x.type = "read"
  BY <1>1
<1>4. Kind[o] = "read" /\ op[o].pc # "idle" /\ n \in T
  BY <1>0, <1>3 DEF WireInv, KindOf, Place
<1>5. n \notin Froms(o) /\ \A y \in wire : y.type = "version" /\ y.op = o => y.from # n
  BY <1>0, <1>3 DEF AnswerInv
<1>6. \A y \in wire' : (y \in wire /\ y # x) \/ y = v
  BY <1>1, <1>2, <1>3
<1> HIDE DEF v
<1>7. Steady
  BY <1>1 DEF Steady
<1>8. WireInv(T)'
  <2> HIDE DEF o, n
  <2> QED BY <1>0, <1>1, <1>2, <1>4, <1>6 DEF WireInv, KindOf, Place
<1>9. HeldInv(T)'
  <2> SUFFICES ASSUME NEW m \in Node, NEW q \in meta[m].held
               PROVE  [type |-> "write", op |-> q, to |-> m] \notin wire'
    BY <1>0, <1>1 DEF HeldInv
  <2>1. [type |-> "write", op |-> q, to |-> m].type = "write" /\ [type |-> "write", op |-> q, to |-> m] \notin wire
    BY <1>0 DEF HeldInv
  <2> QED BY <1>2, <1>6, <2>1
<1>10. AckInv'
  BY <1>0, <1>1, <1>2, <1>6 DEF AckInv
<1>11. AnswerInv'
  <2>1. \A q \in Op : Froms(q)' = Froms(q)
    BY <1>1, SameFroms
  <2> SUFFICES ASSUME NEW z \in wire'
               PROVE  /\ z.type = "read" => /\ z.to \notin Froms(z.op)'
                                            /\ \A y \in wire' : y.type = "version" /\ y.op = z.op => y.from # z.to
                      /\ z.type = "version" =>
                           /\ z.from \notin Froms(z.op)'
                           /\ \A y \in wire' : y.type = "version" /\ y.op = z.op /\ y.from = z.from => y = z
    BY DEF AnswerInv
  <2>2. ASSUME z.type = "read"
        PROVE  /\ z.to \notin Froms(z.op)'
               /\ \A y \in wire' : y.type = "version" /\ y.op = z.op => y.from # z.to
    <3>1. z \in wire /\ z # x /\ z.op \in Op /\ z = [type |-> "read", op |-> z.op, to |-> z.to]
      BY <1>0, <1>2, <1>6, <2>2, MessageFacts DEF QTypeOK
    <3>2. ~(z.op = o /\ z.to = n)
      BY <1>1, <3>1
    <3>3. z.to \notin Froms(z.op)'
      BY <1>0, <2>1, <2>2, <3>1 DEF AnswerInv
    <3>4. ASSUME NEW y \in wire', y.type = "version", y.op = z.op PROVE y.from # z.to
      <4>1. CASE y \in wire
        BY <1>0, <2>2, <3>1, <3>4, <4>1 DEF AnswerInv
      <4>2. CASE y = v
        BY <1>2, <3>2, <3>4, <4>2
      <4> QED BY <1>6, <4>1, <4>2
    <3> QED BY <3>3, <3>4
  <2>3. ASSUME z.type = "version"
        PROVE  /\ z.from \notin Froms(z.op)'
               /\ \A y \in wire' : y.type = "version" /\ y.op = z.op /\ y.from = z.from => y = z
    <3>1. CASE z \in wire
      <4>1. z.op \in Op /\ ~(z.op = o /\ z.from = n)
        BY <1>0, <1>5, <2>3, <3>1, MessageFacts DEF QTypeOK
      <4>2. z.from \notin Froms(z.op)'
        BY <1>0, <2>1, <2>3, <3>1, <4>1 DEF AnswerInv
      <4>3. ASSUME NEW y \in wire', y.type = "version", y.op = z.op, y.from = z.from PROVE y = z
        <5>1. y # v
          BY <1>2, <4>1, <4>3
        <5> QED BY <1>0, <1>6, <2>3, <3>1, <4>3, <5>1 DEF AnswerInv
      <4> QED BY <4>2, <4>3
    <3>2. CASE z = v
      BY <1>1, <1>2, <1>5, <1>6, <2>1, <3>2
    <3> QED BY <1>6, <3>1, <3>2
  <2> QED BY <2>2, <2>3
<1>12. CallInv(T)'
  <2> SUFFICES ASSUME NEW q \in Op PROVE IF Kind[q] = "write" THEN WriteInv(T, q)' ELSE ReadInv(T, q)'
    BY DEF CallInv
  <2>1. Acked(T, q) \subseteq Acked(T, q)'
    <3>1. ASSUME NEW m \in T, [type |-> "ack", op |-> q, from |-> m] \in wire'
          PROVE  [type |-> "ack", op |-> q, from |-> m] \in wire
      <4>1. [type |-> "ack", op |-> q, from |-> m].type = "ack"
        OBVIOUS
      <4> QED BY <1>2, <1>6, <3>1, <4>1
    <3> QED BY <1>7, <3>1, AckedGrows
  <2>2. CASE Kind[q] = "write"
    BY <1>0, <1>1, <2>1, <2>2, SameWrite DEF CallInv
  <2>3. CASE Kind[q] # "write"
    BY <1>0, <1>1, <2>3, SameRead DEF CallInv
  <2> QED BY <2>2, <2>3
<1>13. AfterInv(T)'
  <2>1. ASSUME NEW w \in Op, NEW y \in wire', Kind[w] = "write" PROVE y \in wire \/ NewAnswer(y, w)
    <3>1. w \in meta[n].held => Compare(meta[n].clock, op[w].clock) # "Before"
      BY <1>0, <1>1 DEF HeldInv
    <3> QED BY <1>2, <1>6, <3>1 DEF NewAnswer
  <2> QED BY <1>0, <1>1, <1>7, <2>1, AfterGrows
<1> QED BY <1>8, <1>9, <1>10, <1>11, <1>12, <1>13 DEF QShown

\* Every step of the calls keeps the invariant, as long as the replicas are the same.
LEMMA QuorumStep ==
  ASSUME NEW T \in SUBSET Node, QTypeOK, QInv(T), QNext(T)
  PROVE  QTypeOK' /\ QInv(T)'
<1>1. stale \in BOOLEAN /\ (~stale => QAssumed(T))
  BY DEF QInv, QAssumed, QTypeOK
<1>2. QShown(T) => QInv(T)'
  BY DEF QShown, QInv
<1>3. ASSUME NEW o \in Op, Begin(o, T) PROVE QTypeOK' /\ QInv(T)'
  <2>1. Begun(o, T)
    BY <1>3, BeginCall
  <2>2. QTypeOK' /\ stale' = stale
    BY <2>1 DEF Begun
  <2>3. CASE ~stale
    BY <1>1, <1>2, <2>1, <2>2, <2>3, BeginKeeps
  <2>4. CASE stale
    BY <2>2, <2>4 DEF QInv
  <2> QED BY <2>3, <2>4
<1>4. ASSUME NEW o \in Op, Timeout(o) PROVE QTypeOK' /\ QInv(T)'
  <2>1. TimedOut(o)
    BY <1>4, TimeoutCall
  <2>2. QTypeOK' /\ stale' = stale
    BY <2>1 DEF TimedOut
  <2>3. CASE ~stale
    BY <1>1, <1>2, <2>1, <2>2, <2>3, TimeoutKeeps
  <2>4. CASE stale
    BY <2>2, <2>4 DEF QInv
  <2> QED BY <2>3, <2>4
<1>5. ASSUME NEW x \in wire, ReadVersion(x) PROVE QTypeOK' /\ QInv(T)'
  <2>1. Answered(x) /\ QTypeOK'
    BY <1>5, AnswerCall
  <2>2. stale' = stale
    BY <2>1 DEF Answered
  <2>3. CASE ~stale
    BY <1>1, <1>2, <2>1, <2>3, AnswerKeeps
  <2>4. CASE stale
    BY <2>1, <2>2, <2>4 DEF QInv
  <2> QED BY <2>3, <2>4
<1>6. ASSUME NEW x \in wire, HandleWriteAck(x) PROVE QTypeOK' /\ QInv(T)'
  <2>1. /\ wire' \subseteq wire \ {x} /\ QTypeOK' /\ meta' = meta /\ x.type = "ack"
        /\ (op' = op /\ stale' = stale) \/ Counted(x, Heard(x, "write"))
    BY <1>6, AckCall
  <2>2. CASE stale'
    BY <2>1, <2>2 DEF QInv
  <2>3. CASE ~stale' /\ op' = op /\ stale' = stale
    <3>1. QShown(T)
      BY <1>1, <2>1, <2>3, LossKeeps
    <3> QED BY <1>2, <2>1, <3>1
  <2>4. CASE ~stale' /\ Counted(x, Heard(x, "write"))
    <3>1. Heard(x, "write") = x.op /\ ~stale
      BY <2>4 DEF Counted
    <3>2. QShown(T)
      BY <1>1, <2>1, <2>4, <3>1, AckKeeps
    <3> QED BY <1>2, <2>1, <3>2
  <2> QED BY <2>1, <2>2, <2>3, <2>4
<1>7. ASSUME NEW x \in wire, HandleReadResponse(x) PROVE QTypeOK' /\ QInv(T)'
  <2>1. /\ wire' \subseteq wire \ {x} /\ QTypeOK' /\ meta' = meta /\ x.type = "version"
        /\ [clock |-> x.clock, ts |-> x.ts, from |-> x.from] \in Version
        /\ (op' = op /\ stale' = stale) \/ Received(x, Heard(x, "read"))
    BY <1>7, ResponseCall
  <2>2. CASE stale'
    BY <2>1, <2>2 DEF QInv
  <2>3. CASE ~stale' /\ op' = op /\ stale' = stale
    <3>1. QShown(T)
      BY <1>1, <2>1, <2>3, LossKeeps
    <3> QED BY <1>2, <2>1, <3>1
  <2>4. CASE ~stale' /\ Received(x, Heard(x, "read"))
    <3>1. Heard(x, "read") = x.op /\ ~stale
      BY <2>4 DEF Received
    <3>2. QShown(T)
      BY <1>1, <2>1, <2>4, <3>1, ResponseKeeps
    <3> QED BY <1>2, <2>1, <3>2
  <2> QED BY <2>1, <2>2, <2>3, <2>4
<1>8. ASSUME NEW x \in wire, NEW now \in Stamps, StoreVersion(x, now) PROVE QTypeOK' /\ QInv(T)'
  <2>1. QTypeOK' /\ Stored(x)
    BY <1>8, StoreCall
  <2>2. CASE stale'
    BY <2>1, <2>2 DEF QInv
  <2>3. CASE ~stale'
    <3>1. ~stale
      BY <2>1, <2>3 DEF Stored
    <3>2. QShown(T)
      BY <1>1, <2>1, <2>3, <3>1, StoreKeeps
    <3> QED BY <1>2, <2>1, <3>2
  <2> QED BY <2>2, <2>3
<1> QED BY <1>3, <1>4, <1>5, <1>6, <1>7, <1>8 DEF QNext

LEMMA QuorumInit == ASSUME NEW T \in SUBSET Node, QInit PROVE QInv(T)
<1>1. WireInv(T) /\ AckInv /\ AnswerInv
  BY DEF QInit, WireInv, AckInv, AnswerInv
<1>2. HeldInv(T)
  BY DEF QInit, HeldInv
<1>3. ASSUME NEW o \in Op
      PROVE  op[o].pc = "idle" /\ op[o].versions = <<>> /\ op[o].acks = 0 /\ op[o].after = {}
  BY DEF QInit, NoOp
<1>4. CallInv(T)
  <2> SUFFICES ASSUME NEW q \in Op PROVE WriteInv(T, q) /\ ReadInv(T, q)
    BY DEF CallInv
  <2>1. WriteInv(T, q)
    <3>1. Acked(T, q) \in SUBSET T
      BY DEF Acked
    <3>2. Cardinality(Acked(T, q)) \in Nat
      BY <3>1, CardinalityGrows
    <3> QED BY <1>3, <3>2 DEF WriteInv
  <2>2. ReadInv(T, q)
    <3>1. Froms(q) = {} /\ Len(op[q].versions) = 0
      BY <1>3 DEF Froms
    <3>2. Cardinality(Froms(q)) = 0
      BY <3>1, FS_EmptySet
    <3> QED BY <1>3, <3>1, <3>2 DEF ReadInv
  <2> QED BY <2>1, <2>2
<1>5. AfterInv(T)
  BY <1>3 DEF AfterInv
<1> QED BY <1>1, <1>2, <1>4, <1>5 DEF QInv

\* Quorums intersect: what the invariant says of a read that has its answers.
LEMMA QuorumsMeet ==
  ASSUME NEW T \in SUBSET Node, Cardinality(T) < W + R, QTypeOK, QInv(T)
  PROVE  ReadSeesWrite
<1> SUFFICES ASSUME ~stale, NEW r \in Op, Kind[r] = "read", op[r].pc = "ok", op[r].full,
                    Comparable(op[r].versions), NEW w \in op[r].after
             PROVE  Compare(op[r].clock, op[w].clock) # "Before"
  BY DEF ReadSeesWrite
<1> DEFINE vs == op[r].versions
<1>1. ReadInv(T, r) /\ W <= Cardinality(Good(T, r, w)) /\ w \in Op
  BY CallFacts DEF QInv, CallInv, AfterInv, QTypeOK
<1>2. /\ Froms(r) \subseteq T /\ Len(vs) <= Cardinality(Froms(r)) /\ Len(vs) >= R
      /\ op[r].clock = Resolve(vs).clock /\ vs \in Seq(Version)
  BY <1>1, CallFacts DEF ReadInv, QTypeOK
<1>3. Good(T, r, w) \subseteq T /\ IsFiniteSet(T) /\ W \in Nat /\ R \in Nat \ {0}
  BY QuorumAssumption, FS_Subset DEF Good
<1>4. Cardinality(T) \in Nat /\ Cardinality(Froms(r)) \in Nat /\ Cardinality(Good(T, r, w)) \in Nat /\ Len(vs) \in Nat
  BY <1>2, <1>3, FS_Subset, FS_CardinalityType
<1>5. Good(T, r, w) \cap Froms(r) # {}
  <2>1. Cardinality(Good(T, r, w)) + Cardinality(Froms(r)) > Cardinality(T)
    BY <1>1, <1>2, <1>3, <1>4
  <2> QED BY <1>2, <1>3, <2>1, FS_MajoritiesIntersect
<1>6. PICK i \in DOMAIN vs : vs[i].from \in Good(T, r, w)
  BY <1>5 DEF Froms
<1>7. Compare(vs[i].clock, op[w].clock) # "Before"
  BY <1>6 DEF Good
<1>8. vs # <<>> /\ vs[i] \in Version
  BY <1>2, <1>6
<1>9. vs[i].clock \in Clock /\ op[w].clock \in Clock
  BY <1>1, <1>8, CallFacts DEF QTypeOK, Clock, Version
<1> HIDE DEF vs
<1>10. Resolve(vs) \in Version /\ Leq(vs[i].clock, Resolve(vs).clock)
  BY <1>2, <1>6, <1>8, ResolveFacts DEF vs
<1>11. Resolve(vs).clock \in Clock
  BY <1>10 DEF Version, Clock
<1> QED BY <1>2, <1>7, <1>9, <1>10, <1>11, NotBeforeUpward

-----------------------------------------------------------------------------
(* Merkle trees. *)

\* The sets of keys that are compared.
KeySet == {K \in SUBSET Nat : IsFiniteSet(K)}

\* What a function from the nodes to sets of keys must be.
IsKeying(f, N) ==
  \A n \in N : f[n] = IF IsLeaf(n) THEN {n.key} ELSE f[n.left] \cup f[n.right]

\* The layers of a tree.
IsLayers(f, K) ==
  /\ f[0] = Leaves(K)
  /\ \A d \in 0 .. Cardinality(K) : d # 0 =>
       f[d] = IF Len(f[d - 1]) = 1 THEN f[d - 1] ELSE Pairs(f[d - 1])

\* Numbers below a number.
LEMMA RecursionExists ==
  ASSUME NEW K, Cardinality(K) \in Nat
  PROVE  IsLayers(BuildLevel(K), K) /\ DOMAIN BuildLevel(K) = 0 .. Cardinality(K)
<1> DEFINE c == Cardinality(K)
           next(x) == IF Len(x) = 1 THEN x ELSE Pairs(x)
           rhs(m, f) == [d \in 0 .. m |-> IF d = 0 THEN Leaves(K) ELSE next(f[d - 1])]
           L == {m \in Nat : \E f : f = rhs(m, f)}
<1> HIDE DEF next
<1>1. 0 \in L
  <2> DEFINE f == [d \in 0 .. 0 |-> Leaves(K)]
  <2>1. f = rhs(0, f)
    OBVIOUS
  <2> HIDE DEF f, rhs
  <2> QED BY <2>1
<1>2. ASSUME NEW m \in Nat, m \in L PROVE m + 1 \in L
  <2>1. PICK f : f = rhs(m, f)
    BY <1>2
  <2> DEFINE g == [d \in 0 .. (m + 1) |-> IF d <= m THEN f[d] ELSE next(f[m])]
  <2>2. ASSUME NEW d \in 0 .. (m + 1) PROVE g[d] = IF d = 0 THEN Leaves(K) ELSE next(g[d - 1])
    <3>1. CASE d <= m
      <4>1. d \in 0 .. m /\ (d # 0 => d - 1 \in 0 .. (m + 1) /\ d - 1 <= m)
        BY <3>1
      <4>2. f[d] = IF d = 0 THEN Leaves(K) ELSE next(f[d - 1])
        BY <2>1, <4>1
      <4> QED BY <4>1, <4>2, <3>1
    <3>2. CASE ~(d <= m)
      <4>1. d = m + 1 /\ d # 0 /\ d - 1 = m /\ m \in 0 .. (m + 1)
        BY <3>2
      <4> QED BY <4>1, <3>2
    <3> QED BY <3>1, <3>2
  <2>3. g = rhs(m + 1, g)
    <3> DEFINE h == rhs(m + 1, g)
    <3>1. DOMAIN g = DOMAIN h
      OBVIOUS
    <3>2. ASSUME NEW d \in 0 .. (m + 1) PROVE g[d] = h[d]
      BY <2>2
    <3>3. g = [d \in DOMAIN g |-> g[d]] /\ h = [d \in DOMAIN h |-> h[d]]
      OBVIOUS
    <3> HIDE DEF h, g
    <3>4. \A d \in DOMAIN g : g[d] = h[d]
      BY <3>2, <3>1 DEF g
    <3> QED BY <3>1, <3>3, <3>4 DEF h
  <2> HIDE DEF g, rhs
  <2>4. m + 1 \in Nat
    OBVIOUS
  <2> QED BY <2>3, <2>4
<1> HIDE DEF L, rhs
<1>3. Nat \subseteq L
  BY <1>1, <1>2, NumberInduction
<1>4. \E f : f = rhs(c, f)
  BY <1>3 DEF L
<1>5. BuildLevel(K) = CHOOSE f : f = rhs(c, f)
  BY Zenon DEF BuildLevel, rhs, next
<1>6. BuildLevel(K) = rhs(c, BuildLevel(K))
  BY <1>4, <1>5, Zenon
<1> DEFINE b == BuildLevel(K)
<1> HIDE DEF b
<1>7. b = [d \in 0 .. c |-> IF d = 0 THEN Leaves(K) ELSE next(b[d - 1])]
  BY <1>6 DEF rhs, b
<1> HIDE DEF c
<1>8. c \in Nat
  BY DEF c
<1>9. 0 \in 0 .. c
  BY <1>8
<1>10. \A d \in 0 .. c : b[d] = IF d = 0 THEN Leaves(K) ELSE next(b[d - 1])
  BY <1>7, Zenon
<1>11. DOMAIN b = 0 .. c
  BY <1>7, Zenon
<1>12. b[0] = Leaves(K)
  BY <1>9, <1>10, Zenon
<1> QED BY <1>10, <1>11, <1>12, Zenon DEF IsLayers, b, c, next

\* x is a tuple of length n.
IsTuple(x, n) == x = [i \in 1 .. n |-> x[i]]

LEMMA TupleFacts ==
  ASSUME NEW n \in Nat, NEW x, IsTuple(x, n)
  PROVE  Len(x) = n /\ DOMAIN x = 1 .. n /\ Range(x) = {x[i] : i \in 1 .. n}
<1> DEFINE S == {x[i] : i \in 1 .. n}
<1>1. DOMAIN x = 1 .. n
  BY DEF IsTuple
<1>2. x \in [1 .. n -> S]
  BY DEF IsTuple
<1>3. x \in Seq(S)
  BY <1>2
<1>4. Len(x) = n
  BY <1>1, <1>3, LenProperties
<1> QED BY <1>1, <1>4 DEF Range

LEMMA PairsFacts ==
  ASSUME NEW n \in Nat, 1 <= n, NEW x, IsTuple(x, n)
  PROVE  \E m \in Nat :
           /\ 1 <= m /\ m <= n /\ (2 <= n => m < n)
           /\ IsTuple(Pairs(x), m)
           /\ \A i \in 1 .. m : /\ ~IsLeaf(Pairs(x)[i]) /\ Pairs(x)[i] # NoTree.root
                                /\ Pairs(x)[i].left \in Range(x) /\ Pairs(x)[i].right \in Range(x)
           /\ \A y \in Range(x) : \E i \in 1 .. m : y \in {Pairs(x)[i].left, Pairs(x)[i].right}
<1> DEFINE m == (n + 1) \div 2
           P == Pairs(x)
           right(i) == IF 2 * i <= n THEN 2 * i ELSE 2 * i - 1
<1>1. m \in Nat /\ 1 <= m /\ m <= n /\ (2 <= n => m < n) /\ (2 * m = n \/ 2 * m = n + 1)
  OBVIOUS
<1>2. Len(x) = n /\ Range(x) = {x[i] : i \in 1 .. n}
  BY TupleFacts
<1>3. P = [i \in 1 .. m |-> [left |-> x[2 * i - 1], right |-> x[right(i)]]]
  BY <1>2, Zenon DEF Pairs
<1> HIDE DEF m, P
<1>4. ASSUME NEW i \in 1 .. m
      PROVE  2 * i - 1 \in 1 .. n /\ right(i) \in 1 .. n
  BY <1>1
<1>5. ASSUME NEW i \in 1 .. n
      PROVE  \E j \in 1 .. m : i = 2 * j - 1 \/ i = right(j)
  <2>1. (i + 1) \div 2 \in 1 .. m /\ (i = 2 * ((i + 1) \div 2) - 1 \/ i = 2 * ((i + 1) \div 2))
    BY <1>1
  <2> DEFINE j == (i + 1) \div 2
  <2>2. j \in 1 .. m /\ (i = 2 * j - 1 \/ i = 2 * j)
    BY <2>1
  <2> HIDE DEF j
  <2>3. i = 2 * j - 1 \/ i = right(j)
    BY <2>2, <1>1
  <2> QED BY <2>2, <2>3
<1> HIDE DEF right
<1>6. ASSUME NEW i \in 1 .. m
      PROVE  P[i] = [left |-> x[2 * i - 1], right |-> x[right(i)]]
  BY <1>3
<1>7. ASSUME NEW i \in 1 .. m
      PROVE  /\ ~IsLeaf(P[i]) /\ P[i] # NoTree.root
             /\ P[i].left = x[2 * i - 1] /\ P[i].right = x[right(i)]
             /\ P[i].left \in Range(x) /\ P[i].right \in Range(x)
  <2>0. ASSUME NEW a, NEW b
        PROVE  /\ [left |-> a, right |-> b].left = a /\ [left |-> a, right |-> b].right = b
               /\ ~IsLeaf([left |-> a, right |-> b]) /\ [left |-> a, right |-> b] # NoTree.root
    BY DEF IsLeaf, NoTree
  <2>1. P[i].left = x[2 * i - 1] /\ P[i].right = x[right(i)] /\ ~IsLeaf(P[i]) /\ P[i] # NoTree.root
    <3> DEFINE a == x[2 * i - 1]  b == x[right(i)]
    <3>1. P[i] = [left |-> a, right |-> b]
      BY <1>6, Zenon
    <3> HIDE DEF a, b
    <3>2. P[i].left = a /\ P[i].right = b /\ ~IsLeaf(P[i]) /\ P[i] # NoTree.root
      BY <3>1, <2>0
    <3> QED BY <3>2 DEF a, b
  <2>2. P[i].left \in Range(x) /\ P[i].right \in Range(x)
    BY <2>1, <1>2, <1>4
  <2> QED BY <2>1, <2>2
<1>8. ASSUME NEW y \in Range(x) PROVE \E i \in 1 .. m : y \in {P[i].left, P[i].right}
  <2>1. PICK k \in 1 .. n : y = x[k]
    BY <1>2
  <2>2. PICK j \in 1 .. m : k = 2 * j - 1 \/ k = right(j)
    BY <1>5
  <2> QED BY <2>1, <2>2, <1>7
<1>9. IsTuple(P, m)
  BY <1>3, Zenon DEF IsTuple
<1> QED BY <1>1, <1>7, <1>8, <1>9 DEF P

LEMMA LeavesFacts ==
  ASSUME NEW K \in KeySet
  PROVE  /\ Cardinality(K) \in Nat
         /\ IsTuple(Leaves(K), Cardinality(K))
         /\ \A i \in 1 .. Cardinality(K) : \E k \in K : Leaves(K)[i] = Leaf(k)
         /\ \A k \in K : \E i \in 1 .. Cardinality(K) : Leaves(K)[i] = Leaf(k)
<1> DEFINE c == Cardinality(K)
           upto(k) == {j \in K : j <= k}
           rank == [k \in K |-> Cardinality(upto(k))]
           nth(i) == CHOOSE k \in K : Cardinality(upto(k)) = i
<1>1. K \subseteq Nat /\ IsFiniteSet(K) /\ c \in Nat
  BY FS_CardinalityType DEF KeySet
<1>2. ASSUME NEW k \in K
      PROVE  upto(k) \in SUBSET K /\ IsFiniteSet(upto(k)) /\ Cardinality(upto(k)) \in 1 .. c
  <2>1. upto(k) \in SUBSET K /\ k \in upto(k)
    BY <1>1
  <2>2. IsFiniteSet(upto(k)) /\ Cardinality(upto(k)) <= c
    BY <1>1, <2>1, FS_Subset
  <2>3. Cardinality(upto(k)) \in Nat /\ Cardinality(upto(k)) # 0
    BY <2>1, <2>2, FS_CardinalityType, FS_EmptySet
  <2> HIDE DEF upto, c
  <2> QED BY <2>1, <2>2, <2>3, <1>1
<1>3. ASSUME NEW j \in K, NEW k \in K, j < k
      PROVE  Cardinality(upto(j)) # Cardinality(upto(k))
  <2>0. j \in Nat /\ k \in Nat /\ \A x \in K : x \in Nat
    BY <1>1
  <2>1. upto(j) \in SUBSET upto(k)
    <3>1. ASSUME NEW x \in K, x <= j PROVE x <= k
      BY <2>0, <3>1, <1>3
    <3> QED BY <3>1
  <2>2. k \in upto(k) /\ k \notin upto(j)
    BY <1>1, <1>3
  <2>3. IsFiniteSet(upto(k))
    BY <1>2
  <2>4. upto(j) # upto(k)
    BY <2>2
  <2> HIDE DEF upto
  <2> QED BY <2>1, <2>3, <2>4, FS_Subset
<1>4. \A j, k \in K : rank[j] = rank[k] => j = k
  <2> HIDE DEF upto
  <2> SUFFICES ASSUME NEW j \in K, NEW k \in K, rank[j] = rank[k], j # k PROVE FALSE
    OBVIOUS
  <2>1. j < k \/ k < j
    BY <1>1
  <2>2. Cardinality(upto(j)) = Cardinality(upto(k))
    OBVIOUS
  <2> QED BY <1>3, <2>1, <2>2
<1>5. rank \in [K -> 1 .. c]
  <2> HIDE DEF upto, c
  <2> QED BY <1>2
<1>6. IsFiniteSet(1 .. c) /\ Cardinality(1 .. c) = c
  BY <1>1, FS_Interval
<1>7. rank \in Injection(K, 1 .. c)
  <2> HIDE DEF rank
  <2> QED BY <1>4, <1>5 DEF Injection, IsInjective
<1>8. rank \in Surjection(K, 1 .. c)
  <2> HIDE DEF rank
  <2> QED BY <1>6, <1>7, FS_Injection
<1>9. \A i \in 1 .. c : \E k \in K : rank[k] = i
  <2> HIDE DEF rank
  <2> QED BY <1>8 DEF Surjection
<1> HIDE DEF upto
<1>10. \A i \in 1 .. c : nth(i) \in K /\ Cardinality(upto(nth(i))) = i
  <2> SUFFICES ASSUME NEW i \in 1 .. c PROVE nth(i) \in K /\ Cardinality(upto(nth(i))) = i
    OBVIOUS
  <2>1. \E k \in K : Cardinality(upto(k)) = i
    BY <1>9
  <2> QED BY <2>1, Zenon
<1>11. \A k \in K : Cardinality(upto(k)) \in 1 .. c
  BY <1>2
<1>12. \A k \in K : nth(Cardinality(upto(k))) = k
  <2> SUFFICES ASSUME NEW k \in K PROVE nth(Cardinality(upto(k))) = k
    OBVIOUS
  <2> DEFINE n == nth(Cardinality(upto(k)))
  <2>1. n \in K /\ Cardinality(upto(n)) = Cardinality(upto(k))
    BY <1>10, <1>11, Zenon
  <2> HIDE DEF n
  <2>2. rank[n] = rank[k]
    BY <2>1
  <2>3. n = k
    BY <1>4, <2>1, <2>2
  <2> QED BY <2>3 DEF n
<1>13. Leaves(K) = [i \in 1 .. c |-> Leaf(nth(i))]
  BY Zenon DEF Leaves, upto
<1> HIDE DEF nth, c
<1>14. \A i \in 1 .. c : Leaves(K)[i] = Leaf(nth(i))
  BY <1>13, Zenon
<1>15. IsTuple(Leaves(K), c)
  BY <1>13, Zenon DEF IsTuple
<1>16. \A i \in 1 .. c : \E k \in K : Leaves(K)[i] = Leaf(k)
  BY <1>14, <1>10, Zenon
<1>17. \A k \in K : \E i \in 1 .. c : Leaves(K)[i] = Leaf(k)
  BY <1>14, <1>11, <1>12, Zenon
<1> QED BY <1>1, <1>15, <1>16, <1>17 DEF c

\* The layers of the tree for K: they shrink to one node, and a node of a layer is
\* of the layer below or a pair of nodes of it.
LEMMA LayersShrink ==
  ASSUME NEW K \in KeySet, K # {}, NEW f, IsLayers(f, K)
  PROVE  \A d \in 0 .. Cardinality(K) :
           \E n \in Nat : 1 <= n /\ (n = 1 \/ n + d <= Cardinality(K)) /\ IsTuple(f[d], n)
<1> DEFINE c == Cardinality(K)
           P(d) == \E n \in Nat : 1 <= n /\ (n = 1 \/ n + d <= c) /\ IsTuple(f[d], n)
           L == {d \in Nat : d <= c => P(d)}
<1>1. c \in Nat /\ 1 <= c /\ IsTuple(f[0], c)
  BY LeavesFacts, FS_EmptySet, FS_CardinalityType DEF KeySet, IsLayers
<1> HIDE DEF c
<1>2. 0 \in L
  BY <1>1
<1>3. ASSUME NEW d \in Nat, d \in L PROVE d + 1 \in L
  <2> SUFFICES ASSUME d + 1 <= c PROVE P(d + 1)
    OBVIOUS
  <2>1. PICK n \in Nat : 1 <= n /\ (n = 1 \/ n + d <= c) /\ IsTuple(f[d], n)
    BY <1>1, <1>3
  <2>2. Len(f[d]) = n
    BY <2>1, TupleFacts
  <2>3. f[d + 1] = IF Len(f[d]) = 1 THEN f[d] ELSE Pairs(f[d])
    <3>1. d + 1 \in 0 .. c /\ d + 1 # 0 /\ (d + 1) - 1 = d
      BY <1>1
    <3> QED BY <3>1, Zenon DEF IsLayers, c
  <2>4. CASE n = 1
    BY <2>1, <2>2, <2>3, <2>4
  <2>5. CASE n # 1
    <3>1. f[d + 1] = Pairs(f[d])
      BY <2>2, <2>3, <2>5
    <3>2. PICK m \in Nat : 1 <= m /\ m <= n /\ (2 <= n => m < n) /\ IsTuple(Pairs(f[d]), m)
      BY <2>1, PairsFacts
    <3>3. 1 <= m /\ (m = 1 \/ m + (d + 1) <= c)
      BY <2>1, <2>5, <3>2, <1>1
    <3> QED BY <3>1, <3>2, <3>3
  <2> QED BY <2>4, <2>5
<1> HIDE DEF L
<1>4. Nat \subseteq L
  BY <1>2, <1>3, NumberInduction
<1> QED BY <1>4, <1>1 DEF L, c

\* The nodes of the layers up to d.
UpTo(f, d) == UNION {Range(f[e]) : e \in 0 .. d}

\* A set of nodes in which leaves have keys of K and the others have children.
LEMMA LayerNodes ==
  ASSUME NEW K \in KeySet, K # {}, NEW f, IsLayers(f, K)
  PROVE  /\ \A n \in UpTo(f, 0) : IsLeaf(n)
         /\ \A d \in Nat : d + 1 <= Cardinality(K) =>
              \A n \in UpTo(f, d + 1) : n \in UpTo(f, d) \/ (~IsLeaf(n) /\ {n.left, n.right} \subseteq UpTo(f, d))
         /\ \A d \in Nat : UpTo(f, d) \subseteq UpTo(f, d + 1)
<1> DEFINE c == Cardinality(K)
<1>1. c \in Nat /\ IsTuple(f[0], c) /\ f[0] = Leaves(K) /\ \A i \in 1 .. c : \E k \in K : Leaves(K)[i] = Leaf(k)
  BY LeavesFacts DEF IsLayers
<1>0. ASSUME NEW d, NEW e \in 0 .. d, NEW n \in Range(f[e]) PROVE n \in UpTo(f, d)
  BY Zenon DEF UpTo
<1>2. \A n \in UpTo(f, 0) : IsLeaf(n)
  <2> SUFFICES ASSUME NEW n \in Range(f[0]) PROVE IsLeaf(n)
    BY DEF UpTo
  <2>1. PICK i \in 1 .. c : n = f[0][i]
    BY <1>1, TupleFacts
  <2>2. PICK k \in K : n = Leaf(k)
    BY <1>1, <2>1
  <2> QED BY <2>2 DEF Leaf, IsLeaf
<1>3. ASSUME NEW d \in Nat, d + 1 <= c, NEW n \in UpTo(f, d + 1)
      PROVE  n \in UpTo(f, d) \/ (~IsLeaf(n) /\ {n.left, n.right} \subseteq UpTo(f, d))
  <2>1. PICK e \in 0 .. (d + 1) : n \in Range(f[e])
    BY DEF UpTo
  <2>2. CASE e # d + 1
    <3>1. e \in 0 .. d
      BY <2>2
    <3>2. n \in UpTo(f, d)
      BY <2>1, <3>1, <1>0, Zenon
    <3> QED BY <3>2, Zenon
  <2>3. CASE e = d + 1
    <3>0. d \in 0 .. c /\ d \in 0 .. d
      BY <1>1, <1>3
    <3>1. PICK m \in Nat : 1 <= m /\ IsTuple(f[d], m)
      BY <3>0, LayersShrink
    <3>2. f[d + 1] = f[d] \/ f[d + 1] = Pairs(f[d])
      <4>1. d + 1 \in 0 .. c /\ d + 1 # 0 /\ (d + 1) - 1 = d
        BY <1>1, <1>3
      <4> QED BY <4>1, Zenon DEF IsLayers
    <3>3. CASE f[d + 1] = f[d]
      <4>1. n \in Range(f[d])
        BY <2>1, <2>3, <3>3
      <4>2. n \in UpTo(f, d)
        BY <4>1, <3>0, <1>0, Zenon
      <4> QED BY <4>2, Zenon
    <3>4. CASE f[d + 1] = Pairs(f[d])
      <4>1. PICK l \in Nat : /\ IsTuple(Pairs(f[d]), l)
                             /\ \A i \in 1 .. l : /\ ~IsLeaf(Pairs(f[d])[i])
                                                  /\ Pairs(f[d])[i].left \in Range(f[d]) /\ Pairs(f[d])[i].right \in Range(f[d])
        BY <3>1, PairsFacts
      <4>2. PICK i \in 1 .. l : n = Pairs(f[d])[i]
        BY <2>1, <2>3, <3>4, <4>1, TupleFacts
      <4>3. ~IsLeaf(n) /\ n.left \in Range(f[d]) /\ n.right \in Range(f[d])
        BY <4>1, <4>2
      <4> QED BY <4>3, <3>0, <1>0
    <3> QED BY <3>2, <3>3, <3>4
  <2> QED BY <2>2, <2>3
<1>4. ASSUME NEW d \in Nat PROVE UpTo(f, d) \subseteq UpTo(f, d + 1)
  <2>1. 0 .. d \subseteq 0 .. (d + 1)
    OBVIOUS
  <2> QED BY <2>1 DEF UpTo
<1> QED BY <1>2, <1>3, <1>4

\* The nodes N can be reached layer by layer.
IsTower(U, c) ==
  /\ c \in Nat
  /\ \A n \in U[0] : IsLeaf(n)
  /\ \A d \in Nat : d + 1 <= c =>
       \A n \in U[d + 1] : n \in U[d] \/ (~IsLeaf(n) /\ {n.left, n.right} \subseteq U[d])
  /\ \A d \in Nat : U[d] \subseteq U[d + 1]

\* The children of a node are nodes of the tree.
LEMMA TowerClosed ==
  ASSUME NEW U, NEW c, IsTower(U, c)
  PROVE  \A d \in Nat : d <= c => \A n \in U[d] : IsLeaf(n) \/ {n.left, n.right} \subseteq U[d]
<1> DEFINE T == {e \in Nat : e <= c => \A x \in U[e] : IsLeaf(x) \/ {x.left, x.right} \subseteq U[e]}
<1>1. 0 \in T
  BY DEF IsTower
<1>2. ASSUME NEW e \in Nat, e \in T PROVE e + 1 \in T
  <2> SUFFICES ASSUME e + 1 <= c, NEW x \in U[e + 1], ~IsLeaf(x)
               PROVE  {x.left, x.right} \subseteq U[e + 1]
    OBVIOUS
  <2>1. e <= c /\ U[e] \subseteq U[e + 1] /\ (x \in U[e] \/ {x.left, x.right} \subseteq U[e])
    BY DEF IsTower
  <2> QED BY <2>1, <1>2
<1> HIDE DEF T
<1>3. Nat \subseteq T
  BY <1>1, <1>2, NumberInduction
<1> QED BY <1>3 DEF T
\* The recursion of CollectKeys over the nodes N has a solution.
HasKeying(N) ==
  \E g : g = [n \in N |-> IF IsLeaf(n) THEN {n.key} ELSE g[n.left] \cup g[n.right]]

LEMMA KeyingExists ==
  ASSUME NEW U, NEW c, IsTower(U, c)
  PROVE  HasKeying(U[c])
<1> DEFINE rhs(d, g) == [n \in U[d] |-> IF IsLeaf(n) THEN {n.key} ELSE g[n.left] \cup g[n.right]]
           L == {d \in Nat : d <= c => \E g : g = rhs(d, g)}
<1>1. 0 \in L
  <2> DEFINE g == [n \in U[0] |-> {n.key}]
  <2>1. g = rhs(0, g)
    BY DEF IsTower
  <2> HIDE DEF g, rhs
  <2> QED BY <2>1
<1>2. ASSUME NEW d \in Nat, d \in L PROVE d + 1 \in L
  <2> SUFFICES ASSUME d + 1 <= c PROVE \E g : g = rhs(d + 1, g)
    OBVIOUS
  <2>0. d <= c
    BY DEF IsTower
  <2>1. PICK g : g = rhs(d, g)
    BY <1>2, <2>0
  <2> DEFINE h == [n \in U[d + 1] |-> IF n \in U[d] THEN g[n]
                                      ELSE IF IsLeaf(n) THEN {n.key} ELSE g[n.left] \cup g[n.right]]
  <2>2. ASSUME NEW n \in U[d] PROVE n \in U[d + 1] /\ h[n] = g[n]
    BY DEF IsTower
  <2>3. ASSUME NEW n \in U[d + 1], ~IsLeaf(n) PROVE n.left \in U[d] /\ n.right \in U[d]
    <3>4. \A x \in U[d] : IsLeaf(x) \/ {x.left, x.right} \subseteq U[d]
      BY <2>0, TowerClosed
    <3>5. n \in U[d] \/ {n.left, n.right} \subseteq U[d]
      BY <2>3 DEF IsTower
    <3> QED BY <3>4, <3>5, <2>3
  <2>4. ASSUME NEW n \in U[d + 1]
        PROVE  h[n] = IF IsLeaf(n) THEN {n.key} ELSE h[n.left] \cup h[n.right]
    <3>1. n \in U[d] => g[n] = IF IsLeaf(n) THEN {n.key} ELSE g[n.left] \cup g[n.right]
      BY <2>1
    <3>2. h[n] = IF IsLeaf(n) THEN {n.key} ELSE g[n.left] \cup g[n.right]
      BY <3>1
    <3>3. ~IsLeaf(n) => h[n.left] = g[n.left] /\ h[n.right] = g[n.right]
      BY <2>2, <2>3
    <3> HIDE DEF h
    <3> QED BY <3>2, <3>3
  <2>5. h = rhs(d + 1, h)
    <3> DEFINE r == rhs(d + 1, h)
    <3>1. DOMAIN h = U[d + 1] /\ h = [n \in U[d + 1] |-> h[n]]
      OBVIOUS
    <3>2. r = [n \in U[d + 1] |-> IF IsLeaf(n) THEN {n.key} ELSE h[n.left] \cup h[n.right]]
      OBVIOUS
    <3> HIDE DEF h, r
    <3> QED BY <3>1, <3>2, <2>4 DEF r
  <2> HIDE DEF h, rhs
  <2> QED BY <2>5
<1> HIDE DEF L, rhs
<1>3. Nat \subseteq L
  BY <1>1, <1>2, NumberInduction
<1>4. c \in Nat /\ c <= c
  BY DEF IsTower
<1>5. \E g : g = rhs(c, g)
  BY <1>3, <1>4 DEF L
<1> QED BY <1>5, Zenon DEF rhs, HasKeying


\* Every layer has all keys below it.
LEMMA LayerKeys ==
  ASSUME NEW K \in KeySet, K # {}, NEW f, IsLayers(f, K),
         NEW g, IsKeying(g, UpTo(f, Cardinality(K)))
  PROVE  \A d \in 0 .. Cardinality(K) : UNION {g[n] : n \in Range(f[d])} = K
<1> DEFINE c == Cardinality(K)
           below(d) == UNION {g[n] : n \in Range(f[d])}
           L == {d \in Nat : d <= c => below(d) = K}
<1>1. c \in Nat /\ IsTuple(f[0], c) /\ f[0] = Leaves(K)
  BY LeavesFacts DEF IsLayers
<1>2. ASSUME NEW d \in 0 .. c, NEW n \in Range(f[d])
      PROVE  g[n] = IF IsLeaf(n) THEN {n.key} ELSE g[n.left] \cup g[n.right]
  <2>1. n \in UpTo(f, c)
    BY Zenon DEF UpTo
  <2> QED BY <2>1, Zenon DEF IsKeying
<1>3. 0 \in L
  <2>1. ASSUME NEW k PROVE IsLeaf(Leaf(k)) /\ Leaf(k).key = k
    BY DEF Leaf, IsLeaf
  <2>2. ASSUME NEW k, Leaf(k) \in Range(f[0]) PROVE g[Leaf(k)] = {k}
    <3>1. 0 \in 0 .. c
      BY <1>1
    <3>2. g[Leaf(k)] = {Leaf(k).key}
      BY <1>2, <2>1, <2>2, <3>1, Zenon
    <3> QED BY <3>2, <2>1, Zenon
  <2>3. Range(f[0]) = {Leaf(k) : k \in K}
    <3>1. Range(f[0]) = {f[0][i] : i \in 1 .. c}
      BY <1>1, TupleFacts
    <3>2. /\ \A i \in 1 .. c : \E k \in K : f[0][i] = Leaf(k)
          /\ \A k \in K : \E i \in 1 .. c : f[0][i] = Leaf(k)
      BY <1>1, LeavesFacts
    <3> QED BY <3>1, <3>2, Zenon
  <2>4. ASSUME NEW k \in K PROVE k \in below(0)
    <3>1. Leaf(k) \in Range(f[0]) /\ k \in g[Leaf(k)]
      BY <2>2, <2>3
    <3> QED BY <3>1, Zenon
  <2>5. ASSUME NEW k \in below(0) PROVE k \in K
    <3>1. PICK n \in Range(f[0]) : k \in g[n]
      BY Zenon
    <3>2. PICK j \in K : n = Leaf(j)
      BY <2>3
    <3> QED BY <3>1, <3>2, <2>2
  <2> QED BY <2>4, <2>5
<1>4. ASSUME NEW d \in Nat, d \in L PROVE d + 1 \in L
  <2> SUFFICES ASSUME d + 1 <= c PROVE below(d + 1) = K
    OBVIOUS
  <2>0. d \in 0 .. c /\ d + 1 \in 0 .. c /\ d + 1 # 0 /\ (d + 1) - 1 = d
    BY <1>1
  <2>1. below(d) = K
    BY <1>4, <2>0
  <2>2. f[d + 1] = f[d] \/ f[d + 1] = Pairs(f[d])
    BY <2>0, Zenon DEF IsLayers
  <2>3. CASE f[d + 1] = f[d]
    BY <2>1, <2>3
  <2>4. CASE f[d + 1] = Pairs(f[d])
    <3> DEFINE P == Pairs(f[d])
    <3>1. PICK n \in Nat : 1 <= n /\ IsTuple(f[d], n)
      BY <2>0, LayersShrink
    <3>2. PICK m \in Nat :
            /\ IsTuple(P, m)
            /\ \A i \in 1 .. m : /\ ~IsLeaf(P[i])
                                 /\ P[i].left \in Range(f[d]) /\ P[i].right \in Range(f[d])
            /\ \A y \in Range(f[d]) : \E i \in 1 .. m : y \in {P[i].left, P[i].right}
      BY <3>1, PairsFacts
    <3>3. Range(P) = {P[i] : i \in 1 .. m}
      BY <3>2, TupleFacts
    <3> HIDE DEF P
    <3>4. ASSUME NEW i \in 1 .. m PROVE P[i] \in Range(f[d + 1]) /\ g[P[i]] = g[P[i].left] \cup g[P[i].right]
      <4>1. P[i] \in Range(f[d + 1])
        BY <2>4, <3>3 DEF P
      <4> QED BY <4>1, <3>2, <1>2, <2>0, Zenon
    <3>5. ASSUME NEW k \in K PROVE k \in below(d + 1)
      <4>1. PICK y \in Range(f[d]) : k \in g[y]
        BY <2>1, Zenon
      <4>2. PICK i \in 1 .. m : y \in {P[i].left, P[i].right}
        BY <3>2
      <4>3. k \in g[P[i]]
        BY <4>1, <4>2, <3>4
      <4> QED BY <4>3, <3>4, Zenon
    <3>6. ASSUME NEW k \in below(d + 1) PROVE k \in K
      <4>1. PICK y \in Range(f[d + 1]) : k \in g[y]
        BY Zenon
      <4>2. PICK i \in 1 .. m : y = P[i]
        BY <2>4, <3>3, <4>1 DEF P
      <4>3. PICK z \in Range(f[d]) : k \in g[z]
        BY <4>1, <4>2, <3>4, <3>2
      <4>4. k \in below(d)
        BY <4>3, Zenon
      <4> QED BY <4>4, <2>1
    <3> QED BY <3>5, <3>6
  <2> QED BY <2>2, <2>3, <2>4
<1> HIDE DEF L
<1>5. Nat \subseteq L
  BY <1>3, <1>4, NumberInduction
<1> QED BY <1>5, <1>1 DEF L

\* No node is the missing root of an empty tree.
LEMMA NodesAreReal ==
  ASSUME NEW K \in KeySet, K # {}, NEW f, IsLayers(f, K)
  PROVE  \A d \in 0 .. Cardinality(K) : \A n \in Range(f[d]) : n # NoTree.root
<1> DEFINE c == Cardinality(K)
           L == {d \in Nat : d <= c => \A n \in Range(f[d]) : n # NoTree.root}
<1>1. c \in Nat /\ IsTuple(f[0], c) /\ f[0] = Leaves(K) /\ \A i \in 1 .. c : \E k \in K : Leaves(K)[i] = Leaf(k)
  BY LeavesFacts DEF IsLayers
<1>2. 0 \in L
  <2> SUFFICES ASSUME NEW n \in Range(f[0]) PROVE n # NoTree.root
    OBVIOUS
  <2>1. PICK i \in 1 .. c : n = f[0][i]
    BY <1>1, TupleFacts
  <2>2. PICK k \in K : n = Leaf(k)
    BY <1>1, <2>1
  <2> QED BY <2>2 DEF Leaf, NoTree
<1>3. ASSUME NEW d \in Nat, d \in L PROVE d + 1 \in L
  <2> SUFFICES ASSUME d + 1 <= c, NEW n \in Range(f[d + 1]) PROVE n # NoTree.root
    OBVIOUS
  <2>0. d \in 0 .. c /\ d + 1 \in 0 .. c /\ d + 1 # 0 /\ (d + 1) - 1 = d
    BY <1>1
  <2>1. \A x \in Range(f[d]) : x # NoTree.root
    BY <1>3, <2>0
  <2>2. f[d + 1] = f[d] \/ f[d + 1] = Pairs(f[d])
    BY <2>0, Zenon DEF IsLayers
  <2>3. CASE f[d + 1] = Pairs(f[d])
    <3>1. PICK m \in Nat : 1 <= m /\ IsTuple(f[d], m)
      BY <2>0, LayersShrink
    <3>2. PICK l \in Nat : /\ IsTuple(Pairs(f[d]), l)
                           /\ \A i \in 1 .. l : Pairs(f[d])[i] # NoTree.root
      BY <3>1, PairsFacts
    <3>3. PICK i \in 1 .. l : n = Pairs(f[d])[i]
      BY <2>3, <3>2, TupleFacts
    <3> QED BY <3>2, <3>3
  <2> QED BY <2>1, <2>2, <2>3
<1> HIDE DEF L
<1>4. Nat \subseteq L
  BY <1>2, <1>3, NumberInduction
<1> QED BY <1>1, <1>4 DEF L

\* What Build makes: layers of nodes of which the root is one, and below which
\* CollectKeys finds the keys that the tree was built from.
LEMMA BuildFacts ==
  ASSUME NEW K \in KeySet, K # {}
  PROVE  /\ \E U : \E c : IsTower(U, c) /\ Build(K).nodes = U[c]
         /\ Build(K).root \in Build(K).nodes /\ Build(K).root # NoTree.root
         /\ IsKeying(CollectKeys(Build(K)), Build(K).nodes)
         /\ CollectKeys(Build(K))[Build(K).root] = K
<1> DEFINE c == Cardinality(K)
           f == BuildLevel(K)
           U == [d \in Nat |-> UpTo(f, d)]
           N == UpTo(f, c)
<1>1. c \in Nat /\ IsLayers(f, K)
  BY LeavesFacts, RecursionExists
<1>2. Build(K).root = f[c][1] /\ Build(K).nodes = N
  BY Zenon DEF Build, UpTo
<1> HIDE DEF f
<1>3. IsTower(U, c) /\ U[c] = N
  <2>1. \A n \in UpTo(f, 0) : IsLeaf(n)
    BY <1>1, LayerNodes, Zenon
  <2>2. \A d \in Nat : d + 1 <= c =>
          \A n \in UpTo(f, d + 1) : n \in UpTo(f, d) \/ (~IsLeaf(n) /\ {n.left, n.right} \subseteq UpTo(f, d))
    BY <1>1, LayerNodes, Zenon
  <2>3. \A d \in Nat : UpTo(f, d) \subseteq UpTo(f, d + 1)
    BY <1>1, LayerNodes, Zenon
  <2>4. \A d \in Nat : U[d] = UpTo(f, d) /\ U[d + 1] = UpTo(f, d + 1)
    OBVIOUS
  <2>5. U[0] = UpTo(f, 0)
    BY <2>4
  <2>6. U[c] = N
    BY <1>1, <2>4, Zenon
  <2> HIDE DEF U, c
  <2>7. \A n \in U[0] : IsLeaf(n)
    BY <2>1, <2>5
  <2>8. \A d \in Nat : d + 1 <= c =>
          \A n \in U[d + 1] : n \in U[d] \/ (~IsLeaf(n) /\ {n.left, n.right} \subseteq U[d])
    BY <2>2, <2>4, Zenon
  <2>9. \A d \in Nat : U[d] \subseteq U[d + 1]
    BY <2>3, <2>4, Zenon
  <2> QED BY <1>1, <2>6, <2>7, <2>8, <2>9, Zenon DEF IsTower
<1> HIDE DEF U, N
<1>4. \E g : g = [n \in N |-> IF IsLeaf(n) THEN {n.key} ELSE g[n.left] \cup g[n.right]]
  <2>1. HasKeying(N)
    BY <1>3, KeyingExists
  <2> QED BY <2>1, Zenon DEF HasKeying
<1> DEFINE b == CollectKeys(Build(K))
<1>5. b = CHOOSE g : g = [n \in N |-> IF IsLeaf(n) THEN {n.key} ELSE g[n.left] \cup g[n.right]]
  BY <1>2, Zenon DEF CollectKeys
<1> HIDE DEF b
<1>6. b = [n \in N |-> IF IsLeaf(n) THEN {n.key} ELSE b[n.left] \cup b[n.right]]
  BY <1>4, <1>5, Zenon
<1>7. IsKeying(b, N)
  <2> SUFFICES ASSUME NEW n \in N PROVE b[n] = IF IsLeaf(n) THEN {n.key} ELSE b[n.left] \cup b[n.right]
    BY Zenon DEF IsKeying
  <2> QED BY <1>6, Zenon
<1>8. c \in 0 .. c /\ ~(2 <= 1)
  BY <1>1
<1>9. PICK n \in Nat : 1 <= n /\ (n = 1 \/ n + c <= c) /\ IsTuple(f[c], n)
  BY <1>1, <1>8, LayersShrink
<1>10. n = 1
  BY <1>1, <1>9
<1>11. Range(f[c]) = {f[c][i] : i \in 1 .. 1}
  BY <1>9, <1>10, TupleFacts
<1>12. Range(f[c]) = {f[c][1]}
  BY <1>11
<1>13. f[c][1] \in N
  BY <1>8, <1>12, Zenon DEF N, UpTo
<1>14. UNION {b[x] : x \in Range(f[c])} = K
  BY <1>1, <1>7, <1>8, LayerKeys DEF N
<1>15. b[f[c][1]] = K
  BY <1>12, <1>14
<1>16. f[c][1] # NoTree.root
  BY <1>1, <1>8, <1>12, NodesAreReal
<1> QED BY <1>2, <1>3, <1>7, <1>13, <1>15, <1>16 DEF b

\* The keys below a node do not depend on the tree that it is in.
LEMMA KeyingsAgree ==
  ASSUME NEW U, NEW c, IsTower(U, c), NEW g, IsKeying(g, U[c]),
         NEW N, NEW h, IsKeying(h, N), \A n \in N : IsLeaf(n) \/ {n.left, n.right} \subseteq N
  PROVE  \A n \in U[c] : n \in N => g[n] = h[n]
<1> DEFINE L == {d \in Nat : d <= c /\ U[d] \subseteq U[c] => \A n \in U[d] : n \in N => g[n] = h[n]}
<1>0. c \in Nat /\ c <= c /\ U[c] \subseteq U[c]
  BY DEF IsTower
<1>1. ASSUME NEW n \in U[c] PROVE g[n] = IF IsLeaf(n) THEN {n.key} ELSE g[n.left] \cup g[n.right]
  BY Zenon DEF IsKeying
<1>2. ASSUME NEW n \in N PROVE h[n] = IF IsLeaf(n) THEN {n.key} ELSE h[n.left] \cup h[n.right]
  BY Zenon DEF IsKeying
<1>3. 0 \in L
  <2> SUFFICES ASSUME U[0] \subseteq U[c], NEW n \in U[0], n \in N PROVE g[n] = h[n]
    OBVIOUS
  <2>1. IsLeaf(n) /\ n \in U[c]
    BY DEF IsTower
  <2> QED BY <2>1, <1>1, <1>2
<1>4. ASSUME NEW d \in Nat, d \in L PROVE d + 1 \in L
  <2> SUFFICES ASSUME d + 1 <= c, U[d + 1] \subseteq U[c], NEW n \in U[d + 1], n \in N PROVE g[n] = h[n]
    OBVIOUS
  <2>0. d <= c /\ U[d] \subseteq U[d + 1]
    BY <1>0 DEF IsTower
  <2>1. \A x \in U[d] : x \in N => g[x] = h[x]
    BY <1>4, <2>0
  <2>2. CASE n \in U[d]
    BY <2>1, <2>2
  <2>3. CASE ~IsLeaf(n) /\ {n.left, n.right} \subseteq U[d]
    <3>1. n.left \in N /\ n.right \in N
      BY <2>3
    <3>2. g[n.left] = h[n.left] /\ g[n.right] = h[n.right]
      BY <2>1, <2>3, <3>1
    <3>3. n \in U[c]
      OBVIOUS
    <3>4. g[n] = g[n.left] \cup g[n.right]
      BY <1>1, <2>3, <3>3, Zenon
    <3>5. h[n] = h[n.left] \cup h[n.right]
      BY <1>2, <2>3, Zenon
    <3> QED BY <3>2, <3>4, <3>5
  <2>4. n \in U[d] \/ (~IsLeaf(n) /\ {n.left, n.right} \subseteq U[d])
    BY DEF IsTower
  <2> QED BY <2>2, <2>3, <2>4
<1> HIDE DEF L
<1>5. Nat \subseteq L
  BY <1>3, <1>4, NumberInduction
<1> QED BY <1>0, <1>5 DEF L

\* The recursion of DiffNodes over the nodes of s and t has a solution.
DiffBody(s, t, g, a, b) ==
  IF a = b THEN {}
  ELSE IF IsLeaf(a) \/ IsLeaf(b) THEN AgainstLeaf(s, a, t, b)
  ELSE g[<<a.left, b.left>>] \cup g[<<a.right, b.right>>]

HasDiff(s, t, M, N) == \E g : g = [p \in M \X N |-> DiffBody(s, t, g, p[1], p[2])]

LEMMA DiffExists ==
  ASSUME NEW s, NEW t, NEW U, NEW c, IsTower(U, c),
         NEW N, \A n \in N : IsLeaf(n) \/ {n.left, n.right} \subseteq N
  PROVE  HasDiff(s, t, U[c], N)
<1> DEFINE X(a, b) == AgainstLeaf(s, a, t, b)
           body(g, a, b) == IF a = b THEN {} ELSE IF IsLeaf(a) \/ IsLeaf(b) THEN X(a, b)
                            ELSE g[<<a.left, b.left>>] \cup g[<<a.right, b.right>>]
           rhs(d, g) == [p \in U[d] \X N |-> body(g, p[1], p[2])]
           L == {d \in Nat : d <= c => \E g : g = rhs(d, g)}
<1> HIDE DEF X
<1>1. 0 \in L
  <2> DEFINE g == [p \in U[0] \X N |-> IF p[1] = p[2] THEN {} ELSE X(p[1], p[2])]
  <2>1. g = rhs(0, g)
    BY DEF IsTower
  <2> HIDE DEF g, rhs
  <2> QED BY <2>1
<1>2. ASSUME NEW d \in Nat, d \in L PROVE d + 1 \in L
  <2> HIDE DEF rhs
  <2> SUFFICES ASSUME d + 1 <= c PROVE \E g : g = rhs(d + 1, g)
    OBVIOUS
  <2> USE DEF rhs
  <2>0. d <= c /\ U[d] \subseteq U[d + 1]
    BY DEF IsTower
  <2>1. PICK g : g = rhs(d, g)
    BY <1>2, <2>0
  <2> DEFINE h == [p \in U[d + 1] \X N |-> IF p[1] \in U[d] THEN g[p] ELSE body(g, p[1], p[2])]
  <2>2. ASSUME NEW a \in U[d], NEW b \in N PROVE h[<<a, b>>] = g[<<a, b>>]
    BY <2>0
  <2>3. ASSUME NEW a \in U[d + 1], NEW b \in N PROVE h[<<a, b>>] = body(g, a, b)
    <3>1. a \in U[d] => g[<<a, b>>] = body(g, a, b)
      BY <2>1
    <3> HIDE DEF body
    <3> QED BY <3>1
  <2>4. ASSUME NEW n \in U[d + 1], ~IsLeaf(n) PROVE n.left \in U[d] /\ n.right \in U[d]
    <3>1. \A x \in U[d] : IsLeaf(x) \/ {x.left, x.right} \subseteq U[d]
      BY <2>0, TowerClosed
    <3>2. n \in U[d] \/ {n.left, n.right} \subseteq U[d]
      BY <2>4 DEF IsTower
    <3> QED BY <3>1, <3>2, <2>4
  <2>5. ASSUME NEW a \in U[d + 1], NEW b \in N PROVE h[<<a, b>>] = body(h, a, b)
    <3>1. ~IsLeaf(a) /\ ~IsLeaf(b) => h[<<a.left, b.left>>] = g[<<a.left, b.left>>] /\ h[<<a.right, b.right>>] = g[<<a.right, b.right>>]
      <4> SUFFICES ASSUME ~IsLeaf(a), ~IsLeaf(b)
                   PROVE  h[<<a.left, b.left>>] = g[<<a.left, b.left>>] /\ h[<<a.right, b.right>>] = g[<<a.right, b.right>>]
        OBVIOUS
      <4>1. a.left \in U[d] /\ a.right \in U[d] /\ b.left \in N /\ b.right \in N
        BY <2>4
      <4> HIDE DEF h
      <4> QED BY <4>1, <2>2
    <3>2. h[<<a, b>>] = body(g, a, b)
      BY <2>3
    <3> HIDE DEF h
    <3> QED BY <3>1, <3>2
  <2>6. h = rhs(d + 1, h)
    <3>1. h = [p \in U[d + 1] \X N |-> h[p]]
      OBVIOUS
    <3>2. ASSUME NEW p \in U[d + 1] \X N PROVE h[p] = body(h, p[1], p[2])
      <4>1. p = <<p[1], p[2]>> /\ p[1] \in U[d + 1] /\ p[2] \in N
        OBVIOUS
      <4> HIDE DEF h, body
      <4> QED BY <4>1, <2>5
    <3> HIDE DEF h, body
    <3>3. [p \in U[d + 1] \X N |-> h[p]] = [p \in U[d + 1] \X N |-> body(h, p[1], p[2])]
      BY <3>2
    <3> QED BY <3>1, <3>3, Zenon
  <2> HIDE DEF h, rhs
  <2> QED BY <2>6
<1> HIDE DEF L, rhs
<1>3. Nat \subseteq L
  BY <1>1, <1>2, NumberInduction
<1>4. c \in Nat /\ c <= c
  BY DEF IsTower
<1>5. \E g : g = rhs(c, g)
  BY <1>3, <1>4 DEF L
<1> QED BY <1>5, Zenon DEF rhs, body, X, HasDiff, DiffBody

\* What one node has below it and the other has not is among the differences.
LEMMA DiffMissesNothing ==
  ASSUME NEW s, NEW t, NEW U, NEW c, IsTower(U, c),
         NEW N, \A n \in N : IsLeaf(n) \/ {n.left, n.right} \subseteq N,
         NEW f, f = CollectKeys(s), IsKeying(f, U[c]),
         NEW h, h = CollectKeys(t), IsKeying(h, N),
         NEW g, g = [p \in U[c] \X N |-> DiffBody(s, t, g, p[1], p[2])]
  PROVE  \A a \in U[c], b \in N : (f[a] \ h[b]) \cup (h[b] \ f[a]) \subseteq g[<<a, b>>]
<1> DEFINE miss(a, b) == (f[a] \ h[b]) \cup (h[b] \ f[a]) \subseteq g[<<a, b>>]
           L == {d \in Nat : d <= c /\ U[d] \subseteq U[c] => \A a \in U[d], b \in N : miss(a, b)}
<1>0. c \in Nat /\ c <= c /\ U[c] \subseteq U[c]
  BY DEF IsTower
<1>1. ASSUME NEW n \in U[c] PROVE f[n] = IF IsLeaf(n) THEN {n.key} ELSE f[n.left] \cup f[n.right]
  BY Zenon DEF IsKeying
<1>2. ASSUME NEW n \in N PROVE h[n] = IF IsLeaf(n) THEN {n.key} ELSE h[n.left] \cup h[n.right]
  BY Zenon DEF IsKeying
<1>3. \A n \in U[c] : n \in N => f[n] = h[n]
  BY KeyingsAgree
<1>4. ASSUME NEW a \in U[c], NEW b \in N
      PROVE  g[<<a, b>>] = IF a = b THEN {} ELSE IF IsLeaf(a) \/ IsLeaf(b) THEN f[a] \cup h[b]
                           ELSE g[<<a.left, b.left>>] \cup g[<<a.right, b.right>>]
  <2>1. <<a, b>> \in U[c] \X N /\ <<a, b>>[1] = a /\ <<a, b>>[2] = b
    OBVIOUS
  <2>2. g[<<a, b>>] = DiffBody(s, t, g, a, b)
    BY <2>1
  <2>3. AgainstLeaf(s, a, t, b) = f[a] \cup h[b]
    BY DEF AgainstLeaf
  <2> QED BY <2>2, <2>3, Zenon DEF DiffBody
<1>5. ASSUME NEW a \in U[c], NEW b \in N, IsLeaf(a) \/ IsLeaf(b) \/ a = b PROVE miss(a, b)
  <2>1. a = b => f[a] = h[b]
    BY <1>3
  <2>2. a # b => g[<<a, b>>] = f[a] \cup h[b]
    BY <1>4, <1>5
  <2> QED BY <2>1, <2>2
<1>6. 0 \in L
  <2> SUFFICES ASSUME U[0] \subseteq U[c], NEW a \in U[0], NEW b \in N PROVE miss(a, b)
    OBVIOUS
  <2>1. IsLeaf(a) /\ a \in U[c]
    BY DEF IsTower
  <2> QED BY <2>1, <1>5
<1>7. ASSUME NEW d \in Nat, d \in L PROVE d + 1 \in L
  <2> HIDE DEF miss
  <2> SUFFICES ASSUME d + 1 <= c, U[d + 1] \subseteq U[c], NEW a \in U[d + 1], NEW b \in N PROVE miss(a, b)
    OBVIOUS
  <2> USE DEF miss
  <2>0. d <= c /\ U[d] \subseteq U[d + 1] /\ a \in U[c]
    BY <1>0 DEF IsTower
  <2>1. \A x \in U[d], y \in N : miss(x, y)
    BY <1>7, <2>0
  <2>2. CASE a \in U[d]
    BY <2>1, <2>2
  <2>3. CASE IsLeaf(a) \/ IsLeaf(b) \/ a = b
    BY <2>0, <2>3, <1>5
  <2>4. CASE ~IsLeaf(a) /\ {a.left, a.right} \subseteq U[d] /\ ~IsLeaf(b) /\ a # b
    <3> DEFINE al == a.left  ar == a.right  bl == b.left  br == b.right
    <3>1. al \in U[d] /\ ar \in U[d] /\ bl \in N /\ br \in N
      BY <2>4
    <3>2. f[a] = f[al] \cup f[ar] /\ h[b] = h[bl] \cup h[br]
      BY <1>1, <1>2, <2>0, <2>4
    <3>3. g[<<a, b>>] = g[<<al, bl>>] \cup g[<<ar, br>>]
      BY <1>4, <2>0, <2>4
    <3>4. miss(al, bl) /\ miss(ar, br)
      BY <2>1, <3>1
    <3> HIDE DEF al, ar, bl, br
    <3> QED BY <3>2, <3>3, <3>4
  <2>5. a \in U[d] \/ (~IsLeaf(a) /\ {a.left, a.right} \subseteq U[d])
    BY DEF IsTower
  <2> QED BY <2>2, <2>3, <2>4, <2>5
<1> HIDE DEF L
<1>8. Nat \subseteq L
  BY <1>6, <1>7, NumberInduction
<1> QED BY <1>0, <1>8 DEF L

\* The comparison of two trees misses no key that one side lacks.
THEOREM DiffFinds ==
  ASSUME NEW J \in KeySet, NEW K \in KeySet
  PROVE  (J \ K) \cup (K \ J) \subseteq Diff(Build(J), Build(K))
<1> DEFINE s == Build(J)  t == Build(K)
<1>1. ASSUME NEW H \in KeySet
      PROVE  H = {} <=> Build(H).root = NoTree.root
  <2>1. H = {} => Build(H) = NoTree
    BY Zenon DEF Build
  <2>2. H # {} => Build(H).root # NoTree.root
    BY BuildFacts
  <2> QED BY <2>1, <2>2
<1>2. ASSUME NEW H \in KeySet
      PROVE  H = {} <=> Build(H) = NoTree
  BY <1>1, Zenon DEF Build
<1>3. CASE J = {} /\ K = {}
  BY <1>3
<1>4. CASE J = {} /\ K # {}
  <2>1. s.root # t.root /\ s = NoTree
    BY <1>1, <1>2, <1>4
  <2>2. Diff(s, t) = CollectKeys(t)[t.root]
    BY <2>1 DEF Diff, RootHash
  <2>3. CollectKeys(t)[t.root] = K
    BY <1>4, BuildFacts
  <2> QED BY <2>2, <2>3, <1>4
<1>5. CASE J # {} /\ K = {}
  <2>1. s.root # t.root /\ t = NoTree /\ s # NoTree
    BY <1>1, <1>2, <1>5
  <2>2. Diff(s, t) = CollectKeys(s)[s.root]
    BY <2>1 DEF Diff, RootHash
  <2>3. CollectKeys(s)[s.root] = J
    BY <1>5, BuildFacts
  <2> QED BY <2>2, <2>3, <1>5
<1>6. CASE J # {} /\ K # {}
  <2>1. PICK U, c : IsTower(U, c) /\ s.nodes = U[c]
    BY <1>6, BuildFacts, Zenon
  <2>2. PICK V, e : IsTower(V, e) /\ t.nodes = V[e]
    BY <1>6, BuildFacts, Zenon
  <2> DEFINE f == CollectKeys(s)  h == CollectKeys(t)  N == t.nodes
  <2>3. IsKeying(f, U[c]) /\ s.root \in U[c] /\ f[s.root] = J
    BY <1>6, <2>1, BuildFacts
  <2>4. IsKeying(h, N) /\ t.root \in N /\ h[t.root] = K
    BY <1>6, BuildFacts
  <2>5. \A n \in N : IsLeaf(n) \/ {n.left, n.right} \subseteq N
    <3>1. e \in Nat /\ e <= e
      BY <2>2 DEF IsTower
    <3> QED BY <2>2, <3>1, TowerClosed
  <2>6. s # NoTree /\ t # NoTree
    BY <1>2, <1>6
  <2>7. CASE s.root = t.root
    <3>1. f[s.root] = h[t.root]
      BY <2>1, <2>3, <2>4, <2>5, <2>7, KeyingsAgree
    <3> QED BY <3>1, <2>3, <2>4
  <2>8. CASE s.root # t.root
    <3> DEFINE g == DiffNodes(s, t)
    <3>1. HasDiff(s, t, U[c], N)
      BY <2>1, <2>5, DiffExists
    <3>2. g = CHOOSE x : x = [p \in U[c] \X N |-> DiffBody(s, t, x, p[1], p[2])]
      BY <2>1, Zenon DEF DiffNodes, DiffBody
    <3> HIDE DEF g
    <3>3. g = [p \in U[c] \X N |-> DiffBody(s, t, g, p[1], p[2])]
      BY <3>1, <3>2, Zenon DEF HasDiff
    <3>4. Diff(s, t) = g[<<s.root, t.root>>]
      BY <2>6, <2>8 DEF Diff, RootHash, g
    <3> HIDE DEF s, t, f, h, N
    <3>5. \A a \in U[c], b \in N : (f[a] \ h[b]) \cup (h[b] \ f[a]) \subseteq g[<<a, b>>]
      BY <2>1, <2>3, <2>4, <2>5, <3>3, DiffMissesNothing DEF f, h
    <3>6. (f[s.root] \ h[t.root]) \cup (h[t.root] \ f[s.root]) \subseteq g[<<s.root, t.root>>]
      BY <3>5, <2>3, <2>4
    <3> QED BY <3>4, <3>6, <2>3, <2>4 DEF s, t
  <2> QED BY <2>7, <2>8
<1> QED BY <1>3, <1>4, <1>5, <1>6

-----------------------------------------------------------------------------
(* Replicas: types. *)

LEMMA InitType == Init => TypeOK
<1> SUFFICES ASSUME Init PROVE TypeOK
  OBVIOUS
<1> USE QuorumAssumption, ReplicasAssumption
<1>1. QTypeOK
  <2>1. Zero \in [Node -> Nat] /\ <<>> \in Seq(Version)
    BY DEF Zero
  <2> HIDE DEF Zero
  <2>2. NoOp \in Call
    BY <2>1 DEF NoOp, Call
  <2> QED BY <2>1, <2>2 DEF Init, QInit, QTypeOK
<1>2. left \in Bounds
  BY DEF Init
<1>3. RingType
  BY <1>2 DEF Init, RingType, Bounds, Peer
<1>4. DetectorType
  BY DEF Init, DetectorType, Life, Idle
<1>5. CopiesType
  BY DEF Init, CopiesType, NoPass
<1> QED BY <1>1, <1>2, <1>3, <1>4, <1>5 DEF TypeOK

\* A budget that is not used up can be spent.
LEMMA SpendType ==
  ASSUME left \in Bounds,
         NEW b \in {"joins", "leaves", "beats", "uploads", "foreign", "syncs"}, Spend(b)
  PROVE  left' \in Bounds /\ left'.calls = left.calls /\ left'.peers = left.peers
  BY DEF Spend, Bounds

\* What an action leaves alone keeps its type.
LEMMA Untouched ==
  ASSUME TypeOK
  PROVE  /\ UNCHANGED ring_vars => RingType'
         /\ UNCHANGED detector => DetectorType'
         /\ UNCHANGED <<copies, pass, sync>> => CopiesType'
         /\ UNCHANGED qvars => QTypeOK'
<1>1. UNCHANGED ring_vars => RingType'
  BY DEF TypeOK, RingType, ring_vars
<1>2. UNCHANGED detector => DetectorType'
  BY DEF TypeOK, DetectorType, detector
<1>3. UNCHANGED <<copies, pass, sync>> => CopiesType'
  BY DEF TypeOK, CopiesType, copies
<1>4. UNCHANGED qvars => QTypeOK'
  BY DEF TypeOK, QTypeOK, qvars
<1> QED BY <1>1, <1>2, <1>3, <1>4

LEMMA RecordedType ==
  ASSUME TypeOK, NEW p \in Peer, Recorded(p), UNCHANGED reaper
  PROVE  DetectorType'
<1>1. "alive" \in Life
  BY DEF Life
<1>2. state' \in [Peer -> [life : Life, id : Nat]]
  BY <1>1 DEF TypeOK, DetectorType, Recorded
<1>3. samples' \in [Peer -> 0 .. MaxSamples]
  BY ReplicasAssumption DEF TypeOK, DetectorType, Recorded
<1>4. silent' \subseteq Peer
  BY DEF TypeOK, DetectorType, Recorded
<1> QED BY <1>2, <1>3, <1>4 DEF TypeOK, DetectorType

LEMMA DetectType ==
  ASSUME TypeOK, Detect
  PROVE  TypeOK'
<1> USE ReplicasAssumption, Untouched
<1>1. ASSUME NEW p \in Peer, HandleHeartbeat(p) PROVE TypeOK'
  BY <1>1, SpendType, RecordedType DEF HandleHeartbeat, TypeOK
<1>2. ASSUME NEW p \in Peer, ReapPhi(p) PROVE TypeOK'
  <2>1. DetectorType'
    BY <1>2 DEF ReapPhi, TypeOK, DetectorType, Life, Idle, Peer
  <2> QED BY <1>2, <2>1 DEF ReapPhi, TypeOK
<1>3. ASSUME NEW p \in Peer, OnDead(p) PROVE TypeOK'
  <2>1. RingType'
    BY <1>3 DEF OnDead, TypeOK, RingType, RemoveNode, Peer
  <2>2. CopiesType'
    BY <1>3 DEF OnDead, TypeOK, CopiesType
  <2> QED BY <1>3, <2>1, <2>2 DEF OnDead, TypeOK
<1>4. ASSUME ReapLoad PROVE TypeOK'
  <2>1. DetectorType'
    <3>1. reaper.peer \in Peer
      BY <1>4 DEF ReapLoad, TypeOK, DetectorType
    <3>2. state' \in [Peer -> [life : Life, id : Nat]]
      <4>1. "alive" \in Life /\ state[reaper.peer].life \in Life
        BY <3>1 DEF TypeOK, DetectorType, Life
      <4> QED BY <1>4, <3>1, <4>1 DEF ReapLoad, TypeOK, DetectorType
    <3>3. state'[reaper.peer].life \in Life /\ state[reaper.peer].id \in Nat
      BY <3>1, <3>2 DEF TypeOK, DetectorType
    <3> QED BY <1>4, <3>1, <3>2, <3>3 DEF ReapLoad, TypeOK, DetectorType
  <2> QED BY <1>4, <2>1 DEF ReapLoad, TypeOK
<1>5. ASSUME NEW l \in Life, Swap(l), reaper.pc = "loaded"
      PROVE  state' \in [Peer -> [life : Life, id : Nat]]
  <2>1. reaper.peer \in Peer
    BY <1>5 DEF TypeOK, DetectorType
  <2> QED BY <1>5, <2>1 DEF Swap, TypeOK, DetectorType
<1>6. Idle \in [pc : {"idle", "phi", "loaded"}, peer : Node, id : Nat, cur : Life] /\ Idle.pc = "idle"
  BY DEF Idle, Life
<1>7. ASSUME ReapSuspect PROVE TypeOK'
  <2>1. reaper.peer \in Peer /\ "suspect" \in Life
    BY <1>7 DEF ReapSuspect, TypeOK, DetectorType, Life
  <2>2. DetectorType'
    BY <1>5, <1>6, <1>7, <2>1 DEF ReapSuspect, TypeOK, DetectorType
  <2> QED BY <1>7, <2>2 DEF ReapSuspect, TypeOK
<1>8. ASSUME ReapDead PROVE TypeOK'
  <2>1. reaper.peer \in Peer /\ "dead" \in Life
    BY <1>8 DEF ReapDead, TypeOK, DetectorType, Life
  <2>2. DetectorType'
    BY <1>5, <1>6, <1>8, <2>1 DEF ReapDead, TypeOK, DetectorType
  <2>3. RingType'
    BY <1>8, <2>1 DEF ReapDead, TypeOK, RingType
  <2> QED BY <1>8, <2>2, <2>3 DEF ReapDead, TypeOK
<1>9. ASSUME ReapNothing PROVE TypeOK'
  <2>1. DetectorType'
    BY <1>6, <1>9 DEF ReapNothing, TypeOK, DetectorType
  <2> QED BY <1>9, <2>1 DEF ReapNothing, TypeOK
<1> QED BY <1>1, <1>2, <1>3, <1>4, <1>7, <1>8, <1>9 DEF Detect

LEMMA MembershipType ==
  ASSUME TypeOK, Membership
  PROVE  TypeOK'
<1> USE ReplicasAssumption, Untouched
<1>1. ASSUME NEW p \in Peer, OnPeer(p) PROVE TypeOK'
  <2>1. RingType'
    BY <1>1 DEF OnPeer, TypeOK, RingType, AddNode, Peer
  <2>2. CopiesType'
    BY <1>1 DEF OnPeer, TypeOK, CopiesType
  <2> QED BY <1>1, <2>1, <2>2, SpendType, RecordedType DEF OnPeer, TypeOK
<1>2. ASSUME NEW p \in Peer, OnPeerDisconnect(p) PROVE TypeOK'
  <2>1. RingType'
    BY <1>2 DEF OnPeerDisconnect, TypeOK, RingType, RemoveNode, Peer
  <2>2. CopiesType'
    BY <1>2 DEF OnPeerDisconnect, TypeOK, CopiesType
  <2>3. DetectorType'
    BY <1>2 DEF OnPeerDisconnect, TypeOK, DetectorType, Life
  <2> QED BY <1>2, <2>1, <2>2, <2>3, SpendType DEF OnPeerDisconnect, TypeOK
<1> QED BY <1>1, <1>2 DEF Membership

LEMMA CopyType ==
  ASSUME TypeOK, Copy
  PROVE  TypeOK'
<1> USE ReplicasAssumption, Untouched
<1>1. ASSUME NEW f \in File, ReplicateManifest(f) PROVE TypeOK'
  <2>1. CopiesType'
    BY <1>1 DEF ReplicateManifest, TypeOK, CopiesType, RingType, Connected, Peer
  <2> QED BY <1>1, <2>1, SpendType DEF ReplicateManifest, TypeOK
<1>2. ASSUME NEW f \in File, SetManifest(f) PROVE TypeOK'
  <2>1. CopiesType'
    BY <1>2 DEF SetManifest, TypeOK, CopiesType
  <2> QED BY <1>2, <2>1 DEF SetManifest, TypeOK
<1>3. ASSUME NEW f \in File, Migrate(f) PROVE TypeOK'
  <2>1. CopiesType'
    BY <1>3 DEF Migrate, TypeOK, CopiesType, RingType, Connected
  <2> QED BY <1>3, <2>1 DEF Migrate, TypeOK
<1>4. ASSUME NEW f \in File, NEW p \in Peer, PeerUploads(p, f) PROVE TypeOK'
  <2>1. CopiesType'
    BY <1>4 DEF PeerUploads, TypeOK, CopiesType, Peer
  <2> QED BY <1>4, <2>1, SpendType DEF PeerUploads, TypeOK
<1>5. ASSUME NEW f \in File, NEW p \in Peer, StoreManifest(f, p) PROVE TypeOK'
  <2>1. CopiesType'
    BY <1>5 DEF StoreManifest, TypeOK, CopiesType, Peer
  <2> QED BY <1>5, <2>1 DEF StoreManifest, TypeOK
<1>6. ASSUME NEW e \in events, Dropped(e) PROVE TypeOK'
  <2>1. CopiesType'
    BY <1>6 DEF Dropped, TypeOK, CopiesType
  <2>2. RingType'
    BY <1>6 DEF Dropped, TypeOK, RingType
  <2> QED BY <1>6, <2>1, <2>2 DEF Dropped, TypeOK
<1>7. ASSUME NEW p \in Peer, BeginMigration(p) \/ Rereplicate(p) PROVE TypeOK'
  <2>1. CopiesType'
    <3>1. p \in Node /\ has[Self] \in SUBSET File
      BY DEF TypeOK, CopiesType, Peer
    <3>2. pass' \in [node : Node, keys : SUBSET File, on : BOOLEAN]
      <4>1. pass' = [node |-> p, keys |-> has[Self], on |-> TRUE] \/ pass' = [node |-> p, keys |-> {}, on |-> TRUE]
        BY <1>7 DEF BeginMigration, Rereplicate
      <4>2. CASE pass' = [node |-> p, keys |-> has[Self], on |-> TRUE]
        BY <3>1, <4>2
      <4>3. CASE pass' = [node |-> p, keys |-> {}, on |-> TRUE]
        BY <3>1, <4>3
      <4> QED BY <4>1, <4>2, <4>3
    <3> QED BY <1>7, <3>2 DEF BeginMigration, Rereplicate, TypeOK, CopiesType, copies
  <2>2. RingType'
    BY <1>7 DEF BeginMigration, Rereplicate, TypeOK, RingType
  <2> QED BY <1>7, <2>1, <2>2 DEF BeginMigration, Rereplicate, TypeOK
<1>8. ASSUME EndPass PROVE TypeOK'
  <2>1. CopiesType'
    BY <1>8 DEF EndPass, TypeOK, CopiesType, copies, NoPass
  <2> QED BY <1>8, <2>1 DEF EndPass, TypeOK
<1> QED BY <1>1, <1>2, <1>3, <1>4, <1>5, <1>6, <1>7, <1>8 DEF Copy

LEMMA AntiEntropyType ==
  ASSUME TypeOK, AntiEntropy
  PROVE  TypeOK'
<1> USE Untouched
<1>1. ASSUME DoSync PROVE TypeOK'
  <2>1. CopiesType'
    <3>1. \A x \in sync' : x \in sync \/ (x.peer \in Peer /\ x.type = "root")
      BY <1>1 DEF DoSync, TypeOK, RingType
    <3> QED BY <1>1, <3>1 DEF DoSync, TypeOK, CopiesType, copies
  <2> QED BY <1>1, <2>1, SpendType DEF DoSync, TypeOK
<1>2. ASSUME NEW x \in sync, HandleSync(x) PROVE TypeOK'
  <2>1. CopiesType'
    <3>1. \A y \in sync' : y \in sync \/ (y.peer = x.peer /\ y.type = "diff")
      BY <1>2 DEF HandleSync
    <3> QED BY <1>2, <3>1 DEF HandleSync, TypeOK, CopiesType, copies
  <2> QED BY <1>2, <2>1 DEF HandleSync, TypeOK
<1>3. ASSUME NEW x \in sync, HandleDiffResponse(x) PROVE TypeOK'
  <2>1. CopiesType'
    BY <1>3 DEF HandleDiffResponse, TypeOK, CopiesType, copies
  <2> QED BY <1>3, <2>1 DEF HandleDiffResponse, TypeOK
<1> QED BY <1>1, <1>2, <1>3 DEF AntiEntropy

-----------------------------------------------------------------------------
(* The nodes of a key. *)

\* A node of a key on a ring is one of its nodes on every smaller ring that it is on.
LEMMA GetNodesShrink ==
  ASSUME NEW order \in Seq(Node), NEW A \in SUBSET Node, NEW B \in SUBSET Node, A \subseteq B,
         NEW n \in Nat, NEW p \in A, p \in GetNodes(order, B, n)
  PROVE  p \in GetNodes(order, A, n)
<1> DEFINE met(i) == {order[j] : j \in 1 .. i - 1}
<1>1. PICK i \in DOMAIN order : p = order[i] /\ Cardinality(B \cap met(i)) < n
  BY DEF GetNodes
<1> HIDE DEF met
<1>2. IsFiniteSet(B \cap met(i))
  BY QuorumAssumption, FS_Subset
<1>3. A \cap met(i) \subseteq B \cap met(i)
  OBVIOUS
<1>4. Cardinality(A \cap met(i)) <= Cardinality(B \cap met(i)) /\ Cardinality(A \cap met(i)) \in Nat /\ Cardinality(B \cap met(i)) \in Nat
  BY <1>2, <1>3, FS_Subset, FS_CardinalityType
<1>5. Cardinality(A \cap met(i)) < n
  BY <1>1, <1>4
<1> QED BY <1>1, <1>5 DEF GetNodes, met

\* There are at most as many as the replication factor.
LEMMA GetNodesBound ==
  ASSUME NEW order \in Seq(Node), NEW A \in SUBSET Node, NEW n \in Nat
  PROVE  GetNodes(order, A, n) \in SUBSET Node /\ Cardinality(GetNodes(order, A, n)) <= n
<1> DEFINE met(i) == {order[j] : j \in 1 .. i - 1}
           I == {j \in DOMAIN order : order[j] \in A /\ Cardinality(A \cap met(j)) < n}
           S == {order[i] : i \in I}
<1>1. GetNodes(order, A, n) = S
  BY DEF GetNodes
<1>2. S \in SUBSET Node
  OBVIOUS
<1>3. CASE I = {}
  <2> HIDE DEF I
  <2>1. S = {}
    BY <1>3
  <2>2. Cardinality(S) = 0
    BY <2>1, FS_EmptySet
  <2> HIDE DEF S
  <2> QED BY <1>1, <1>2, <2>2
<1>4. CASE I # {}
  <2> DEFINE m == Max(I)
  <2>1. Len(order) \in Nat /\ I \in SUBSET (1 .. Len(order))
    OBVIOUS
  <2> HIDE DEF I
  <2>2. m \in I /\ \A i \in I : i <= m
    BY <1>4, <2>1, MaxIn
  <2> HIDE DEF m
  <2>9. \A i \in I : i # m => i \in 1 .. m - 1
    BY <2>1, <2>2
  <2>3. S \subseteq (A \cap met(m)) \cup {order[m]}
    <3>1. ASSUME NEW i \in I, i # m PROVE order[i] \in A \cap met(m)
      <4>1. i \in 1 .. m - 1 /\ order[i] \in A
        BY <2>9, <3>1 DEF I
      <4> QED BY <4>1
    <3> QED BY <3>1
  <2>4. Cardinality(A \cap met(m)) < n
    BY <2>2 DEF I
  <2> HIDE DEF met, S
  <2> DEFINE C == A \cap met(m)
  <2>5. IsFiniteSet(C)
    BY QuorumAssumption, FS_Subset
  <2> HIDE DEF C
  <2>6. IsFiniteSet(C \cup {order[m]}) /\ Cardinality(C \cup {order[m]}) <= Cardinality(C) + 1 /\ Cardinality(C) \in Nat
    <3>1. Cardinality(C) \in Nat /\ IsFiniteSet(C \cup {order[m]})
      BY <2>5, FS_AddElement, FS_CardinalityType
    <3>2. CASE order[m] \in C
      <4>1. C \cup {order[m]} = C
        BY <3>2
      <4>2. Cardinality(C \cup {order[m]}) = Cardinality(C)
        BY <4>1, Zenon
      <4> QED BY <3>1, <4>2
    <3>3. CASE order[m] \notin C
      BY <2>5, <3>1, <3>3, FS_AddElement
    <3> QED BY <3>2, <3>3
  <2>7. Cardinality(S) <= Cardinality(C \cup {order[m]}) /\ Cardinality(S) \in Nat /\ Cardinality(C \cup {order[m]}) \in Nat
    BY <2>3, <2>6, FS_Subset, FS_CardinalityType DEF C
  <2>8. Cardinality(S) <= n
    BY <2>4, <2>6, <2>7 DEF C
  <2> QED BY <1>1, <1>2, <2>8
<1> QED BY <1>3, <1>4

-----------------------------------------------------------------------------
(* The invariants of the parts. *)

\* A peer is suspected or dead only while it is silent.
SilentInv == \A p \in Peer : state[p].life \in {"suspect", "dead"} => p \in silent

\* In a scenario with quorum calls nobody joins, leaves or is suspected, and so the
\* replicas of the key stay the same; in the others no call is made.
CallsInv ==
  /\ left.calls =>
       /\ left.joins = 0 /\ left.leaves = 0 /\ left.beats = 0
       /\ \A p \in Peer : samples[p] <= 1 /\ state[p].life \notin {"suspect", "dead"}
       /\ reaper.pc = "idle" /\ dying = {}
       /\ \E T \in SUBSET Node : T = GetNodes(FileOrder[1], ring, Factor) /\ QInv(T)
  /\ ~left.calls => \A o \in Op : op[o].pc = "idle"

\* The manifests that a member should have are on their way to it, or will be sent by the
\* pass that is running or by the one that its joining starts.
ServedInv ==
  ~placed.gap =>
    /\ ring = {Self} \cup peers
    /\ ~pass.on => pass.keys = {}
    /\ \A f \in upload, p \in ring \ {Self} : <<f, p>> \in placed.with \cup placed.amid
    /\ \A f \in File, p \in ring \ {Self} :
         <<f, p>> \in placed.with /\ p \in GetNodes(FileOrder[f], ring, Factor) => <<f, p>> \in sent \/ f \in has[p]
    /\ \A f \in has[Self], p \in ring \ {Self} :
         /\ <<f, p>> \notin placed.with \cup placed.amid
         /\ {p, Self} \subseteq GetNodes(ManifestOrder[f], ring, Factor)
         => \/ <<"joined", p>> \in events \/ (pass.node = p /\ f \in pass.keys)
            \/ <<f, p>> \in sent \/ f \in has[p]

\* The keys in the messages of anti-entropy are keys of a node.
SyncInv ==
  \A x \in sync : /\ x.type = "root" => x.keys \in KeySet
                  /\ x.type = "diff" => x.mine \in KeySet /\ x.theirs \in KeySet

LEMMA SilentStep ==
  ASSUME TypeOK, SilentInv, [Next]_vars
  PROVE  SilentInv'
<1>0. UNCHANGED <<state, silent>> => SilentInv'
  BY DEF SilentInv
<1>1. ASSUME NEW p \in Peer, Recorded(p) PROVE SilentInv'
  BY <1>1 DEF Recorded, SilentInv, TypeOK, DetectorType
<1>2. ASSUME ReapLoad PROVE SilentInv'
  BY <1>2 DEF ReapLoad, SilentInv, TypeOK, DetectorType
<1>3. ASSUME ReapSuspect PROVE SilentInv'
  BY <1>3 DEF ReapSuspect, Swap, SilentInv, TypeOK, DetectorType
<1>4. ASSUME ReapDead PROVE SilentInv'
  BY <1>4 DEF ReapDead, Swap, Unchanged, SilentInv, TypeOK, DetectorType
<1>5. ASSUME NEW p \in Peer, OnPeerDisconnect(p) PROVE SilentInv'
  BY <1>5 DEF OnPeerDisconnect, SilentInv, TypeOK, DetectorType
<1>6. Detect => SilentInv'
  BY <1>0, <1>1, <1>2, <1>3, <1>4
     DEF Detect, HandleHeartbeat, ReapPhi, OnDead, ReapNothing, detector
<1>7. Membership => SilentInv'
  BY <1>1, <1>5 DEF Membership, OnPeer
<1>8. Copy \/ AntiEntropy \/ Calls \/ UNCHANGED vars => UNCHANGED <<state, silent>>
  BY DEF Copy, ReplicateManifest, SetManifest, Migrate, PeerUploads, StoreManifest, Dropped, BeginMigration,
         Rereplicate, EndPass, AntiEntropy, DoSync, HandleSync, HandleDiffResponse, Calls, detector, vars
<1> QED BY <1>0, <1>6, <1>7, <1>8 DEF Next

\* A node that has finitely many files has finitely many keys.
LEMMA KeysFacts == ASSUME TypeOK, NEW n \in Node PROVE Keys(n) \in KeySet
<1> DEFINE A == {2 * f - 1 : f \in has[n]}  B == {2 * f : f \in has[n]}
<1>1. has[n] \subseteq File /\ IsFiniteSet(has[n]) /\ has[n] \subseteq Nat \ {0}
  BY ReplicasAssumption, FS_Subset DEF TypeOK, CopiesType
<1>2. IsFiniteSet(A)
  <2>1. [f \in has[n] |-> 2 * f - 1] \in Surjection(has[n], A)
    BY DEF Surjection
  <2> QED BY <1>1, <2>1, FS_Surjection
<1>3. IsFiniteSet(B)
  <2>1. [f \in has[n] |-> 2 * f] \in Surjection(has[n], B)
    BY DEF Surjection
  <2> QED BY <1>1, <2>1, FS_Surjection
<1>4. A \subseteq Nat /\ B \subseteq Nat
  BY <1>1
<1>5. Keys(n) = A \cup B
  BY DEF Keys
<1> HIDE DEF A, B
<1>6. IsFiniteSet(A \cup B)
  BY <1>2, <1>3, FS_Union
<1> QED BY <1>4, <1>5, <1>6 DEF KeySet

LEMMA SyncStep ==
  ASSUME TypeOK, SyncInv, [Next]_vars
  PROVE  SyncInv'
<1>0. UNCHANGED sync => SyncInv'
  BY DEF SyncInv
<1>1. ASSUME DoSync PROVE SyncInv'
  <2>1. Keys(Self) \in KeySet
    BY KeysFacts, ReplicasAssumption
  <2>2. \A x \in sync' : x \in sync \/ (x.type = "root" /\ x.keys = Keys(Self))
    BY <1>1 DEF DoSync
  <2> QED BY <2>1, <2>2 DEF SyncInv
<1>2. ASSUME NEW x \in sync, HandleSync(x) PROVE SyncInv'
  <2>1. x.peer \in Node
    BY DEF TypeOK, CopiesType, Peer
  <2>2. Keys(x.peer) \in KeySet
    BY <2>1, KeysFacts
  <2>3. x.type = "root" /\ x.keys \in KeySet
    BY <1>2 DEF HandleSync, SyncInv
  <2>4. \A y \in sync' : y \in sync \/ (y.type = "diff" /\ y.mine = x.keys /\ y.theirs = Keys(x.peer))
    BY <1>2 DEF HandleSync
  <2> QED BY <2>2, <2>3, <2>4 DEF SyncInv
<1>3. ASSUME NEW x \in sync, HandleDiffResponse(x) PROVE SyncInv'
  BY <1>3 DEF HandleDiffResponse, SyncInv
<1>4. Detect \/ Membership \/ Copy \/ Calls \/ UNCHANGED vars => UNCHANGED sync
  BY DEF Detect, HandleHeartbeat, ReapPhi, OnDead, ReapLoad, ReapSuspect, ReapDead, ReapNothing, Membership, OnPeer,
         OnPeerDisconnect, Copy, ReplicateManifest, SetManifest, Migrate, PeerUploads, StoreManifest, Dropped,
         BeginMigration, Rereplicate, EndPass, Calls, vars
<1> QED BY <1>0, <1>1, <1>2, <1>3, <1>4 DEF Next, AntiEntropy

LEMMA DiffFollows == ASSUME TypeOK, SyncInv PROVE DiffExact
<1> SUFFICES ASSUME NEW x \in sync, x.type = "diff", NEW mine \in {x.mine, Keys(Self)}
             PROVE  Repair(mine, x.theirs) = [send |-> mine \ x.theirs, need |-> x.theirs \ mine]
  BY DEF DiffExact
<1>1. mine \in KeySet /\ x.theirs \in KeySet
  BY KeysFacts, ReplicasAssumption DEF SyncInv
<1> DEFINE diff == Diff(Build(mine), Build(x.theirs))
<1>2. (mine \ x.theirs) \cup (x.theirs \ mine) \subseteq diff
  BY <1>1, DiffFinds
<1>3. Repair(mine, x.theirs) = [send |-> {k \in diff : k \in mine /\ k \notin x.theirs},
                                need |-> {k \in diff : k \notin mine /\ k \in x.theirs}]
  BY DEF Repair
<1> HIDE DEF diff
<1>4. {k \in diff : k \in mine /\ k \notin x.theirs} = mine \ x.theirs
  BY <1>2
<1>5. {k \in diff : k \notin mine /\ k \in x.theirs} = x.theirs \ mine
  BY <1>2
<1> QED BY <1>3, <1>4, <1>5

\* What one of the steps that matter to nothing here leaves alone.
LEMMA ServedUntouched ==
  ASSUME ServedInv, UNCHANGED <<ring, peers, events, has, upload, sent, placed, pass>>
  PROVE  ServedInv'
  BY DEF ServedInv

\* The files and nodes that the invariant is about.
LEMMA NodesFacts ==
  ASSUME TypeOK, NEW f \in File
  PROVE  /\ FileOrder[f] \in Seq(Node) /\ ManifestOrder[f] \in Seq(Node) /\ Factor \in Nat /\ Self \in Node
         /\ ring \subseteq Node /\ peers \subseteq Peer /\ Self \in ring /\ upload \subseteq File /\ \A n \in Node : has[n] \subseteq File
  BY ReplicasAssumption DEF TypeOK, RingType, CopiesType

\* A member of the ring on which it is, or another, joins.
LEMMA OnPeerServed ==
  ASSUME TypeOK, ServedInv, NEW p \in Peer, OnPeer(p)
  PROVE  ServedInv'
<1> SUFFICES ASSUME ~placed.gap' PROVE ServedInv'
  BY DEF ServedInv
<1>0. p \in Node /\ p # Self /\ ring \subseteq Node
  BY DEF Peer, TypeOK, RingType
<1>1. /\ ring' = ring \cup {p} /\ peers' = peers \cup {p} /\ p \notin peers /\ events' = events \cup {<<"joined", p>>}
      /\ placed' = [placed EXCEPT !.with = @ \ (File \X {p}), !.amid = @ \cup (upload \X {p})]
      /\ has' = has /\ upload' = upload /\ sent' = sent /\ pass' = pass
  BY DEF OnPeer, AddNode
<1>2. /\ placed'.with = placed.with \ (File \X {p}) /\ placed'.amid = placed.amid \cup (upload \X {p})
      /\ placed'.gap = placed.gap
  BY <1>1 DEF TypeOK, CopiesType
<1> HIDE DEF ServedInv
<1>3. /\ ring = {Self} \cup peers
      /\ ~pass.on => pass.keys = {}
      /\ \A f \in upload, q \in ring \ {Self} : <<f, q>> \in placed.with \cup placed.amid
      /\ \A f \in File, q \in ring \ {Self} :
           <<f, q>> \in placed.with /\ q \in GetNodes(FileOrder[f], ring, Factor) => <<f, q>> \in sent \/ f \in has[q]
      /\ \A f \in has[Self], q \in ring \ {Self} :
           /\ <<f, q>> \notin placed.with \cup placed.amid
           /\ {q, Self} \subseteq GetNodes(ManifestOrder[f], ring, Factor)
           => \/ <<"joined", q>> \in events \/ (pass.node = q /\ f \in pass.keys)
              \/ <<f, q>> \in sent \/ f \in has[q]
  BY <1>2 DEF ServedInv
<1>4. p \notin ring
  BY <1>0, <1>1, <1>3
<1>5. \A f, q : q # p => (<<f, q>> \in placed'.with <=> <<f, q>> \in placed.with)
                         /\ (<<f, q>> \in placed'.amid <=> <<f, q>> \in placed.amid)
  BY <1>2
<1>6. \A f \in File : <<f, p>> \notin placed'.with
  BY <1>2
<1>7. ring' = {Self} \cup peers'
  BY <1>1, <1>3
<1>8. ASSUME NEW f \in upload', NEW q \in ring' \ {Self} PROVE <<f, q>> \in placed'.with \cup placed'.amid
  <2>1. CASE q = p
    BY <1>1, <1>2, <2>1
  <2>2. CASE q # p
    BY <1>1, <1>3, <1>5, <2>2
  <2> QED BY <2>1, <2>2
<1>9. ASSUME NEW f \in File, NEW q \in ring' \ {Self}, <<f, q>> \in placed'.with, q \in GetNodes(FileOrder[f], ring', Factor)
      PROVE  <<f, q>> \in sent' \/ f \in has'[q]
  <2>1. q # p /\ q \in ring
    BY <1>1, <1>6, <1>9
  <2>2. q \in GetNodes(FileOrder[f], ring, Factor)
    <3>1. ring' \in SUBSET Node /\ ring \in SUBSET Node /\ ring \subseteq ring'
      BY <1>0, <1>1
    <3> QED BY <1>9, <2>1, <3>1, NodesFacts, GetNodesShrink
  <2> QED BY <1>1, <1>3, <1>5, <1>9, <2>1, <2>2
<1>10. ASSUME NEW f \in has'[Self], NEW q \in ring' \ {Self}, <<f, q>> \notin placed'.with \cup placed'.amid,
              {q, Self} \subseteq GetNodes(ManifestOrder[f], ring', Factor)
       PROVE  \/ <<"joined", q>> \in events' \/ (pass'.node = q /\ f \in pass'.keys)
              \/ <<f, q>> \in sent' \/ f \in has'[q]
  <2>1. CASE q = p
    BY <1>1, <2>1
  <2>2. CASE q # p
    <3>1. f \in File /\ f \in has[Self] /\ q \in ring /\ Self \in ring
      BY <1>1, <2>2, ReplicasAssumption DEF TypeOK, CopiesType, RingType
    <3>2. q \in GetNodes(ManifestOrder[f], ring, Factor) /\ Self \in GetNodes(ManifestOrder[f], ring, Factor)
      <4>1. ring' \in SUBSET Node /\ ring \in SUBSET Node /\ ring \subseteq ring'
        BY <1>0, <1>1
      <4>2. q \in GetNodes(ManifestOrder[f], ring', Factor) /\ Self \in GetNodes(ManifestOrder[f], ring', Factor)
        BY <1>10
      <4> QED BY <3>1, <4>1, <4>2, NodesFacts, GetNodesShrink
    <3>3. <<f, q>> \notin placed.with \cup placed.amid
      BY <1>5, <1>10, <2>2
    <3> QED BY <1>1, <1>3, <3>1, <3>2, <3>3
  <2> QED BY <2>1, <2>2
<1>11. ~pass'.on => pass'.keys = {}
  BY <1>1, <1>3
<1> QED BY <1>7, <1>8, <1>9, <1>10, <1>11 DEF ServedInv

LEMMA ReplicateServed ==
  ASSUME TypeOK, ServedInv, NEW f \in File, ReplicateManifest(f)
  PROVE  ServedInv'
<1> SUFFICES ASSUME ~placed.gap' PROVE ServedInv'
  BY DEF ServedInv
<1> DEFINE targets == GetNodes(FileOrder[f], ring, Factor) \ {Self}
<1>1. /\ UNCHANGED <<ring, peers, events, has, pass>> /\ upload' = {f} /\ f \notin has[Self]
      /\ sent' = sent \cup Connected(f, targets)
      /\ placed' = [placed EXCEPT !.with = @ \cup ({f} \X (ring \ {Self}))]
  BY DEF ReplicateManifest, ring_vars
<1>2. placed'.with = placed.with \cup ({f} \X (ring \ {Self})) /\ placed'.amid = placed.amid /\ placed'.gap = placed.gap
  BY <1>1 DEF TypeOK, CopiesType
<1>3. ring = {Self} \cup peers /\ ServedInv /\ ~placed.gap
  BY <1>2 DEF ServedInv
<1>4. ASSUME NEW g \in upload', NEW q \in ring' \ {Self} PROVE <<g, q>> \in placed'.with \cup placed'.amid
  BY <1>1, <1>2
<1>5. ASSUME NEW g \in File, NEW q \in ring' \ {Self}, <<g, q>> \in placed'.with, q \in GetNodes(FileOrder[g], ring', Factor)
      PROVE  <<g, q>> \in sent' \/ g \in has'[q]
  <2>1. CASE <<g, q>> \in placed.with
    BY <1>1, <1>3, <1>5, <2>1 DEF ServedInv
  <2>2. CASE <<g, q>> \notin placed.with
    <3>1. g = f
      BY <1>2, <1>5, <2>2
    <3>2. q \in targets /\ q \in peers
      BY <1>1, <1>3, <1>5, <3>1
    <3> HIDE DEF targets
    <3> QED BY <1>1, <3>1, <3>2 DEF Connected
  <2> QED BY <2>1, <2>2
<1>6. ASSUME NEW g \in has'[Self], NEW q \in ring' \ {Self}, <<g, q>> \notin placed'.with \cup placed'.amid,
             {q, Self} \subseteq GetNodes(ManifestOrder[g], ring', Factor)
      PROVE  \/ <<"joined", q>> \in events' \/ (pass'.node = q /\ g \in pass'.keys)
             \/ <<g, q>> \in sent' \/ g \in has'[q]
  BY <1>1, <1>2, <1>3, <1>6 DEF ServedInv
<1>7. ring' = {Self} \cup peers' /\ (~pass'.on => pass'.keys = {})
  BY <1>1, <1>3 DEF ServedInv
<1> QED BY <1>4, <1>5, <1>6, <1>7 DEF ServedInv

\* Steps after which there are more copies, or that bring one nearer.
LEMMA CopyServed ==
  ASSUME TypeOK, ServedInv, Copy
  PROVE  ServedInv'
<1>0. Self \in Node /\ \A n \in Node : has[n] \in SUBSET File
  BY ReplicasAssumption DEF TypeOK, CopiesType
<1>1. ASSUME NEW f \in File, SetManifest(f) PROVE ServedInv'
  <2>1. UNCHANGED <<ring, peers, events, sent, placed, pass>> /\ upload' = {} /\ f \in upload
    BY <1>1 DEF SetManifest, ring_vars
  <2>2. has'[Self] = has[Self] \cup {f} /\ \A n \in Node : has[n] \subseteq has'[n]
    BY <1>0, <1>1 DEF SetManifest, TypeOK, CopiesType
  <2>3. ring \subseteq Node
    BY DEF TypeOK, RingType
  <2>4. ASSUME ~placed.gap, NEW q \in ring \ {Self} PROVE <<f, q>> \in placed.with \cup placed.amid
    BY <2>1, <2>4 DEF ServedInv
  <2> QED BY <2>1, <2>2, <2>3, <2>4 DEF ServedInv
<1>2. ASSUME NEW f \in File, NEW p \in Peer, PeerUploads(p, f) \/ StoreManifest(f, p) PROVE ServedInv'
  <2>1. UNCHANGED <<ring, peers, events, upload, placed, pass>> /\ (sent' = sent \/ sent' = sent \ {<<f, p>>})
    BY <1>2 DEF PeerUploads, StoreManifest, ring_vars
  <2>2. has'[Self] = has[Self] /\ f \in has'[p] /\ \A n \in Node : has[n] \subseteq has'[n]
    BY <1>0, <1>2 DEF PeerUploads, StoreManifest, TypeOK, CopiesType, Peer
  <2>3. ring \subseteq Node
    BY DEF TypeOK, RingType
  <2>4. \A g, q : <<g, q>> \in sent => <<g, q>> \in sent' \/ (g = f /\ q = p)
    BY <2>1
  <2> QED BY <2>1, <2>2, <2>3, <2>4 DEF ServedInv
<1>3. ASSUME NEW f \in File, Migrate(f) PROVE ServedInv'
  <2> DEFINE nodes == GetNodes(ManifestOrder[f], ring, Factor)
  <2>1. /\ UNCHANGED <<ring, peers, events, has, upload, placed>> /\ f \in pass.keys
        /\ pass' = [pass EXCEPT !.keys = @ \ {f}]
        /\ sent' = IF {pass.node, Self} \subseteq nodes THEN sent \cup Connected(f, {pass.node}) ELSE sent
    BY <1>3 DEF Migrate, ring_vars
  <2>2. pass'.node = pass.node /\ pass'.keys = pass.keys \ {f} /\ pass'.on = pass.on
    BY <2>1 DEF TypeOK, CopiesType
  <2> SUFFICES ASSUME ~placed.gap PROVE ServedInv'
    BY <2>1 DEF ServedInv
  <2>3. ring = {Self} \cup peers
    BY DEF ServedInv
  <2>4. sent \subseteq sent' /\ (pass.node \in peers /\ {pass.node, Self} \subseteq nodes => <<f, pass.node>> \in sent')
    BY <2>1 DEF Connected
  <2>5. ASSUME NEW g \in has'[Self], NEW q \in ring' \ {Self}, <<g, q>> \notin placed'.with \cup placed'.amid,
               {q, Self} \subseteq GetNodes(ManifestOrder[g], ring', Factor)
        PROVE  \/ <<"joined", q>> \in events' \/ (pass'.node = q /\ g \in pass'.keys)
               \/ <<g, q>> \in sent' \/ g \in has'[q]
    <3>1. \/ <<"joined", q>> \in events \/ (pass.node = q /\ g \in pass.keys)
          \/ <<g, q>> \in sent \/ g \in has[q]
      BY <2>1, <2>5 DEF ServedInv
    <3>2. CASE pass.node = q /\ g = f
      BY <2>1, <2>3, <2>4, <2>5, <3>2
    <3>3. CASE ~(pass.node = q /\ g = f)
      BY <2>1, <2>2, <2>4, <3>1, <3>3
    <3> QED BY <3>2, <3>3
  <2>6. ASSUME NEW g \in File, NEW q \in ring' \ {Self}, <<g, q>> \in placed'.with, q \in GetNodes(FileOrder[g], ring', Factor)
        PROVE  <<g, q>> \in sent' \/ g \in has'[q]
    BY <2>1, <2>4, <2>6 DEF ServedInv
  <2>7. /\ ring' = {Self} \cup peers' /\ (~pass'.on => pass'.keys = {})
        /\ \A g \in upload', q \in ring' \ {Self} : <<g, q>> \in placed'.with \cup placed'.amid
    BY <2>1, <2>2 DEF ServedInv
  <2> QED BY <2>5, <2>6, <2>7 DEF ServedInv
<1>4. ASSUME NEW e \in events, Dropped(e) PROVE ServedInv'
  <2>1. placed'.gap
    BY <1>4 DEF Dropped, TypeOK, CopiesType
  <2> QED BY <2>1 DEF ServedInv
<1>5. ASSUME NEW p \in Peer, BeginMigration(p) PROVE ServedInv'
  <2>1. /\ UNCHANGED <<ring, peers, has, upload, sent, placed>> /\ ~pass.on
        /\ events' = events \ {<<"joined", p>>} /\ pass' = [node |-> p, keys |-> has[Self], on |-> TRUE]
    BY <1>5 DEF BeginMigration, copies
  <2>2. pass'.node = p /\ pass'.keys = has[Self] /\ pass'.on
    BY <2>1
  <2>3. \A q : <<"joined", q>> \in events => <<"joined", q>> \in events' \/ q = p
    BY <2>1
  <2> QED BY <2>1, <2>2, <2>3 DEF ServedInv
<1>6. ASSUME NEW p \in Peer, Rereplicate(p) PROVE ServedInv'
  <2>1. /\ UNCHANGED <<ring, peers, has, upload, sent, placed>> /\ ~pass.on
        /\ events' = events \ {<<"left", p>>} /\ pass' = [node |-> p, keys |-> {}, on |-> TRUE]
    BY <1>6 DEF Rereplicate, copies
  <2>2. pass'.node = p /\ pass'.keys = {} /\ pass'.on
    BY <2>1
  <2>3. \A q : <<"joined", q>> \in events => <<"joined", q>> \in events'
    BY <2>1
  <2> QED BY <2>1, <2>2, <2>3 DEF ServedInv
<1>7. ASSUME EndPass PROVE ServedInv'
  <2>1. UNCHANGED <<ring, peers, events, has, upload, sent, placed>> /\ pass.keys = {} /\ pass'.keys = {}
    BY <1>7 DEF EndPass, copies, ring_vars, NoPass
  <2> QED BY <2>1 DEF ServedInv
<1> QED BY <1>1, <1>2, <1>3, <1>4, <1>5, <1>6, <1>7, ReplicateServed DEF Copy

LEMMA ServedStep ==
  ASSUME TypeOK, ServedInv, [Next]_vars
  PROVE  ServedInv'
<1>1. ASSUME NEW p \in Peer, OnDead(p) \/ OnPeerDisconnect(p) PROVE ServedInv'
  <2>1. placed'.gap
    BY <1>1 DEF OnDead, OnPeerDisconnect, TypeOK, CopiesType
  <2> QED BY <2>1 DEF ServedInv
<1>2. ASSUME NEW p \in Peer, HandleHeartbeat(p) \/ ReapPhi(p) PROVE UNCHANGED <<ring, peers, events, has, upload, sent, placed, pass>>
  BY <1>2 DEF HandleHeartbeat, ReapPhi, ring_vars, copies
<1>3. ReapLoad \/ ReapSuspect \/ ReapDead \/ ReapNothing => UNCHANGED <<ring, peers, events, has, upload, sent, placed, pass>>
  BY DEF ReapLoad, ReapSuspect, ReapDead, ReapNothing, ring_vars, copies
<1>4. AntiEntropy \/ Calls \/ UNCHANGED vars => UNCHANGED <<ring, peers, events, has, upload, sent, placed, pass>>
  BY DEF AntiEntropy, DoSync, HandleSync, HandleDiffResponse, Calls, ring_vars, copies, vars
<1> QED BY <1>1, <1>2, <1>3, <1>4, ServedUntouched, OnPeerServed, CopyServed DEF Next, Detect, Membership

LEMMA ServedFollows == ASSUME TypeOK, ServedInv PROVE JoinersServed
<1> SUFFICES ASSUME ~placed.gap, events = {}, ~pass.on, sent = {}, NEW f \in has[Self], NEW p \in ring \ {Self},
                    f \notin has[p], <<f, p>> \notin placed.amid
             PROVE  p \notin IF <<f, p>> \in placed.with THEN GetNodes(FileOrder[f], ring, Factor)
                             ELSE {n \in GetNodes(ManifestOrder[f], ring, Factor) :
                                     Self \in GetNodes(ManifestOrder[f], ring, Factor)}
  BY DEF JoinersServed
<1>1. f \in File
  BY ReplicasAssumption DEF TypeOK, CopiesType
<1>2. pass.keys = {}
  BY DEF ServedInv
<1>3. <<f, p>> \in placed.with => p \notin GetNodes(FileOrder[f], ring, Factor)
  BY <1>1 DEF ServedInv
<1>4. <<f, p>> \notin placed.with => ~({p, Self} \subseteq GetNodes(ManifestOrder[f], ring, Factor))
  BY <1>2 DEF ServedInv
<1> QED BY <1>3, <1>4

-----------------------------------------------------------------------------
(* Quorum calls on the ring. *)

\* The calls and their messages are as they were.
LEMMA QuietCalls ==
  ASSUME QTypeOK, UNCHANGED qvars
  PROVE  QTypeOK' /\ \A T \in SUBSET Node : QInv(T) => QInv(T)'
<1>1. QTypeOK'
  BY DEF QTypeOK, qvars
<1>2. ASSUME NEW T \in SUBSET Node, QInv(T) PROVE QInv(T)'
  <2>1. CASE stale
    BY <2>1 DEF QInv, qvars
  <2>2. CASE ~stale
    <3>1. QAssumed(T)
      BY <1>2, <2>2 DEF QInv, QAssumed
    <3>2. QShown(T)
      BY <3>1, LossKeeps DEF qvars
    <3> QED BY <3>2 DEF QShown, QInv
  <2> QED BY <2>1, <2>2
<1> QED BY <1>1, <1>2

\* Spending something else leaves what the calls exclude.
LEMMA SpendKeeps ==
  ASSUME left \in Bounds, NEW b \in {"uploads", "foreign", "syncs"}, Spend(b)
  PROVE  left'.calls = left.calls /\ left'.joins = left.joins /\ left'.leaves = left.leaves /\ left'.beats = left.beats
  BY DEF Spend, Bounds

\* Manifests and key lists move without the ring and the detector.
LEMMA CopyQuiet ==
  ASSUME left \in Bounds, Copy \/ AntiEntropy \/ UNCHANGED vars
  PROVE  /\ UNCHANGED <<ring, samples, state, reaper, dying, qvars>>
         /\ left'.calls = left.calls /\ left'.joins = left.joins /\ left'.leaves = left.leaves /\ left'.beats = left.beats
<1>1. ASSUME NEW f \in File, ReplicateManifest(f) \/ SetManifest(f) \/ Migrate(f)
      PROVE  /\ UNCHANGED <<ring, samples, state, reaper, dying, qvars>>
             /\ left'.calls = left.calls /\ left'.joins = left.joins /\ left'.leaves = left.leaves /\ left'.beats = left.beats
  BY <1>1, SpendKeeps DEF ReplicateManifest, SetManifest, Migrate, ring_vars, detector
<1>2. ASSUME NEW f \in File, NEW p \in Peer, PeerUploads(p, f) \/ StoreManifest(f, p)
      PROVE  /\ UNCHANGED <<ring, samples, state, reaper, dying, qvars>>
             /\ left'.calls = left.calls /\ left'.joins = left.joins /\ left'.leaves = left.leaves /\ left'.beats = left.beats
  BY <1>2, SpendKeeps DEF PeerUploads, StoreManifest, ring_vars, detector
<1>3. ASSUME (\E e \in events : Dropped(e)) \/ (\E p \in Peer : BeginMigration(p) \/ Rereplicate(p)) \/ EndPass \/ UNCHANGED vars
      PROVE  UNCHANGED <<left, ring, samples, state, reaper, dying, qvars>>
  BY <1>3 DEF Dropped, BeginMigration, Rereplicate, EndPass, vars, ring_vars, detector
<1>4. ASSUME DoSync \/ \E x \in sync : HandleSync(x) \/ HandleDiffResponse(x)
      PROVE  /\ UNCHANGED <<ring, samples, state, reaper, dying, qvars>>
             /\ left'.calls = left.calls /\ left'.joins = left.joins /\ left'.leaves = left.leaves /\ left'.beats = left.beats
  BY <1>4, SpendKeeps DEF DoSync, HandleSync, HandleDiffResponse, ring_vars, detector
<1> QED BY <1>1, <1>2, <1>3, <1>4 DEF Copy, AntiEntropy

\* Where calls are made, nothing else moves the ring; elsewhere no call begins.
LEMMA CallsStep ==
  ASSUME TypeOK, CallsInv, [Next]_vars
  PROVE  CallsInv' /\ (UNCHANGED qvars \/ Calls) /\ QTypeOK'
<1>0. QTypeOK /\ left \in Bounds
  BY DEF TypeOK
<1>1. UNCHANGED qvars \/ Calls
  BY <1>0, CopyQuiet
     DEF Next, Detect, HandleHeartbeat, ReapPhi, OnDead, ReapLoad, ReapSuspect, ReapDead, ReapNothing, Membership, OnPeer,
         OnPeerDisconnect
<1>2. CASE Calls
  <2>1. left.calls /\ QNext(GetNodes(FileOrder[1], ring, Factor)) /\ UNCHANGED <<left, ring, samples, state, reaper, dying>>
    BY <1>2 DEF Calls, ring_vars, detector
  <2>2. PICK T \in SUBSET Node : T = GetNodes(FileOrder[1], ring, Factor) /\ QInv(T)
    BY <2>1 DEF CallsInv
  <2>3. QTypeOK' /\ QInv(T)'
    BY <1>0, <2>1, <2>2, QuorumStep
  <2>4. T = GetNodes(FileOrder[1], ring', Factor)
    BY <2>1, <2>2
  <2>5. CallsInv'
    BY <2>1, <2>3, <2>4 DEF CallsInv
  <2> QED BY <1>2, <2>3, <2>5
<1>3. CASE UNCHANGED qvars /\ left.calls
  <2>1. /\ left.joins = 0 /\ left.leaves = 0 /\ left.beats = 0
        /\ \A p \in Peer : samples[p] <= 1 /\ state[p].life \notin {"suspect", "dead"}
        /\ reaper.pc = "idle" /\ dying = {}
    BY <1>3 DEF CallsInv
  <2>2. PICK T \in SUBSET Node : T = GetNodes(FileOrder[1], ring, Factor) /\ QInv(T)
    BY <1>3 DEF CallsInv
  <2>3. QTypeOK' /\ QInv(T)'
    BY <1>0, <1>3, <2>2, QuietCalls
  <2>4. ~Detect /\ ~Membership
    <3>1. ~Spend("beats") /\ ~Spend("joins") /\ ~Spend("leaves")
      BY <2>1 DEF Spend
    <3>2. \A p \in Peer : samples[p] \in Nat
      BY ReplicasAssumption DEF TypeOK, DetectorType
    <3>3. \A p \in Peer : ~HandleHeartbeat(p) /\ ~OnPeer(p) /\ ~OnPeerDisconnect(p)
      BY <3>1 DEF HandleHeartbeat, OnPeer, OnPeerDisconnect
    <3>4. \A p \in Peer : ~ReapPhi(p) /\ ~OnDead(p)
      <4>1. ASSUME NEW p \in Peer PROVE ~(samples[p] >= 3) /\ state[p].life # "suspect" /\ p \notin dying
        BY <2>1, <3>2
      <4> QED BY <4>1 DEF ReapPhi, Suspicious, OnDead
    <3>5. ~ReapLoad /\ ~ReapSuspect /\ ~ReapDead /\ ~ReapNothing
      BY <2>1 DEF ReapLoad, ReapSuspect, ReapDead, ReapNothing
    <3> QED BY <3>3, <3>4, <3>5 DEF Detect, Membership
  <2>5. /\ UNCHANGED <<ring, samples, state, reaper, dying>> /\ left'.calls = left.calls
        /\ left'.joins = left.joins /\ left'.leaves = left.leaves /\ left'.beats = left.beats
    <3>1. CASE Calls
      BY <3>1 DEF Calls, ring_vars, detector
    <3>2. CASE Copy \/ AntiEntropy \/ UNCHANGED vars
      BY <1>0, <3>2, CopyQuiet
    <3> QED BY <2>4, <3>1, <3>2 DEF Next
  <2>6. T = GetNodes(FileOrder[1], ring', Factor)
    BY <2>2, <2>5
  <2>7. CallsInv'
    BY <1>3, <2>1, <2>3, <2>5, <2>6 DEF CallsInv
  <2> QED BY <1>3, <2>3, <2>7
<1>4. CASE UNCHANGED qvars /\ ~left.calls
  <2>1. QTypeOK' /\ \A o \in Op : op'[o].pc = "idle"
    BY <1>0, <1>4, QuietCalls DEF CallsInv, qvars
  <2>2. ~left'.calls
    <3>1. Detect => left'.calls = left.calls
      BY <1>0, SpendType DEF Detect, HandleHeartbeat, ReapPhi, OnDead, ReapLoad, ReapSuspect, ReapDead, ReapNothing
    <3>2. Membership => left'.calls = left.calls
      BY <1>0, SpendType DEF Membership, OnPeer, OnPeerDisconnect
    <3>3. Calls => left.calls
      BY DEF Calls
    <3> QED BY <1>0, <1>4, <3>1, <3>2, <3>3, CopyQuiet DEF Next
  <2> QED BY <1>4, <2>1, <2>2 DEF CallsInv
<1> QED BY <1>1, <1>2, <1>3, <1>4

LEMMA CallsFollow == ASSUME TypeOK, CallsInv PROVE ReadSeesWrite
<1>1. CASE left.calls
  <2>1. PICK T \in SUBSET Node : T = GetNodes(FileOrder[1], ring, Factor) /\ QInv(T)
    BY <1>1 DEF CallsInv
  <2>2. FileOrder[1] \in Seq(Node) /\ ring \in SUBSET Node /\ Factor \in Nat /\ W + R > Factor
    BY ReplicasAssumption DEF TypeOK, RingType
  <2>3. Cardinality(T) <= Factor
    BY <2>1, <2>2, GetNodesBound
  <2>4. Cardinality(T) \in Nat /\ W \in Nat /\ R \in Nat
    BY QuorumAssumption, FS_Subset, FS_CardinalityType
  <2>5. Cardinality(T) < W + R
    BY <2>2, <2>3, <2>4
  <2> QED BY <2>1, <2>5, QuorumsMeet DEF TypeOK
<1>2. CASE ~left.calls
  BY <1>2 DEF CallsInv, ReadSeesWrite
<1> QED BY <1>1, <1>2

-----------------------------------------------------------------------------
(* The invariant of the module. *)

IInv == TypeOK /\ SilentInv /\ CallsInv /\ ServedInv /\ SyncInv

\* Every scenario begins with the ring and the detector in order and nothing under way.
LEMMA InitInv == Init => IInv
<1> SUFFICES ASSUME Init PROVE IInv
  OBVIOUS
<1>1. TypeOK
  BY InitType
<1>2. SilentInv
  BY DEF Init, SilentInv
<1>3. CallsInv
  <2>1. left \in Bounds /\ (left.calls => left.joins = 0 /\ left.leaves = 0 /\ left.beats = 0)
    BY ReplicasAssumption DEF Init
  <2>2. (\A p \in Peer : samples[p] <= 1 /\ state[p].life \notin {"suspect", "dead"}) /\ reaper.pc = "idle" /\ dying = {}
    BY DEF Init, Idle
  <2>3. GetNodes(FileOrder[1], ring, Factor) \in SUBSET Node
    BY <1>1, ReplicasAssumption, GetNodesBound DEF TypeOK, RingType
  <2>4. QInit
    BY DEF Init
  <2>5. \A T \in SUBSET Node : QInv(T)
    BY <2>4, QuorumInit
  <2>6. \A o \in Op : op[o].pc = "idle"
    BY <2>4 DEF QInit, NoOp
  <2> QED BY <2>1, <2>2, <2>3, <2>5, <2>6 DEF CallsInv
<1>4. ServedInv
  <2>1. has[Self] = {} /\ upload = {} /\ ring = {Self} \cup peers
    BY ReplicasAssumption DEF Init
  <2>2. placed.with = {} /\ pass.keys = {}
    BY DEF Init, NoPass
  <2> QED BY <2>1, <2>2 DEF ServedInv
<1>5. SyncInv
  BY DEF Init, SyncInv
<1> QED BY <1>1, <1>2, <1>3, <1>4, <1>5 DEF IInv

LEMMA NextInv == IInv /\ [Next]_vars => IInv'
<1> SUFFICES ASSUME IInv, [Next]_vars PROVE IInv'
  OBVIOUS
<1>0. TypeOK /\ SilentInv /\ CallsInv /\ ServedInv /\ SyncInv
  BY DEF IInv
<1>1. SilentInv' /\ ServedInv' /\ SyncInv' /\ CallsInv' /\ QTypeOK'
  BY <1>0, SilentStep, ServedStep, SyncStep, CallsStep
<1>2. TypeOK'
  <2>1. CASE Detect \/ Membership \/ Copy \/ AntiEntropy
    BY <1>0, <2>1, DetectType, MembershipType, CopyType, AntiEntropyType
  <2>2. CASE Calls
    <3>1. UNCHANGED <<left, ring_vars, detector, copies, pass, sync>>
      BY <2>2 DEF Calls
    <3> QED BY <1>0, <1>1, <3>1, Untouched DEF TypeOK
  <2>3. CASE UNCHANGED vars
    <3>1. UNCHANGED <<left, ring_vars, detector, copies, pass, sync>>
      BY <2>3 DEF vars
    <3> QED BY <1>0, <1>1, <3>1, Untouched DEF TypeOK
  <2> QED BY <2>1, <2>2, <2>3 DEF Next
<1> QED BY <1>1, <1>2 DEF IInv

\* The invariant holds of every history of a node: the ring, the detector, the copies of
\* manifests, the key lists and the calls are as the handlers of src/Server expect them.
THEOREM ReplicasInvariant == Spec => []IInv
<1>1. Init => IInv
  BY InitInv
<1>2. IInv /\ [Next]_vars => IInv'
  BY NextInv
<1> QED BY <1>1, <1>2, PTL DEF Spec

\* A peer that the reaper has declared dead was not heard of since it was suspected: a
\* heartbeat between LoadOrStore and CompareAndSwap of reap wins.
THEOREM DeadStaySilent == Spec => []DeadIsSilent
<1>1. IInv => DeadIsSilent
  BY DEF IInv, SilentInv, DeadIsSilent
<1> QED BY <1>1, ReplicasInvariant, PTL

\* Once the migrations and the uploads are done, the members that should have a manifest
\* have it: OnPeer puts the peer on the ring before the rebalancer hears of it.
THEOREM JoinersGetManifests == Spec => []JoinersServed
<1>1. IInv => JoinersServed
  BY ServedFollows DEF IInv
<1> QED BY <1>1, ReplicasInvariant, PTL

\* The comparison of Merkle trees finds exactly what repair has to send and to ask for,
\* whatever files the two nodes have.
THEOREM DiffsAreExact == Spec => []DiffExact
<1>1. IInv => DiffExact
  BY DiffFollows DEF IInv
<1> QED BY <1>1, ReplicasInvariant, PTL

\* A quorum read does not return what a write that had succeeded before it replaces, for
\* any W and R whose sum exceeds the replication factor.
THEOREM ReadsSeeWrites == Spec => []ReadSeesWrite
<1>1. IInv => ReadSeesWrite
  BY CallsFollow DEF IInv
<1> QED BY <1>1, ReplicasInvariant, PTL
=============================================================================
