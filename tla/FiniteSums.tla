----------------------------- MODULE FiniteSums -----------------------------
(***************************************************************************)
(* Induction over natural numbers and finite sets, in a form without       *)
(* operator parameters, and what MapThenSumSet computes: the sums over     *)
(* scores, maps and searches that the components keep.                     *)
(***************************************************************************)
EXTENDS Integers, FiniteSets, FiniteSetsExt, FiniteSetTheorems, TLAPS

(***************************************************************************)
(* Induction.                                                              *)
(***************************************************************************)
Family(F, S) == F \subseteq SUBSET S /\ F # {} /\ \A A \in F : IsFiniteSet(A)

\* A family of finite sets has a smallest member.
LEMMA SmallestSet ==
    ASSUME NEW S, NEW F, Family(F, S)
    PROVE  \E A \in F : \A B \in F : B \subseteq A => B = A
  <1>1. PICK R : R = StrictSubsetOrdering(S)
    OBVIOUS
  <1>2. PICK T : T = FiniteSubsetsOf(S)
    OBVIOUS
  <1>3. IsWellFoundedOn(R, T)
    BY <1>1, <1>2, FS_StrictSubsetOrderingWellFounded
  <1>4. F \subseteq T
    BY <1>2 DEF FiniteSubsetsOf, Family
  <1>5. PICK A \in F : \A B \in F : ~ (<<B, A>> \in R)
    BY <1>3, <1>4, WFMin DEF Family
  <1> QED
    BY <1>1, <1>5 DEF StrictSubsetOrdering, Family

\* A set of natural numbers has a least element.
LEMMA LeastNumber ==
    ASSUME NEW T, T \subseteq Nat, T # {}
    PROVE  \E n \in T : \A m \in T : n <= m
  <1> DEFINE F == {A \in SUBSET Nat : \E n \in T : A = 0 .. n}
  <1>1. F \subseteq SUBSET Nat
    OBVIOUS
  <1>2. \A A \in F : IsFiniteSet(A)
    <2> SUFFICES ASSUME NEW A \in F
                 PROVE  IsFiniteSet(A)
      OBVIOUS
    <2>1. PICK n \in T : A = 0 .. n
      OBVIOUS
    <2>2. 0 \in Int /\ n \in Int
      OBVIOUS
    <2> QED
      BY <2>1, <2>2, FS_Interval
  <1>3. \A n \in T : 0 .. n \in F
    OBVIOUS
  <1>4. \A A \in F : \E n \in T : A = 0 .. n
    OBVIOUS
  <1> HIDE DEF F
  <1>5. Family(F, Nat)
    BY <1>1, <1>2, <1>3 DEF Family
  <1>6. PICK A \in F : \A B \in F : B \subseteq A => B = A
    BY <1>5, SmallestSet
  <1>7. PICK n \in T : A = 0 .. n
    BY <1>4
  <1>8. ASSUME NEW m \in T, ~(n <= m)
        PROVE  FALSE
    <2>1. 0 .. m \subseteq A /\ n \in A /\ n \notin 0 .. m
      BY <1>7, <1>8
    <2> QED
      BY <1>3, <1>6, <2>1
  <1> QED
    BY <1>8

\* Induction over the natural numbers.
LEMMA NatInduces ==
    ASSUME NEW P, 0 \in P, \A n \in Nat : n \in P => n + 1 \in P
    PROVE  Nat \subseteq P
  <1> SUFFICES ASSUME ~(Nat \subseteq P)
               PROVE  FALSE
    OBVIOUS
  <1>1. PICK T : T = Nat \ P
    OBVIOUS
  <1>2. PICK n \in T : \A m \in T : n <= m
    BY <1>1, LeastNumber
  <1>3. n \in Nat /\ n # 0 /\ n \notin P
    BY <1>1, <1>2
  <1>4. n - 1 \in Nat /\ n - 1 \notin T /\ (n - 1) + 1 = n
    BY <1>2, <1>3
  <1> QED
    BY <1>1, <1>3, <1>4

\* Induction over a finite set, one element at a time.
LEMMA FiniteInduces ==
    ASSUME NEW S, IsFiniteSet(S), NEW F, {} \in F,
           \A A \in SUBSET S : A \in F => \A x \in S \ A : A \cup {x} \in F
    PROVE  S \in F
  <1>1. PICK G : G = {B \in SUBSET S : S \ B \in F}
    OBVIOUS
  <1>2. S \in G
    <2>1. S \ S = {}
      OBVIOUS
    <2> QED
      BY <1>1, <2>1
  <1>3. Family(G, S)
    BY <1>1, <1>2, FS_Subset DEF Family
  <1>4. PICK B \in G : \A C \in G : C \subseteq B => C = B
    BY <1>3, SmallestSet
  <1>5. CASE B = {}
    <2>1. S \ B = S
      BY <1>5
    <2> QED
      BY <1>1, <2>1
  <1>6. CASE B # {}
    <2>1. PICK x \in B : TRUE
      BY <1>6
    <2>2. S \ B \in F /\ x \in S \ (S \ B) /\ S \ B \in SUBSET S
      BY <1>1, <2>1
    <2>3. (S \ B) \cup {x} \in F
      BY <2>2
    <2>4. (S \ B) \cup {x} = S \ (B \ {x})
      BY <1>1, <2>1
    <2>5. B \ {x} \in G
      BY <1>1, <2>3, <2>4
    <2>6. B \ {x} = B
      BY <1>4, <2>5
    <2> QED
      BY <2>1, <2>6
  <1> QED
    BY <1>5, <1>6

(***************************************************************************)
(* Sums.  h is the function that MapThenSumSet computes for g over S.      *)
(***************************************************************************)
Some(s) == CHOOSE x \in s : TRUE

Sums(h, g, S) ==
    h = [s \in SUBSET S |-> IF s = {} THEN 0 ELSE g[Some(s)] + h[s \ {Some(s)}]]

SumOver(g, S) == (CHOOSE h : Sums(h, g, S))[S]

LEMMA SumsExist ==
    ASSUME NEW S, IsFiniteSet(S), NEW g \in [S -> Nat]
    PROVE  \E h \in [SUBSET S -> Nat] : Sums(h, g, S)
  <1> DEFINE Body(h, s) == IF s = {} THEN 0 ELSE g[Some(s)] + h[s \ {Some(s)}]
             Upto(h, k) == \A s \in SUBSET S : Cardinality(s) <= k => h[s] = Body(h, s)
             P == {k \in Nat : \E h \in [SUBSET S -> Nat] : Upto(h, k)}
  <1>1. \A s \in SUBSET S : IsFiniteSet(s) /\ Cardinality(s) \in Nat
    BY FS_Subset, FS_CardinalityType
  <1>2. \A s \in SUBSET S : s # {} =>
            /\ Some(s) \in s /\ g[Some(s)] \in Nat /\ s \ {Some(s)} \in SUBSET S
            /\ Cardinality(s \ {Some(s)}) = Cardinality(s) - 1
    <2> SUFFICES ASSUME NEW s \in SUBSET S, s # {}
                 PROVE  /\ Some(s) \in s /\ g[Some(s)] \in Nat /\ s \ {Some(s)} \in SUBSET S
                        /\ Cardinality(s \ {Some(s)}) = Cardinality(s) - 1
      OBVIOUS
    <2>1. Some(s) \in s
      BY DEF Some
    <2> QED
      BY <1>1, <2>1, FS_RemoveElement
  <1>3. 0 \in P
    <2>1. \A s \in SUBSET S : Cardinality(s) <= 0 => s = {}
      BY <1>1, FS_EmptySet
    <2>2. PICK h : h = [s \in SUBSET S |-> 0]
      OBVIOUS
    <2>3. h \in [SUBSET S -> Nat] /\ Upto(h, 0)
      BY <2>1, <2>2
    <2> QED
      BY <2>3
  <1>4. ASSUME NEW k \in Nat, k \in P
        PROVE  k + 1 \in P
    <2>1. PICK h \in [SUBSET S -> Nat] : Upto(h, k)
      BY <1>4
    <2>2. ASSUME NEW s \in SUBSET S
          PROVE  Body(h, s) \in Nat
      <3>1. CASE s = {}
        BY <3>1
      <3>2. CASE s # {}
        <4>1. h[s \ {Some(s)}] \in Nat /\ g[Some(s)] \in Nat
          BY <1>2, <3>2
        <4> QED
          BY <3>2, <4>1
      <3> QED
        BY <3>1, <3>2
    <2>3. PICK f : f = [s \in SUBSET S |-> IF Cardinality(s) <= k THEN h[s] ELSE Body(h, s)]
      OBVIOUS
    <2>4. f \in [SUBSET S -> Nat]
      BY <2>2, <2>3
    <2>5. ASSUME NEW s \in SUBSET S, Cardinality(s) <= k + 1
          PROVE  f[s] = Body(f, s)
      <3>1. f[s] = Body(h, s)
        BY <2>1, <2>3
      <3>2. CASE s = {}
        BY <3>1, <3>2
      <3>3. CASE s # {}
        <4>1. Cardinality(s \ {Some(s)}) <= k /\ s \ {Some(s)} \in SUBSET S
          BY <1>1, <1>2, <2>5, <3>3
        <4>2. f[s \ {Some(s)}] = h[s \ {Some(s)}]
          BY <2>3, <4>1
        <4> QED
          BY <3>1, <3>3, <4>2
      <3> QED
        BY <3>2, <3>3
    <2>6. Upto(f, k + 1)
      BY <2>5
    <2> HIDE DEF Upto
    <2> QED
      BY <2>4, <2>6
  <1>5. PICK Q : Q = P
    OBVIOUS
  <1>6. Nat \subseteq Q
    <2> HIDE DEF P
    <2>1. 0 \in Q
      BY <1>3, <1>5
    <2>2. \A n \in Nat : n \in Q => n + 1 \in Q
      BY <1>4, <1>5
    <2> QED
      BY <2>1, <2>2, NatInduces
  <1>7. Cardinality(S) \in P
    BY <1>5, <1>6, FS_CardinalityType
  <1>8. PICK h \in [SUBSET S -> Nat] : Upto(h, Cardinality(S))
    BY <1>7
  <1>9. \A s \in SUBSET S : h[s] = Body(h, s)
    BY <1>8, FS_Subset
  <1>10. h = [s \in SUBSET S |-> Body(h, s)]
    BY <1>9
  <1> QED
    BY <1>10 DEF Sums

\* What such a function says of one set.
LEMMA SumsBody ==
    ASSUME NEW S, NEW g, NEW h, Sums(h, g, S), NEW s \in SUBSET S
    PROVE  /\ s = {} => h[s] = 0
           /\ s # {} => Some(s) \in s /\ h[s] = g[Some(s)] + h[s \ {Some(s)}]
  BY DEF Sums, Some

\* It does not matter which element is taken first.
AnyFirst(h, g, S) == \A A \in SUBSET S : \A x \in A : h[A] = g[x] + h[A \ {x}]

LEMMA SumsStep ==
    ASSUME NEW S, IsFiniteSet(S), NEW g \in [S -> Nat],
           NEW h \in [SUBSET S -> Nat], Sums(h, g, S)
    PROVE  AnyFirst(h, g, S)
  <1>1. PICK F : F = {A \in SUBSET S : \E x \in A : h[A] # g[x] + h[A \ {x}]}
    OBVIOUS
  <1> SUFFICES ASSUME F # {}
               PROVE  FALSE
    BY <1>1 DEF AnyFirst
  <1>2. Family(F, S)
    BY <1>1, FS_Subset DEF Family
  <1>3. PICK A \in F : \A B \in F : B \subseteq A => B = A
    BY <1>2, SmallestSet
  <1>4. PICK x \in A : h[A] # g[x] + h[A \ {x}]
    BY <1>1, <1>3
  <1>5. PICK c : c = Some(A)
    OBVIOUS
  <1>6. A \in SUBSET S /\ c \in A /\ h[A] = g[c] + h[A \ {c}]
    BY <1>1, <1>3, <1>4, <1>5, SumsBody
  <1>7. c # x /\ c \in S /\ x \in S
    BY <1>4, <1>6
  <1>8. A \ {c} \in SUBSET S /\ A \ {x} \in SUBSET S /\ A \ {c} \notin F /\ A \ {x} \notin F
    BY <1>3, <1>4, <1>6
  <1>9. h[A \ {c}] = g[x] + h[(A \ {c}) \ {x}]
    BY <1>1, <1>4, <1>7, <1>8
  <1>10. h[A \ {x}] = g[c] + h[(A \ {x}) \ {c}]
    BY <1>1, <1>6, <1>7, <1>8
  <1>11. (A \ {x}) \ {c} = (A \ {c}) \ {x} /\ (A \ {c}) \ {x} \in SUBSET S
    BY <1>6
  <1>12. g[c] \in Nat /\ g[x] \in Nat /\ h[(A \ {c}) \ {x}] \in Nat
    BY <1>7, <1>11
  <1>13. h[(A \ {x}) \ {c}] = h[(A \ {c}) \ {x}]
    BY <1>11
  <1>14. h[A] = g[c] + (g[x] + h[(A \ {c}) \ {x}])
    BY <1>6, <1>9
  <1>15. h[A \ {x}] = g[c] + h[(A \ {c}) \ {x}]
    BY <1>10, <1>13
  <1>16. PICK a, b, d : a = g[c] /\ b = g[x] /\ d = h[(A \ {c}) \ {x}]
    OBVIOUS
  <1>17. a + (b + d) = b + (a + d)
    BY <1>12, <1>16
  <1> QED
    BY <1>4, <1>14, <1>15, <1>16, <1>17

\* Two of them agree where their summands do.
LEMMA SumsAgree ==
    ASSUME NEW S, NEW T, NEW g, NEW f, NEW h, NEW k, Sums(h, g, S), Sums(k, f, T),
           NEW A, A \subseteq S, A \subseteq T, IsFiniteSet(A), \A x \in A : g[x] = f[x]
    PROVE  h[A] = k[A]
  <1>1. PICK F : F = {B \in SUBSET A : h[B] # k[B]}
    OBVIOUS
  <1> SUFFICES ASSUME F # {}
               PROVE  FALSE
    BY <1>1
  <1>2. Family(F, A)
    BY <1>1, FS_Subset DEF Family
  <1>3. PICK B \in F : \A C \in F : C \subseteq B => C = B
    BY <1>2, SmallestSet
  <1>4. B \in SUBSET S /\ B \in SUBSET T /\ B \subseteq A /\ h[B] # k[B]
    BY <1>1, <1>3
  <1>5. B # {}
    BY <1>4, SumsBody
  <1>6. PICK c : c = Some(B)
    OBVIOUS
  <1>7. c \in B /\ h[B] = g[c] + h[B \ {c}] /\ k[B] = f[c] + k[B \ {c}]
    BY <1>4, <1>5, <1>6, SumsBody
  <1>8. h[B \ {c}] = k[B \ {c}]
    BY <1>1, <1>3, <1>4, <1>7
  <1> QED
    BY <1>4, <1>7, <1>8

\* The sum is the value of any of them.
LEMMA SumOverValue ==
    ASSUME NEW S, IsFiniteSet(S), NEW g \in [S -> Nat]
    PROVE  \E h \in [SUBSET S -> Nat] : Sums(h, g, S) /\ SumOver(g, S) = h[S]
  <1>1. PICK h \in [SUBSET S -> Nat] : Sums(h, g, S)
    BY SumsExist
  <1>2. PICK k : k = CHOOSE f : Sums(f, g, S)
    OBVIOUS
  <1>3. Sums(k, g, S)
    BY <1>1, <1>2
  <1>4. h[S] = k[S]
    <2>1. S \subseteq S /\ \A x \in S : g[x] = g[x]
      OBVIOUS
    <2> QED
      BY <1>1, <1>3, <2>1, SumsAgree
  <1> QED
    BY <1>1, <1>2, <1>4 DEF SumOver

\* Any such function gives the sum.
LEMMA SumOverUnique ==
    ASSUME NEW S, IsFiniteSet(S), NEW g \in [S -> Nat], NEW h, Sums(h, g, S)
    PROVE  h[S] = SumOver(g, S)
  <1>1. PICK k \in [SUBSET S -> Nat] : Sums(k, g, S) /\ SumOver(g, S) = k[S]
    BY SumOverValue
  <1>2. S \subseteq S /\ \A x \in S : g[x] = g[x]
    OBVIOUS
  <1> QED
    BY <1>1, <1>2, SumsAgree

\* Among finitely many things with a rank and an age, the oldest of the best.
Foremost(f, g, x, S) == \A y \in S : f[x] > f[y] \/ (f[x] = f[y] /\ g[x] <= g[y])

LEMMA FiniteBest ==
    ASSUME NEW S, IsFiniteSet(S), S # {}, NEW f \in [S -> Nat], NEW g \in [S -> Nat]
    PROVE  \E x \in S : Foremost(f, g, x, S)
  <1>1. PICK F : F = {A \in SUBSET S : A = {} \/ \E x \in A : Foremost(f, g, x, A)}
    OBVIOUS
  <1>2. {} \in F
    BY <1>1
  <1>3. ASSUME NEW A \in SUBSET S, A \in F, NEW z \in S \ A
        PROVE  A \cup {z} \in F
    <2>1. CASE A = {}
      <3>1. A \cup {z} = {z} /\ f[z] \in Nat /\ g[z] \in Nat
        BY <1>3, <2>1
      <3>2. Foremost(f, g, z, {z})
        BY <3>1 DEF Foremost
      <3> QED
        BY <1>1, <1>3, <3>1, <3>2
    <2>2. CASE A # {}
      <3>1. PICK x \in A : Foremost(f, g, x, A)
        BY <1>1, <1>3, <2>2
      <3>2. \A y \in A \cup {z} : f[y] \in Nat /\ g[y] \in Nat
        BY <1>3
      <3>3. CASE f[x] > f[z] \/ (f[x] = f[z] /\ g[x] <= g[z])
        <4>1. Foremost(f, g, x, A \cup {z})
          BY <3>1, <3>3 DEF Foremost
        <4> QED
          BY <1>1, <1>3, <3>1, <4>1
      <3>4. CASE ~(f[x] > f[z] \/ (f[x] = f[z] /\ g[x] <= g[z]))
        <4>1. ASSUME NEW y \in A \cup {z}
              PROVE  f[z] > f[y] \/ (f[z] = f[y] /\ g[z] <= g[y])
          <5>1. CASE y = z
            BY <3>2, <5>1
          <5>2. CASE y \in A
            BY <3>1, <3>2, <3>4, <5>2 DEF Foremost
          <5> QED
            BY <5>1, <5>2
        <4>2. Foremost(f, g, z, A \cup {z})
          BY <4>1 DEF Foremost
        <4> QED
          BY <1>1, <1>3, <4>2
      <3> QED
        BY <3>3, <3>4
    <2> QED
      BY <2>1, <2>2
  <1>4. S \in F
    BY <1>2, <1>3, FiniteInduces
  <1> QED
    BY <1>1, <1>4

(***************************************************************************)
(* The laws of sums that the components' proofs use.                       *)
(***************************************************************************)
LEMMA SumOverNone ==
    ASSUME NEW g
    PROVE  SumOver(g, {}) = 0
  <1>1. PICK h : h = [s \in SUBSET {} |-> IF s = {} THEN 0 ELSE g[Some(s)] + h[s \ {Some(s)}]]
    <2>1. PICK h : h = [s \in SUBSET {} |-> 0]
      OBVIOUS
    <2>2. \A s \in SUBSET {} : s = {}
      OBVIOUS
    <2> QED
      BY <2>1, <2>2
  <1>2. PICK k : k = CHOOSE f : Sums(f, g, {})
    OBVIOUS
  <1>3. Sums(k, g, {})
    BY <1>1, <1>2 DEF Sums
  <1>4. {} \in SUBSET {}
    OBVIOUS
  <1>5. k[{}] = 0
    BY <1>3, <1>4, SumsBody
  <1> QED
    BY <1>2, <1>5 DEF SumOver

LEMMA SumOverNat ==
    ASSUME NEW S, IsFiniteSet(S), NEW g \in [S -> Nat]
    PROVE  SumOver(g, S) \in Nat
  <1>1. PICK h \in [SUBSET S -> Nat] : SumOver(g, S) = h[S]
    BY SumOverValue
  <1>2. S \in SUBSET S
    OBVIOUS
  <1> QED
    BY <1>1, <1>2

\* One element more.
LEMMA SumOverAdd ==
    ASSUME NEW S, IsFiniteSet(S), NEW x, x \notin S,
           NEW g \in [S -> Nat], NEW f \in [S \cup {x} -> Nat],
           \A y \in S : g[y] = f[y]
    PROVE  SumOver(f, S \cup {x}) = SumOver(g, S) + f[x]
  <1>1. PICK T : T = S \cup {x}
    OBVIOUS
  <1>2. /\ IsFiniteSet(T) /\ S \subseteq T /\ x \in T
        /\ T \ {x} = S /\ T \in SUBSET T /\ S \in SUBSET T
    BY <1>1, FS_AddElement
  <1>3. f \in [T -> Nat]
    BY <1>1
  <1>4. PICK h \in [SUBSET S -> Nat] : Sums(h, g, S) /\ SumOver(g, S) = h[S]
    BY SumOverValue
  <1>5. PICK k \in [SUBSET T -> Nat] : Sums(k, f, T) /\ SumOver(f, T) = k[T]
    BY <1>2, <1>3, SumOverValue
  <1>6. h[S] = k[S]
    <2>1. S \subseteq S
      OBVIOUS
    <2> QED
      BY <1>2, <1>4, <1>5, <2>1, SumsAgree
  <1>7. AnyFirst(k, f, T)
    BY <1>2, <1>3, <1>5, SumsStep
  <1>8. k[T] = f[x] + k[S]
    BY <1>2, <1>7 DEF AnyFirst
  <1>9. k[S] \in Nat /\ f[x] \in Nat
    BY <1>2, <1>3
  <1>10. SumOver(f, T) = SumOver(g, S) + f[x]
    BY <1>4, <1>5, <1>6, <1>8, <1>9
  <1> QED
    BY <1>1, <1>10

\* One summand changed.
LEMMA SumOverUpdate ==
    ASSUME NEW S, IsFiniteSet(S), NEW x \in S,
           NEW g \in [S -> Nat], NEW f \in [S -> Nat],
           \A y \in S \ {x} : g[y] = f[y]
    PROVE  SumOver(f, S) = (SumOver(g, S) - g[x]) + f[x]
  <1>1. PICK R : R = S \ {x}
    OBVIOUS
  <1>2. IsFiniteSet(R) /\ x \notin R /\ R \cup {x} = S
    BY <1>1, FS_RemoveElement
  <1>3. PICK e \in [R -> Nat] : \A y \in R : e[y] = g[y] /\ e[y] = f[y]
    <2>1. [y \in R |-> g[y]] \in [R -> Nat]
      BY <1>1
    <2> QED
      BY <1>1, <2>1
  <1>4. SumOver(g, S) = SumOver(e, R) + g[x]
    <2>1. g \in [R \cup {x} -> Nat] /\ \A y \in R : e[y] = g[y]
      BY <1>2, <1>3
    <2>2. SumOver(g, R \cup {x}) = SumOver(e, R) + g[x]
      BY <1>2, <1>3, <2>1, SumOverAdd
    <2> QED
      BY <1>2, <2>2
  <1>5. SumOver(f, S) = SumOver(e, R) + f[x]
    <2>1. f \in [R \cup {x} -> Nat] /\ \A y \in R : e[y] = f[y]
      BY <1>2, <1>3
    <2>2. SumOver(f, R \cup {x}) = SumOver(e, R) + f[x]
      BY <1>2, <1>3, <2>1, SumOverAdd
    <2> QED
      BY <1>2, <2>2
  <1>6. SumOver(e, R) \in Nat /\ g[x] \in Nat /\ f[x] \in Nat
    BY <1>2, <1>3, SumOverNat
  <1> QED
    BY <1>4, <1>5, <1>6

=============================================================================
