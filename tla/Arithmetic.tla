------------------------------- MODULE Arithmetic ------------------------------
(* What the proofs need to know of numbers: induction, folds and sums over finite  *)
(* sets, powers of two and remainders. The provers do not instantiate a theorem    *)
(* that takes a predicate; induction is therefore stated for sets, and a predicate *)
(* becomes the set of what satisfies it.                                           *)
EXTENDS Integers, FiniteSetsExt, Functions, FiniteSetTheorems, WellFoundedInduction, TLAPS

--------------------------------------------------------------------------------
(* Induction                                                                       *)

\* Every set of naturals with an element has a least one.
LEMMA LeastNatural ==
  ASSUME NEW T, T \subseteq Nat, T # {}
  PROVE  \E n \in T : \A m \in T : n <= m
<1> DEFINE R == {mn \in Nat \X Nat : mn[1] < mn[2]}
<1>1. IsWellFoundedOn(R, Nat)
  BY NatLessThanWellFounded DEF OpToRel
<1>2. \A m, n \in Nat : <<m, n>> \in R <=> m < n
  OBVIOUS
<1> HIDE DEF R
<1>3. PICK n \in T : \A m \in T : ~ (<<m, n>> \in R)
  BY <1>1, WFMin
<1>4. ASSUME NEW m \in T PROVE n <= m
  <2>1. m \in Nat /\ n \in Nat
    OBVIOUS
  <2>2. ~ (m < n)
    BY <1>2, <1>3, <2>1
  <2>3. QED
    BY <2>1, <2>2
<1>5. QED
  BY <1>4

\* What contains 0 and with a natural the next one contains them all.
LEMMA NatSetInduction ==
  ASSUME NEW T, T \subseteq Nat, 0 \in T, \A n \in T : n + 1 \in T
  PROVE  \A n \in Nat : n \in T
<1> SUFFICES ASSUME Nat \ T # {} PROVE FALSE
  OBVIOUS
<1>1. PICK n \in Nat \ T : \A m \in Nat \ T : n <= m
  <2>1. Nat \ T \subseteq Nat
    OBVIOUS
  <2>2. QED
    BY <2>1, LeastNatural
<1>2. n - 1 \in Nat
  BY <1>1
<1>3. n - 1 \in T
  BY <1>1, <1>2
<1>4. QED
  BY <1>1, <1>3

--------------------------------------------------------------------------------
(* Folds over finite sets: the community modules fold with one chosen element at a *)
(* time; here h[<<x, a>>] folds x into a.                                          *)

Chosen(s) == CHOOSE x \in s : TRUE

LEMMA ChosenMember == \A s : s # {} => Chosen(s) \in s
BY DEF Chosen

\* Taking an element out of a set leaves one element less.
LEMMA SizeWithout ==
  ASSUME NEW S, IsFiniteSet(S), NEW s \in SUBSET S
  PROVE  /\ Cardinality(s) \in Nat
         /\ Cardinality(s) = 0 <=> s = {}
         /\ \A x \in s : s \ {x} \in SUBSET S /\ Cardinality(s \ {x}) = Cardinality(s) - 1
<1>1. IsFiniteSet(s)
  BY FS_Subset
<1>2. QED
  BY <1>1, FS_CardinalityType, FS_EmptySet, FS_RemoveElement

\* What contains the empty set, and each set whose chosen element can be taken out
\* without leaving it, contains every finite set.
LEMMA ChosenInduction ==
  ASSUME NEW S, IsFiniteSet(S), NEW P, {} \in P,
         \A T \in (SUBSET S) \ {{}} : T \ {Chosen(T)} \in P => T \in P
  PROVE  S \in P
<1> DEFINE Sizes == {n \in Nat : \A T \in SUBSET S : Cardinality(T) = n => T \in P}
<1>1. 0 \in Sizes
  BY SizeWithout
<1>2. ASSUME NEW n \in Sizes PROVE n + 1 \in Sizes
  <2>1. ASSUME NEW T \in SUBSET S, Cardinality(T) = n + 1 PROVE T \in P
    <3>1. T # {}
      BY <2>1, SizeWithout
    <3>2. T \ {Chosen(T)} \in P
      BY <2>1, <3>1, ChosenMember, SizeWithout
    <3>3. QED
      BY <3>1, <3>2
  <2>2. QED
    BY <2>1
<1>3. \A n \in Nat : n \in Sizes
  <2>1. Sizes \subseteq Nat
    OBVIOUS
  <2> HIDE DEF Sizes
  <2>2. QED
    BY <1>1, <1>2, <2>1, NatSetInduction
<1>4. QED
  BY <1>3, SizeWithout

\* What contains the empty set, and with a set each one that has one element more,
\* contains every finite set.
LEMMA FiniteSetInduction ==
  ASSUME NEW S, IsFiniteSet(S), NEW P, {} \in P,
         \A T \in SUBSET S : \A x \in S \ T : T \in P => T \union {x} \in P
  PROVE  S \in P
<1>1. ASSUME NEW T \in (SUBSET S) \ {{}}, T \ {Chosen(T)} \in P PROVE T \in P
  <2>1. Chosen(T) \in T /\ (T \ {Chosen(T)}) \union {Chosen(T)} = T
    BY ChosenMember
  <2>2. QED
    BY <1>1, <2>1
<1>2. QED
  BY <1>1, ChosenInduction

\* F folds the subsets of S with h, from b on; values outside A are left open.
IsFold(F, S, A, b, h) ==
  /\ b \in A /\ h \in [S \X A -> A]
  /\ F[{}] = b
  /\ \A s \in (SUBSET S) \ {{}} :
       F[s \ {Chosen(s)}] \in A => F[s] = h[<<Chosen(s), F[s \ {Chosen(s)}]>>]

\* The order of two elements makes no difference to h.
Commutes(S, A, h) ==
  \A x, y \in S : \A a \in A : x # y => h[<<x, h[<<y, a>>]>>] = h[<<y, h[<<x, a>>]>>]

\* The function that a fold is defined by exists.
LEMMA FoldExists ==
  ASSUME NEW S, IsFiniteSet(S), NEW A, NEW b \in A, NEW h \in [S \X A -> A]
  PROVE  \E G \in [SUBSET S -> A] : IsFold(G, S, A, b, h)
<1> DEFINE Step(G, s) == h[<<Chosen(s), G[s \ {Chosen(s)}]>>]
           Levels == {n \in Nat : \E G \in [SUBSET S -> A] :
                        /\ G[{}] = b
                        /\ \A s \in (SUBSET S) \ {{}} : Cardinality(s) <= n => G[s] = Step(G, s)}
<1>1. 0 \in Levels
  <2> DEFINE G0 == [s \in SUBSET S |-> b]
  <2>1. G0 \in [SUBSET S -> A] /\ G0[{}] = b
    OBVIOUS
  <2>2. \A s \in (SUBSET S) \ {{}} : ~ (Cardinality(s) <= 0)
    BY SizeWithout
  <2> HIDE DEF G0
  <2>3. QED
    BY <2>1, <2>2
<1>2. ASSUME NEW n \in Levels PROVE n + 1 \in Levels
  <2>1. n \in Nat
    OBVIOUS
  <2>2. PICK G \in [SUBSET S -> A] :
          /\ G[{}] = b
          /\ \A s \in (SUBSET S) \ {{}} : Cardinality(s) <= n => G[s] = Step(G, s)
    BY <1>2
  <2> DEFINE H == [s \in SUBSET S |-> IF Cardinality(s) = n + 1 THEN Step(G, s) ELSE G[s]]
  <2>3. \A s \in (SUBSET S) \ {{}} : Chosen(s) \in s /\ s \ {Chosen(s)} \in SUBSET S
    BY ChosenMember
  <2>4. \A s \in (SUBSET S) \ {{}} : Step(G, s) \in A
    BY <2>3
  <2>5. H[{}] = b
    BY <2>1, <2>2, SizeWithout
  <2>6. H \in [SUBSET S -> A]
    <3>1. ASSUME NEW s \in SUBSET S, Cardinality(s) = n + 1 PROVE s # {}
      BY <2>1, <3>1, SizeWithout
    <3>2. QED
      BY <2>4, <3>1
  <2>7. ASSUME NEW s \in (SUBSET S) \ {{}}, Cardinality(s) <= n + 1
        PROVE  H[s] = Step(H, s)
    <3> DEFINE t == s \ {Chosen(s)}
    <3>1. t \in SUBSET S /\ Cardinality(t) = Cardinality(s) - 1 /\ Cardinality(s) \in Nat
      BY <2>3, SizeWithout
    <3>2. Cardinality(t) # n + 1
      BY <2>1, <2>7, <3>1
    <3>3. H[t] = G[t]
      BY <3>1, <3>2
    <3>4. H[s] = Step(G, s)
      BY <2>1, <2>2, <2>7, <3>1
    <3>5. QED
      BY <3>3, <3>4
  <2> HIDE DEF H, Step
  <2>8. QED
    BY <2>1, <2>5, <2>6, <2>7
<1>3. \A n \in Nat : n \in Levels
  <2>1. Levels \subseteq Nat
    OBVIOUS
  <2> HIDE DEF Levels
  <2>2. QED
    BY <1>1, <1>2, <2>1, NatSetInduction
<1>4. Cardinality(S) \in Levels
  BY <1>3, FS_CardinalityType
<1>5. \A s \in SUBSET S : Cardinality(s) <= Cardinality(S)
  BY FS_Subset
<1>6. QED
  BY <1>4, <1>5 DEF IsFold

\* Two folds of the same elements agree, whatever sets they are defined on.
LEMMA FoldUnique ==
  ASSUME NEW S, IsFiniteSet(S), NEW A, NEW b, NEW h,
         NEW F, IsFold(F, S, A, b, h), NEW G, IsFold(G, S, A, b, h)
  PROVE  \A s \in SUBSET S : F[s] = G[s] /\ F[s] \in A
<1> DEFINE Sizes == {n \in Nat : \A s \in SUBSET S : Cardinality(s) = n =>
                                   F[s] = G[s] /\ F[s] \in A}
<1>1. 0 \in Sizes
  <2>1. ASSUME NEW s \in SUBSET S, Cardinality(s) = 0 PROVE F[s] = G[s] /\ F[s] \in A
    <3>1. s = {}
      BY <2>1, SizeWithout
    <3>2. F[{}] = b /\ G[{}] = b /\ b \in A
      BY DEF IsFold
    <3>3. QED
      BY <3>1, <3>2
  <2>2. QED
    BY <2>1
<1>2. ASSUME NEW n \in Sizes PROVE n + 1 \in Sizes
  <2>1. ASSUME NEW s \in SUBSET S, Cardinality(s) = n + 1 PROVE F[s] = G[s] /\ F[s] \in A
    <3>1. s # {} /\ Cardinality(s) \in Nat
      BY <2>1, SizeWithout
    <3>2. s \ {Chosen(s)} \in SUBSET S /\ Cardinality(s \ {Chosen(s)}) = n
      BY <2>1, <3>1, SizeWithout, ChosenMember
    <3>3. F[s \ {Chosen(s)}] = G[s \ {Chosen(s)}] /\ F[s \ {Chosen(s)}] \in A
      BY <3>2
    <3>4. Chosen(s) \in S
      BY <3>1, ChosenMember
    <3>5. QED
      BY <3>1, <3>3, <3>4 DEF IsFold
  <2>2. QED
    BY <2>1
<1>3. \A n \in Nat : n \in Sizes
  <2>1. Sizes \subseteq Nat
    OBVIOUS
  <2> HIDE DEF Sizes
  <2>2. QED
    BY <1>1, <1>2, <2>1, NatSetInduction
<1>4. QED
  BY <1>3, SizeWithout

\* Where the order of two elements makes no difference, no order does: any element
\* may be the one that is folded in last.
LEMMA FoldInAnyOrder ==
  ASSUME NEW S, IsFiniteSet(S), NEW A, NEW b, NEW h,
         Commutes(S, A, h), NEW F, IsFold(F, S, A, b, h)
  PROVE  F[S] \in A /\ \A x \in S : F[S] = h[<<x, F[S \ {x}]>>]
<1>0. \A s \in SUBSET S : F[s] \in A
  BY FoldUnique
<1> DEFINE Good(s) == F[s] \in A /\ \A x \in s : F[s] = h[<<x, F[s \ {x}]>>]
           Sizes == {n \in Nat : \A s \in SUBSET S : Cardinality(s) = n => Good(s)}
<1>1. 0 \in Sizes
  BY <1>0, SizeWithout
<1>2. ASSUME NEW n \in Sizes PROVE n + 1 \in Sizes
  <2>1. ASSUME NEW s \in SUBSET S, Cardinality(s) = n + 1 PROVE Good(s)
    <3> DEFINE c == Chosen(s)
    <3>1. s # {}
      BY <2>1, SizeWithout
    <3>2. c \in s /\ c \in S
      BY <3>1, ChosenMember
    <3>3. \A x \in s : s \ {x} \in SUBSET S /\ Cardinality(s \ {x}) = n
      BY <2>1, SizeWithout
    <3>4. \A x \in s : Good(s \ {x})
      BY <3>3
    <3>5. F[s] = h[<<c, F[s \ {c}]>>]
      BY <1>0, <3>1, <3>2, <3>3 DEF IsFold
    <3> HIDE DEF c
    <3>6. F[s] \in A
      BY <1>0
    <3>7. ASSUME NEW x \in s, x # c PROVE F[s] = h[<<x, F[s \ {x}]>>]
      <4> DEFINE t == (s \ {c}) \ {x}
      <4>1. t = (s \ {x}) \ {c} /\ x \in s \ {c} /\ c \in s \ {x}
        BY <3>2, <3>7
      <4>2. F[s \ {c}] = h[<<x, F[t]>>] /\ F[s \ {x}] = h[<<c, F[t]>>]
        <5>1. Good(s \ {c}) /\ Good(s \ {x})
          BY <3>2, <3>4
        <5>2. F[s \ {c}] = h[<<x, F[t]>>]
          BY <4>1, <5>1
        <5>3. F[s \ {x}] = h[<<c, F[(s \ {x}) \ {c}]>>]
          BY <4>1, <5>1
        <5>4. QED
          BY <4>1, <5>2, <5>3
      <4>3. F[t] \in A
        BY <1>0
      <4>4. h[<<c, h[<<x, F[t]>>]>>] = h[<<x, h[<<c, F[t]>>]>>]
        <5> HIDE DEF t
        <5>1. x \in S /\ c \in S
          BY <3>2, <3>7
        <5>2. \A a \in A : h[<<c, h[<<x, a>>]>>] = h[<<x, h[<<c, a>>]>>]
          BY <3>7, <5>1 DEF Commutes
        <5>3. QED
          BY <4>3, <5>2
      <4>5. QED
        BY <3>5, <4>2, <4>4
    <3>8. QED
      BY <3>5, <3>6, <3>7
  <2>2. QED
    BY <2>1
<1>3. \A n \in Nat : n \in Sizes
  <2>1. Sizes \subseteq Nat
    OBVIOUS
  <2> HIDE DEF Sizes
  <2>2. QED
    BY <1>1, <1>2, <2>1, NatSetInduction
<1>4. Good(S)
  <2>1. S \in SUBSET S /\ Cardinality(S) \in Nat
    BY FS_CardinalityType
  <2>2. Cardinality(S) \in Sizes
    BY <1>3, <2>1
  <2>3. QED
    BY <2>1, <2>2
<1>5. QED
  BY <1>4

--------------------------------------------------------------------------------
(* Sums over finite sets                                                           *)

Adder(f, S) == [xa \in S \X Int |-> f[xa[1]] + xa[2]]

\* The function that SumFunctionOnSet(f, S) applies to S.
Partial(f, S) ==
  CHOOSE g : g = [s \in SUBSET S |-> IF s = {} THEN 0 ELSE f[Chosen(s)] + g[s \ {Chosen(s)}]]

LEMMA SumIsPartial == \A f, S : SumFunctionOnSet(f, S) = Partial(f, S)[S]
BY DEF SumFunctionOnSet, FoldFunctionOnSet, MapThenFoldSet, Partial, Chosen

LEMMA AdderFolds ==
  ASSUME NEW S, IsFiniteSet(S), NEW f, \A x \in S : f[x] \in Int
  PROVE  /\ Commutes(S, Int, Adder(f, S))
         /\ IsFold(Partial(f, S), S, Int, 0, Adder(f, S))
<1> DEFINE h == Adder(f, S)
<1>1. h \in [S \X Int -> Int]
  BY DEF Adder
<1>2. \A x \in S : \A a \in Int : h[<<x, a>>] = f[x] + a
  BY DEF Adder
<1>3. Commutes(S, Int, h)
  BY <1>2 DEF Commutes
<1> HIDE DEF h
<1>4. PICK G \in [SUBSET S -> Int] : IsFold(G, S, Int, 0, h)
  <2> DEFINE A == Int
  <2>1. 0 \in A /\ h \in [S \X A -> A]
    BY <1>1
  <2> HIDE DEF A
  <2>2. \E G \in [SUBSET S -> A] : IsFold(G, S, A, 0, h)
    BY <2>1, FoldExists
  <2>3. QED
    BY <2>2 DEF A
<1>5. ASSUME NEW s \in SUBSET S, s # {}
      PROVE  G[s] = f[Chosen(s)] + G[s \ {Chosen(s)}]
  <2>1. Chosen(s) \in S /\ s \ {Chosen(s)} \in SUBSET S
    BY <1>5, ChosenMember
  <2>2. G[s] = h[<<Chosen(s), G[s \ {Chosen(s)}]>>]
    BY <1>4, <1>5, <2>1 DEF IsFold
  <2>3. QED
    BY <1>2, <2>1, <2>2
<1>6. G = [s \in SUBSET S |-> IF s = {} THEN 0 ELSE f[Chosen(s)] + G[s \ {Chosen(s)}]]
  <2>1. G[{}] = 0
    BY <1>4 DEF IsFold
  <2>2. QED
    BY <1>5, <2>1
<1> DEFINE F == Partial(f, S)
<1>7. F = [s \in SUBSET S |-> IF s = {} THEN 0 ELSE f[Chosen(s)] + F[s \ {Chosen(s)}]]
  BY <1>6 DEF Partial
<1> HIDE DEF F
<1>8. IsFold(F, S, Int, 0, h)
  <2>1. F[{}] = 0
    BY <1>7
  <2>2. ASSUME NEW s \in (SUBSET S) \ {{}}, F[s \ {Chosen(s)}] \in Int
        PROVE  F[s] = h[<<Chosen(s), F[s \ {Chosen(s)}]>>]
    <3>1. Chosen(s) \in S
      BY ChosenMember
    <3>2. F[s] = f[Chosen(s)] + F[s \ {Chosen(s)}]
      BY <1>7
    <3>3. QED
      BY <1>2, <2>2, <3>1, <3>2
  <2>3. QED
    <3>1. \A s \in (SUBSET S) \ {{}} : F[s \ {Chosen(s)}] \in Int =>
            F[s] = h[<<Chosen(s), F[s \ {Chosen(s)}]>>]
      BY <2>2
    <3> DEFINE A == Int
    <3>2. 0 \in A /\ h \in [S \X A -> A]
      BY <1>1
    <3>3. \A s \in (SUBSET S) \ {{}} : F[s \ {Chosen(s)}] \in A =>
            F[s] = h[<<Chosen(s), F[s \ {Chosen(s)}]>>]
      BY <3>1
    <3> HIDE DEF A
    <3>4. IsFold(F, S, A, 0, h)
      BY <2>1, <3>2, <3>3 DEF IsFold
    <3>5. QED
      BY <3>4 DEF A
<1>9. QED
  BY <1>3, <1>8 DEF h, F

LEMMA SumEmpty == \A f : SumFunctionOnSet(f, {}) = 0
<1> TAKE f
<1>1. IsFold(Partial(f, {}), {}, Int, 0, Adder(f, {}))
  BY AdderFolds, FS_EmptySet
<1>2. QED
  BY <1>1, SumIsPartial DEF IsFold

\* A sum is any one of its terms and the sum of the others.
LEMMA SumRemove ==
  ASSUME NEW S, IsFiniteSet(S), NEW f, \A x \in S : f[x] \in Int
  PROVE  /\ SumFunctionOnSet(f, S) \in Int
         /\ \A x \in S : SumFunctionOnSet(f, S) = f[x] + SumFunctionOnSet(f, S \ {x})
<1> DEFINE A == Int
           F == Partial(f, S)
           h == Adder(f, S)
<1>1. Commutes(S, A, h) /\ IsFold(F, S, A, 0, h)
  <2>1. IsFiniteSet(S) /\ \A x \in S : f[x] \in Int
    OBVIOUS
  <2>2. QED
    BY <2>1, AdderFolds
<1>2. \A x \in S : \A a \in A : h[<<x, a>>] = f[x] + a
  BY DEF Adder
<1>3. ASSUME NEW T \in SUBSET S PROVE SumFunctionOnSet(f, T) = F[T] /\ F[T] \in A
  <2> DEFINE E == Partial(f, T)
             k == Adder(f, T)
  <2>1. IsFiniteSet(T) /\ \A x \in T : f[x] \in Int
    BY FS_Subset
  <2>2. IsFold(E, T, A, 0, k)
    BY <2>1, AdderFolds
  <2>3. \A x \in T : \A a \in A : h[<<x, a>>] = k[<<x, a>>]
    BY DEF Adder
  <2> HIDE DEF A, F, h, k, E
  <2>4. IsFold(F, T, A, 0, k)
    <3>1. 0 \in A /\ k \in [T \X A -> A] /\ F[{}] = 0
      BY <1>1, <2>2 DEF IsFold
    <3>2. ASSUME NEW t \in (SUBSET T) \ {{}}, F[t \ {Chosen(t)}] \in A
          PROVE  F[t] = k[<<Chosen(t), F[t \ {Chosen(t)}]>>]
      <4>1. t \in (SUBSET S) \ {{}} /\ Chosen(t) \in T
        BY ChosenMember
      <4>2. F[t] = h[<<Chosen(t), F[t \ {Chosen(t)}]>>]
        BY <1>1, <3>2, <4>1 DEF IsFold
      <4>3. QED
        BY <2>3, <3>2, <4>1, <4>2
    <3>3. QED
      BY <3>1, <3>2 DEF IsFold
  <2>5. \A t \in SUBSET T : F[t] = E[t] /\ F[t] \in A
    BY <2>1, <2>2, <2>4, FoldUnique
  <2>6. F[T] = E[T] /\ F[T] \in A
    BY <2>5
  <2>7. QED
    BY <2>6, SumIsPartial DEF E
<1>4. F[S] \in A /\ \A x \in S : F[S] = h[<<x, F[S \ {x}]>>]
  <2> HIDE DEF A, F, h
  <2>1. IsFiniteSet(S) /\ Commutes(S, A, h) /\ IsFold(F, S, A, 0, h)
    BY <1>1
  <2>2. QED
    BY ONLY <2>1, FoldInAnyOrder, SMTT(30)
<1>5. ASSUME NEW x \in S PROVE F[S] = f[x] + F[S \ {x}]
  <2>1. F[S] = h[<<x, F[S \ {x}]>>]
    BY <1>4
  <2>2. F[S \ {x}] \in A
    BY <1>3
  <2>3. QED
    BY <1>2, <2>1, <2>2
<1>6. F[S] \in Int
  BY <1>4
<1> HIDE DEF F, h
<1>7. QED
  BY <1>3, <1>5, <1>6

\* A sum grows by the term of a new element.
LEMMA SumAdd ==
  ASSUME NEW S, IsFiniteSet(S), NEW f, \A y \in S : f[y] \in Int,
         NEW T \in SUBSET S, NEW x \in S \ T
  PROVE  /\ SumFunctionOnSet(f, T) \in Int
         /\ SumFunctionOnSet(f, T \union {x}) = f[x] + SumFunctionOnSet(f, T)
<1> DEFINE U == T \union {x}
<1>1. IsFiniteSet(T) /\ IsFiniteSet(U) /\ \A y \in U : f[y] \in Int
  BY FS_Subset
<1>2. x \in U /\ U \ {x} = T
  OBVIOUS
<1> HIDE DEF U
<1>3. \A y \in U : SumFunctionOnSet(f, U) = f[y] + SumFunctionOnSet(f, U \ {y})
  BY <1>1, SumRemove
<1>4. SumFunctionOnSet(f, T) \in Int
  BY <1>1, SumRemove
<1>5. QED
  BY <1>2, <1>3, <1>4 DEF U

\* A sum depends on the terms alone.
LEMMA SumEqual ==
  ASSUME NEW S, IsFiniteSet(S), NEW f, NEW g, \A x \in S : f[x] \in Int /\ f[x] = g[x]
  PROVE  SumFunctionOnSet(f, S) = SumFunctionOnSet(g, S)
<1> DEFINE P == {T \in SUBSET S : SumFunctionOnSet(f, T) = SumFunctionOnSet(g, T)}
<1>1. {} \in P
  BY SumEmpty
<1>2. ASSUME NEW T \in SUBSET S, NEW x \in S \ T, T \in P PROVE T \union {x} \in P
  <2>1. /\ SumFunctionOnSet(f, T \union {x}) = f[x] + SumFunctionOnSet(f, T)
        /\ SumFunctionOnSet(g, T \union {x}) = g[x] + SumFunctionOnSet(g, T)
    BY SumAdd
  <2>2. QED
    BY <1>2, <2>1
<1> HIDE DEF P
<1>3. S \in P
  BY <1>1, <1>2, FiniteSetInduction
<1>4. QED
  BY <1>3 DEF P

\* A sum of naturals is a natural and not below any of its terms.
LEMMA SumNat ==
  ASSUME NEW S, IsFiniteSet(S), NEW f, \A x \in S : f[x] \in Nat
  PROVE  /\ SumFunctionOnSet(f, S) \in Nat
         /\ \A x \in S : f[x] <= SumFunctionOnSet(f, S)
<1> DEFINE P == {T \in SUBSET S : SumFunctionOnSet(f, T) \in Nat}
<1>1. {} \in P
  BY SumEmpty
<1>2. ASSUME NEW T \in SUBSET S, NEW x \in S \ T, T \in P PROVE T \union {x} \in P
  <2>1. SumFunctionOnSet(f, T \union {x}) = f[x] + SumFunctionOnSet(f, T)
    BY SumAdd
  <2>2. QED
    BY <1>2, <2>1
<1>3. ASSUME NEW T \in SUBSET S PROVE T \in P
  <2>1. IsFiniteSet(T)
    BY FS_Subset
  <2>2. \A U \in SUBSET T : \A x \in T \ U : U \in P => U \union {x} \in P
    BY <1>2
  <2> HIDE DEF P
  <2>3. QED
    BY <1>1, <2>1, <2>2, FiniteSetInduction
<1>4. \A x \in S : SumFunctionOnSet(f, S) = f[x] + SumFunctionOnSet(f, S \ {x})
  BY SumRemove
<1>5. \A x \in S : SumFunctionOnSet(f, S \ {x}) \in Nat
  BY <1>3
<1>6. SumFunctionOnSet(f, S) \in Nat
  BY <1>3
<1>7. ASSUME NEW x \in S PROVE f[x] <= SumFunctionOnSet(f, S)
  <2>1. SumFunctionOnSet(f, S) = f[x] + SumFunctionOnSet(f, S \ {x})
    BY <1>4
  <2>2. SumFunctionOnSet(f, S \ {x}) \in Nat /\ f[x] \in Nat
    BY <1>5
  <2>3. QED
    BY <2>1, <2>2
<1>8. QED
  BY <1>6, <1>7

\* A sum splits along any part of its set.
LEMMA SumSplit ==
  ASSUME NEW S, IsFiniteSet(S), NEW f, \A x \in S : f[x] \in Int, NEW T \in SUBSET S
  PROVE  /\ SumFunctionOnSet(f, T) \in Int /\ SumFunctionOnSet(f, S \ T) \in Int
         /\ SumFunctionOnSet(f, S) = SumFunctionOnSet(f, T) + SumFunctionOnSet(f, S \ T)
<1> DEFINE R == S \ T
           P == {U \in SUBSET R : SumFunctionOnSet(f, T \union U)
                                    = SumFunctionOnSet(f, T) + SumFunctionOnSet(f, U)}
<1>1. \A U \in SUBSET S : SumFunctionOnSet(f, U) \in Int
  <2>1. ASSUME NEW U \in SUBSET S PROVE IsFiniteSet(U) /\ \A x \in U : f[x] \in Int
    BY FS_Subset
  <2>2. QED
    BY <2>1, SumRemove
<1>2. {} \in P
  <2>1. T \union {} = T
    OBVIOUS
  <2>2. QED
    BY <1>1, <2>1, SumEmpty
<1>3. ASSUME NEW U \in SUBSET R, NEW x \in R \ U, U \in P PROVE U \union {x} \in P
  <2>1. SumFunctionOnSet(f, U \union {x}) = f[x] + SumFunctionOnSet(f, U)
    BY SumAdd
  <2>2. SumFunctionOnSet(f, (T \union U) \union {x}) = f[x] + SumFunctionOnSet(f, T \union U)
    <3>1. T \union U \in SUBSET S /\ x \in S \ (T \union U)
      OBVIOUS
    <3> DEFINE V == T \union U
    <3> HIDE DEF V
    <3>2. V \in SUBSET S /\ x \in S \ V
      BY <3>1 DEF V
    <3>3. SumFunctionOnSet(f, V \union {x}) = f[x] + SumFunctionOnSet(f, V)
      BY <3>2, SumAdd
    <3>4. QED
      BY <3>3 DEF V
  <2>3. T \union (U \union {x}) = (T \union U) \union {x}
    OBVIOUS
  <2>4. f[x] \in Int /\ SumFunctionOnSet(f, T) \in Int /\ SumFunctionOnSet(f, U) \in Int
    BY <1>1
  <2>5. SumFunctionOnSet(f, T \union U) = SumFunctionOnSet(f, T) + SumFunctionOnSet(f, U)
    BY <1>3
  <2>6. SumFunctionOnSet(f, T \union (U \union {x}))
          = SumFunctionOnSet(f, T) + SumFunctionOnSet(f, U \union {x})
    <3> DEFINE t == SumFunctionOnSet(f, T)
               u == SumFunctionOnSet(f, U)
    <3>1. f[x] \in Int /\ t \in Int /\ u \in Int
      BY <2>4
    <3>2. SumFunctionOnSet(f, T \union (U \union {x})) = f[x] + (t + u)
      BY <2>2, <2>3, <2>5
    <3>3. SumFunctionOnSet(f, U \union {x}) = f[x] + u
      BY <2>1
    <3> HIDE DEF t, u
    <3>4. f[x] + (t + u) = t + (f[x] + u)
      BY <3>1
    <3>5. QED
      BY <3>2, <3>3, <3>4 DEF t
  <2>7. U \union {x} \in SUBSET R
    OBVIOUS
  <2>8. QED
    BY <2>6, <2>7
<1>4. IsFiniteSet(R)
  BY FS_Subset
<1> HIDE DEF P
<1>5. R \in P
  BY <1>2, <1>3, <1>4, FiniteSetInduction
<1>6. T \union R = S
  OBVIOUS
<1>7. QED
  BY <1>1, <1>5, <1>6 DEF P

\* Fewer naturals have a smaller sum.
LEMMA SumMonotone ==
  ASSUME NEW S, IsFiniteSet(S), NEW f, \A x \in S : f[x] \in Nat, NEW T \in SUBSET S
  PROVE  /\ SumFunctionOnSet(f, T) \in Nat /\ SumFunctionOnSet(f, S) \in Nat
         /\ SumFunctionOnSet(f, T) <= SumFunctionOnSet(f, S)
<1>1. /\ IsFiniteSet(T) /\ \A x \in T : f[x] \in Nat
      /\ IsFiniteSet(S \ T) /\ \A x \in S \ T : f[x] \in Nat
      /\ \A x \in S : f[x] \in Int
  BY FS_Subset
<1>2. SumFunctionOnSet(f, T) \in Nat
  BY <1>1, SumNat
<1>3. SumFunctionOnSet(f, S \ T) \in Nat
  BY <1>1, SumNat
<1>4. SumFunctionOnSet(f, S) = SumFunctionOnSet(f, T) + SumFunctionOnSet(f, S \ T)
  BY <1>1, SumSplit
<1> DEFINE t == SumFunctionOnSet(f, T)
           r == SumFunctionOnSet(f, S \ T)
<1> HIDE DEF t, r
<1>5. t \in Nat /\ r \in Nat /\ SumFunctionOnSet(f, S) = t + r
  BY <1>2, <1>3, <1>4 DEF t, r
<1>6. t <= t + r /\ t + r \in Nat
  BY <1>5
<1>7. QED
  BY <1>5, <1>6 DEF t

\* A sum follows the change of one of its terms.
LEMMA SumUpdate ==
  ASSUME NEW S, IsFiniteSet(S), NEW f, \A y \in S : f[y] \in Int, NEW x \in S, NEW d \in Int,
         NEW g, g[x] = f[x] + d, \A y \in S \ {x} : g[y] = f[y]
  PROVE  SumFunctionOnSet(g, S) = SumFunctionOnSet(f, S) + d
<1>1. /\ IsFiniteSet(S \ {x}) /\ \A y \in S \ {x} : f[y] \in Int /\ f[y] = g[y]
      /\ \A y \in S : g[y] \in Int
  BY FS_Subset
<1> DEFINE r == SumFunctionOnSet(f, S \ {x})
<1>2. SumFunctionOnSet(f, S) = f[x] + r
  BY SumRemove
<1>3. SumFunctionOnSet(g, S) = g[x] + SumFunctionOnSet(g, S \ {x})
  BY <1>1, SumRemove
<1>4. SumFunctionOnSet(g, S \ {x}) = r
  BY <1>1, SumEqual
<1>5. r \in Int
  BY <1>1, SumRemove
<1> HIDE DEF r
<1>6. QED
  BY <1>2, <1>3, <1>4, <1>5

\* A positive sum of naturals has a positive term.
LEMMA SumPositive ==
  ASSUME NEW S, IsFiniteSet(S), NEW f, \A x \in S : f[x] \in Nat, SumFunctionOnSet(f, S) > 0
  PROVE  \E x \in S : f[x] > 0
<1> DEFINE P == {T \in SUBSET S : SumFunctionOnSet(f, T) = 0}
<1> SUFFICES ASSUME \A x \in S : f[x] = 0 PROVE FALSE
  OBVIOUS
<1>1. {} \in P
  BY SumEmpty
<1>2. ASSUME NEW T \in SUBSET S, NEW x \in S \ T, T \in P PROVE T \union {x} \in P
  <2>1. SumFunctionOnSet(f, T \union {x}) = f[x] + SumFunctionOnSet(f, T)
    BY SumAdd
  <2>2. QED
    BY <1>2, <2>1
<1> HIDE DEF P
<1>3. S \in P
  BY <1>1, <1>2, FiniteSetInduction
<1>4. QED
  BY <1>3 DEF P

LEMMA SumZero ==
  ASSUME NEW S, IsFiniteSet(S), NEW f, \A x \in S : f[x] = 0
  PROVE  SumFunctionOnSet(f, S) = 0
<1>1. SumFunctionOnSet(f, S) \in Nat
  BY SumNat
<1>2. ~ (SumFunctionOnSet(f, S) > 0)
  BY SumPositive
<1>3. QED
  BY <1>1, <1>2

--------------------------------------------------------------------------------
(* Least and greatest elements                                                     *)

LEMMA MinNatural ==
  ASSUME NEW T, T \subseteq Nat, T # {}
  PROVE  Min(T) \in T /\ \A m \in T : Min(T) <= m
BY LeastNatural DEF Min

LEMMA MaxNatural ==
  ASSUME NEW T, T \subseteq Nat, T # {}, NEW b \in Nat, \A m \in T : m <= b
  PROVE  Max(T) \in T /\ \A m \in T : m <= Max(T)
<1> DEFINE D == {b - m : m \in T}
<1>1. D \subseteq Nat /\ D # {}
  <2>1. ASSUME NEW m \in T PROVE b - m \in Nat
    BY m \in Nat /\ m <= b
  <2>2. \A d \in D : d \in Nat
    BY <2>1
  <2>3. PICK m \in T : TRUE
    OBVIOUS
  <2>4. b - m \in D
    BY <2>3
  <2>5. QED
    BY <2>2, <2>4
<1>2. PICK d \in D : \A e \in D : d <= e
  BY <1>1, LeastNatural
<1>3. PICK n \in T : d = b - n
  BY <1>2
<1>4. \A m \in T : b - n <= b - m
  BY <1>2, <1>3
<1>5. \A m \in T : n >= m
  BY <1>4
<1>6. Max(T) \in T /\ \A m \in T : Max(T) >= m
  BY <1>5 DEF Max
<1>7. QED
  BY <1>6

LEMMA ExtremeUnique ==
  ASSUME NEW T, T \subseteq Int, NEW x \in T
  PROVE  /\ (\A y \in T : x <= y) => Min(T) = x
         /\ (\A y \in T : y <= x) => Max(T) = x
<1>1. ASSUME \A y \in T : x <= y PROVE Min(T) = x
  <2>1. Min(T) \in T /\ \A y \in T : Min(T) <= y
    BY <1>1 DEF Min
  <2>2. Min(T) <= x /\ x <= Min(T) /\ Min(T) \in Int
    BY <1>1, <2>1
  <2>3. QED
    BY <2>2
<1>2. ASSUME \A y \in T : y <= x PROVE Max(T) = x
  <2>1. \A y \in T : x >= y
    BY <1>2
  <2>2. Max(T) \in T /\ \A y \in T : Max(T) >= y
    BY <2>1 DEF Max
  <2>3. Max(T) >= x /\ x >= Max(T) /\ Max(T) \in Int
    BY <2>1, <2>2
  <2>4. QED
    BY <2>3
<1>3. QED
  BY <1>1, <1>2

LEMMA MinMaxPair ==
  ASSUME NEW a \in Int, NEW b \in Int
  PROVE  /\ Min({a, b}) = IF a <= b THEN a ELSE b
         /\ Max({a, b}) = IF a <= b THEN b ELSE a
<1>1. Min({a, b}) \in {a, b} /\ \A y \in {a, b} : Min({a, b}) <= y
  <2>1. \E x \in {a, b} : \A y \in {a, b} : x <= y
    OBVIOUS
  <2>2. QED
    BY <2>1 DEF Min
<1>2. Max({a, b}) \in {a, b} /\ \A y \in {a, b} : Max({a, b}) >= y
  <2>1. \E x \in {a, b} : \A y \in {a, b} : x >= y
    OBVIOUS
  <2>2. QED
    BY <2>1 DEF Max
<1>3. QED
  BY <1>1, <1>2

--------------------------------------------------------------------------------
(* Powers of two                                                                   *)

\* The function that doubles from 1 on exists.
LEMMA DoublingExists ==
  \E P : P = [n \in Nat |-> IF n = 0 THEN 1 ELSE 2 * P[n - 1]] /\ P \in [Nat -> Nat]
<1> DEFINE Upto(G, n) == G[0] = 1 /\ \A k \in Nat : 1 <= k /\ k <= n => G[k] = 2 * G[k - 1]
           Levels == {n \in Nat : \E G \in [Nat -> Nat] : Upto(G, n)}
           Some(n) == CHOOSE G \in [Nat -> Nat] : Upto(G, n)
           P == [n \in Nat |-> Some(n)[n]]
<1>1. 0 \in Levels
  <2>1. [n \in Nat |-> 1] \in [Nat -> Nat] /\ Upto([n \in Nat |-> 1], 0)
    OBVIOUS
  <2>2. QED
    BY <2>1
<1>2. ASSUME NEW n \in Levels PROVE n + 1 \in Levels
  <2>1. PICK G \in [Nat -> Nat] : Upto(G, n)
    BY <1>2
  <2> DEFINE H == [G EXCEPT ![n + 1] = 2 * G[n]]
  <2>2. n \in Nat /\ n + 1 \in Nat
    OBVIOUS
  <2>3. H \in [Nat -> Nat]
    BY <2>2
  <2>4. Upto(H, n + 1)
    BY <2>1, <2>2
  <2>5. QED
    BY <2>2, <2>3, <2>4
<1>3. \A n \in Nat : Some(n) \in [Nat -> Nat] /\ Upto(Some(n), n)
  <2>1. Levels \subseteq Nat
    OBVIOUS
  <2>2. \A n \in Nat : n \in Levels
    <3> HIDE DEF Levels
    <3>1. QED
      BY <1>1, <1>2, <2>1, NatSetInduction
  <2>3. \A n \in Nat : \E G \in [Nat -> Nat] : Upto(G, n)
    BY <2>2
  <2> HIDE DEF Upto
  <2>4. QED
    BY <2>3
<1> HIDE DEF Some
<1>4. ASSUME NEW n \in Nat PROVE \A k \in Nat : k <= n => Some(n)[k] = P[k]
  <2> DEFINE K == {k \in Nat : \A m \in Nat : k <= m => Some(m)[k] = Some(k)[k]}
  <2>1. 0 \in K
    BY <1>3
  <2>2. ASSUME NEW k \in K PROVE k + 1 \in K
    <3>1. ASSUME NEW m \in Nat, k + 1 <= m PROVE Some(m)[k + 1] = Some(k + 1)[k + 1]
      <4>1. Some(m)[k + 1] = 2 * Some(m)[k] /\ Some(k + 1)[k + 1] = 2 * Some(k + 1)[k]
        BY <1>3, <3>1
      <4>2. Some(m)[k] = Some(k)[k] /\ Some(k + 1)[k] = Some(k)[k]
        BY <3>1
      <4>3. QED
        BY <4>1, <4>2
    <3>2. QED
      BY <3>1
  <2>3. \A k \in Nat : k \in K
    <3>1. K \subseteq Nat
      OBVIOUS
    <3> HIDE DEF K
    <3>2. QED
      BY <2>1, <2>2, <3>1, NatSetInduction
  <2>4. QED
    BY <2>3
<1>5. P \in [Nat -> Nat] /\ P[0] = 1
  BY <1>3
<1>6. ASSUME NEW n \in Nat, n # 0 PROVE P[n] = 2 * P[n - 1]
  <2>1. Some(n)[n] = 2 * Some(n)[n - 1]
    BY <1>3, <1>6
  <2>2. Some(n)[n - 1] = P[n - 1] /\ Some(n)[n] = P[n]
    BY <1>4, <1>6
  <2>3. QED
    BY <2>1, <2>2
<1> HIDE DEF P
<1>7. P = [n \in Nat |-> IF n = 0 THEN 1 ELSE 2 * P[n - 1]]
  BY <1>5, <1>6
<1>8. QED
  BY <1>5, <1>7

--------------------------------------------------------------------------------
(* Ring indices: operation number i of a ring of C slots works on slot i % C.      *)

\* Euclid's division, which is what "% Capacity" (the mask of spsc_queue.hpp)
\* means to the provers.
LEMMA DivMod ==
  ASSUME NEW C \in Nat, C >= 1, NEW i \in Nat
  PROVE  /\ i \div C \in Int
         /\ (i % C) \in 0 .. C - 1
         /\ i = C * (i \div C) + (i % C)
BY SMTT(30)

\* Multiples of the capacity are at least a capacity apart.
LEMMA MultipleGap ==
  ASSUME NEW C \in Nat, C >= 1, NEW p \in Int, NEW q \in Int, p > q
  PROVE  C * p \in Int /\ C * q \in Int /\ C * p >= C * q + C
<1>1. ASSUME NEW d \in Int, d >= 1 PROVE C * d >= C
  BY <1>1, SMTT(30)
<1>2. C * (p - q) = C * p - C * q
  BY SMTT(30)
<1>3. QED
  BY <1>1, <1>2

\* The remainder is the only offset that fits: how the mask is recognised.
LEMMA ModUnique ==
  ASSUME NEW C \in Nat, C >= 1, NEW i \in Nat,
         NEW q \in Int, NEW r \in 0 .. C - 1, i = C * q + r
  PROVE  r = i % C
<1> DEFINE p == i \div C
           m == i % C
<1>1. p \in Int /\ m \in 0 .. C - 1 /\ i = C * p + m
  BY DivMod
<1> HIDE DEF p, m
<1>2. ~ (p > q) /\ ~ (q > p)
  BY <1>1, MultipleGap
<1>3. p = q /\ C * p \in Int
  BY <1>1, <1>2
<1>4. r = m
  BY <1>1, <1>3
<1>5. QED
  BY <1>4 DEF m

\* A quotient that is rounded up, once or twice, is off by less than two.
LEMMA RoundedUp ==
  ASSUME NEW C \in Nat, C >= 1, NEW q \in Int, NEW r \in 0 .. C - 1,
         NEW t, t = q + 1 \/ (t = q /\ r = 0)
  PROVE  C * t \in Int /\ C * q + r <= C * t /\ C * t <= C * q + r + C
<1>1. C * q \in Int /\ C * (q + 1) = C * q + C
  BY SMTT(30)
<1>2. CASE t = q + 1
  BY <1>1, <1>2
<1>3. CASE t = q /\ r = 0
  BY <1>1, <1>3
<1>4. QED
  BY <1>2, <1>3

\* An index stays within the ring of slots_.
LEMMA WrapRange ==
  ASSUME NEW C \in Nat, C >= 1, NEW i \in Nat
  PROVE  (i % C) \in 0 .. C - 1
BY DivMod

\* (t + 1) & mask is the index of the next operation.
LEMMA WrapNext ==
  ASSUME NEW C \in Nat, C >= 1, NEW i \in Nat
  PROVE  ((i % C) + 1) % C = (i + 1) % C
<1> DEFINE p == i \div C
           m == i % C
<1>1. p \in Int /\ m \in 0 .. C - 1 /\ i = C * p + m
  BY DivMod
<1> HIDE DEF p, m
<1>2. C * p \in Int /\ C * 0 = 0 /\ C * 1 = C /\ C * (p + 1) = C * p + C
  BY <1>1, SMTT(30)
<1>3. CASE m + 1 < C
  <2>1. m + 1 = (i + 1) % C
    BY <1>1, <1>2, <1>3, ModUnique
  <2>2. m + 1 = (m + 1) % C
    BY <1>1, <1>2, <1>3, ModUnique
  <2>3. QED
    BY <2>1, <2>2 DEF m
<1>4. CASE m + 1 = C
  <2>1. 0 = (i + 1) % C
    BY <1>1, <1>2, <1>4, ModUnique
  <2>2. 0 = (m + 1) % C
    BY <1>1, <1>2, <1>4, ModUnique
  <2>3. QED
    BY <2>1, <2>2 DEF m
<1>5. QED
  BY <1>1, <1>3, <1>4

\* Two operations on the same slot are at least a full lap apart.
LEMMA WrapWindow ==
  ASSUME NEW C \in Nat, C >= 1, NEW i \in Nat, NEW j \in Nat,
         i % C = j % C, i < j
  PROVE  j >= i + C
<1> DEFINE p == i \div C
           q == j \div C
           m == i % C
<1>1. p \in Int /\ m \in 0 .. C - 1 /\ i = C * p + m
  BY DivMod
<1>2. q \in Int /\ j = C * q + m
  BY DivMod
<1> HIDE DEF p, q, m
<1>3. q > p
  <2>1. ~ (p > q)
    BY <1>1, <1>2, MultipleGap
  <2>2. p # q
    BY <1>1, <1>2
  <2>3. QED
    BY <1>1, <1>2, <2>1, <2>2
<1>4. C * q >= C * p + C /\ C * p \in Int /\ C * q \in Int
  BY <1>1, <1>2, <1>3, MultipleGap
<1>5. QED
  BY <1>1, <1>2, <1>4

\* A full lap comes back to the same slot.
LEMMA WrapPeriod ==
  ASSUME NEW C \in Nat, C >= 1, NEW i \in Nat
  PROVE  (i + C) % C = i % C
<1> DEFINE p == i \div C
           m == i % C
<1>1. p \in Int /\ m \in 0 .. C - 1 /\ i = C * p + m
  BY DivMod
<1> HIDE DEF p, m
<1>2. C * p \in Int /\ C * (p + 1) = C * p + C
  BY <1>1, SMTT(30)
<1>3. m = (i + C) % C
  BY <1>1, <1>2, ModUnique
<1>4. QED
  BY <1>3 DEF m

\* A sum that wraps at every step is the wrapped sum.
LEMMA WrapAdd ==
  ASSUME NEW C \in Nat, C >= 1, NEW i \in Nat, NEW v \in Nat
  PROVE  ((i % C) + v) % C = (i + v) % C
<1> DEFINE p == i \div C
           m == i % C
           q == (m + v) \div C
           r == (m + v) % C
<1>1. p \in Int /\ m \in 0 .. C - 1 /\ i = C * p + m
  BY DivMod
<1>2. q \in Int /\ r \in 0 .. C - 1 /\ m + v = C * q + r
  <2>1. m + v \in Nat
    BY <1>1
  <2> HIDE DEF m
  <2>2. QED
    BY <2>1, DivMod
<1> HIDE DEF p, m, q, r
<1>3. C * p \in Int /\ C * q \in Int /\ C * (p + q) = C * p + C * q
  BY <1>1, <1>2, SMTT(30)
<1>4. i + v = C * (p + q) + r
  BY <1>1, <1>2, <1>3
<1>5. i + v \in Nat /\ p + q \in Int
  BY <1>1, <1>2
<1> DEFINE j == i + v
           k == p + q
<1> HIDE DEF j, k
<1>6. j \in Nat /\ k \in Int /\ j = C * k + r
  BY <1>4, <1>5 DEF j, k
<1>7. r = j % C
  BY <1>2, <1>6, ModUnique
<1>8. QED
  BY <1>7 DEF r, m, j

================================================================================
