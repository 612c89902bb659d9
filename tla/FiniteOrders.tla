----------------------------- MODULE FiniteOrders -----------------------------
(***************************************************************************)
(* Facts about finite sets and orders on them that the proofs of several    *)
(* components need. An induction over finite sets is stated here for sets   *)
(* of sets: the smallest one that is not as it should be does not exist.    *)
(* From it come selections in an order, and recursions over the subsets of  *)
(* a finite set, which is what the library's folds are.                     *)
(***************************************************************************)
EXTENDS FiniteSets, Integers, FiniteSetsExt, FiniteSetTheorems, WellFoundedInduction, TLAPS

(* Of subsets of a finite set there is one that includes no other.          *)
LEMMA SmallestSet ==
  ASSUME NEW S, IsFiniteSet(S), NEW F \in SUBSET (SUBSET S), F # {}
  PROVE  \E A \in F : \A B \in F : B \subseteq A => B = A
<1>1. IsWellFoundedOn(StrictSubsetOrdering(S), FiniteSubsetsOf(S))
  BY FS_StrictSubsetOrderingWellFounded
<1>2. F \subseteq FiniteSubsetsOf(S)
  BY FS_FiniteSubsetsOfFinite
<1>3. PICK A \in F : \A B \in F : <<B, A>> \notin StrictSubsetOrdering(S)
  BY <1>1, <1>2, WFMin
<1>4. ASSUME NEW B \in F, B \subseteq A, B # A PROVE FALSE
  <2>1. <<B, A>> \in (SUBSET S) \X (SUBSET S)
    OBVIOUS
  <2> QED
    BY <1>3, <1>4, <2>1 DEF StrictSubsetOrdering
<1> QED
  BY <1>4

(* The image of a finite set under a function is finite and no larger.      *)
LEMMA ImageIsFinite ==
  ASSUME NEW S, IsFiniteSet(S), NEW f, DOMAIN f = S
  PROVE  IsFiniteSet({f[x] : x \in S}) /\ Cardinality({f[x] : x \in S}) <= Cardinality(S)
<1> DEFINE T == {f[x] : x \in S}
<1>1. [x \in S |-> f[x]] \in Surjection(S, T)
  BY DEF Surjection
<1> HIDE DEF T
<1>2. IsFiniteSet(T) /\ Cardinality(T) <= Cardinality(S)
  BY <1>1, FS_Surjection
<1> QED
  BY <1>2 DEF T

(* As large, if no two elements have the same image.                        *)
LEMMA ImageOfInjection ==
  ASSUME NEW S, IsFiniteSet(S), NEW f, DOMAIN f = S,
         \A x, y \in S : f[x] = f[y] => x = y
  PROVE  IsFiniteSet({f[x] : x \in S}) /\ Cardinality({f[x] : x \in S}) = Cardinality(S)
<1> DEFINE T == {f[x] : x \in S}
<1>1. [x \in S |-> f[x]] \in Surjection(S, T) /\ [x \in S |-> f[x]] \in Injection(S, T)
  BY DEF Surjection, Injection, IsInjective
<1> HIDE DEF T
<1>2. IsFiniteSet(T) /\ Cardinality(T) = Cardinality(S)
  BY <1>1, FS_Surjection
<1> QED
  BY <1>2 DEF T

(* R has the pairs of a strict order on D; K is what is selected of C by    *)
(* going through it in the order of R, leaving out what has a rival, of V   *)
(* the pairs, that was selected before.                                     *)
IsStrictOrder(D, R) ==
  /\ \A x \in D : <<x, x>> \notin R
  /\ \A x, y, z \in D : <<x, y>> \in R /\ <<y, z>> \in R => <<x, z>> \in R

IsSelection(K, C, R, V) ==
  \A p \in C : p \in K <=> \A q \in K : <<q, p>> \in R => <<p, q>> \notin V

(* A finite set in a strict order, has an element that precedes no other.   *)
LEMMA LastExists ==
  ASSUME NEW D, IsFiniteSet(D), D # {}, NEW R, IsStrictOrder(D, R)
  PROVE  \E x \in D : \A y \in D : <<x, y>> \notin R
<1> DEFINE after(x) == {y \in D : <<x, y>> \in R}
           F == {after(x) : x \in D}
<1>1. PICK A \in F : \A B \in F : B \subseteq A => B = A
  <2>1. F # {}
    <3>1. PICK x : x \in D
      OBVIOUS
    <3>2. after(x) \in F
      BY <3>1
    <3> QED
      BY <3>2
  <2>2. F \in SUBSET (SUBSET D)
    OBVIOUS
  <2> HIDE DEF F
  <2> QED
    BY <2>1, <2>2, SmallestSet
<1>2. PICK x \in D : A = after(x)
  OBVIOUS
<1>3. ASSUME NEW y \in D, <<x, y>> \in R PROVE FALSE
  <2>1. after(y) \subseteq after(x) /\ y \in after(x) /\ y \notin after(y)
    BY <1>3 DEF IsStrictOrder
  <2>2. after(y) \in F
    OBVIOUS
  <2> HIDE DEF after, F
  <2>3. after(y) = after(x)
    BY <1>1, <1>2, <2>1, <2>2
  <2> QED
    BY <2>1, <2>3
<1> QED
  BY <1>3

(* There is a selection, of any rivals and in any order.                    *)
LEMMA SelectionExists ==
  ASSUME NEW C, IsFiniteSet(C), NEW R, IsStrictOrder(C, R), NEW V
  PROVE  \E K \in SUBSET C : IsSelection(K, C, R, V)
<1> DEFINE Selects(K, D) == IsSelection(K, D, R, V)
           Bad == {D \in SUBSET C : ~\E K \in SUBSET D : Selects(K, D)}
<1>1. SUFFICES ASSUME Bad # {} PROVE FALSE
  OBVIOUS
<1>2. PICK D \in Bad : \A B \in Bad : B \subseteq D => B = D
  <2>1. Bad \in SUBSET (SUBSET C)
    OBVIOUS
  <2> HIDE DEF Bad
  <2> QED
    BY <1>1, <2>1, SmallestSet
<1>3. IsFiniteSet(D)
  BY FS_Subset
<1>4. D # {}
  <2>1. Selects({}, {})
    BY DEF IsSelection
  <2> QED
    BY <2>1
<1>5. PICK p \in D : \A y \in D : <<p, y>> \notin R
  <2>1. IsStrictOrder(D, R)
    BY DEF IsStrictOrder
  <2> QED
    BY <1>3, <1>4, <2>1, LastExists
<1>6. PICK K \in SUBSET (D \ {p}) : Selects(K, D \ {p})
  <2>1. D \ {p} \in SUBSET C /\ D \ {p} \subseteq D /\ D \ {p} # D
    OBVIOUS
  <2> HIDE DEF Selects
  <2>2. D \ {p} \notin Bad
    BY <1>2, <2>1
  <2> QED
    BY <2>1, <2>2
<1>7. CASE \E q \in K : <<q, p>> \in R /\ <<p, q>> \in V
  <2>1. Selects(K, D)
    BY <1>6, <1>7 DEF IsSelection
  <2> QED
    BY <1>6, <2>1
<1>8. CASE \A q \in K : <<q, p>> \in R => <<p, q>> \notin V
  <2>1. ASSUME NEW x \in D
        PROVE  x \in K \union {p} <=> \A q \in K \union {p} : <<q, x>> \in R => <<x, q>> \notin V
    <3>1. CASE x = p
      BY <1>5, <1>8, <3>1
    <3>2. CASE x # p
      <4>1. x \in K <=> \A q \in K : <<q, x>> \in R => <<x, q>> \notin V
        BY <1>6, <3>2 DEF IsSelection
      <4>2. <<p, x>> \notin R
        BY <1>5
      <4> QED
        BY <3>2, <4>1, <4>2
    <3> QED
      BY <3>1, <3>2
  <2>2. K \union {p} \in SUBSET D
    BY <1>6
  <2>3. Selects(K \union {p}, D)
    BY <2>1 DEF IsSelection
  <2> HIDE DEF Selects
  <2> QED
    BY <2>2, <2>3
<1> QED
  BY <1>7, <1>8

(* Two recursions over the subsets of a finite set, each by an element of   *)
(* its own choice at every subset, agree where both are defined.            *)
Chooses(pick, S) == \A a \in SUBSET S : a # {} => pick[a] \in a

Closed(step, S, T) == \A x \in S, t \in T : step[<<x, t>>] \in T

Agree(f, g, A) == \A a \in SUBSET A : f[a] = g[a]

Recursion(f, A, b, pick, step) ==
  /\ f = [a \in SUBSET A |-> f[a]]
  /\ \A a \in SUBSET A : f[a] = IF a = {} THEN b ELSE step[<<pick[a], f[a \ {pick[a]}]>>]

LEMMA RecursionIsUnique ==
  ASSUME NEW S, IsFiniteSet(S), NEW b, NEW step, NEW pick,
         Chooses(pick, S),
         NEW A, A \subseteq S, NEW B, B \subseteq S, NEW f, NEW g,
         Recursion(f, A, b, pick, step), Recursion(g, B, b, pick, step)
  PROVE  Agree(f, g, A \intersect B)
<1> DEFINE Differ == {a \in SUBSET (A \intersect B) : f[a] # g[a]}
<1>1. SUFFICES ASSUME Differ # {} PROVE FALSE
  BY DEF Agree
<1>2. PICK a \in Differ : \A c \in Differ : c \subseteq a => c = a
  <2>1. Differ \in SUBSET (SUBSET S)
    OBVIOUS
  <2> HIDE DEF Differ
  <2> QED
    BY <1>1, <2>1, SmallestSet
<1>3. a \in SUBSET A /\ a \in SUBSET B /\ f[a] # g[a]
  OBVIOUS
<1>4. a # {}
  BY <1>3 DEF Recursion
<1>5. a \ {pick[a]} \notin Differ
  <2>1. pick[a] \in a
    BY <1>3, <1>4 DEF Chooses
  <2> HIDE DEF Differ
  <2> QED
    BY <1>2, <2>1
<1>6. f[a \ {pick[a]}] = g[a \ {pick[a]}]
  BY <1>5
<1> QED
  BY <1>3, <1>4, <1>6 DEF Recursion

(* There is one, and what each of its steps keeps in a set stays in it.     *)
LEMMA RecursionExists ==
  ASSUME NEW S, IsFiniteSet(S), NEW T, NEW b \in T, NEW step, NEW pick,
         Chooses(pick, S),
         Closed(step, S, T)
  PROVE  \E f : Recursion(f, S, b, pick, step) /\ \A a \in SUBSET S : f[a] \in T
<1> DEFINE Solves(f, A) == Recursion(f, A, b, pick, step) /\ \A a \in SUBSET A : f[a] \in T
           Bad == {A \in SUBSET S : ~\E f : Solves(f, A)}
<1>1. SUFFICES ASSUME Bad # {} PROVE FALSE
  OBVIOUS
<1>2. PICK A \in Bad : \A B \in Bad : B \subseteq A => B = A
  <2>1. Bad \in SUBSET (SUBSET S)
    OBVIOUS
  <2> HIDE DEF Bad
  <2> QED
    BY <1>1, <2>1, SmallestSet
<1> DEFINE sol == [B \in SUBSET A |-> CHOOSE f : Solves(f, B)]
           whole == [a \in SUBSET A |->
                       IF a = {} THEN b
                       ELSE IF a = A THEN step[<<pick[A], sol[A \ {pick[A]}][A \ {pick[A]}]>>]
                       ELSE sol[a][a]]
<1>3. ASSUME NEW B \in SUBSET A, B # A PROVE Solves(sol[B], B)
  <2>1. B \in SUBSET S
    OBVIOUS
  <2>2. B \notin Bad
    <3> HIDE DEF Bad
    <3> QED
      BY <1>2, <1>3
  <2>3. \E f : Solves(f, B)
    BY <2>1, <2>2
  <2> HIDE DEF Solves
  <2> QED
    BY <2>3
<1> HIDE DEF sol
<1>4. ASSUME NEW a \in SUBSET A, a # {}
      PROVE  /\ pick[a] \in a
             /\ whole[a] = step[<<pick[a], whole[a \ {pick[a]}]>>]
             /\ whole[a] \in T
  <2> DEFINE less == a \ {pick[a]}
  <2>1. pick[a] \in a
    BY <1>4 DEF Chooses
  <2>2. less \in SUBSET A /\ less # A /\ less \in SUBSET less
    BY <2>1
  <2>3. Solves(sol[less], less)
    BY <1>3, <2>2
  <2>4. whole[less] = sol[less][less] /\ whole[less] \in T
    <3>1. CASE less = {}
      BY <2>2, <2>3, <3>1 DEF Recursion
    <3>2. CASE less # {}
      BY <2>2, <2>3, <3>2
    <3> QED
      BY <3>1, <3>2
  <2>5. CASE a = A
    <3>1. whole[a] = step[<<pick[a], sol[less][less]>>]
      BY <1>4, <2>5
    <3> QED
      BY <2>1, <2>4, <3>1 DEF Closed
  <2>6. CASE a # A
    <3>1. Solves(sol[a], a)
      BY <1>3, <2>6
    <3>2. whole[a] = sol[a][a]
      BY <1>4, <2>6
    <3>3. sol[a][a] = step[<<pick[a], sol[a][less]>>]
      BY <1>4, <3>1 DEF Recursion
    <3>4. sol[a][less] = sol[less][less]
      <4>1. a \in SUBSET S /\ less \in SUBSET S /\ less \in SUBSET (a \intersect less)
        OBVIOUS
      <4> HIDE DEF less, whole, Bad, Solves
      <4>2. Recursion(sol[a], a, b, pick, step) /\ Recursion(sol[less], less, b, pick, step)
        BY <2>3, <3>1 DEF Solves
      <4>3. Agree(sol[a], sol[less], a \intersect less)
        <5>1. a \subseteq S /\ less \subseteq S
          BY <4>1
        <5>2. IsFiniteSet(S) /\ Chooses(pick, S)
          OBVIOUS
        <5> QED
          BY <5>1, <5>2, <4>2, RecursionIsUnique
      <4> QED
        BY <4>1, <4>3 DEF Agree
    <3> HIDE DEF less, whole
    <3> QED
      BY <2>1, <2>4, <3>1, <3>2, <3>3, <3>4 DEF less, Closed
  <2> QED
    BY <2>5, <2>6
<1>5. Solves(whole, A)
  <2>1. \A a \in SUBSET A : whole[a] = IF a = {} THEN b ELSE step[<<pick[a], whole[a \ {pick[a]}]>>]
    <3>1. whole[{}] = b
      OBVIOUS
    <3> HIDE DEF whole
    <3> QED
      BY <1>4, <3>1
  <2>2. \A a \in SUBSET A : whole[a] \in T
    <3>1. whole[{}] = b
      OBVIOUS
    <3> HIDE DEF whole
    <3> QED
      BY <1>4, <3>1
  <2> QED
    BY <2>1, <2>2 DEF Recursion
<1> HIDE DEF Solves
<1> QED
  BY <1>5

(* The greatest of some of the numbers from 1 to n.                         *)
LEMMA MaxIsGreatest ==
  ASSUME NEW n \in Nat, NEW a \in SUBSET (1 .. n), a # {}
  PROVE  Max(a) \in a /\ \A y \in a : y <= Max(a)
<1> DEFINE R == {p \in a \X a : p[1] < p[2]}
<1>1. IsFiniteSet(a)
  <2>1. IsFiniteSet(1 .. n)
    BY FS_Interval
  <2> QED
    BY <2>1, FS_Subset
<1>2. IsStrictOrder(a, R)
  BY DEF IsStrictOrder
<1>3. PICK x \in a : \A y \in a : <<x, y>> \notin R
  <2> HIDE DEF R
  <2> QED
    BY <1>1, <1>2, LastExists
<1>4. ASSUME NEW y \in a PROVE y <= x
  <2>1. <<x, y>> \in a \X a /\ x \in Nat /\ y \in Nat
    OBVIOUS
  <2>2. ~(x < y)
    BY <1>3, <2>1
  <2> QED
    BY <2>1, <2>2
<1>6. \E m \in a : \A y \in a : m >= y
  BY <1>4
<1> QED
  BY <1>6 DEF Max

(* What holds of 0 and passes on to the next number holds up to n.          *)
LEMMA UpTo ==
  ASSUME NEW n \in Nat, NEW P, 0 \in P, \A i \in 1 .. n : i - 1 \in P => i \in P
  PROVE  \A i \in 0 .. n : i \in P
<1> DEFINE Bad == (0 .. n) \ P
           R == {p \in Bad \X Bad : p[2] < p[1]}
<1>1. SUFFICES ASSUME Bad # {} PROVE FALSE
  OBVIOUS
<1>2. IsFiniteSet(Bad)
  <2>1. IsFiniteSet(0 .. n)
    BY FS_Interval
  <2> QED
    BY <2>1, FS_Subset
<1>3. IsStrictOrder(Bad, R)
  BY DEF IsStrictOrder
<1>4. PICK x \in Bad : \A y \in Bad : <<x, y>> \notin R
  <2> HIDE DEF Bad, R
  <2> QED
    BY <1>1, <1>2, <1>3, LastExists
<1>5. x \in 1 .. n /\ x - 1 \in 0 .. n
  OBVIOUS
<1>6. x - 1 \in Bad
  BY <1>5
<1>7. <<x, x - 1>> \in R
  BY <1>5, <1>6
<1> QED
  BY <1>4, <1>6, <1>7

(* Taking the last position first chooses one wherever there is one.        *)
LatestOf(n) == [a \in SUBSET (1 .. n) |-> Max(a)]

LEMMA LatestOfChooses ==
  ASSUME NEW n \in Nat
  PROVE  Chooses(LatestOf(n), 1 .. n)
BY MaxIsGreatest DEF Chooses, LatestOf

(* A recursion over the positions of a sequence that takes the last one     *)
(* first goes through the sequence from its start, and what each of its     *)
(* steps keeps in a set stays in it all along.                              *)
LEMMA RecursionAlong ==
  ASSUME NEW n \in Nat, NEW T, NEW b \in T, NEW step, Closed(step, 1 .. n, T),
         NEW f, Recursion(f, 1 .. n, b, LatestOf(n), step)
  PROVE  \E h : /\ h[0] = b
                /\ h[n] = f[1 .. n]
                /\ \A i \in 0 .. n : h[i] \in T
                /\ \A i \in 1 .. n : h[i] = step[<<i, h[i - 1]>>]
<1> DEFINE h == [i \in 0 .. n |-> f[1 .. i]]
<1>1. h[0] = b
  <2>1. 1 .. 0 = {} /\ h[0] = f[1 .. 0]
    OBVIOUS
  <2>2. {} \in SUBSET (1 .. n)
    OBVIOUS
  <2>3. f[{}] = b
    BY <2>2 DEF Recursion
  <2> QED
    BY <2>1, <2>3
<1>2. ASSUME NEW i \in 1 .. n PROVE h[i] = step[<<i, h[i - 1]>>]
  <2>0. i \in Nat /\ 1 <= i /\ i <= n
    OBVIOUS
  <2>1. 1 .. i \in SUBSET (1 .. n) /\ i \in 1 .. i
    BY <2>0
  <2>2. Max(1 .. i) = i
    <3>1. Max(1 .. i) \in 1 .. i /\ \A y \in 1 .. i : y <= Max(1 .. i)
      BY <2>1, MaxIsGreatest
    <3> QED
      BY <2>1, <3>1
  <2>3. (1 .. i) \ {i} = 1 .. (i - 1)
    OBVIOUS
  <2> DEFINE upto == 1 .. i
  <2>4. LatestOf(n)[upto] = i
    BY <2>1, <2>2 DEF LatestOf
  <2>5. f[upto] = step[<<LatestOf(n)[upto], f[upto \ {LatestOf(n)[upto]}]>>]
    <3>1. upto \in SUBSET (1 .. n) /\ upto # {}
      BY <2>1
    <3> HIDE DEF upto
    <3> QED
      BY <3>1 DEF Recursion
  <2>6. h[i] = f[upto] /\ h[i - 1] = f[upto \ {i}]
    <3>1. i \in 0 .. n /\ i - 1 \in 0 .. n
      BY <2>0
    <3>2. h[i] = f[1 .. i] /\ h[i - 1] = f[1 .. (i - 1)]
      BY <3>1
    <3> HIDE DEF h
    <3> QED
      BY <2>3, <3>2
  <2>7. f[upto] = step[<<i, f[upto \ {i}]>>]
    BY <2>4, <2>5
  <2> HIDE DEF h, upto
  <2>8. <<i, f[upto \ {i}]>> = <<i, h[i - 1]>>
    BY <2>6
  <2> QED
    BY <2>6, <2>7, <2>8
<1>3. \A i \in 0 .. n : h[i] \in T
  <2> DEFINE P == {i \in 0 .. n : h[i] \in T}
  <2>1. 0 \in P
    BY <1>1
  <2>2. ASSUME NEW i \in 1 .. n, i - 1 \in P PROVE i \in P
    <3>1. h[i - 1] \in T
      BY <2>2
    <3>2. h[i] \in T
      <4> HIDE DEF h
      <4> QED
        BY <1>2, <3>1 DEF Closed
    <3> QED
      BY <3>2
  <2> HIDE DEF P
  <2>3. \A i \in 0 .. n : i \in P
    BY <2>1, <2>2, UpTo
  <2> QED
    BY <2>3 DEF P
<1>4. h[n] = f[1 .. n]
  OBVIOUS
<1> HIDE DEF h
<1> QED
  BY <1>1, <1>2, <1>3, <1>4
=============================================================================
