---------------------------- MODULE ServiceProofs ---------------------------
(***************************************************************************)
(* create_response answers every request as IsAnswer demands: what it      *)
(* parses, sorts and adds up, for requests of any length and for integers  *)
(* of any width.                                                           *)
(***************************************************************************)
EXTENDS Service, FiniteSetTheorems, SequenceTheorems, WellFoundedInduction, TLAPS

------------------------------------------------------------------------------
(* Induction on the naturals, and recursion over the subsets of a finite    *)
(* set, as facts about sets and functions.                                  *)

\* A set of naturals that has 0 and every successor has them all.
LEMMA Induction ==
    ASSUME NEW S, 0 \in S, \A n \in Nat : n \in S => n + 1 \in S
    PROVE  Nat \subseteq S
<1> DEFINE less == {ss \in Nat \X Nat : ss[1] < ss[2]}
<1>1. IsWellFoundedOn(less, Nat)
  BY NatLessThanWellFounded DEF OpToRel
<1> SUFFICES ASSUME Nat \ S # {} PROVE FALSE
  OBVIOUS
<1> HIDE DEF less
<1>2. PICK n \in Nat \ S : \A m \in Nat \ S : ~(<<m, n>> \in less)
  BY <1>1, WFMin, Nat \ S \subseteq Nat
<1>3. n # 0 /\ n - 1 \in Nat /\ n - 1 < n /\ (n - 1) + 1 = n
  OBVIOUS
<1>4. n - 1 \in S
  BY <1>2, <1>3 DEF less
<1> QED BY <1>3, <1>4

\* A set of subsets that is not empty has a member with no proper subset in it.
LEMMA LeastSubset ==
    ASSUME NEW D, IsFiniteSet(D), NEW U, U \subseteq SUBSET D, U # {}
    PROVE  \E s \in U : \A t \in U : t \subseteq s => t = s
<1>1. IsWellFoundedOn(StrictSubsetOrdering(D), SUBSET D)
  BY FS_StrictSubsetOrderingWellFounded, FS_FiniteSubsetsOfFinite
<1>2. PICK s \in U : \A t \in U : ~(<<t, s>> \in StrictSubsetOrdering(D))
  BY <1>1, WFMin
<1>3. \A t \in U : t \subseteq s => t = s
  BY <1>2 DEF StrictSubsetOrdering
<1> QED BY <1>3

\* A fold is well defined: step takes the elements of a set one at a time, in
\* the order in which choice finds them.
Unfolds(g, D, base, step, choice) ==
    g = [s \in SUBSET D |->
            IF s = {} THEN base ELSE step[choice[s]][g[s \ {choice[s]}]]]

LEMMA FoldExists ==
    ASSUME NEW D, IsFiniteSet(D), NEW T, NEW base \in T, NEW step \in [D -> [T -> T]],
           NEW choice, \A s \in SUBSET D : s # {} => choice[s] \in s
    PROVE  \E g \in [SUBSET D -> T] : Unfolds(g, D, base, step, choice)
<1> DEFINE Value(g, s) == IF s = {} THEN base ELSE step[choice[s]][g[s \ {choice[s]}]]
           Upto(g, n) == \A s \in SUBSET D : Cardinality(s) <= n => g[s] = Value(g, s)
           P == {n \in Nat : \E g \in [SUBSET D -> T] : Upto(g, n)}
<1>1. \A s \in SUBSET D : IsFiniteSet(s) /\ Cardinality(s) \in Nat
  BY FS_Subset, FS_CardinalityType
<1>2. \A s \in SUBSET D : s # {} =>
        /\ s \ {choice[s]} \in SUBSET D
        /\ Cardinality(s \ {choice[s]}) = Cardinality(s) - 1
  BY <1>1, FS_RemoveElement
<1>3. 0 \in P
  <2> DEFINE g == [s \in SUBSET D |-> base]
  <2>1. ASSUME NEW s \in SUBSET D, Cardinality(s) <= 0 PROVE s = {}
    BY <2>1, <1>1, FS_EmptySet
  <2>2. g \in [SUBSET D -> T] /\ Upto(g, 0)
    BY <2>1
  <2> QED BY <2>2
<1>4. ASSUME NEW n \in Nat, n \in P PROVE n + 1 \in P
  <2>1. PICK g \in [SUBSET D -> T] : Upto(g, n)
    BY <1>4
  <2> DEFINE h == [s \in SUBSET D |-> IF Cardinality(s) = n + 1 THEN Value(g, s) ELSE g[s]]
  <2>2. ASSUME NEW s \in SUBSET D PROVE Value(g, s) \in T
    BY <1>2
  <2>3. h \in [SUBSET D -> T]
    BY <2>2
  <2>4. ASSUME NEW s \in SUBSET D, Cardinality(s) <= n + 1 PROVE h[s] = Value(g, s)
    <3>1. CASE Cardinality(s) = n + 1
      BY <3>1
    <3>2. CASE Cardinality(s) <= n
      BY <2>1, <3>2, <1>1
    <3> QED BY <1>1, <2>4, <3>1, <3>2
  <2>5. ASSUME NEW s \in SUBSET D, Cardinality(s) <= n + 1, s # {}
        PROVE  h[s \ {choice[s]}] = g[s \ {choice[s]}]
    <3>1. Cardinality(s \ {choice[s]}) # n + 1 /\ s \ {choice[s]} \in SUBSET D
      BY <1>1, <1>2, <2>5
    <3> QED BY <3>1
  <2> HIDE DEF h
  <2>6. Upto(h, n + 1)
    BY <2>4, <2>5
  <2>7. n + 1 \in Nat
    OBVIOUS
  <2> HIDE DEF Upto
  <2> QED BY <2>3, <2>6, <2>7
<1> HIDE DEF P
<1>5. Cardinality(D) \in P
  BY <1>1, <1>3, <1>4, Induction
<1>6. PICK g \in [SUBSET D -> T] : Upto(g, Cardinality(D))
  BY <1>5 DEF P
<1>7. \A s \in SUBSET D : Cardinality(s) <= Cardinality(D)
  BY FS_Subset
<1>8. \A s \in SUBSET D : g[s] = Value(g, s)
  BY <1>6, <1>7
<1>9. g = [s \in SUBSET D |-> Value(g, s)]
  BY <1>8
<1> QED BY <1>9 DEF Unfolds
------------------------------------------------------------------------------
(* The sum of the values of a function on a finite set.                     *)

SumOver(w, S) == MapThenSumSet(LAMBDA i : w[i], S)

AddsUp(g, w, S) ==
    \A s \in SUBSET S :
        g[s] = IF s = {} THEN 0
               ELSE w[CHOOSE x \in s : TRUE] + g[s \ {CHOOSE x \in s : TRUE}]

\* The sums of the subsets are what the recursion says, and nothing else.
LEMMA SumsUnique ==
    ASSUME NEW D, IsFiniteSet(D), NEW S \in SUBSET D,
           NEW w, NEW v, \A x \in S : w[x] = v[x],
           NEW g, NEW h, AddsUp(g, w, D), AddsUp(h, v, S)
    PROVE  \A s \in SUBSET S : g[s] = h[s]
<1> DEFINE U == {s \in SUBSET S : g[s] # h[s]}
<1> SUFFICES ASSUME U # {} PROVE FALSE
  OBVIOUS
<1>0. U \subseteq SUBSET D
  OBVIOUS
<1>1. PICK s \in U : \A t \in U : t \subseteq s => t = s
  <2> HIDE DEF U
  <2> QED BY <1>0, LeastSubset
<1> DEFINE x == CHOOSE x \in s : TRUE
<1>2. s # {}
  BY DEF AddsUp
<1>3. x \in s
  BY <1>2
<1>4. s \ {x} \in SUBSET S /\ s \ {x} \notin U
  BY <1>1, <1>3
<1>5. g[s \ {x}] = h[s \ {x}] /\ w[x] = v[x]
  BY <1>3, <1>4
<1>6. g[s] = w[x] + g[s \ {x}] /\ h[s] = v[x] + h[s \ {x}]
  BY <1>2 DEF AddsUp
<1> QED BY <1>5, <1>6

LEMMA SumsExist ==
    ASSUME NEW S, IsFiniteSet(S), NEW w, \A x \in S : w[x] \in Int
    PROVE  \E g \in [SUBSET S -> Int] : AddsUp(g, w, S) /\ SumOver(w, S) = g[S]
<1> DEFINE choice == [s \in SUBSET S |-> CHOOSE x \in s : TRUE]
           step == [x \in S |-> [t \in Int |-> w[x] + t]]
           Body(g) == [s \in SUBSET S |->
                          IF s = {} THEN 0
                          ELSE w[CHOOSE x \in s : TRUE] + g[s \ {CHOOSE x \in s : TRUE}]]
           iter == CHOOSE g : g = Body(g)
<1>1. \A s \in SUBSET S : s # {} => choice[s] \in s
  OBVIOUS
<1>2. step \in [S -> [Int -> Int]]
  OBVIOUS
<1>3. PICK g \in [SUBSET S -> Int] : Unfolds(g, S, 0, step, choice)
  <2> DEFINE T == Int
             base == 0
  <2>1. base \in T /\ step \in [S -> [T -> T]]
    BY <1>2
  <2> HIDE DEF step, choice, T, base
  <2>2. \E g \in [SUBSET S -> T] : Unfolds(g, S, base, step, choice)
    BY <1>1, <2>1, FoldExists
  <2> QED BY <2>2 DEF T, base
<1>4. \A s \in SUBSET S : s # {} =>
          /\ choice[s] = CHOOSE x \in s : TRUE
          /\ step[choice[s]][g[s \ {choice[s]}]] = w[choice[s]] + g[s \ {choice[s]}]
  <2> SUFFICES ASSUME NEW s \in SUBSET S, s # {}
      PROVE  step[choice[s]][g[s \ {choice[s]}]] = w[choice[s]] + g[s \ {choice[s]}]
    OBVIOUS
  <2>1. choice[s] \in S /\ g[s \ {choice[s]}] \in Int
    BY <1>1
  <2> HIDE DEF choice
  <2> QED BY <2>1
<1>5. AddsUp(g, w, S)
  <2> HIDE DEF step, choice
  <2> QED BY <1>3, <1>4 DEF Unfolds, AddsUp
<1>6. g = Body(g)
  BY <1>5 DEF AddsUp
<1>7. iter = Body(iter)
  <2> HIDE DEF Body
  <2> QED BY <1>6
<1>8. AddsUp(iter, w, S)
  <2> HIDE DEF iter
  <2> QED BY <1>7 DEF AddsUp
<1>9. SumOver(w, S) = iter[S]
  BY DEF SumOver, MapThenSumSet, MapThenFoldSet
<1> HIDE DEF iter
<1>10. iter[S] = g[S]
  BY <1>5, <1>8, SumsUnique
<1> QED BY <1>5, <1>9, <1>10

\* The sum of the empty set is 0, a sum is an integer, and it depends on the
\* values in the set only.
LEMMA SumEmpty == \A w : SumOver(w, {}) = 0
<1> SUFFICES ASSUME NEW w PROVE SumOver(w, {}) = 0
  OBVIOUS
<1>1. PICK g \in [SUBSET {} -> Int] : AddsUp(g, w, {}) /\ SumOver(w, {}) = g[{}]
  BY SumsExist, FS_EmptySet
<1> QED BY <1>1 DEF AddsUp

LEMMA SumType ==
    ASSUME NEW S, IsFiniteSet(S), NEW w, \A x \in S : w[x] \in Int
    PROVE  SumOver(w, S) \in Int
<1>1. PICK g \in [SUBSET S -> Int] : AddsUp(g, w, S) /\ SumOver(w, S) = g[S]
  BY SumsExist
<1> QED BY <1>1

LEMMA SumEqual ==
    ASSUME NEW S, IsFiniteSet(S), NEW w, NEW v,
           \A x \in S : w[x] \in Int /\ w[x] = v[x]
    PROVE  SumOver(w, S) = SumOver(v, S)
<1>1. \A x \in S : v[x] \in Int
  OBVIOUS
<1>2. PICK g \in [SUBSET S -> Int] : AddsUp(g, w, S) /\ SumOver(w, S) = g[S]
  BY SumsExist
<1>3. PICK h \in [SUBSET S -> Int] : AddsUp(h, v, S) /\ SumOver(v, S) = h[S]
  BY <1>1, SumsExist
<1> QED BY <1>2, <1>3, SumsUnique

\* Any element may be taken out of a sum.
LEMMA SumRemove ==
    ASSUME NEW D, IsFiniteSet(D), NEW w, \A x \in D : w[x] \in Int, NEW e \in D
    PROVE  SumOver(w, D) = w[e] + SumOver(w, D \ {e})
<1>1. PICK g \in [SUBSET D -> Int] : AddsUp(g, w, D) /\ SumOver(w, D) = g[D]
  BY SumsExist
<1>2. ASSUME NEW s \in SUBSET D PROVE SumOver(w, s) = g[s]
  <2>1. IsFiniteSet(s) /\ \A x \in s : w[x] \in Int
    BY FS_Subset
  <2>2. PICK h \in [SUBSET s -> Int] : AddsUp(h, w, s) /\ SumOver(w, s) = h[s]
    BY <2>1, SumsExist
  <2> QED BY <1>1, <2>2, SumsUnique
<1> DEFINE U == {s \in SUBSET D : \E x \in s : g[s] # w[x] + g[s \ {x}]}
<1>3. U = {}
  <2> SUFFICES ASSUME U # {} PROVE FALSE
    OBVIOUS
  <2>0. U \subseteq SUBSET D
    OBVIOUS
  <2>1. PICK s \in U : \A t \in U : t \subseteq s => t = s
    <3> HIDE DEF U
    <3> QED BY <2>0, LeastSubset
  <2>2. PICK x \in s : g[s] # w[x] + g[s \ {x}]
    OBVIOUS
  <2> DEFINE y == CHOOSE y \in s : TRUE
  <2>3. y \in s /\ g[s] = w[y] + g[s \ {y}]
    BY <1>1, <2>2 DEF AddsUp
  <2>4. x # y
    BY <2>2, <2>3
  <2> HIDE DEF y
  <2>5. s \ {x} \notin U /\ s \ {y} \notin U /\ s \ {x} \in SUBSET D /\ s \ {y} \in SUBSET D
    BY <2>1, <2>2, <2>3
  <2> DEFINE rest == (s \ {x}) \ {y}
  <2>6. rest = (s \ {y}) \ {x} /\ rest \in SUBSET D
    OBVIOUS
  <2>7. g[s \ {x}] = w[y] + g[rest]
    BY <2>3, <2>4, <2>5
  <2>8. g[s \ {y}] = w[x] + g[rest]
    BY <2>2, <2>4, <2>5, <2>6
  <2>9. w[x] \in Int /\ w[y] \in Int /\ g[rest] \in Int
    BY <2>2, <2>3, <2>6
  <2> HIDE DEF rest
  <2> QED BY <2>2, <2>3, <2>7, <2>8, <2>9
<1>4. g[D] = w[e] + g[D \ {e}]
  BY <1>3
<1> QED BY <1>2, <1>4

\* A sum may be taken over other names of the same elements.
LEMMA SumRename ==
    ASSUME NEW S, IsFiniteSet(S), NEW T, NEW f \in [S -> T],
           \A x, y \in S : f[x] = f[y] => x = y, \A z \in T : \E x \in S : f[x] = z,
           NEW v, NEW w, \A x \in S : v[x] \in Int /\ v[x] = w[f[x]]
    PROVE  SumOver(v, S) = SumOver(w, T)
<1> DEFINE Image(s) == {f[x] : x \in s}
           U == {s \in SUBSET S : SumOver(v, s) # SumOver(w, Image(s))}
<1>1. U = {}
  <2> SUFFICES ASSUME U # {} PROVE FALSE
    OBVIOUS
  <2>1. U \subseteq SUBSET S
    OBVIOUS
  <2>2. PICK s \in U : \A t \in U : t \subseteq s => t = s
    <3> HIDE DEF U
    <3> QED BY <2>1, LeastSubset
  <2>3. IsFiniteSet(s) /\ IsFiniteSet(Image(s))
    <3>1. IsFiniteSet(s)
      BY FS_Subset
    <3> DEFINE h == [x \in s |-> f[x]]
    <3>2. h \in Surjection(s, Image(s))
      BY DEF Surjection
    <3> QED BY <3>1, <3>2, FS_Surjection
  <2>4. s # {}
    <3>1. Image({}) = {}
      OBVIOUS
    <3> QED BY <3>1, SumEmpty
  <2>5. PICK x \in s : TRUE
    BY <2>4
  <2>6. s \ {x} \in SUBSET S /\ s \ {x} \notin U
    BY <2>2, <2>5
  <2>7. Image(s \ {x}) = Image(s) \ {f[x]}
    OBVIOUS
  <2>8. SumOver(v, s \ {x}) = SumOver(w, Image(s) \ {f[x]})
    BY <2>6, <2>7
  <2>9. SumOver(v, s) = v[x] + SumOver(v, s \ {x})
    BY <2>3, SumRemove
  <2>10. SumOver(w, Image(s)) = w[f[x]] + SumOver(w, Image(s) \ {f[x]})
    <3>1. f[x] \in Image(s) /\ \A z \in Image(s) : w[z] \in Int
      OBVIOUS
    <3> HIDE DEF Image
    <3> QED BY <2>3, <3>1, SumRemove
  <2>11. v[x] = w[f[x]]
    OBVIOUS
  <2> QED BY <2>8, <2>9, <2>10, <2>11
<1>2. Image(S) = T
  OBVIOUS
<1> QED BY <1>1, <1>2

\* A sequence with one element more, at place p.
Skips(short, long, p) == \A j \in DOMAIN short : short[j] = IF j < p THEN long[j] ELSE long[j + 1]

LEMMA SumSkips ==
    ASSUME NEW n \in Nat, NEW p \in 1..n + 1, NEW w, \A j \in 1..n + 1 : w[j] \in Int,
           NEW v, DOMAIN v = 1..n, Skips(v, w, p)
    PROVE  SumOver(w, 1..n + 1) = w[p] + SumOver(v, 1..n)
<1> DEFINE T == (1..n + 1) \ {p}
           f == [j \in 1..n |-> IF j < p THEN j ELSE j + 1]
<1>1. IsFiniteSet(1..n) /\ IsFiniteSet(1..n + 1)
  BY FS_Interval
<1>2. SumOver(w, 1..n + 1) = w[p] + SumOver(w, T)
  BY <1>1, SumRemove
<1>3. f \in [1..n -> T] /\ \A x, y \in 1..n : f[x] = f[y] => x = y
  OBVIOUS
<1>4. ASSUME NEW z \in T PROVE \E x \in 1..n : f[x] = z
  <2>1. CASE z < p
    <3>1. z \in 1..n /\ f[z] = z
      BY <2>1
    <3> QED BY <3>1
  <2>2. CASE z > p
    <3>1. z - 1 \in 1..n /\ f[z - 1] = z
      BY <2>2
    <3> QED BY <3>1
  <2> QED BY <2>1, <2>2
<1>5. \A x \in 1..n : v[x] \in Int /\ v[x] = w[f[x]]
  BY DEF Skips
<1>6. SumOver(v, 1..n) = SumOver(w, T)
  <2> DEFINE S == 1..n
  <2> HIDE DEF f, T
  <2>1. IsFiniteSet(S) /\ f \in [S -> T] /\ \A x, y \in S : f[x] = f[y] => x = y
    BY <1>1, <1>3
  <2>2. \A z \in T : \E x \in S : f[x] = z
    BY <1>4
  <2>3. \A x \in S : v[x] \in Int /\ v[x] = w[f[x]]
    BY <1>5
  <2> HIDE DEF S
  <2>4. SumOver(v, S) = SumOver(w, T)
    BY <2>1, <2>2, <2>3, SumRename
  <2> QED BY <2>4 DEF S
<1> QED BY <1>2, <1>6

LEMMA SumExtends ==
    ASSUME NEW n \in Nat, NEW w, \A j \in 1..n + 1 : w[j] \in Int
    PROVE  SumOver(w, 1..n + 1) = w[n + 1] + SumOver(w, 1..n)
<1>1. IsFiniteSet(1..n + 1) /\ (1..n + 1) \ {n + 1} = 1..n /\ n + 1 \in 1..n + 1
  BY FS_Interval
<1>2. SumOver(w, 1..n + 1) = w[n + 1] + SumOver(w, (1..n + 1) \ {n + 1})
  BY <1>1, SumRemove
<1> QED BY <1>1, <1>2

\* A cardinality is a sum of ones.
LEMMA CountIsSum ==
    ASSUME NEW D, IsFiniteSet(D), NEW w, \A x \in D : w[x] \in {0, 1}
    PROVE  SumOver(w, D) = Cardinality({x \in D : w[x] = 1})
<1> DEFINE Ones(s) == {x \in s : w[x] = 1}
           U == {s \in SUBSET D : SumOver(w, s) # Cardinality(Ones(s))}
<1> SUFFICES ASSUME U # {} PROVE FALSE
  OBVIOUS
<1>1. U \subseteq SUBSET D
  OBVIOUS
<1>2. PICK s \in U : \A t \in U : t \subseteq s => t = s
  <2> HIDE DEF U
  <2> QED BY <1>1, LeastSubset
<1>3. s # {}
  <2>1. Ones({}) = {}
    OBVIOUS
  <2> QED BY <2>1, SumEmpty, FS_EmptySet
<1>4. PICK x \in s : TRUE
  BY <1>3
<1>5. s \ {x} \in SUBSET D /\ s \ {x} \notin U
  BY <1>2, <1>4
<1>6. IsFiniteSet(s) /\ \A y \in s : w[y] \in Int
  BY FS_Subset
<1>7. SumOver(w, s) = w[x] + Cardinality(Ones(s \ {x}))
  BY <1>5, <1>6, SumRemove
<1>8. IsFiniteSet(Ones(s)) /\ Cardinality(Ones(s)) \in Nat
  BY <1>6, FS_Subset, FS_CardinalityType
<1>9. CASE w[x] = 1
  <2>1. x \in Ones(s) /\ Ones(s \ {x}) = Ones(s) \ {x}
    BY <1>9
  <2> HIDE DEF Ones
  <2>2. Cardinality(Ones(s \ {x})) = Cardinality(Ones(s)) - 1
    BY <1>8, <2>1, FS_RemoveElement
  <2> QED BY <1>7, <1>8, <1>9, <2>2 DEF U
<1>10. CASE w[x] = 0
  <2>1. Ones(s \ {x}) = Ones(s)
    BY <1>10
  <2> HIDE DEF Ones
  <2> QED BY <1>7, <1>8, <1>10, <2>1 DEF U
<1> QED BY <1>9, <1>10

------------------------------------------------------------------------------
(* The folds of parse_ints and SumOf, one element of the sequence at a time. *)

LEMMA MaxOfInterval ==
    ASSUME NEW n \in Nat, NEW s \in SUBSET (1..n), s # {}
    PROVE  Max(s) \in s /\ \A y \in s : Max(s) >= y
<1> DEFINE Bounded(k) == \A t \in SUBSET (1..k) : t # {} => \E x \in t : \A y \in t : x >= y
           P == {k \in Nat : Bounded(k)}
<1>1. 0 \in P
  <2>1. 1..0 = {}
    OBVIOUS
  <2> QED BY <2>1
<1>2. ASSUME NEW k \in Nat, k \in P PROVE k + 1 \in P
  <2> SUFFICES ASSUME NEW t \in SUBSET (1..k + 1), t # {}
      PROVE  \E x \in t : \A y \in t : x >= y
    OBVIOUS
  <2>1. CASE k + 1 \in t
    <3>1. \A y \in t : k + 1 >= y
      OBVIOUS
    <3> QED BY <2>1, <3>1
  <2>2. CASE k + 1 \notin t
    <3>1. t \in SUBSET (1..k)
      BY <2>2
    <3> QED BY <1>2, <3>1
  <2> QED BY <2>1, <2>2
<1> HIDE DEF P
<1>3. n \in P
  BY <1>1, <1>2, Induction
<1> QED BY <1>3 DEF P, Max

LEMMA LastOfPrefix ==
    ASSUME NEW k \in Nat \ {0}
    PROVE  Max(1..k) = k /\ (1..k) \ {k} = 1..k - 1
<1>1. k \in 1..k /\ k \in Nat
  OBVIOUS
<1> DEFINE s == 1..k
<1>2. s \in SUBSET (1..k) /\ s # {}
  BY <1>1
<1> HIDE DEF s
<1>3. Max(s) \in s /\ \A y \in s : Max(s) >= y
  BY <1>1, <1>2, MaxOfInterval
<1>4. Max(1..k) = k
  BY <1>1, <1>3 DEF s
<1> QED BY <1>4

LEMMA PrefixCount ==
    ASSUME NEW n \in Nat
    PROVE  IsFiniteSet(1..n) /\ Cardinality(1..n) = n
<1>1. IsFiniteSet(1..n)
  BY FS_Interval
<1>2. Cardinality(1..n) = IF 1 > n THEN 0 ELSE n - 1 + 1
  BY FS_Interval
<1> QED BY <1>1, <1>2

LEMMA Prefix ==
    ASSUME NEW n \in Nat, NEW k \in 1..n
    PROVE  1..k \in SUBSET (1..n) /\ 1..k # {}
<1>1. k \in 1..k
  OBVIOUS
<1> QED BY <1>1

\* parse_ints appends the numbers of the request, from the first word on.
LEMMA ParseSteps ==
    ASSUME NEW req \in Seq(Int)
    PROVE  \E h : /\ h[0] = << >>
                  /\ \A k \in 1..Len(req) :
                        h[k] = IF req[k] # Word THEN Append(h[k - 1], req[k]) ELSE h[k - 1]
                  /\ parse_ints(req) = h[Len(req)]
<1> DEFINE D == 1..Len(req)
           T == Seq(Int)
           base == << >>
           choice == [s \in SUBSET D |-> Max(s)]
           step == [x \in D |-> [t \in T |-> IF req[x] # Word THEN Append(t, req[x]) ELSE t]]
           Body(g) == [s \in SUBSET D |->
              IF s = {} THEN << >>
              ELSE IF req[Max(s)] # Word THEN Append(g[s \ {Max(s)}], req[Max(s)])
                                         ELSE g[s \ {Max(s)}]]
           iter == CHOOSE g : g = Body(g)
<1>1. DOMAIN req = D /\ Len(req) \in Nat /\ IsFiniteSet(D)
  BY FS_Interval
<1>2. \A s \in SUBSET D : s # {} => Max(s) \in s
  BY <1>1, MaxOfInterval
<1>3. PICK g \in [SUBSET D -> T] : Unfolds(g, D, base, step, choice)
  <2>1. base \in T /\ step \in [D -> [T -> T]]
    OBVIOUS
  <2>2. \A s \in SUBSET D : s # {} => choice[s] \in s
    BY <1>2
  <2> HIDE DEF step, choice, T, base, D
  <2> QED BY <1>1, <2>1, <2>2, FoldExists
<1>4. g = Body(g)
  <2> SUFFICES ASSUME NEW s \in SUBSET D PROVE g[s] = Body(g)[s]
    BY <1>3 DEF Unfolds
  <2>1. CASE s # {}
    <3>1. Max(s) \in D /\ s \ {Max(s)} \in SUBSET D
      BY <1>2, <2>1
    <3>2. g[s] = step[Max(s)][g[s \ {Max(s)}]]
      BY <1>3, <2>1 DEF Unfolds
    <3> QED BY <2>1, <3>1, <3>2
  <2>2. CASE s = {}
    BY <1>3, <2>2 DEF Unfolds
  <2> QED BY <2>1, <2>2
<1>5. iter = Body(iter)
  <2> HIDE DEF Body
  <2> QED BY <1>4
<1>6. parse_ints(req) = iter[D]
  BY <1>1 DEF parse_ints, FoldLeft, MapThenFoldSet, is_number
<1> HIDE DEF iter
<1> DEFINE h == [k \in 0..Len(req) |-> iter[1..k]]
<1>7. ASSUME NEW k \in 1..Len(req)
      PROVE  iter[1..k] = IF req[k] # Word THEN Append(iter[1..k - 1], req[k])
                                           ELSE iter[1..k - 1]
  <2>1. Max(1..k) = k /\ (1..k) \ {k} = 1..k - 1
    BY LastOfPrefix
  <2>2. 1..k \in SUBSET D /\ 1..k # {}
    BY <1>1, Prefix
  <2>3. k \in D
    OBVIOUS
  <2> HIDE DEF D
  <2> QED BY <1>5, <2>1, <2>2
<1>8. iter[1..0] = << >>
  <2>1. 1..0 = {} /\ {} \in SUBSET D
    OBVIOUS
  <2> HIDE DEF D
  <2> QED BY <1>5, <2>1
<1>9. /\ h[0] = << >>
      /\ \A k \in 1..Len(req) :
            h[k] = IF req[k] # Word THEN Append(h[k - 1], req[k]) ELSE h[k - 1]
      /\ parse_ints(req) = h[Len(req)]
  BY <1>1, <1>6, <1>7, <1>8
<1> HIDE DEF h
<1> QED BY <1>9

\* SumOf adds the numbers, from the first on.
LEMMA SumSteps ==
    ASSUME NEW ints \in Seq(Int)
    PROVE  \E h : /\ h[0] = 0
                  /\ \A k \in 1..Len(ints) : h[k] = (h[k - 1] + ints[k]) % 2^Width
                  /\ SumOf(ints) = h[Len(ints)]
<1> DEFINE D == 1..Len(ints)
           T == Int
           base == 0
           M == 2^Width
           choice == [s \in SUBSET D |-> Max(s)]
           step == [x \in D |-> [t \in T |-> (t + ints[x]) % M]]
           Body(g) == [s \in SUBSET D |->
              IF s = {} THEN 0 ELSE (g[s \ {Max(s)}] + ints[Max(s)]) % M]
           iter == CHOOSE g : g = Body(g)
<1>1. DOMAIN ints = D /\ Len(ints) \in Nat /\ IsFiniteSet(D) /\ M \in Nat \ {0}
  BY FS_Interval, ServiceAssumption
<1>2. \A s \in SUBSET D : s # {} => Max(s) \in s
  BY <1>1, MaxOfInterval
<1>3. PICK g \in [SUBSET D -> T] : Unfolds(g, D, base, step, choice)
  <2>1. base \in T /\ step \in [D -> [T -> T]]
    <3> HIDE DEF M
    <3> QED BY <1>1
  <2>2. \A s \in SUBSET D : s # {} => choice[s] \in s
    BY <1>2
  <2> HIDE DEF step, choice, T, base, D
  <2> QED BY <1>1, <2>1, <2>2, FoldExists
<1>4. g = Body(g)
  <2> HIDE DEF M
  <2> SUFFICES ASSUME NEW s \in SUBSET D PROVE g[s] = Body(g)[s]
    BY <1>3 DEF Unfolds
  <2>1. CASE s # {}
    <3>1. Max(s) \in D /\ s \ {Max(s)} \in SUBSET D
      BY <1>2, <2>1
    <3>2. g[s] = step[Max(s)][g[s \ {Max(s)}]]
      BY <1>3, <2>1 DEF Unfolds
    <3> QED BY <2>1, <3>1, <3>2
  <2>2. CASE s = {}
    BY <1>3, <2>2 DEF Unfolds
  <2> QED BY <2>1, <2>2
<1>5. iter = Body(iter)
  <2> HIDE DEF Body
  <2> QED BY <1>4
<1>6. SumOf(ints) = iter[D]
  BY <1>1 DEF SumOf, FoldLeft, MapThenFoldSet
<1> HIDE DEF iter, M
<1> DEFINE h == [k \in 0..Len(ints) |-> iter[1..k]]
<1>7. ASSUME NEW k \in 1..Len(ints)
      PROVE  iter[1..k] = (iter[1..k - 1] + ints[k]) % M
  <2>1. Max(1..k) = k /\ (1..k) \ {k} = 1..k - 1
    BY LastOfPrefix
  <2>2. 1..k \in SUBSET D /\ 1..k # {}
    BY <1>1, Prefix
  <2> HIDE DEF D
  <2> QED BY <1>5, <2>1, <2>2
<1>8. iter[1..0] = 0
  <2>1. 1..0 = {} /\ {} \in SUBSET D
    OBVIOUS
  <2> HIDE DEF D
  <2> QED BY <1>5, <2>1
<1>9. /\ h[0] = 0
      /\ \A k \in 1..Len(ints) : h[k] = (h[k - 1] + ints[k]) % M
      /\ SumOf(ints) = h[Len(ints)]
  BY <1>1, <1>6, <1>7, <1>8
<1> HIDE DEF h
<1> QED BY <1>9 DEF M

LEMMA Division ==
    ASSUME NEW M \in Nat \ {0}, NEW t \in Int
    PROVE  t % M \in 0..M - 1 /\ t = M * (t \div M) + (t % M) /\ t \div M \in Int
OBVIOUS

\* The sum that is sent is the sum of the numbers, up to a multiple of 2^Width,
\* and fits an unsigned.
LEMMA SumOfIsSum ==
    ASSUME NEW ints \in Seq(Int)
    PROVE  /\ SumOf(ints) \in 0..2^Width - 1
           /\ \E q \in Int : SumOver(ints, 1..Len(ints)) = SumOf(ints) + q * 2^Width
<1> DEFINE M == 2^Width
<1>1. M \in Nat \ {0} /\ Len(ints) \in Nat /\ \A k \in 1..Len(ints) : ints[k] \in Int
  BY ServiceAssumption
<1>2. PICK h : /\ h[0] = 0
               /\ \A k \in 1..Len(ints) : h[k] = (h[k - 1] + ints[k]) % M
               /\ SumOf(ints) = h[Len(ints)]
  BY SumSteps
<1> HIDE DEF M
<1> DEFINE Good(k) == /\ h[k] \in 0..M - 1
                      /\ \E q \in Int : SumOver(ints, 1..k) = h[k] + q * M
           P == {k \in Nat : k <= Len(ints) => Good(k)}
<1>3. 0 \in P
  <2>1. 1..0 = {}
    OBVIOUS
  <2>2. SumOver(ints, 1..0) = h[0] + 0 * M
    BY <1>1, <1>2, <2>1, SumEmpty
  <2>3. h[0] \in 0..M - 1
    BY <1>1, <1>2
  <2> QED BY <2>2, <2>3
<1>4. ASSUME NEW k \in Nat, k \in P PROVE k + 1 \in P
  <2> SUFFICES ASSUME k + 1 <= Len(ints) PROVE Good(k + 1)
    OBVIOUS
  <2>1. k <= Len(ints) /\ Good(k) /\ k + 1 \in 1..Len(ints) /\ (k + 1) - 1 = k
    <3>1. k <= Len(ints) /\ k + 1 \in 1..Len(ints) /\ (k + 1) - 1 = k
      BY <1>1
    <3> HIDE DEF Good
    <3> QED BY <1>4, <3>1
  <2>2. PICK q \in Int : SumOver(ints, 1..k) = h[k] + q * M
    BY <2>1
  <2> DEFINE x == ints[k + 1]
             t == h[k] + x
             r == t \div M
  <2>3. x \in Int /\ h[k] \in Int /\ t \in Int
    BY <1>1, <2>1
  <2>4. h[k + 1] = t % M
    BY <1>2, <2>1
  <2> HIDE DEF x
  <2>5. SumOver(ints, 1..k + 1) = x + SumOver(ints, 1..k)
    BY <1>1, <2>1, SumExtends DEF x
  <2> DEFINE tt == t
  <2>6. tt \in Int /\ tt = h[k] + x
    BY <2>3
  <2> HIDE DEF tt
  <2>7. tt % M \in 0..M - 1 /\ tt = M * (tt \div M) + (tt % M) /\ tt \div M \in Int
    BY <1>1, <2>6, Division
  <2> DEFINE d == tt \div M
             e == tt % M
  <2>8. d \in Int /\ e \in Int /\ tt = M * d + e
    BY <1>1, <2>7
  <2>9. h[k + 1] = e
    BY <2>4, <2>6
  <2> HIDE DEF d, e
  <2>10. SumOver(ints, 1..k + 1) = e + (q + d) * M
    BY <1>1, <2>2, <2>3, <2>5, <2>6, <2>8
  <2>11. q + d \in Int
    BY <2>8
  <2> QED BY <2>6, <2>7, <2>9, <2>10, <2>11 DEF e
<1> HIDE DEF P
<1>5. Len(ints) \in P
  BY <1>1, <1>3, <1>4, Induction
<1> QED BY <1>2, <1>5 DEF P, M

------------------------------------------------------------------------------
(* What parse_ints and sort keep: whatever weight the numbers are given, the *)
(* weight of the result is that of the argument.  A weight of 1 counts the   *)
(* numbers, the indicator of a number counts its occurrences, and the number *)
(* itself adds them up.                                                      *)

Weights(W, s) == [p \in 1..Len(s) |-> W[s[p]]]

Weight(W, s) == SumOver(Weights(W, s), 1..Len(s))

NumberWeights(W, req) == [i \in 1..Len(req) |-> IF req[i] = Word THEN 0 ELSE W[req[i]]]

LEMMA WeightAppend ==
    ASSUME NEW W \in [Int -> Int], NEW s \in Seq(Int), NEW x \in Int
    PROVE  Weight(W, Append(s, x)) = W[x] + Weight(W, s)
<1> DEFINE n == Len(s)
           t == Append(s, x)
           v == Weights(W, t)
           w == Weights(W, s)
<1>1. n \in Nat /\ Len(t) = n + 1 /\ t[n + 1] = x
  OBVIOUS
<1>2. \A p \in 1..n + 1 : v[p] \in Int
  <2>1. \A p \in 1..n + 1 : v[p] = W[t[p]]
    BY <1>1 DEF Weights
  <2>2. t \in Seq(Int)
    OBVIOUS
  <2> HIDE DEF t, v
  <2>3. \A p \in 1..n + 1 : t[p] \in Int
    BY <1>1, <2>2
  <2> QED BY <2>1, <2>3
<1>3. \A p \in 1..n : v[p] = w[p]
  BY DEF Weights
<1>4. v[n + 1] = W[x]
  BY <1>1 DEF Weights
<1> HIDE DEF v, w
<1>5. SumOver(v, 1..n + 1) = v[n + 1] + SumOver(v, 1..n)
  BY <1>1, <1>2, SumExtends
<1>6. SumOver(v, 1..n) = SumOver(w, 1..n)
  <2> DEFINE S == 1..n
  <2>1. IsFiniteSet(S) /\ \A p \in S : v[p] \in Int /\ v[p] = w[p]
    BY <1>1, <1>2, <1>3, FS_Interval
  <2> HIDE DEF S
  <2>2. SumOver(v, S) = SumOver(w, S)
    BY <2>1, SumEqual
  <2> QED BY <2>2 DEF S
<1>7. Weight(W, t) = SumOver(v, 1..n + 1) /\ Weight(W, s) = SumOver(w, 1..n)
  BY <1>1 DEF Weight, v, w
<1> QED BY <1>4, <1>5, <1>6, <1>7

LEMMA ParseKeeps ==
    ASSUME NEW req \in Seq(Int)
    PROVE  /\ parse_ints(req) \in Seq(Int)
           /\ \A p \in 1..Len(parse_ints(req)) :
                 /\ parse_ints(req)[p] # Word
                 /\ \E i \in 1..Len(req) : parse_ints(req)[p] = req[i]
           /\ \A W \in [Int -> Int] :
                 Weight(W, parse_ints(req)) = SumOver(NumberWeights(W, req), 1..Len(req))
<1> DEFINE n == Len(req)
<1>1. n \in Nat /\ \A k \in 1..n : req[k] \in Int
  OBVIOUS
<1>2. PICK h : /\ h[0] = << >>
               /\ \A k \in 1..n :
                     h[k] = IF req[k] # Word THEN Append(h[k - 1], req[k]) ELSE h[k - 1]
               /\ parse_ints(req) = h[n]
  BY ParseSteps
<1> HIDE DEF n
<1> DEFINE FromReq(k) == \A p \in 1..Len(h[k]) : /\ h[k][p] # Word
                                                 /\ \E i \in 1..k : h[k][p] = req[i]
           Weighs(k) == \A W \in [Int -> Int] :
                           Weight(W, h[k]) = SumOver(NumberWeights(W, req), 1..k)
           Good(k) == h[k] \in Seq(Int) /\ FromReq(k) /\ Weighs(k)
           P == {k \in Nat : k <= n => Good(k)}
<1>3. 0 \in P
  <2>1. 1..0 = {} /\ Len(<< >>) = 0
    OBVIOUS
  <2>2. Weighs(0)
    BY <1>2, <2>1, SumEmpty DEF Weight
  <2>3. h[0] \in Seq(Int) /\ FromReq(0)
    BY <1>2, <2>1
  <2> QED BY <2>2, <2>3
<1>4. ASSUME NEW k \in Nat, k \in P PROVE k + 1 \in P
  <2> SUFFICES ASSUME k + 1 <= n PROVE Good(k + 1)
    OBVIOUS
  <2>1. k <= n /\ k + 1 \in 1..n /\ (k + 1) - 1 = k
    BY <1>1
  <2>2. Good(k)
    <3> HIDE DEF Good
    <3> QED BY <1>4, <2>1
  <2> DEFINE x == req[k + 1]
  <2>3. x \in Int
    BY <1>1, <2>1
  <2>4. \A W \in [Int -> Int] :
          /\ NumberWeights(W, req)[k + 1] = (IF x = Word THEN 0 ELSE W[x])
          /\ SumOver(NumberWeights(W, req), 1..k + 1)
                = NumberWeights(W, req)[k + 1] + SumOver(NumberWeights(W, req), 1..k)
          /\ SumOver(NumberWeights(W, req), 1..k) \in Int
    <3> SUFFICES ASSUME NEW W \in [Int -> Int]
        PROVE  /\ NumberWeights(W, req)[k + 1] = (IF x = Word THEN 0 ELSE W[x])
               /\ SumOver(NumberWeights(W, req), 1..k + 1)
                     = NumberWeights(W, req)[k + 1] + SumOver(NumberWeights(W, req), 1..k)
               /\ SumOver(NumberWeights(W, req), 1..k) \in Int
      OBVIOUS
    <3> DEFINE v == NumberWeights(W, req)
    <3>1. v[k + 1] = (IF x = Word THEN 0 ELSE W[x])
      BY <2>1 DEF NumberWeights, n
    <3>2. \A j \in 1..k + 1 : v[j] \in Int
      <4> SUFFICES ASSUME NEW j \in 1..k + 1 PROVE v[j] \in Int
        OBVIOUS
      <4>1. j \in 1..n
        BY <1>1, <2>1
      <4>2. v[j] = (IF req[j] = Word THEN 0 ELSE W[req[j]])
        BY <4>1 DEF NumberWeights, n
      <4> HIDE DEF v
      <4> QED BY <1>1, <4>1, <4>2
    <3>3. IsFiniteSet(1..k) /\ \A j \in 1..k : v[j] \in Int
      BY <3>2, FS_Interval
    <3> HIDE DEF v
    <3>4. SumOver(v, 1..k + 1) = v[k + 1] + SumOver(v, 1..k)
      BY <3>2, SumExtends
    <3>5. SumOver(v, 1..k) \in Int
      <4> DEFINE S == 1..k
      <4>1. IsFiniteSet(S) /\ \A j \in S : v[j] \in Int
        BY <3>3
      <4> HIDE DEF S
      <4>2. SumOver(v, S) \in Int
        BY <4>1, SumType
      <4> QED BY <4>2 DEF S
    <3> QED BY <3>1, <3>4, <3>5 DEF v
  <2>5. CASE x = Word
    <3>1. h[k + 1] = h[k]
      BY <1>2, <2>1, <2>5
    <3>2. FromReq(k + 1)
      BY <2>2, <3>1
    <3>3. Weighs(k + 1)
      <4> HIDE DEF x
      <4> SUFFICES ASSUME NEW W \in [Int -> Int]
          PROVE  Weight(W, h[k + 1]) = SumOver(NumberWeights(W, req), 1..k + 1)
        OBVIOUS
      <4>1. Weight(W, h[k]) = SumOver(NumberWeights(W, req), 1..k)
        BY <2>2
      <4>2. NumberWeights(W, req)[k + 1] = 0
        BY <2>4, <2>5
      <4>3. /\ SumOver(NumberWeights(W, req), 1..k + 1)
                  = NumberWeights(W, req)[k + 1] + SumOver(NumberWeights(W, req), 1..k)
            /\ SumOver(NumberWeights(W, req), 1..k) \in Int
        BY <2>4
      <4> DEFINE a == SumOver(NumberWeights(W, req), 1..k + 1)
                 b == SumOver(NumberWeights(W, req), 1..k)
      <4>4. a = 0 + b /\ b \in Int
        BY <4>2, <4>3
      <4>5. Weight(W, h[k + 1]) = b
        BY <3>1, <4>1
      <4> HIDE DEF a, b
      <4>6. Weight(W, h[k + 1]) = a
        BY <4>4, <4>5
      <4> QED BY <4>6 DEF a
    <3> QED BY <2>2, <3>1, <3>2, <3>3
  <2>6. CASE x # Word
    <3> DEFINE s == h[k]
    <3>1. h[k + 1] = Append(s, x)
      BY <1>2, <2>1, <2>6
    <3>2. s \in Seq(Int)
      BY <2>2
    <3>3. h[k + 1] \in Seq(Int)
      BY <2>3, <3>1, <3>2
    <3>4. FromReq(k + 1)
      <4> SUFFICES ASSUME NEW p \in 1..Len(Append(s, x))
          PROVE  /\ Append(s, x)[p] # Word
                 /\ \E i \in 1..k + 1 : Append(s, x)[p] = req[i]
        BY <3>1
      <4>0. Len(s) \in Nat /\ Len(Append(s, x)) = Len(s) + 1
        BY <3>2
      <4>1. CASE p = Len(s) + 1
        <5>1. Append(s, x)[p] = x /\ k + 1 \in 1..k + 1
          BY <3>2, <4>1
        <5> QED BY <2>6, <5>1
      <4>2. CASE p \in 1..Len(s)
        <5>1. Append(s, x)[p] = s[p]
          BY <3>2, <4>2
        <5>2. s[p] # Word /\ \E i \in 1..k : s[p] = req[i]
          BY <2>2, <4>2
        <5> QED BY <5>1, <5>2
      <4> QED BY <4>0, <4>1, <4>2
    <3>5. Weighs(k + 1)
      <4> HIDE DEF x, s
      <4>1. \A W \in [Int -> Int] : Weight(W, Append(s, x)) = W[x] + Weight(W, s)
        BY <2>3, <3>2, WeightAppend
      <4> QED BY <2>2, <2>4, <2>6, <3>1, <4>1 DEF s
    <3> QED BY <3>3, <3>4, <3>5
  <2> QED BY <2>5, <2>6
<1> HIDE DEF P
<1>5. n \in P
  BY <1>1, <1>3, <1>4, Induction
<1>6. Good(n)
  BY <1>1, <1>5 DEF P
<1> QED BY <1>2, <1>6 DEF n

\* The ranks of the numbers are their places in the sorted sequence.
LEMMA RankIsPlace ==
    ASSUME NEW ints \in Seq(Int)
    PROVE  /\ \A i \in DOMAIN ints : Rank(ints, i) \in DOMAIN ints
           /\ \A i, k \in DOMAIN ints :
                 ints[i] < ints[k] \/ (ints[i] = ints[k] /\ i < k)
                    => Rank(ints, i) < Rank(ints, k)
           /\ \A p \in DOMAIN ints : \E i \in DOMAIN ints : Rank(ints, i) = p
<1> DEFINE D == DOMAIN ints
           Upto(i) == {j \in D : ints[j] < ints[i] \/ (ints[j] = ints[i] /\ j <= i)}
           rank == [i \in D |-> Rank(ints, i)]
<1>1. D = 1..Len(ints) /\ Len(ints) \in Nat /\ \A i \in D : ints[i] \in Int
  OBVIOUS
<1>2. IsFiniteSet(D) /\ Cardinality(D) = Len(ints)
  BY <1>1, PrefixCount
<1>3. ASSUME NEW i \in D
      PROVE  /\ Rank(ints, i) = Cardinality(Upto(i))
             /\ IsFiniteSet(Upto(i)) /\ Rank(ints, i) \in D
  <2>1. Rank(ints, i) = Cardinality(Upto(i))
    BY DEF Rank
  <2> DEFINE U == Upto(i)
  <2>2. U \in SUBSET D /\ i \in U
    BY <1>1
  <2> HIDE DEF U, D
  <2>3. IsFiniteSet(U) /\ Cardinality(U) <= Len(ints)
    BY <1>2, <2>2, FS_Subset
  <2>4. Cardinality(U) \in Nat /\ Cardinality(U) # 0
    BY <2>2, <2>3, FS_CardinalityType, FS_EmptySet
  <2>5. Cardinality(U) \in D
    BY <1>1, <2>3, <2>4
  <2> QED BY <2>1, <2>3, <2>5 DEF U
<1>4. ASSUME NEW i \in D, NEW k \in D, ints[i] < ints[k] \/ (ints[i] = ints[k] /\ i < k)
      PROVE  Rank(ints, i) < Rank(ints, k)
  <2> DEFINE U == Upto(i)
             V == Upto(k)
  <2>1. U \in SUBSET V /\ k \in V /\ k \notin U
    BY <1>1, <1>4
  <2>2. IsFiniteSet(U) /\ IsFiniteSet(V)
    BY <1>3
  <2> HIDE DEF U, V
  <2>3. Cardinality(U) <= Cardinality(V) /\ Cardinality(U) # Cardinality(V)
    BY <2>1, <2>2, FS_Subset
  <2>4. Cardinality(U) \in Nat /\ Cardinality(V) \in Nat
    BY <2>2, FS_CardinalityType
  <2>5. Cardinality(U) < Cardinality(V)
    BY <2>3, <2>4
  <2> QED BY <1>3, <2>5 DEF U, V
<1> HIDE DEF D, Upto
<1>5. rank \in Injection(D, D)
  <2>1. rank \in [D -> D]
    BY <1>3
  <2>2. ASSUME NEW i \in D, NEW k \in D, rank[i] = rank[k] PROVE i = k
    <3>1. Rank(ints, i) = Rank(ints, k)
      BY <2>2
    <3>4. Rank(ints, i) \in D /\ D \subseteq Int
      BY <1>1, <1>3
    <3>2. ints[i] \in Int /\ ints[k] \in Int /\ i \in Int /\ k \in Int
      BY <1>1
    <3>3. ~(Rank(ints, i) < Rank(ints, k)) /\ ~(Rank(ints, k) < Rank(ints, i))
      <4>1. Rank(ints, i) \in Int
        BY <3>4
      <4> QED BY <3>1, <4>1
    <3> QED BY <1>4, <3>2, <3>3
  <2> HIDE DEF rank
  <2> QED BY <2>1, <2>2 DEF Injection, IsInjective
<1>6. rank \in Surjection(D, D)
  <2> HIDE DEF rank
  <2> QED BY <1>2, <1>5, FS_Injection
<1>7. \A p \in D : \E i \in D : Rank(ints, i) = p
  BY <1>6 DEF Surjection
<1> QED BY <1>3, <1>4, <1>7 DEF D

\* sort puts the same numbers in ascending order.
LEMMA SortSorts ==
    ASSUME NEW ints \in Seq(Int)
    PROVE  /\ sort(ints) \in Seq(Int) /\ Len(sort(ints)) = Len(ints)
           /\ \A p, q \in 1..Len(ints) : p < q => sort(ints)[p] <= sort(ints)[q]
           /\ \A W \in [Int -> Int] : Weight(W, sort(ints)) = Weight(W, ints)
<1> DEFINE n == Len(ints)
           D == 1..n
           f == [p \in D |-> CHOOSE i \in D : Rank(ints, i) = p]
           s == [p \in D |-> ints[f[p]]]
<1>1. DOMAIN ints = D /\ n \in Nat /\ \A i \in D : ints[i] \in Int
  OBVIOUS
<1>2. sort(ints) = s
  BY <1>1 DEF sort
<1> HIDE DEF n
<1>3. \A p \in D : f[p] \in D /\ Rank(ints, f[p]) = p
  BY <1>1, RankIsPlace
<1>4. \A a, b \in D : ints[a] < ints[b] \/ (ints[a] = ints[b] /\ a < b)
                          => Rank(ints, a) < Rank(ints, b)
  <2>1. \A a, b \in DOMAIN ints : ints[a] < ints[b] \/ (ints[a] = ints[b] /\ a < b)
                          => Rank(ints, a) < Rank(ints, b)
    BY RankIsPlace
  <2> HIDE DEF D
  <2> QED BY <1>1, <2>1
<1>5. f \in [D -> D]
  BY <1>3
<1>6. ASSUME NEW i \in D PROVE f[Rank(ints, i)] = i
  <2> DEFINE k == f[Rank(ints, i)]
  <2>1. Rank(ints, i) \in D /\ k \in D /\ Rank(ints, k) = Rank(ints, i)
    BY <1>1, <1>3, RankIsPlace
  <2> HIDE DEF f, k
  <2>2. ints[i] \in Int /\ ints[k] \in Int /\ i \in Int /\ k \in Int /\ Rank(ints, i) \in Int
    BY <1>1, <2>1
  <2>3. ~(Rank(ints, i) < Rank(ints, k)) /\ ~(Rank(ints, k) < Rank(ints, i))
    BY <2>1, <2>2
  <2>4. k = i
    BY <1>4, <2>1, <2>2, <2>3
  <2> QED BY <2>4 DEF k
<1> HIDE DEF f
<1>7. s \in Seq(Int) /\ Len(s) = n
  BY <1>1, <1>3
<1>8. ASSUME NEW p \in D, NEW q \in D, p < q PROVE s[p] <= s[q]
  <2>1. s[p] = ints[f[p]] /\ s[q] = ints[f[q]]
    OBVIOUS
  <2>2. ints[f[p]] \in Int /\ ints[f[q]] \in Int
    BY <1>1, <1>3
  <2>3. ~(ints[f[q]] < ints[f[p]])
    <3>1. p \in Int /\ q \in Int /\ ~(q < p)
      BY <1>1, <1>8
    <3>2. f[p] \in D /\ f[q] \in D /\ Rank(ints, f[p]) = p /\ Rank(ints, f[q]) = q
      BY <1>3
    <3> QED BY <1>4, <3>1, <3>2
  <2> QED BY <2>1, <2>2, <2>3
<1>9. ASSUME NEW v, NEW w, \A p \in D : v[p] \in Int /\ v[p] = w[f[p]]
      PROVE  SumOver(v, D) = SumOver(w, D)
  <2>1. IsFiniteSet(D)
    BY <1>1, FS_Interval
  <2>2. \A p, q \in D : f[p] = f[q] => p = q
    BY <1>3
  <2>3. \A i \in D : \E p \in D : f[p] = i
    BY <1>1, <1>6, RankIsPlace
  <2> HIDE DEF D, s
  <2> QED BY <1>5, <1>9, <2>1, <2>2, <2>3, SumRename
<1>10. ASSUME NEW W \in [Int -> Int] PROVE Weight(W, s) = Weight(W, ints)
  <2> DEFINE v == Weights(W, s)
             w == Weights(W, ints)
  <2>1. ASSUME NEW p \in D PROVE v[p] \in Int /\ v[p] = w[f[p]]
    <3>1. v[p] = W[s[p]]
      BY <1>7 DEF Weights
    <3>2. w[f[p]] = W[ints[f[p]]]
      BY <1>1, <1>3 DEF Weights, n
    <3>3. s[p] = ints[f[p]] /\ ints[f[p]] \in Int
      BY <1>1, <1>3
    <3> HIDE DEF v, w, s
    <3> QED BY <3>1, <3>2, <3>3
  <2>2. SumOver(v, D) = SumOver(w, D)
    <3>1. \A p \in D : v[p] \in Int /\ v[p] = w[f[p]]
      BY <2>1
    <3> HIDE DEF v, w, D, s
    <3> QED BY <1>9, <3>1
  <2>3. Weight(W, s) = SumOver(v, D) /\ Weight(W, ints) = SumOver(w, D)
    BY <1>7 DEF Weight, n
  <2> QED BY <2>2, <2>3
<1> HIDE DEF s
<1>11. sort(ints) \in Seq(Int) /\ Len(sort(ints)) = Len(ints)
  BY <1>2, <1>7 DEF n
<1>12. \A p, q \in 1..Len(ints) : p < q => sort(ints)[p] <= sort(ints)[q]
  BY <1>2, <1>8 DEF n
<1> QED BY <1>2, <1>10, <1>11, <1>12

------------------------------------------------------------------------------
(* The three weights that IsAnswer is about.                                 *)

One == [x \in Int |-> 1]

Indicator(n) == [x \in Int |-> IF x = n THEN 1 ELSE 0]

Itself == [x \in Int |-> x]

Numbers(req) == {i \in DOMAIN req : req[i] # Word}

\* Elements that weigh nothing may be left out of a sum.
LEMMA SumZeros ==
    ASSUME NEW D, IsFiniteSet(D), NEW S \in SUBSET D,
           NEW w, \A x \in D : w[x] \in Int /\ (x \notin S => w[x] = 0)
    PROVE  SumOver(w, D) = SumOver(w, S)
<1> DEFINE U == {s \in SUBSET D : S \subseteq s /\ SumOver(w, s) # SumOver(w, S)}
<1>1. U = {}
  <2> SUFFICES ASSUME U # {} PROVE FALSE
    OBVIOUS
  <2>1. U \subseteq SUBSET D
    OBVIOUS
  <2>2. PICK s \in U : \A t \in U : t \subseteq s => t = s
    <3> HIDE DEF U
    <3> QED BY <2>1, LeastSubset
  <2>3. PICK x \in s : x \notin S
    OBVIOUS
  <2>4. s \ {x} \in SUBSET D /\ s \ {x} \notin U /\ S \subseteq s \ {x}
    BY <2>2, <2>3
  <2>5. IsFiniteSet(s) /\ IsFiniteSet(s \ {x}) /\ \A y \in s : w[y] \in Int
    BY <2>4, FS_Subset
  <2>6. SumOver(w, s) = w[x] + SumOver(w, s \ {x})
    BY <2>5, SumRemove
  <2>7. SumOver(w, s \ {x}) \in Int
    <3> DEFINE r == s \ {x}
    <3>1. IsFiniteSet(r) /\ \A y \in r : w[y] \in Int
      BY <2>5
    <3> HIDE DEF r
    <3>2. SumOver(w, r) \in Int
      BY <3>1, SumType
    <3> QED BY <3>2 DEF r
  <2>8. w[x] = 0
    BY <2>3
  <2>9. SumOver(w, s) = SumOver(w, s \ {x})
    BY <2>6, <2>7, <2>8
  <2> QED BY <2>4, <2>9
<1> QED BY <1>1

LEMMA WeightOfSequence ==
    ASSUME NEW s \in Seq(Int)
    PROVE  /\ Weight(One, s) = Len(s)
           /\ \A n \in Int : Weight(Indicator(n), s) = Occurrences(s, n)
           /\ Weight(Itself, s) = SumOver(s, 1..Len(s))
<1> DEFINE D == 1..Len(s)
<1>1. DOMAIN s = D /\ Len(s) \in Nat /\ \A p \in D : s[p] \in Int
  OBVIOUS
<1>2. IsFiniteSet(D) /\ Cardinality(D) = Len(s)
  BY <1>1, PrefixCount
<1>3. Weight(One, s) = Len(s)
  <2> DEFINE w == Weights(One, s)
  <2>1. \A p \in D : w[p] = 1
    BY <1>1 DEF Weights, One
  <2> HIDE DEF w, D
  <2>2. SumOver(w, D) = Cardinality({p \in D : w[p] = 1}) /\ {p \in D : w[p] = 1} = D
    BY <1>2, <2>1, CountIsSum
  <2> QED BY <1>2, <2>2 DEF Weight, w, D
<1>4. ASSUME NEW n \in Int PROVE Weight(Indicator(n), s) = Occurrences(s, n)
  <2> DEFINE w == Weights(Indicator(n), s)
  <2>1. \A p \in D : w[p] \in {0, 1} /\ (w[p] = 1 <=> s[p] = n)
    BY <1>1 DEF Weights, Indicator
  <2> HIDE DEF w, D
  <2>2. SumOver(w, D) = Cardinality({p \in D : w[p] = 1})
    BY <1>2, <2>1, CountIsSum
  <2>3. {p \in D : w[p] = 1} = {p \in DOMAIN s : s[p] = n}
    BY <1>1, <2>1
  <2> QED BY <2>2, <2>3 DEF Weight, w, D, Occurrences
<1>5. Weight(Itself, s) = SumOver(s, 1..Len(s))
  <2> DEFINE w == Weights(Itself, s)
  <2>1. \A p \in D : w[p] \in Int /\ w[p] = s[p]
    BY <1>1 DEF Weights, Itself
  <2> HIDE DEF w, D
  <2>2. SumOver(w, D) = SumOver(s, D)
    BY <1>2, <2>1, SumEqual
  <2> QED BY <2>2 DEF Weight, w, D
<1> QED BY <1>3, <1>4, <1>5

LEMMA WeightOfRequest ==
    ASSUME NEW req \in Seq(Int)
    PROVE  /\ SumOver(NumberWeights(One, req), 1..Len(req)) = Cardinality(Numbers(req))
           /\ \A n \in Int \ {Word} :
                 SumOver(NumberWeights(Indicator(n), req), 1..Len(req)) = Occurrences(req, n)
           /\ SumOver(NumberWeights(Itself, req), 1..Len(req)) = SumOver(req, Numbers(req))
<1> DEFINE D == 1..Len(req)
<1>1. DOMAIN req = D /\ Len(req) \in Nat /\ \A i \in D : req[i] \in Int
  OBVIOUS
<1>2. IsFiniteSet(D)
  BY <1>1, FS_Interval
<1>3. Numbers(req) \in SUBSET D /\ \A i \in D : i \in Numbers(req) <=> req[i] # Word
  BY <1>1 DEF Numbers
<1>4. SumOver(NumberWeights(One, req), D) = Cardinality(Numbers(req))
  <2> DEFINE w == NumberWeights(One, req)
  <2>1. \A i \in D : w[i] \in {0, 1} /\ (w[i] = 1 <=> req[i] # Word)
    BY <1>1 DEF NumberWeights, One
  <2> HIDE DEF w, D
  <2>2. SumOver(w, D) = Cardinality({i \in D : w[i] = 1})
    BY <1>2, <2>1, CountIsSum
  <2>3. {i \in D : w[i] = 1} = Numbers(req)
    BY <1>3, <2>1
  <2> QED BY <2>2, <2>3 DEF w
<1>5. ASSUME NEW n \in Int \ {Word}
      PROVE  SumOver(NumberWeights(Indicator(n), req), D) = Occurrences(req, n)
  <2> DEFINE w == NumberWeights(Indicator(n), req)
  <2>1. \A i \in D : w[i] \in {0, 1} /\ (w[i] = 1 <=> req[i] = n)
    BY <1>1 DEF NumberWeights, Indicator
  <2> HIDE DEF w, D
  <2>2. SumOver(w, D) = Cardinality({i \in D : w[i] = 1})
    BY <1>2, <2>1, CountIsSum
  <2>3. {i \in D : w[i] = 1} = {i \in DOMAIN req : req[i] = n}
    BY <1>1, <2>1
  <2> QED BY <2>2, <2>3 DEF w, Occurrences
<1>6. SumOver(NumberWeights(Itself, req), D) = SumOver(req, Numbers(req))
  <2> DEFINE w == NumberWeights(Itself, req)
             S == Numbers(req)
  <2>1. \A i \in D : w[i] \in Int /\ (i \notin S => w[i] = 0) /\ (i \in S => w[i] = req[i])
    BY <1>1, <1>3 DEF NumberWeights, Itself
  <2> HIDE DEF w, S, D
  <2>2. S \in SUBSET D /\ IsFiniteSet(S)
    BY <1>2, <1>3, FS_Subset DEF S
  <2>3. SumOver(w, D) = SumOver(w, S)
    BY <1>2, <2>1, <2>2, SumZeros
  <2>4. \A i \in S : w[i] \in Int /\ w[i] = req[i]
    BY <2>1, <2>2
  <2>5. SumOver(w, S) = SumOver(req, S)
    BY <2>2, <2>4, SumEqual
  <2> QED BY <2>3, <2>5 DEF w, S
<1> QED BY <1>4, <1>5, <1>6

\* service_t::create_response: the request comes back when it has no number;
\* otherwise every number comes back, as often as it was sent and in ascending
\* order, with the sum of the numbers, taken modulo 2^Width, as an unsigned.
THEOREM ResponseIsAnswer ==
    ASSUME NEW req \in Seq(Int)
    PROVE  IsAnswer(req, create_response(req))
<1> DEFINE parsed == parse_ints(req)
           ints == sort(parsed)
           M == 2^Width
<1>1. parsed \in Seq(Int)
  BY ParseKeeps
<1>2. ints \in Seq(Int) /\ Len(ints) = Len(parsed)
  BY <1>1, SortSorts
<1>3. \A W \in [Int -> Int] :
        Weight(W, ints) = SumOver(NumberWeights(W, req), 1..Len(req))
  <2>1. \A W \in [Int -> Int] :
          Weight(W, parsed) = SumOver(NumberWeights(W, req), 1..Len(req))
    BY ParseKeeps
  <2>2. \A W \in [Int -> Int] : Weight(W, ints) = Weight(W, parsed)
    BY <1>1, SortSorts
  <2> QED BY <2>1, <2>2
<1>4. One \in [Int -> Int] /\ Itself \in [Int -> Int] /\ \A n \in Int : Indicator(n) \in [Int -> Int]
  BY DEF One, Itself, Indicator
<1> HIDE DEF ints
<1>5. Len(ints) = Cardinality(Numbers(req))
  BY <1>2, <1>3, <1>4, WeightOfSequence, WeightOfRequest
<1>6. \A n \in Int \ {Word} : Occurrences(ints, n) = Occurrences(req, n)
  BY <1>2, <1>3, <1>4, WeightOfSequence, WeightOfRequest
<1>7. SumOver(ints, 1..Len(ints)) = SumOver(req, Numbers(req))
  BY <1>2, <1>3, <1>4, WeightOfSequence, WeightOfRequest
<1>8. \A i, j \in DOMAIN ints : i < j => ints[i] <= ints[j]
  <2>1. \A p, q \in 1..Len(parsed) : p < q => ints[p] <= ints[q]
    BY <1>1, SortSorts DEF ints
  <2> HIDE DEF parsed
  <2>2. DOMAIN ints = 1..Len(parsed)
    BY <1>2
  <2> QED BY <2>1, <2>2
<1>9. /\ SumOf(ints) \in 0..M - 1
      /\ (SumOver(req, Numbers(req)) - SumOf(ints)) % M = 0
  <2>1. /\ SumOf(ints) \in 0..M - 1
        /\ \E q \in Int : SumOver(ints, 1..Len(ints)) = SumOf(ints) + q * M
    BY <1>2, SumOfIsSum
  <2>2. M \in Nat \ {0}
    BY ServiceAssumption
  <2> HIDE DEF M
  <2>3. PICK q \in Int : SumOver(req, Numbers(req)) = SumOf(ints) + q * M
    BY <1>7, <2>1
  <2>4. SumOver(req, Numbers(req)) - SumOf(ints) = q * M
    BY <2>1, <2>2, <2>3
  <2>5. (q * M) % M = 0
    BY <2>2
  <2> QED BY <2>1, <2>4, <2>5
<1>10. Numbers(req) = {} <=> ints = << >>
  <2>1. IsFiniteSet(DOMAIN req) /\ Numbers(req) \in SUBSET DOMAIN req
    BY FS_Interval DEF Numbers
  <2>2. IsFiniteSet(Numbers(req))
    BY <2>1, FS_Subset
  <2>3. Numbers(req) = {} <=> Len(ints) = 0
    BY <1>5, <2>2, FS_EmptySet
  <2> QED BY <1>2, <2>3
<1>11. CASE Numbers(req) = {}
  <2>1. create_response(req) = [echo |-> req, ints |-> << >>, sum |-> 0]
    BY <1>10, <1>11 DEF create_response, ints
  <2> QED BY <1>11, <2>1 DEF IsAnswer, Numbers
<1>12. CASE Numbers(req) # {}
  <2>1. create_response(req) = [echo |-> << >>, ints |-> ints, sum |-> SumOf(ints)]
    BY <1>10, <1>12 DEF create_response, ints
  <2> DEFINE resp == create_response(req)
  <2>2. resp.ints = ints /\ resp.sum = SumOf(ints)
    BY <2>1
  <2>3. \A i \in Numbers(req) : Occurrences(resp.ints, req[i]) = Occurrences(req, req[i])
    <3>1. \A i \in Numbers(req) : req[i] \in Int \ {Word}
      BY DEF Numbers
    <3> HIDE DEF resp
    <3> QED BY <1>6, <2>2, <3>1
  <2>4. SumOver(req, Numbers(req)) = MapThenSumSet(LAMBDA i : req[i], Numbers(req))
    BY DEF SumOver
  <2> HIDE DEF resp
  <2>5. (MapThenSumSet(LAMBDA i : req[i], Numbers(req)) - resp.sum) % M = 0
    BY <1>9, <2>2, <2>4
  <2>6. IsAnswer(req, resp)
    BY <1>5, <1>8, <1>9, <1>12, <2>2, <2>3, <2>5 DEF IsAnswer, Numbers
  <2> QED BY <2>6 DEF resp
<1> QED BY <1>11, <1>12

------------------------------------------------------------------------------
(* Requests put together of several messages.                                *)

LEMMA Tenth ==
    ASSUME NEW k \in Nat, k >= 10
    PROVE  k \div 10 \in Nat /\ k \div 10 <= k - 1
OBVIOUS

LEMMA PowerOfTenType ==
    ASSUME NEW n \in Nat
    PROVE  PowerOfTen(n) \in Nat
<1> DEFINE Value(g, k) == IF k < 10 THEN 10 ELSE 10 * g[k \div 10]
           Body(g) == [k \in 0..n |-> Value(g, k)]
           power == CHOOSE g : g = Body(g)
           Fits(g, m) == \A k \in 0..m : g[k] = Value(g, k)
           P == {m \in Nat : \E g \in [0..m -> Nat] : Fits(g, m)}
<1>1. 0 \in P
  <2> DEFINE g == [k \in 0..0 |-> 10]
  <2>1. g \in [0..0 -> Nat] /\ Fits(g, 0)
    OBVIOUS
  <2> QED BY <2>1
<1>2. ASSUME NEW m \in Nat, m \in P PROVE m + 1 \in P
  <2>1. PICK g \in [0..m -> Nat] : Fits(g, m)
    BY <1>2
  <2> DEFINE h == [k \in 0..m + 1 |-> IF k = m + 1 THEN Value(g, k) ELSE g[k]]
  <2>2. ASSUME NEW k \in 0..m + 1, k >= 10 PROVE k \div 10 \in 0..m
    <3>1. k \div 10 \in Nat /\ k \div 10 <= k - 1
      BY <2>2, Tenth
    <3> QED BY <3>1
  <2>3. ASSUME NEW k \in 0..m + 1 PROVE Value(g, k) \in Nat
    <3>1. k >= 10 => g[k \div 10] \in Nat
      BY <2>2
    <3> QED BY <3>1
  <2> HIDE DEF Value
  <2>4. h \in [0..m + 1 -> Nat]
    BY <2>3
  <2>5. ASSUME NEW k \in 0..m + 1 PROVE h[k] = Value(g, k)
    BY <2>1
  <2>6. ASSUME NEW k \in 0..m + 1, k >= 10 PROVE h[k \div 10] = g[k \div 10]
    BY <2>2, <2>6
  <2> HIDE DEF h
  <2>7. Fits(h, m + 1)
    BY <2>5, <2>6 DEF Value
  <2> HIDE DEF Fits
  <2> QED BY <2>4, <2>7
<1> HIDE DEF P
<1>3. n \in P
  BY <1>1, <1>2, Induction
<1>4. PICK g \in [0..n -> Nat] : Fits(g, n)
  BY <1>3 DEF P
<1> HIDE DEF Value
<1>5. g = Body(g)
  BY <1>4
<1>6. power = Body(power)
  <2> HIDE DEF Body
  <2> QED BY <1>5
<1>7. PowerOfTen(n) = power[n]
  BY DEF PowerOfTen, Value
<1> HIDE DEF power
<1> DEFINE Q == {m \in Nat : \A k \in 0..n : k <= m => power[k] \in Nat}
<1>8. \A k \in 0..n : power[k] = IF k < 10 THEN 10 ELSE 10 * power[k \div 10]
  BY <1>6 DEF Value
<1>9. 0 \in Q
  BY <1>8
<1>10. ASSUME NEW m \in Nat, m \in Q PROVE m + 1 \in Q
  <2> SUFFICES ASSUME NEW k \in 0..n, k <= m + 1 PROVE power[k] \in Nat
    OBVIOUS
  <2>1. CASE k < 10
    BY <1>8, <2>1
  <2>2. CASE k >= 10
    <3>1. k \div 10 \in Nat /\ k \div 10 <= k - 1
      BY <2>2, Tenth
    <3> DEFINE j == k \div 10
    <3>2. j \in 0..n /\ j <= m
      BY <3>1
    <3> HIDE DEF j
    <3>3. power[j] \in Nat
      BY <1>10, <3>2
    <3>4. power[k] = 10 * power[j]
      BY <1>8, <2>2 DEF j
    <3> QED BY <3>3, <3>4
  <2> QED BY <2>1, <2>2
<1> HIDE DEF Q
<1>11. n \in Q
  BY <1>9, <1>10, Induction
<1> QED BY <1>7, <1>11 DEF Q

\* A request that is appended to a request is one too (server_main.cpp:126).
LEMMA JoinType ==
    ASSUME NEW a \in Seq(Nat \cup {Word}), NEW b \in Seq(Nat \cup {Word})
    PROVE  Join(a, b) \in Seq(Nat \cup {Word})
<1> DEFINE T == Nat \cup {Word}
           g == Glue(Last(a), Head(b))
<1>1. CASE a = << >> \/ b = << >>
  BY <1>1 DEF Join
<1>2. CASE a # << >> /\ b # << >>
  <2>1. Last(a) \in T /\ Head(b) \in T
    BY <1>2 DEF Last
  <2>2. g \in T
    <3>1. CASE Word \in {Last(a), Head(b)}
      BY <3>1 DEF Glue
    <3>2. CASE Word \notin {Last(a), Head(b)}
      <4> DEFINE x == Last(a)
                 y == Head(b)
      <4>1. x \in Nat /\ y \in Nat
        BY <2>1, <3>2
      <4> HIDE DEF x, y
      <4>2. PowerOfTen(y) \in Nat
        BY <4>1, PowerOfTenType
      <4>3. x * PowerOfTen(y) + y \in Nat
        BY <4>1, <4>2
      <4>4. g = x * PowerOfTen(y) + y
        BY <3>2 DEF Glue, x, y
      <4> QED BY <4>3, <4>4
    <3> QED BY <3>1, <3>2
  <2>3. Join(a, b) = Front(a) \o <<g>> \o Tail(b)
    BY <1>2 DEF Join
  <2> HIDE DEF g, T
  <2>4. a \in Seq(T) /\ b \in Seq(T)
    BY DEF T
  <2>5. Front(a) \in Seq(T)
    BY <1>2, <2>4 DEF Front
  <2>6. <<g>> \in Seq(T) /\ Tail(b) \in Seq(T)
    BY <1>2, <2>2, <2>4
  <2>7. Front(a) \o <<g>> \o Tail(b) \in Seq(T)
    BY <2>5, <2>6
  <2> QED BY <2>3, <2>7 DEF T
<1> QED BY <1>1, <1>2
==============================================================================
