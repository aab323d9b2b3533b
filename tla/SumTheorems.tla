------------------------------ MODULE SumTheorems ------------------------------
(***************************************************************************)
(* Facts about sums over finite sets, which cost allocation, the cost      *)
(* queries and the forecast compute: SumFunctionOnSet(f, S) of the module  *)
(* Functions, the recursive function behind it and how sums over parts,    *)
(* classes and images of a set add up; and about products, in which the    *)
(* detection of seasons measures.                                          *)
(*                                                                         *)
(* Induction is over a set of subsets and uses that the strict subset      *)
(* relation of a finite set is well-founded.                               *)
(***************************************************************************)
EXTENDS Integers, FiniteSets, FiniteSetsExt, Functions, FiniteSetTheorems, WellFoundedInduction,
        TLAPS

\* The element a fold takes first.
Chosen(s) == CHOOSE x \in s : TRUE

\* g sums f over every subset of S, one chosen element after the other.
Sums(g, f, S) == g = [s \in SUBSET S |-> IF s = {} THEN 0 ELSE f[Chosen(s)] + g[s \ {Chosen(s)}]]

----------------------------------------------------------------------------
(* Induction over the subsets of a finite set.                             *)

\* A set of subsets that holds each one whose strict subsets it holds, holds all.
LEMMA SubsetInduction ==
    ASSUME NEW S, IsFiniteSet(S), NEW P,
           \A T \in SUBSET S : (\A U \in SUBSET T : U # T => U \in P) => T \in P
    PROVE  \A T \in SUBSET S : T \in P
<1>1. PICK R : R = StrictSubsetOrdering(S)
  OBVIOUS
<1>2. IsWellFoundedOn(R, SUBSET S)
  BY <1>1, FS_StrictSubsetOrderingWellFounded, FS_FiniteSubsetsOfFinite
<1>3. \A U, T \in SUBSET S : U \subseteq T /\ U # T => <<U, T>> \in R
  BY <1>1 DEF StrictSubsetOrdering
<1> DEFINE Bad == {T \in SUBSET S : T \notin P}
<1>4. SUFFICES ASSUME Bad # {}
               PROVE  FALSE
  OBVIOUS
<1>5. PICK T \in Bad : \A U \in Bad : <<U, T>> \notin R
  <2> HIDE DEF Bad
  <2>1. Bad \subseteq SUBSET S
    BY DEF Bad
  <2> QED
    BY <1>2, <1>4, <2>1, WFMin
<1>6. ASSUME NEW U \in SUBSET T, U # T
      PROVE  U \in P
  <2>1. T \in SUBSET S /\ U \in SUBSET S
    BY <1>5
  <2>2. <<U, T>> \in R
    BY <1>3, <1>6, <2>1
  <2> QED
    BY <1>5, <2>1, <2>2
<1> QED
  BY <1>5, <1>6

\* A set of subsets that holds the empty set, and with each subset the ones with one
\* element more, holds all.
LEMMA ElementInduction ==
    ASSUME NEW S, IsFiniteSet(S), NEW P, {} \in P,
           \A T \in SUBSET S : \A x \in T : T \ {x} \in P => T \in P
    PROVE  S \in P
<1>1. ASSUME NEW T \in SUBSET S, \A U \in SUBSET T : U # T => U \in P
      PROVE  T \in P
  <2>1. CASE T = {}
    BY <2>1
  <2>2. CASE T # {}
    <3>1. PICK x \in T : TRUE
      BY <2>2
    <3>2. T \ {x} \in SUBSET T /\ T \ {x} # T
      BY <3>1
    <3> QED
      BY <1>1, <3>1, <3>2
  <2> QED
    BY <2>1, <2>2
<1>2. \A T \in SUBSET S : T \in P
  BY <1>1, SubsetInduction
<1> QED
  BY <1>2

----------------------------------------------------------------------------
(* The recursive function.                                                 *)

\* What SumFunctionOnSet stands for.
LEMMA SumUnfolds ==
    ASSUME NEW f, NEW S
    PROVE  SumFunctionOnSet(f, S) = (CHOOSE g : Sums(g, f, S))[S]
BY DEF SumFunctionOnSet, FoldFunctionOnSet, MapThenFoldSet, Sums, Chosen

\* Two functions that sum agree where both are defined.
LEMMA SumsAgree ==
    ASSUME NEW f, NEW S, NEW T, NEW g, NEW h, IsFiniteSet(S), T \subseteq S,
           Sums(g, f, S), Sums(h, f, T)
    PROVE  \A s \in SUBSET T : g[s] = h[s]
<1> DEFINE P == {s \in SUBSET T : g[s] = h[s]}
<1>1. IsFiniteSet(T)
  BY FS_Subset
<1>2. ASSUME NEW s \in SUBSET T, \A u \in SUBSET s : u # s => u \in P
      PROVE  s \in P
  <2>1. CASE s = {}
    BY <2>1 DEF Sums
  <2>2. CASE s # {}
    <3>1. PICK c : c = Chosen(s)
      OBVIOUS
    <3>2. c \in s
      BY <2>2, <3>1 DEF Chosen
    <3>3. s \ {c} \in SUBSET s /\ s \ {c} # s
      BY <3>2
    <3>4. g[s \ {c}] = h[s \ {c}]
      BY <1>2, <3>3
    <3>5. g[s] = f[c] + g[s \ {c}] /\ h[s] = f[c] + h[s \ {c}]
      BY <2>2, <3>1 DEF Sums
    <3> QED
      BY <3>4, <3>5
  <2> QED
    BY <2>1, <2>2
<1> HIDE DEF P
<1>3. \A s \in SUBSET T : s \in P
  BY <1>1, <1>2, SubsetInduction
<1> QED
  BY <1>3 DEF P

\* The recursive definition has a solution on a finite set.
LEMMA SumsExist ==
    ASSUME NEW f, NEW S, IsFiniteSet(S)
    PROVE  \E g : Sums(g, f, S)
<1> DEFINE P == {T \in SUBSET S : \E g : Sums(g, f, T)}
<1>1. ASSUME NEW T \in SUBSET S, \A U \in SUBSET T : U # T => U \in P
      PROVE  T \in P
  <2> DEFINE step(s) == IF s = {} THEN 0 ELSE f[Chosen(s)] + SumFunctionOnSet(f, s \ {Chosen(s)})
             G == [s \in SUBSET T |-> step(s)]
  <2>1. ASSUME NEW s \in SUBSET T, s # T
        PROVE  SumFunctionOnSet(f, s) = step(s)
    <3>1. PICK g : g = CHOOSE h : Sums(h, f, s)
      OBVIOUS
    <3>2. Sums(g, f, s) /\ SumFunctionOnSet(f, s) = g[s]
      BY <1>1, <2>1, <3>1, SumUnfolds
    <3>3. CASE s = {}
      BY <3>2, <3>3 DEF Sums
    <3>4. CASE s # {}
      <4>1. PICK c : c = Chosen(s)
        OBVIOUS
      <4>2. PICK u : u = s \ {c}
        OBVIOUS
      <4>3. c \in s /\ u \in SUBSET s /\ u \in SUBSET T /\ u # T /\ IsFiniteSet(s)
        BY <3>4, <4>1, <4>2, FS_Subset DEF Chosen
      <4>4. PICK h : h = CHOOSE k : Sums(k, f, u)
        OBVIOUS
      <4>5. Sums(h, f, u) /\ SumFunctionOnSet(f, u) = h[u]
        BY <1>1, <4>3, <4>4, SumUnfolds
      <4>6. g[u] = h[u]
        BY <3>2, <4>3, <4>5, SumsAgree
      <4>7. g[s] = f[c] + g[u]
        BY <3>2, <3>4, <4>1, <4>2 DEF Sums
      <4> QED
        BY <3>2, <3>4, <4>1, <4>2, <4>5, <4>6, <4>7
    <3> QED
      BY <3>3, <3>4
  <2>2. ASSUME NEW s \in SUBSET T
        PROVE  step(s) = IF s = {} THEN 0 ELSE f[Chosen(s)] + G[s \ {Chosen(s)}]
    <3>1. CASE s = {}
      BY <3>1
    <3>2. CASE s # {}
      <4>1. PICK c, u : c = Chosen(s) /\ u = s \ {c}
        OBVIOUS
      <4>2. c \in s /\ u \in SUBSET T /\ u # T
        BY <3>2, <4>1 DEF Chosen
      <4>3. SumFunctionOnSet(f, u) = step(u)
        BY <2>1, <4>2
      <4>4. G[u] = step(u)
        BY <4>2
      <4>5. step(s) = f[c] + SumFunctionOnSet(f, u)
        BY <3>2, <4>1
      <4> HIDE DEF step, G
      <4> QED
        BY <3>2, <4>1, <4>3, <4>4, <4>5
    <3> QED
      BY <3>1, <3>2
  <2>3. Sums(G, f, T)
    <3> HIDE DEF step
    <3>1. PICK H : H = G
      OBVIOUS
    <3>2. H = [s \in SUBSET T |-> IF s = {} THEN 0 ELSE f[Chosen(s)] + H[s \ {Chosen(s)}]]
      BY <2>2, <3>1
    <3> QED
      BY <3>1, <3>2 DEF Sums
  <2> QED
    BY <2>3
<1> HIDE DEF P
<1>2. S \in P
  BY <1>1, SubsetInduction
<1> QED
  BY <1>2 DEF P

----------------------------------------------------------------------------
(* Adding up.                                                              *)

\* The empty sum, and a sum by its chosen element.
LEMMA SumByChosen ==
    ASSUME NEW f, NEW S, IsFiniteSet(S)
    PROVE  /\ S = {} => SumFunctionOnSet(f, S) = 0
           /\ S # {} => /\ Chosen(S) \in S
                        /\ SumFunctionOnSet(f, S) =
                              f[Chosen(S)] + SumFunctionOnSet(f, S \ {Chosen(S)})
<1>1. PICK g : g = CHOOSE h : Sums(h, f, S)
  OBVIOUS
<1>2. Sums(g, f, S) /\ SumFunctionOnSet(f, S) = g[S]
  BY <1>1, SumsExist, SumUnfolds
<1>3. CASE S = {}
  BY <1>2, <1>3 DEF Sums
<1>4. CASE S # {}
  <2>1. PICK c, u : c = Chosen(S) /\ u = S \ {c}
    OBVIOUS
  <2>2. c \in S /\ u \subseteq S /\ IsFiniteSet(u)
    BY <1>4, <2>1, FS_Subset DEF Chosen
  <2>3. PICK h : h = CHOOSE k : Sums(k, f, u)
    OBVIOUS
  <2>4. Sums(h, f, u) /\ SumFunctionOnSet(f, u) = h[u]
    BY <2>2, <2>3, SumsExist, SumUnfolds
  <2>5. g[u] = h[u]
    BY <1>2, <2>2, <2>4, SumsAgree
  <2>6. g[S] = f[c] + g[u]
    BY <1>2, <1>4, <2>1 DEF Sums
  <2> QED
    BY <1>2, <1>4, <2>1, <2>2, <2>4, <2>5, <2>6
<1> QED
  BY <1>3, <1>4

\* A sum of integers is one.
LEMMA SumIsInt ==
    ASSUME NEW f, NEW S, IsFiniteSet(S), \A x \in S : f[x] \in Int
    PROVE  SumFunctionOnSet(f, S) \in Int
<1> DEFINE P == {T \in SUBSET S : SumFunctionOnSet(f, T) \in Int}
<1>1. ASSUME NEW T \in SUBSET S, \A U \in SUBSET T : U # T => U \in P
      PROVE  T \in P
  <2>1. IsFiniteSet(T)
    BY FS_Subset
  <2>2. CASE T = {}
    <3>1. SumFunctionOnSet(f, T) = 0
      BY <2>1, <2>2, SumByChosen
    <3> QED
      BY <3>1
  <2>3. CASE T # {}
    <3>1. PICK c, u, x : c = Chosen(T) /\ u = T \ {c} /\ x = SumFunctionOnSet(f, u)
      OBVIOUS
    <3>2. c \in T /\ SumFunctionOnSet(f, T) = f[c] + x
      BY <2>1, <2>3, <3>1, SumByChosen
    <3>3. u \in SUBSET T /\ u # T
      BY <3>1, <3>2
    <3>4. x \in Int /\ f[c] \in Int
      BY <1>1, <3>1, <3>2, <3>3
    <3> QED
      BY <3>2, <3>4
  <2> QED
    BY <2>2, <2>3
<1> HIDE DEF P
<1>2. S \in P
  BY <1>1, SubsetInduction
<1> QED
  BY <1>2 DEF P

\* A sum by any of its elements: the order does not matter.
LEMMA SumByElement ==
    ASSUME NEW f, NEW S, IsFiniteSet(S), \A x \in S : f[x] \in Int, NEW y \in S
    PROVE  SumFunctionOnSet(f, S) = f[y] + SumFunctionOnSet(f, S \ {y})
<1> DEFINE P == {T \in SUBSET S : \A x \in T :
                    SumFunctionOnSet(f, T) = f[x] + SumFunctionOnSet(f, T \ {x})}
<1>1. ASSUME NEW T \in SUBSET S, \A U \in SUBSET T : U # T => U \in P
      PROVE  T \in P
  <2> SUFFICES ASSUME NEW x \in T
               PROVE  SumFunctionOnSet(f, T) = f[x] + SumFunctionOnSet(f, T \ {x})
    OBVIOUS
  <2>1. PICK c, u, v, w : c = Chosen(T) /\ u = T \ {c} /\ v = T \ {x} /\ w = T \ {c, x}
    OBVIOUS
  <2>2. IsFiniteSet(T) /\ T # {}
    BY FS_Subset
  <2>3. c \in T /\ SumFunctionOnSet(f, T) = f[c] + SumFunctionOnSet(f, u)
    BY <2>1, <2>2, SumByChosen
  <2>4. CASE c = x
    BY <2>1, <2>3, <2>4
  <2>5. CASE c # x
    <3>1. u \in P /\ v \in P /\ x \in u /\ c \in v
      BY <1>1, <2>1, <2>3, <2>5
    <3>2. u \ {x} = w /\ v \ {c} = w
      BY <2>1
    <3>3. /\ SumFunctionOnSet(f, u) = f[x] + SumFunctionOnSet(f, w)
          /\ SumFunctionOnSet(f, v) = f[c] + SumFunctionOnSet(f, w)
      BY <3>1, <3>2
    <3>4. PICK a, b, z : a = f[x] /\ b = f[c] /\ z = SumFunctionOnSet(f, w)
      OBVIOUS
    <3>5. w \subseteq S /\ IsFiniteSet(w)
      BY <2>1, FS_Subset
    <3>6. z \in Int /\ a \in Int /\ b \in Int
      BY <2>3, <3>4, <3>5, SumIsInt
    <3>7. b + (a + z) = a + (b + z)
      BY <3>6
    <3> QED
      BY <2>1, <2>3, <3>3, <3>4, <3>7
  <2> QED
    BY <2>4, <2>5
<1> HIDE DEF P
<1>2. S \in P
  BY <1>1, SubsetInduction
<1> QED
  BY <1>2 DEF P

\* The sum over two sets without a common element.
LEMMA SumUnion ==
    ASSUME NEW f, NEW A, NEW B, IsFiniteSet(A), IsFiniteSet(B), A \cap B = {},
           \A x \in A \cup B : f[x] \in Int
    PROVE  SumFunctionOnSet(f, A \cup B) = SumFunctionOnSet(f, A) + SumFunctionOnSet(f, B)
<1> DEFINE P == {T \in SUBSET B :
                    SumFunctionOnSet(f, A \cup T) = SumFunctionOnSet(f, A) + SumFunctionOnSet(f, T)}
<1>1. {} \in P
  <2>1. SumFunctionOnSet(f, {}) = 0 /\ A \cup {} = A
    BY FS_EmptySet, SumByChosen
  <2>2. SumFunctionOnSet(f, A) \in Int
    BY SumIsInt
  <2> QED
    BY <2>1, <2>2
<1>2. ASSUME NEW T \in SUBSET B, NEW x \in T, T \ {x} \in P
      PROVE  T \in P
  <2>1. PICK u : u = T \ {x}
    OBVIOUS
  <2>2. IsFiniteSet(T) /\ IsFiniteSet(u) /\ IsFiniteSet(A \cup T)
    BY <2>1, FS_Subset, FS_Union
  <2>3. x \in A \cup T /\ (A \cup T) \ {x} = A \cup u
    BY <2>1
  <2>4. SumFunctionOnSet(f, A \cup T) = f[x] + SumFunctionOnSet(f, A \cup u)
    <3>1. \A z \in A \cup T : f[z] \in Int
      OBVIOUS
    <3> QED
      BY <2>2, <2>3, <3>1, SumByElement
  <2>5. SumFunctionOnSet(f, T) = f[x] + SumFunctionOnSet(f, u)
    BY <2>1, <2>2, SumByElement
  <2>6. SumFunctionOnSet(f, A \cup u) = SumFunctionOnSet(f, A) + SumFunctionOnSet(f, u)
    BY <1>2, <2>1
  <2>7. PICK a, b, z : a = SumFunctionOnSet(f, A) /\ b = SumFunctionOnSet(f, u) /\ z = f[x]
    OBVIOUS
  <2>8. a \in Int /\ b \in Int /\ z \in Int
    BY <2>1, <2>2, <2>7, SumIsInt
  <2>9. z + (a + b) = a + (z + b)
    BY <2>8
  <2> QED
    BY <2>4, <2>5, <2>6, <2>7, <2>9
<1> HIDE DEF P
<1>3. B \in P
  BY <1>1, <1>2, ElementInduction
<1> QED
  BY <1>3 DEF P

\* Functions that agree on a set have the same sum over it.
LEMMA SumEqual ==
    ASSUME NEW f, NEW g, NEW S, IsFiniteSet(S), \A x \in S : f[x] = g[x]
    PROVE  SumFunctionOnSet(f, S) = SumFunctionOnSet(g, S)
<1> DEFINE P == {T \in SUBSET S : SumFunctionOnSet(f, T) = SumFunctionOnSet(g, T)}
<1>1. ASSUME NEW T \in SUBSET S, \A U \in SUBSET T : U # T => U \in P
      PROVE  T \in P
  <2>1. IsFiniteSet(T)
    BY FS_Subset
  <2>2. CASE T = {}
    BY <2>1, <2>2, SumByChosen
  <2>3. CASE T # {}
    <3>1. PICK c, u : c = Chosen(T) /\ u = T \ {c}
      OBVIOUS
    <3>2. /\ c \in T
          /\ SumFunctionOnSet(f, T) = f[c] + SumFunctionOnSet(f, u)
          /\ SumFunctionOnSet(g, T) = g[c] + SumFunctionOnSet(g, u)
      BY <2>1, <2>3, <3>1, SumByChosen
    <3>3. SumFunctionOnSet(f, u) = SumFunctionOnSet(g, u) /\ f[c] = g[c]
      BY <1>1, <3>1, <3>2
    <3> QED
      BY <3>2, <3>3
  <2> QED
    BY <2>2, <2>3
<1> HIDE DEF P
<1>2. S \in P
  BY <1>1, SubsetInduction
<1> QED
  BY <1>2 DEF P

\* The sum of two functions is the sum of their sums.
LEMMA SumAdds ==
    ASSUME NEW f, NEW g, NEW h, NEW S, IsFiniteSet(S),
           \A x \in S : f[x] \in Int /\ g[x] \in Int /\ h[x] = f[x] + g[x]
    PROVE  SumFunctionOnSet(h, S) = SumFunctionOnSet(f, S) + SumFunctionOnSet(g, S)
<1> DEFINE P == {T \in SUBSET S :
                    SumFunctionOnSet(h, T) = SumFunctionOnSet(f, T) + SumFunctionOnSet(g, T)}
<1>1. {} \in P
  <2>1. /\ SumFunctionOnSet(h, {}) = 0 /\ SumFunctionOnSet(f, {}) = 0
        /\ SumFunctionOnSet(g, {}) = 0
    BY FS_EmptySet, SumByChosen
  <2> QED
    BY <2>1
<1>2. ASSUME NEW T \in SUBSET S, NEW x \in T, T \ {x} \in P
      PROVE  T \in P
  <2>1. PICK u : u = T \ {x}
    OBVIOUS
  <2>2. IsFiniteSet(T) /\ IsFiniteSet(u) /\ u \subseteq S
    BY <2>1, FS_Subset
  <2>3. \A z \in T : f[z] \in Int /\ g[z] \in Int /\ h[z] \in Int
    OBVIOUS
  <2>4. /\ SumFunctionOnSet(h, T) = h[x] + SumFunctionOnSet(h, u)
        /\ SumFunctionOnSet(f, T) = f[x] + SumFunctionOnSet(f, u)
        /\ SumFunctionOnSet(g, T) = g[x] + SumFunctionOnSet(g, u)
    BY <2>1, <2>2, <2>3, SumByElement
  <2>5. SumFunctionOnSet(h, u) = SumFunctionOnSet(f, u) + SumFunctionOnSet(g, u)
    BY <1>2, <2>1
  <2>6. PICK a, b, y, z : /\ a = SumFunctionOnSet(f, u) /\ b = SumFunctionOnSet(g, u)
                         /\ y = f[x] /\ z = g[x]
    OBVIOUS
  <2>7. a \in Int /\ b \in Int /\ y \in Int /\ z \in Int
    BY <2>1, <2>2, <2>3, <2>6, SumIsInt
  <2>8. (y + z) + (a + b) = (y + a) + (z + b)
    BY <2>7
  <2>9. h[x] = y + z
    BY <2>6
  <2> QED
    BY <2>4, <2>5, <2>6, <2>8, <2>9
<1> HIDE DEF P
<1>3. S \in P
  BY <1>1, <1>2, ElementInduction
<1> QED
  BY <1>3 DEF P

\* A common factor.
LEMMA SumScales ==
    ASSUME NEW f, NEW h, NEW k \in Int, NEW S, IsFiniteSet(S),
           \A x \in S : f[x] \in Int /\ h[x] = k * f[x]
    PROVE  SumFunctionOnSet(h, S) = k * SumFunctionOnSet(f, S)
<1> DEFINE P == {T \in SUBSET S : SumFunctionOnSet(h, T) = k * SumFunctionOnSet(f, T)}
<1>1. {} \in P
  <2>1. SumFunctionOnSet(h, {}) = 0 /\ SumFunctionOnSet(f, {}) = 0
    BY FS_EmptySet, SumByChosen
  <2> QED
    BY <2>1
<1>2. ASSUME NEW T \in SUBSET S, NEW x \in T, T \ {x} \in P
      PROVE  T \in P
  <2>1. PICK u : u = T \ {x}
    OBVIOUS
  <2>2. IsFiniteSet(T) /\ IsFiniteSet(u) /\ u \subseteq S
    BY <2>1, FS_Subset
  <2>3. \A z \in T : f[z] \in Int /\ h[z] \in Int
    OBVIOUS
  <2>4. /\ SumFunctionOnSet(h, T) = h[x] + SumFunctionOnSet(h, u)
        /\ SumFunctionOnSet(f, T) = f[x] + SumFunctionOnSet(f, u)
    BY <2>1, <2>2, <2>3, SumByElement
  <2>5. SumFunctionOnSet(h, u) = k * SumFunctionOnSet(f, u)
    BY <1>2, <2>1
  <2>6. PICK a, y : a = SumFunctionOnSet(f, u) /\ y = f[x]
    OBVIOUS
  <2>7. a \in Int /\ y \in Int /\ h[x] = k * y
    BY <2>1, <2>2, <2>3, <2>6, SumIsInt
  <2>8. k * y + k * a = k * (y + a)
    BY <2>7
  <2> QED
    BY <2>4, <2>5, <2>6, <2>7, <2>8
<1> HIDE DEF P
<1>3. S \in P
  BY <1>1, <1>2, ElementInduction
<1> QED
  BY <1>3 DEF P

\* The same for every element.
LEMMA SumOfConstant ==
    ASSUME NEW f, NEW k \in Int, NEW S, IsFiniteSet(S), \A x \in S : f[x] = k
    PROVE  SumFunctionOnSet(f, S) = Cardinality(S) * k
<1> DEFINE P == {T \in SUBSET S : SumFunctionOnSet(f, T) = Cardinality(T) * k}
<1>1. {} \in P
  <2>1. SumFunctionOnSet(f, {}) = 0 /\ Cardinality({}) = 0
    BY FS_EmptySet, SumByChosen
  <2> QED
    BY <2>1
<1>2. ASSUME NEW T \in SUBSET S, NEW x \in T, T \ {x} \in P
      PROVE  T \in P
  <2>1. PICK u : u = T \ {x}
    OBVIOUS
  <2>2. IsFiniteSet(T) /\ IsFiniteSet(u)
    BY <2>1, FS_Subset
  <2>3. SumFunctionOnSet(f, T) = k + SumFunctionOnSet(f, u)
    <3>1. \A z \in T : f[z] \in Int
      OBVIOUS
    <3> QED
      BY <2>1, <2>2, <3>1, SumByElement
  <2>4. Cardinality(T) = Cardinality(u) + 1 /\ Cardinality(u) \in Nat
    <3>1. Cardinality(u) = Cardinality(T) - 1
      BY <2>1, <2>2, FS_RemoveElement
    <3>2. Cardinality(T) \in Nat /\ Cardinality(u) \in Nat
      BY <2>2, FS_CardinalityType
    <3> QED
      BY <3>1, <3>2
  <2>5. SumFunctionOnSet(f, u) = Cardinality(u) * k
    BY <1>2, <2>1
  <2>6. PICK m : m = Cardinality(u)
    OBVIOUS
  <2>7. k + m * k = (m + 1) * k
    BY <2>4, <2>6
  <2> QED
    BY <2>3, <2>4, <2>5, <2>6, <2>7
<1> HIDE DEF P
<1>3. S \in P
  BY <1>1, <1>2, ElementInduction
<1> QED
  BY <1>3 DEF P

\* A set divided into classes: the sums over the classes add up to the sum over the set.
LEMMA SumOfClasses ==
    ASSUME NEW f, NEW S, IsFiniteSet(S), \A x \in S : f[x] \in Int,
           NEW l, NEW D, IsFiniteSet(D), \A x \in S : l[x] \in D,
           NEW k, \A d \in D : k[d] = {x \in S : l[x] = d},
           NEW c, \A d \in D : c[d] = SumFunctionOnSet(f, k[d])
    PROVE  SumFunctionOnSet(c, D) = SumFunctionOnSet(f, S)
<1> DEFINE In(E) == {x \in S : l[x] \in E}
           P == {E \in SUBSET D : SumFunctionOnSet(c, E) = SumFunctionOnSet(f, In(E))}
<1>0. \A d \in D : c[d] \in Int
  <2> SUFFICES ASSUME NEW d \in D
               PROVE  c[d] \in Int
    OBVIOUS
  <2>1. IsFiniteSet(k[d]) /\ \A x \in k[d] : f[x] \in Int
    BY FS_Subset
  <2> QED
    BY <2>1, SumIsInt
<1>1. {} \in P
  <2>1. In({}) = {}
    OBVIOUS
  <2>2. SumFunctionOnSet(c, {}) = 0 /\ SumFunctionOnSet(f, {}) = 0
    BY FS_EmptySet, SumByChosen
  <2> HIDE DEF In
  <2> QED
    BY <2>1, <2>2
<1>2. ASSUME NEW E \in SUBSET D, NEW d \in E, E \ {d} \in P
      PROVE  E \in P
  <2>1. PICK u, q, r : u = E \ {d} /\ q = k[d] /\ r = In(u)
    OBVIOUS
  <2>2. In(E) = r \cup q /\ r \cap q = {} /\ r \subseteq S /\ q \subseteq S
    BY <2>1
  <2>3. IsFiniteSet(E) /\ IsFiniteSet(r) /\ IsFiniteSet(q)
    BY <2>2, FS_Subset
  <2>4. SumFunctionOnSet(c, E) = c[d] + SumFunctionOnSet(c, u)
    <3>1. \A e \in E : c[e] \in Int
      BY <1>0
    <3> QED
      BY <2>1, <2>3, <3>1, SumByElement
  <2>5. SumFunctionOnSet(f, r \cup q) = SumFunctionOnSet(f, r) + SumFunctionOnSet(f, q)
    <3>1. \A x \in r \cup q : f[x] \in Int
      BY <2>2
    <3> QED
      BY <2>2, <2>3, <3>1, SumUnion
  <2>6. c[d] = SumFunctionOnSet(f, q) /\ SumFunctionOnSet(c, u) = SumFunctionOnSet(f, r)
    BY <1>2, <2>1
  <2>7. PICK a, b : a = SumFunctionOnSet(f, r) /\ b = SumFunctionOnSet(f, q)
    OBVIOUS
  <2>8. a \in Int /\ b \in Int
    BY <2>2, <2>3, <2>7, SumIsInt
  <2>9. b + a = a + b
    BY <2>8
  <2> HIDE DEF In
  <2> QED
    BY <2>2, <2>4, <2>5, <2>6, <2>7, <2>9
<1>3. D \in P
  <2> HIDE DEF P
  <2> QED
    BY <1>1, <1>2, ElementInduction
<1>4. In(D) = S
  OBVIOUS
<1> HIDE DEF In
<1> QED
  BY <1>3, <1>4

\* The image of a finite set is finite.
LEMMA ImageIsFinite ==
    ASSUME NEW h, NEW S, IsFiniteSet(S)
    PROVE  IsFiniteSet({h[x] : x \in S})
<1>1. PICK T, m : T = {h[x] : x \in S} /\ m = [x \in S |-> h[x]]
  OBVIOUS
<1>2. m \in Surjection(S, T)
  BY <1>1 DEF Surjection
<1> QED
  BY <1>1, <1>2, FS_Surjection

\* A one-to-one image: the sum over the image of a function of it.
LEMMA SumOfImage ==
    ASSUME NEW f, NEW g, NEW h, NEW S, IsFiniteSet(S),
           \A x \in S : g[x] \in Int /\ f[h[x]] = g[x],
           \A x, y \in S : h[x] = h[y] => x = y
    PROVE  SumFunctionOnSet(f, {h[x] : x \in S}) = SumFunctionOnSet(g, S)
<1> DEFINE Im(T) == {h[x] : x \in T}
           P == {T \in SUBSET S : SumFunctionOnSet(f, Im(T)) = SumFunctionOnSet(g, T)}
<1>1. {} \in P
  <2>1. Im({}) = {}
    OBVIOUS
  <2>2. SumFunctionOnSet(g, {}) = 0 /\ SumFunctionOnSet(f, {}) = 0
    BY FS_EmptySet, SumByChosen
  <2> HIDE DEF Im
  <2> QED
    BY <2>1, <2>2
<1>2. ASSUME NEW T \in SUBSET S, NEW x \in T, T \ {x} \in P
      PROVE  T \in P
  <2>1. PICK u, v, w : u = T \ {x} /\ v = Im(u) /\ w = Im(T)
    OBVIOUS
  <2>2. h[x] \in w /\ w \ {h[x]} = v
    BY <2>1
  <2>3. IsFiniteSet(T) /\ IsFiniteSet(w)
    BY <2>1, FS_Subset, ImageIsFinite
  <2>4. \A z \in w : f[z] \in Int
    BY <2>1
  <2>5. SumFunctionOnSet(f, w) = f[h[x]] + SumFunctionOnSet(f, v)
    BY <2>2, <2>3, <2>4, SumByElement
  <2>6. SumFunctionOnSet(g, T) = g[x] + SumFunctionOnSet(g, u)
    BY <2>1, <2>3, SumByElement
  <2>7. SumFunctionOnSet(f, v) = SumFunctionOnSet(g, u) /\ f[h[x]] = g[x]
    BY <1>2, <2>1
  <2> QED
    BY <2>1, <2>5, <2>6, <2>7
<1>3. S \in P
  <2> HIDE DEF P
  <2> QED
    BY <1>1, <1>2, ElementInduction
<1> QED
  BY <1>3

\* Sums of natural numbers: none is negative, a subset has at most as much, and only
\* zeros add up to zero.
LEMMA SumOfNat ==
    ASSUME NEW f, NEW S, IsFiniteSet(S), \A x \in S : f[x] \in Nat
    PROVE  SumFunctionOnSet(f, S) \in Nat
<1> DEFINE P == {T \in SUBSET S : SumFunctionOnSet(f, T) \in Nat}
<1>1. {} \in P
  <2>1. SumFunctionOnSet(f, {}) = 0
    BY FS_EmptySet, SumByChosen
  <2> QED
    BY <2>1
<1>2. ASSUME NEW T \in SUBSET S, NEW x \in T, T \ {x} \in P
      PROVE  T \in P
  <2>1. PICK a, y : a = SumFunctionOnSet(f, T \ {x}) /\ y = f[x]
    OBVIOUS
  <2>2. IsFiniteSet(T) /\ \A z \in T : f[z] \in Int
    BY FS_Subset
  <2>3. SumFunctionOnSet(f, T) = y + a
    BY <2>1, <2>2, SumByElement
  <2>4. y \in Nat /\ a \in Nat
    BY <1>2, <2>1
  <2> QED
    BY <2>3, <2>4
<1> HIDE DEF P
<1>3. S \in P
  BY <1>1, <1>2, ElementInduction
<1> QED
  BY <1>3 DEF P

\* A part of a set of natural numbers sums up to no more than the whole.
LEMMA SumOfPart ==
    ASSUME NEW f, NEW S, IsFiniteSet(S), \A x \in S : f[x] \in Nat, NEW T, T \subseteq S
    PROVE  SumFunctionOnSet(f, T) <= SumFunctionOnSet(f, S)
<1>1. PICK r : r = S \ T
  OBVIOUS
<1>2. IsFiniteSet(r) /\ IsFiniteSet(T) /\ T \cap r = {} /\ T \cup r = S
  BY <1>1, FS_Subset
<1>3. SumFunctionOnSet(f, S) = SumFunctionOnSet(f, T) + SumFunctionOnSet(f, r)
  BY <1>2, SumUnion
<1>4. SumFunctionOnSet(f, T) \in Nat /\ SumFunctionOnSet(f, r) \in Nat
  <2>1. (\A x \in T : f[x] \in Nat) /\ (\A x \in r : f[x] \in Nat)
    BY <1>2
  <2> QED
    BY <1>2, <2>1, SumOfNat
<1>5. PICK a, b : a = SumFunctionOnSet(f, T) /\ b = SumFunctionOnSet(f, r)
  OBVIOUS
<1> QED
  BY <1>3, <1>4, <1>5

\* No element of a sum is more than the sum.
LEMMA SumOfElement ==
    ASSUME NEW f, NEW S, IsFiniteSet(S), \A x \in S : f[x] \in Nat, NEW y \in S
    PROVE  f[y] <= SumFunctionOnSet(f, S) /\ SumFunctionOnSet(f, S) \in Nat /\ f[y] \in Nat
<1>1. \A x \in S : f[x] \in Int
  OBVIOUS
<1>2. SumFunctionOnSet(f, S) = f[y] + SumFunctionOnSet(f, S \ {y})
  BY <1>1, SumByElement
<1>3. SumFunctionOnSet(f, S \ {y}) \in Nat
  <2>1. IsFiniteSet(S \ {y})
    BY FS_Subset
  <2> QED
    BY <2>1, SumOfNat
<1> QED
  BY <1>2, <1>3

\* Natural numbers that sum up to zero are all zero.
LEMMA SumIsZero ==
    ASSUME NEW f, NEW S, IsFiniteSet(S), \A x \in S : f[x] \in Nat,
           SumFunctionOnSet(f, S) = 0, NEW y \in S
    PROVE  f[y] = 0
<1>1. PICK a, b : a = f[y] /\ b = SumFunctionOnSet(f, S \ {y})
  OBVIOUS
<1>2. a + b = 0
  <2>1. \A x \in S : f[x] \in Int
    OBVIOUS
  <2> QED
    BY <1>1, <2>1, SumByElement
<1>3. a \in Nat /\ b \in Nat
  <2>1. IsFiniteSet(S \ {y})
    BY FS_Subset
  <2> QED
    BY <1>1, <2>1, SumOfNat
<1> QED
  BY <1>1, <1>2, <1>3

\* A sum of zeros is zero.
LEMMA SumOfZeros ==
    ASSUME NEW f, NEW S, IsFiniteSet(S), \A x \in S : f[x] = 0
    PROVE  SumFunctionOnSet(f, S) = 0
<1>1. SumFunctionOnSet(f, S) = Cardinality(S) * 0
  BY SumOfConstant
<1>2. Cardinality(S) \in Nat
  BY FS_CardinalityType
<1> QED
  BY <1>1, <1>2

----------------------------------------------------------------------------
(* Sums as the models write them.                                          *)

\* A sum over rows with a cost, as a sum of a function.
LEMMA RowSum ==
    ASSUME NEW S, NEW f, \A x \in S : f[x] = x.cost
    PROVE  MapThenSumSet(LAMBDA r : r.cost, S) = SumFunctionOnSet(f, S)
<1> DEFINE A(x) == x.cost
<1>1. ASSUME NEW s \in SUBSET S, s # {}
      PROVE  A(Chosen(s)) = f[Chosen(s)]
  BY <1>1 DEF Chosen
<1>2. ASSUME NEW g
      PROVE  Sums(g, f, S) <=>
                g = [s \in SUBSET S |->
                       IF s = {} THEN 0 ELSE A(Chosen(s)) + g[s \ {Chosen(s)}]]
  <2> HIDE DEF A
  <2> QED
    BY <1>1 DEF Sums
<1>3. (CHOOSE g : Sums(g, f, S)) =
         CHOOSE g : g = [s \in SUBSET S |->
                           IF s = {} THEN 0 ELSE A(Chosen(s)) + g[s \ {Chosen(s)}]]
  BY <1>2
<1>4. MapThenSumSet(LAMBDA r : r.cost, S) = (CHOOSE g : g = [s \in SUBSET S |->
                     IF s = {} THEN 0 ELSE A(Chosen(s)) + g[s \ {Chosen(s)}]])[S]
  BY DEF MapThenSumSet, MapThenFoldSet, Chosen
<1> QED
  BY <1>3, <1>4, SumUnfolds

\* A sum of a function's values, written with MapThenSumSet.
LEMMA ValueSum ==
    ASSUME NEW S, NEW f
    PROVE  MapThenSumSet(LAMBDA x : f[x], S) = SumFunctionOnSet(f, S)
<1>1. MapThenSumSet(LAMBDA x : f[x], S) =
         (CHOOSE g : g = [s \in SUBSET S |->
                     IF s = {} THEN 0 ELSE f[Chosen(s)] + g[s \ {Chosen(s)}]])[S]
  BY DEF MapThenSumSet, MapThenFoldSet, Chosen
<1> QED
  BY <1>1, SumUnfolds DEF Sums
----------------------------------------------------------------------------
(* Products: the same fold with another operator.                          *)

\* The product over a finite set.
ProductOnSet(f, S) == FoldFunctionOnSet(LAMBDA a, b : a * b, 1, f, S)

\* g multiplies f over every subset of S, one chosen element after the other.
Multiplies(g, f, S) ==
    g = [s \in SUBSET S |-> IF s = {} THEN 1 ELSE f[Chosen(s)] * g[s \ {Chosen(s)}]]

\* What ProductOnSet stands for.
LEMMA ProductUnfolds ==
    ASSUME NEW f, NEW S
    PROVE  ProductOnSet(f, S) = (CHOOSE g : Multiplies(g, f, S))[S]
BY DEF ProductOnSet, FoldFunctionOnSet, MapThenFoldSet, Multiplies, Chosen

\* Two functions that multiply agree where both are defined.
LEMMA ProductsAgree ==
    ASSUME NEW f, NEW S, NEW T, NEW g, NEW h, IsFiniteSet(S), T \subseteq S,
           Multiplies(g, f, S), Multiplies(h, f, T)
    PROVE  \A s \in SUBSET T : g[s] = h[s]
<1> DEFINE P == {s \in SUBSET T : g[s] = h[s]}
<1>1. IsFiniteSet(T)
  BY FS_Subset
<1>2. ASSUME NEW s \in SUBSET T, \A u \in SUBSET s : u # s => u \in P
      PROVE  s \in P
  <2>1. CASE s = {}
    BY <2>1 DEF Multiplies
  <2>2. CASE s # {}
    <3>1. PICK c : c = Chosen(s)
      OBVIOUS
    <3>2. c \in s
      BY <2>2, <3>1 DEF Chosen
    <3>3. s \ {c} \in SUBSET s /\ s \ {c} # s
      BY <3>2
    <3>4. g[s \ {c}] = h[s \ {c}]
      BY <1>2, <3>3
    <3>5. g[s] = f[c] * g[s \ {c}] /\ h[s] = f[c] * h[s \ {c}]
      BY <2>2, <3>1 DEF Multiplies
    <3> QED
      BY <3>4, <3>5
  <2> QED
    BY <2>1, <2>2
<1> HIDE DEF P
<1>3. \A s \in SUBSET T : s \in P
  BY <1>1, <1>2, SubsetInduction
<1> QED
  BY <1>3 DEF P

\* The recursive definition has a solution on a finite set.
LEMMA ProductsExist ==
    ASSUME NEW f, NEW S, IsFiniteSet(S)
    PROVE  \E g : Multiplies(g, f, S)
<1> DEFINE P == {T \in SUBSET S : \E g : Multiplies(g, f, T)}
<1>1. ASSUME NEW T \in SUBSET S, \A U \in SUBSET T : U # T => U \in P
      PROVE  T \in P
  <2> DEFINE step(s) == IF s = {} THEN 1 ELSE f[Chosen(s)] * ProductOnSet(f, s \ {Chosen(s)})
             G == [s \in SUBSET T |-> step(s)]
  <2>1. ASSUME NEW s \in SUBSET T, s # T
        PROVE  ProductOnSet(f, s) = step(s)
    <3>1. PICK g : g = CHOOSE h : Multiplies(h, f, s)
      OBVIOUS
    <3>2. Multiplies(g, f, s) /\ ProductOnSet(f, s) = g[s]
      BY <1>1, <2>1, <3>1, ProductUnfolds
    <3>3. CASE s = {}
      BY <3>2, <3>3 DEF Multiplies
    <3>4. CASE s # {}
      <4>1. PICK c : c = Chosen(s)
        OBVIOUS
      <4>2. PICK u : u = s \ {c}
        OBVIOUS
      <4>3. c \in s /\ u \in SUBSET s /\ u \in SUBSET T /\ u # T /\ IsFiniteSet(s)
        BY <3>4, <4>1, <4>2, FS_Subset DEF Chosen
      <4>4. PICK h : h = CHOOSE k : Multiplies(k, f, u)
        OBVIOUS
      <4>5. Multiplies(h, f, u) /\ ProductOnSet(f, u) = h[u]
        BY <1>1, <4>3, <4>4, ProductUnfolds
      <4>6. g[u] = h[u]
        BY <3>2, <4>3, <4>5, ProductsAgree
      <4>7. g[s] = f[c] * g[u]
        BY <3>2, <3>4, <4>1, <4>2 DEF Multiplies
      <4> QED
        BY <3>2, <3>4, <4>1, <4>2, <4>5, <4>6, <4>7
    <3> QED
      BY <3>3, <3>4
  <2>2. ASSUME NEW s \in SUBSET T
        PROVE  step(s) = IF s = {} THEN 1 ELSE f[Chosen(s)] * G[s \ {Chosen(s)}]
    <3>1. CASE s = {}
      BY <3>1
    <3>2. CASE s # {}
      <4>1. PICK c, u : c = Chosen(s) /\ u = s \ {c}
        OBVIOUS
      <4>2. c \in s /\ u \in SUBSET T /\ u # T
        BY <3>2, <4>1 DEF Chosen
      <4>3. ProductOnSet(f, u) = step(u)
        BY <2>1, <4>2
      <4>4. G[u] = step(u)
        BY <4>2
      <4>5. step(s) = f[c] * ProductOnSet(f, u)
        BY <3>2, <4>1
      <4> HIDE DEF step, G
      <4> QED
        BY <3>2, <4>1, <4>3, <4>4, <4>5
    <3> QED
      BY <3>1, <3>2
  <2>3. Multiplies(G, f, T)
    <3> HIDE DEF step
    <3>1. PICK H : H = G
      OBVIOUS
    <3>2. H = [s \in SUBSET T |-> IF s = {} THEN 1 ELSE f[Chosen(s)] * H[s \ {Chosen(s)}]]
      BY <2>2, <3>1
    <3> QED
      BY <3>1, <3>2 DEF Multiplies
  <2> QED
    BY <2>3
<1> HIDE DEF P
<1>2. S \in P
  BY <1>1, SubsetInduction
<1> QED
  BY <1>2 DEF P

\* The empty product, and a product by its chosen element.
LEMMA ProductByChosen ==
    ASSUME NEW f, NEW S, IsFiniteSet(S)
    PROVE  /\ S = {} => ProductOnSet(f, S) = 1
           /\ S # {} => /\ Chosen(S) \in S
                        /\ ProductOnSet(f, S) = f[Chosen(S)] * ProductOnSet(f, S \ {Chosen(S)})
<1>1. PICK g : g = CHOOSE h : Multiplies(h, f, S)
  OBVIOUS
<1>2. Multiplies(g, f, S) /\ ProductOnSet(f, S) = g[S]
  BY <1>1, ProductsExist, ProductUnfolds
<1>3. CASE S = {}
  BY <1>2, <1>3 DEF Multiplies
<1>4. CASE S # {}
  <2>1. PICK c, u : c = Chosen(S) /\ u = S \ {c}
    OBVIOUS
  <2>2. c \in S /\ u \subseteq S /\ IsFiniteSet(u)
    BY <1>4, <2>1, FS_Subset DEF Chosen
  <2>3. PICK h : h = CHOOSE k : Multiplies(k, f, u)
    OBVIOUS
  <2>4. Multiplies(h, f, u) /\ ProductOnSet(f, u) = h[u]
    BY <2>2, <2>3, ProductsExist, ProductUnfolds
  <2>5. g[u] = h[u]
    BY <1>2, <2>2, <2>4, ProductsAgree
  <2>6. g[S] = f[c] * g[u]
    BY <1>2, <1>4, <2>1 DEF Multiplies
  <2> QED
    BY <1>2, <1>4, <2>1, <2>2, <2>4, <2>5, <2>6
<1> QED
  BY <1>3, <1>4

\* A product of positive numbers is positive.
LEMMA ProductIsPositive ==
    ASSUME NEW f, NEW S, IsFiniteSet(S), \A x \in S : f[x] \in Nat \ {0}
    PROVE  ProductOnSet(f, S) \in Nat \ {0}
<1> DEFINE P == {T \in SUBSET S : ProductOnSet(f, T) \in Nat \ {0}}
<1>1. ASSUME NEW T \in SUBSET S, \A U \in SUBSET T : U # T => U \in P
      PROVE  T \in P
  <2>1. IsFiniteSet(T)
    BY FS_Subset
  <2>2. CASE T = {}
    <3>1. ProductOnSet(f, T) = 1
      BY <2>1, <2>2, ProductByChosen
    <3> QED
      BY <3>1
  <2>3. CASE T # {}
    <3>1. PICK c, u, x, y : c = Chosen(T) /\ u = T \ {c} /\ x = ProductOnSet(f, u) /\ y = f[c]
      OBVIOUS
    <3>2. c \in T /\ ProductOnSet(f, T) = y * x
      BY <2>1, <2>3, <3>1, ProductByChosen
    <3>3. u \in SUBSET T /\ u # T
      BY <3>1, <3>2
    <3>4. x \in Nat \ {0} /\ y \in Nat \ {0}
      BY <1>1, <3>1, <3>2, <3>3
    <3>5. y * x \in Nat \ {0}
      BY <3>4
    <3> QED
      BY <3>2, <3>5
  <2> QED
    BY <2>2, <2>3
<1> HIDE DEF P
<1>2. S \in P
  BY <1>1, SubsetInduction
<1> QED
  BY <1>2 DEF P

\* A product by any of its elements: the order does not matter.
LEMMA ProductByElement ==
    ASSUME NEW f, NEW S, IsFiniteSet(S), \A x \in S : f[x] \in Nat \ {0}, NEW y \in S
    PROVE  ProductOnSet(f, S) = f[y] * ProductOnSet(f, S \ {y})
<1> DEFINE P == {T \in SUBSET S : \A x \in T :
                    ProductOnSet(f, T) = f[x] * ProductOnSet(f, T \ {x})}
<1>1. ASSUME NEW T \in SUBSET S, \A U \in SUBSET T : U # T => U \in P
      PROVE  T \in P
  <2> SUFFICES ASSUME NEW x \in T
               PROVE  ProductOnSet(f, T) = f[x] * ProductOnSet(f, T \ {x})
    OBVIOUS
  <2>1. PICK c, u, v, w : c = Chosen(T) /\ u = T \ {c} /\ v = T \ {x} /\ w = T \ {c, x}
    OBVIOUS
  <2>2. IsFiniteSet(T) /\ T # {}
    BY FS_Subset
  <2>3. c \in T /\ ProductOnSet(f, T) = f[c] * ProductOnSet(f, u)
    BY <2>1, <2>2, ProductByChosen
  <2>4. CASE c = x
    BY <2>1, <2>3, <2>4
  <2>5. CASE c # x
    <3>1. u \in P /\ v \in P /\ x \in u /\ c \in v
      BY <1>1, <2>1, <2>3, <2>5
    <3>2. u \ {x} = w /\ v \ {c} = w
      BY <2>1
    <3>3. /\ ProductOnSet(f, u) = f[x] * ProductOnSet(f, w)
          /\ ProductOnSet(f, v) = f[c] * ProductOnSet(f, w)
      BY <3>1, <3>2
    <3>4. PICK a, b, z : a = f[x] /\ b = f[c] /\ z = ProductOnSet(f, w)
      OBVIOUS
    <3>5. w \subseteq S /\ IsFiniteSet(w)
      BY <2>1, FS_Subset
    <3>6. z \in Int /\ a \in Int /\ b \in Int
      <4>1. z \in Nat \ {0}
        BY <3>4, <3>5, ProductIsPositive
      <4> QED
        BY <2>3, <3>4, <4>1
    <3>7. b * (a * z) = a * (b * z)
      BY <3>6
    <3> QED
      BY <2>1, <2>3, <3>3, <3>4, <3>7
  <2> QED
    BY <2>4, <2>5
<1> HIDE DEF P
<1>2. S \in P
  BY <1>1, SubsetInduction
<1> QED
  BY <1>2 DEF P
=============================================================================
