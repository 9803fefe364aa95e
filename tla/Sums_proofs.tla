------------------------------ MODULE Sums_proofs ------------------------------
(***************************************************************************)
(* What SumFunction of the community modules computes.  It is defined by   *)
(* recursion on the subsets of a finite set; the lemmas below prove by     *)
(* induction that the recursion has a solution and that the order of the   *)
(* summands is of no account.  An induction is the search for a smallest   *)
(* set for which the claim fails (MinimalSubset): strict inclusion is      *)
(* well-founded.                                                           *)
(***************************************************************************)
EXTENDS Integers, Functions, FiniteSetTheorems, WellFoundedInduction, TLAPS

First(s) == CHOOSE x \in s : TRUE

Equation(g, f, S) ==
  g = [s \in SUBSET S |-> IF s = {} THEN 0 ELSE f[First(s)] + g[s \ {First(s)}]]

(* A set of subsets of a finite set has a smallest one. *)
LEMMA MinimalSubset ==
  ASSUME NEW S, IsFiniteSet(S), NEW T \in SUBSET SUBSET S, T # {}
  PROVE  \E m \in T : \A s \in T : ~(s \subseteq m /\ s # m)
<1>1. IsWellFoundedOn(StrictSubsetOrdering(S), SUBSET S)
  BY FS_StrictSubsetOrderingWellFounded, FS_FiniteSubsetsOfFinite
<1>2. PICK m \in T : \A s \in T : <<s, m>> \notin StrictSubsetOrdering(S)
  BY <1>1, WFMin
<1>3. ASSUME NEW s \in T, s \subseteq m, s # m
      PROVE FALSE
  BY <1>2, <1>3 DEF StrictSubsetOrdering
<1> QED
  BY <1>2, <1>3

LEMMA FirstIn ==
  ASSUME NEW s, s # {}
  PROVE  First(s) \in s
BY DEF First

LEMMA SumIsIter ==
  ASSUME NEW f
  PROVE  SumFunction(f) = (CHOOSE g : Equation(g, f, DOMAIN f))[DOMAIN f]
BY DEF SumFunction, SumFunctionOnSet, FoldFunctionOnSet, MapThenFoldSet, Equation, First

LEMMA EquationUnique ==
  ASSUME NEW f, NEW S, IsFiniteSet(S), NEW g, NEW h, NEW U, U \subseteq S,
         Equation(g, f, S), Equation(h, f, U)
  PROVE  \A s \in SUBSET U : g[s] = h[s]
<1> DEFINE Bad == {s \in SUBSET U : g[s] # h[s]}
<1> SUFFICES ASSUME Bad # {}
             PROVE  FALSE
  OBVIOUS
<1>1. PICK m \in Bad : \A s \in Bad : ~(s \subseteq m /\ s # m)
  <2>1. Bad \in SUBSET SUBSET S
    OBVIOUS
  <2> HIDE DEF Bad
  <2> QED
    BY <2>1, MinimalSubset
<1>2. CASE m = {}
  BY <1>2 DEF Equation
<1>3. CASE m # {}
  <2>1. First(m) \in m
    BY <1>3, FirstIn
  <2>2. m \ {First(m)} \in SUBSET U /\ m \ {First(m)} # m /\ m \ {First(m)} \subseteq m
    BY <2>1
  <2>3. g[m \ {First(m)}] = h[m \ {First(m)}]
    BY <1>1, <2>2
  <2>4. g[m] = f[First(m)] + g[m \ {First(m)}]
    BY <1>3 DEF Equation
  <2>5. h[m] = f[First(m)] + h[m \ {First(m)}]
    BY <1>3 DEF Equation
  <2> QED
    BY <2>3, <2>4, <2>5
<1> QED
  BY <1>2, <1>3

LEMMA EquationSolvable ==
  ASSUME NEW f, NEW S, IsFiniteSet(S)
  PROVE  \E g : Equation(g, f, S)
<1> DEFINE Bad == {s \in SUBSET S : ~ \E g : Equation(g, f, s)}
<1> SUFFICES ASSUME Bad # {}
             PROVE  FALSE
  OBVIOUS
<1>1. PICK m \in Bad : \A s \in Bad : ~(s \subseteq m /\ s # m)
  <2>1. Bad \in SUBSET SUBSET S
    OBVIOUS
  <2> HIDE DEF Bad
  <2> QED
    BY <2>1, MinimalSubset
<1> DEFINE G(s) == CHOOSE g : Equation(g, f, s)
           Value(s) == IF s = {} THEN 0 ELSE f[First(s)] + G(s \ {First(s)})[s \ {First(s)}]
           g0 == [s \in SUBSET m |-> Value(s)]
<1>2. m \in SUBSET S /\ ~ \E g : Equation(g, f, m)
  OBVIOUS
<1>3. \A s \in SUBSET m : s # m => Equation(G(s), f, s)
  <2> SUFFICES ASSUME NEW s \in SUBSET m, s # m
               PROVE  Equation(G(s), f, s)
    OBVIOUS
  <2>1. \E g : Equation(g, f, s)
    BY <1>1, <1>2
  <2> QED
    BY <2>1
<1>4. ASSUME NEW s \in SUBSET m, s # {}
      PROVE  g0[s \ {First(s)}] = G(s \ {First(s)})[s \ {First(s)}]
  <2> DEFINE u == s \ {First(s)}
             v == u \ {First(u)}
  <2>1. First(s) \in s /\ u \in SUBSET m /\ u # m
    BY <1>4, FirstIn
  <2>2. Equation(G(u), f, u)
    BY <1>3, <2>1
  <2>3. CASE u = {}
    <3>1. G(u)[u] = 0
      BY <2>2, <2>3 DEF Equation
    <3>2. g0[u] = 0
      BY <2>1, <2>3
    <3> QED
      BY <3>1, <3>2
  <2>4. CASE u # {}
    <3>1. First(u) \in u
      BY <2>4, FirstIn
    <3>2. v \in SUBSET m /\ v # m /\ v \subseteq u
      BY <2>1, <3>1
    <3>3. Equation(G(v), f, v)
      BY <1>3, <3>2
    <3>4. G(u)[v] = G(v)[v]
      <4>1. IsFiniteSet(u)
        BY <1>2, <2>1, FS_Subset
      <4> HIDE DEF G, u, v
      <4> QED
        BY <4>1, <2>2, <3>2, <3>3, EquationUnique
    <3>5. G(u)[u] = f[First(u)] + G(u)[v]
      BY <2>2, <2>4 DEF Equation
    <3>6. g0[u] = f[First(u)] + G(v)[v]
      BY <2>1, <2>4
    <3> QED
      BY <3>4, <3>5, <3>6
  <2> QED
    BY <2>3, <2>4
<1>5. Equation(g0, f, m)
  <2>1. ASSUME NEW s \in SUBSET m
        PROVE  g0[s] = IF s = {} THEN 0 ELSE f[First(s)] + g0[s \ {First(s)}]
    <3>1. g0[s] = Value(s)
      OBVIOUS
    <3>2. s # {} => g0[s \ {First(s)}] = G(s \ {First(s)})[s \ {First(s)}]
      BY <1>4
    <3> HIDE DEF g0, G
    <3> QED
      BY <3>1, <3>2
  <2>2. g0 = [s \in SUBSET m |-> g0[s]]
    OBVIOUS
  <2> HIDE DEF g0
  <2>3. g0 = [s \in SUBSET m |-> IF s = {} THEN 0 ELSE f[First(s)] + g0[s \ {First(s)}]]
    BY <2>1, <2>2, Zenon
  <2> QED
    BY <2>3 DEF Equation
<1> QED
  BY <1>2, <1>5

LEMMA SumOnSubset ==
  ASSUME NEW f, NEW S, IsFiniteSet(S), NEW g, Equation(g, f, S), NEW U, U \subseteq S
  PROVE  SumFunction([x \in U |-> f[x]]) = g[U]
<1> DEFINE e == [x \in U |-> f[x]]
           h == CHOOSE h : Equation(h, e, U)
<1>1. Equation(h, e, U)
  <2>1. IsFiniteSet(U)
    BY FS_Subset
  <2>2. \E k : Equation(k, e, U)
    BY <2>1, EquationSolvable
  <2> QED
    BY <2>2
<1>2. SumFunction(e) = h[U]
  BY SumIsIter
<1>3. ASSUME NEW k, Equation(k, e, U)
      PROVE  Equation(k, f, U)
  <2>1. \A s \in SUBSET U : s # {} => e[First(s)] = f[First(s)]
    BY FirstIn
  <2> HIDE DEF e
  <2>2. [s \in SUBSET U |-> IF s = {} THEN 0 ELSE e[First(s)] + k[s \ {First(s)}]]
         = [s \in SUBSET U |-> IF s = {} THEN 0 ELSE f[First(s)] + k[s \ {First(s)}]]
    BY <2>1
  <2> QED
    BY <1>3, <2>2, Zenon DEF Equation
<1>4. Equation(h, f, U)
  <2> HIDE DEF h, e
  <2> QED
    BY <1>1, <1>3
<1> HIDE DEF h, e
<1>5. \A s \in SUBSET U : g[s] = h[s]
  BY <1>4, EquationUnique
<1>6. U \in SUBSET U
  OBVIOUS
<1>7. g[U] = h[U]
  BY <1>5, <1>6
<1> QED
  BY <1>2, <1>7 DEF e

LEMMA EquationInt ==
  ASSUME NEW f, NEW S, IsFiniteSet(S), \A x \in S : f[x] \in Int, NEW g, Equation(g, f, S)
  PROVE  \A s \in SUBSET S : g[s] \in Int
<1> DEFINE Bad == {s \in SUBSET S : g[s] \notin Int}
<1> SUFFICES ASSUME Bad # {}
             PROVE  FALSE
  OBVIOUS
<1>1. PICK m \in Bad : \A s \in Bad : ~(s \subseteq m /\ s # m)
  <2>1. Bad \in SUBSET SUBSET S
    OBVIOUS
  <2> HIDE DEF Bad
  <2> QED
    BY <2>1, MinimalSubset
<1>2. CASE m = {}
  BY <1>2 DEF Equation
<1>3. CASE m # {}
  <2>1. First(m) \in m
    BY <1>3, FirstIn
  <2>2. g[m \ {First(m)}] \in Int
    BY <1>1, <2>1
  <2>3. g[m] = f[First(m)] + g[m \ {First(m)}]
    BY <1>3 DEF Equation
  <2> QED
    BY <2>1, <2>2, <2>3
<1> QED
  BY <1>2, <1>3

LEMMA EquationRemove ==
  ASSUME NEW f, NEW S, IsFiniteSet(S), \A x \in S : f[x] \in Int, NEW g, Equation(g, f, S)
  PROVE  \A s \in SUBSET S : \A x \in s : g[s] = f[x] + g[s \ {x}]
<1> DEFINE Bad == {s \in SUBSET S : \E x \in s : g[s] # f[x] + g[s \ {x}]}
<1> SUFFICES ASSUME Bad # {}
             PROVE  FALSE
  OBVIOUS
<1>1. PICK m \in Bad : \A s \in Bad : ~(s \subseteq m /\ s # m)
  <2>1. Bad \in SUBSET SUBSET S
    OBVIOUS
  <2> HIDE DEF Bad
  <2> QED
    BY <2>1, MinimalSubset
<1>2. PICK x \in m : g[m] # f[x] + g[m \ {x}]
  OBVIOUS
<1> DEFINE c == First(m)
<1>3. c \in m /\ m \in SUBSET S
  BY <1>2, FirstIn
<1>4. g[m] = f[c] + g[m \ {c}]
  BY <1>2 DEF Equation
<1> HIDE DEF c
<1>5. x # c
  BY <1>2, <1>4
<1>6. g[m \ {c}] = f[x] + g[(m \ {c}) \ {x}]
  <2>1. m \ {c} \notin Bad /\ m \ {c} \in SUBSET S /\ x \in m \ {c}
    BY <1>1, <1>3, <1>5
  <2> QED
    BY <2>1
<1>7. g[m \ {x}] = f[c] + g[(m \ {x}) \ {c}]
  <2>1. m \ {x} \notin Bad /\ m \ {x} \in SUBSET S /\ c \in m \ {x}
    BY <1>1, <1>3, <1>5
  <2> QED
    BY <2>1
<1>8. (m \ {x}) \ {c} = (m \ {c}) \ {x}
  OBVIOUS
<1>9. g[(m \ {c}) \ {x}] \in Int /\ f[x] \in Int /\ f[c] \in Int
  <2>1. (m \ {c}) \ {x} \in SUBSET S
    BY <1>3
  <2> HIDE DEF Bad
  <2> QED
    BY <1>3, <2>1, EquationInt
<1> DEFINE r == g[(m \ {c}) \ {x}]
<1>10. g[m] = f[c] + (f[x] + r) /\ g[m \ {x}] = f[c] + r /\ r \in Int
  BY <1>4, <1>6, <1>7, <1>8, <1>9, Zenon
<1> HIDE DEF Bad, r
<1> QED
  BY <1>2, <1>9, <1>10

LEMMA SumOfAll ==
  ASSUME NEW f, NEW S, IsFiniteSet(S), NEW g, Equation(g, f, S)
  PROVE  SumFunction([x \in S |-> f[x]]) = g[S]
BY SumOnSubset

LEMMA SumEmpty ==
  ASSUME NEW f, NEW E, E = {}
  PROVE  SumFunction([x \in E |-> f[x]]) = 0
<1>1. IsFiniteSet(E)
  BY FS_EmptySet
<1>2. PICK g : Equation(g, f, E)
  BY <1>1, EquationSolvable
<1>3. SumFunction([x \in E |-> f[x]]) = g[E]
  BY <1>1, <1>2, SumOfAll, Zenon
<1>4. g[E] = 0
  BY <1>2 DEF Equation
<1> QED
  BY <1>3, <1>4

(* One summand at a time, in any order. *)
LEMMA SumRemove ==
  ASSUME NEW S, IsFiniteSet(S), NEW f \in [S -> Int], NEW x \in S
  PROVE  /\ SumFunction(f) \in Int
         /\ SumFunction([y \in S \ {x} |-> f[y]]) \in Int
         /\ SumFunction(f) = f[x] + SumFunction([y \in S \ {x} |-> f[y]])
<1>1. PICK g : Equation(g, f, S)
  BY EquationSolvable
<1>2. f = [y \in S |-> f[y]]
  OBVIOUS
<1>3. SumFunction([y \in S |-> f[y]]) = g[S]
  BY <1>1, SumOfAll
<1>4. SumFunction([y \in S \ {x} |-> f[y]]) = g[S \ {x}]
  BY <1>1, SumOnSubset
<1>5. \A y \in S : f[y] \in Int
  OBVIOUS
<1>6. S \in SUBSET S /\ S \ {x} \in SUBSET S
  OBVIOUS
<1>7. g[S] \in Int /\ g[S \ {x}] \in Int
  BY <1>1, <1>5, <1>6, EquationInt
<1>8. g[S] = f[x] + g[S \ {x}]
  BY <1>1, <1>5, <1>6, EquationRemove
<1>9. SumFunction(f) = g[S]
  BY <1>2, <1>3, Zenon
<1> QED
  BY <1>4, <1>7, <1>8, <1>9

LEMMA SumInt ==
  ASSUME NEW S, IsFiniteSet(S), NEW f \in [S -> Int]
  PROVE  SumFunction(f) \in Int
<1>1. CASE S = {}
  <2>1. SumFunction([x \in S |-> f[x]]) = 0
    BY <1>1, SumEmpty
  <2>2. f = [x \in S |-> f[x]]
    OBVIOUS
  <2> QED
    BY <2>1, <2>2
<1>2. CASE S # {}
  BY <1>2, SumRemove
<1> QED
  BY <1>1, <1>2

SumOver(f, s) == SumFunction([x \in s |-> f[x]])

LEMMA SumOverFacts ==
  ASSUME NEW S, IsFiniteSet(S), NEW f, \A y \in S : f[y] \in Int
  PROVE  /\ S = {} => SumOver(f, S) = 0
         /\ \A x \in S : /\ SumOver(f, S \ {x}) \in Int
                          /\ SumOver(f, S) = f[x] + SumOver(f, S \ {x})
<1>1. S = {} => SumOver(f, S) = 0
  BY SumEmpty DEF SumOver
<1>2. PICK g : Equation(g, f, S)
  BY EquationSolvable
<1>3. SumOver(f, S) = g[S]
  BY <1>2, SumOfAll DEF SumOver
<1>4. ASSUME NEW x \in S
      PROVE  SumOver(f, S \ {x}) \in Int /\ SumOver(f, S) = f[x] + SumOver(f, S \ {x})
  <2>1. S \in SUBSET S /\ S \ {x} \in SUBSET S
    OBVIOUS
  <2>2. SumOver(f, S \ {x}) = g[S \ {x}]
    BY <1>2, <2>1, SumOnSubset DEF SumOver
  <2>3. g[S \ {x}] \in Int /\ g[S] = f[x] + g[S \ {x}]
    BY <1>2, <2>1, EquationInt, EquationRemove
  <2> QED
    BY <1>3, <2>2, <2>3
<1> QED
  BY <1>1, <1>4

(* The summands of f are those of g under other names, and g has no other  *)
(* ones but some that are 0.                                               *)
Renames(h, A, f, B, g) ==
  /\ f \in [A -> Int] /\ g \in [B -> Int] /\ h \in [A -> B]
  /\ \A x, y \in A : h[x] = h[y] => x = y
  /\ \A x \in A : f[x] = g[h[x]]
  /\ \A y \in B : (\A x \in A : h[x] # y) => g[y] = 0

(* Such sums are equal. *)
LEMMA SumRenamed ==
  ASSUME NEW A, NEW B, IsFiniteSet(A), IsFiniteSet(B), NEW f, NEW g, NEW h, Renames(h, A, f, B, g)
  PROVE  SumFunction(f) = SumFunction(g)
<1> SUFFICES ASSUME f \in [A -> Int], g \in [B -> Int], h \in [A -> B],
                    \A x, y \in A : h[x] = h[y] => x = y,
                    \A x \in A : f[x] = g[h[x]],
                    \A y \in B : (\A x \in A : h[x] # y) => g[y] = 0
             PROVE  SumFunction(f) = SumFunction(g)
  BY DEF Renames
<1> DEFINE Pre(s) == {x \in A : h[x] \in s}
           F(s)   == SumOver(f, Pre(s))
           G(s)   == SumOver(g, s)
           Bad    == {s \in SUBSET B : F(s) # G(s)}
<1>1. ASSUME Bad # {}
      PROVE  FALSE
  <2>1. PICK m \in Bad : \A s \in Bad : ~(s \subseteq m /\ s # m)
    <3>1. Bad \in SUBSET SUBSET B
      OBVIOUS
    <3> HIDE DEF Bad
    <3> QED
      BY <1>1, <3>1, MinimalSubset
  <2>2. m \subseteq B /\ F(m) # G(m) /\ \A s \in SUBSET B : s \subseteq m /\ s # m => F(s) = G(s)
    BY <2>1
  <2>6. IsFiniteSet(m) /\ IsFiniteSet(Pre(m)) /\ (\A z \in m : g[z] \in Int) /\ \A z \in Pre(m) : f[z] \in Int
    <3>1. Pre(m) \subseteq A
      OBVIOUS
    <3> QED
      BY <2>2, <3>1, FS_Subset
  <2>3. m # {}
    <3>1. ASSUME m = {}
          PROVE  F(m) = G(m)
      <4>1. Pre(m) = {}
        BY <3>1
      <4> HIDE DEF Pre
      <4> QED
        BY <2>6, <3>1, <4>1, SumOverFacts
    <3> QED
      BY <2>2, <3>1
  <2>4. PICK y \in m : TRUE
    BY <2>3
  <2>5. F(m \ {y}) = G(m \ {y})
    BY <2>2, <2>4
  <2>7. G(m \ {y}) \in Int /\ G(m) = g[y] + G(m \ {y})
    BY <2>4, <2>6, SumOverFacts
  <2>8. CASE \E x \in A : h[x] = y
    <3>1. PICK x \in A : h[x] = y
      BY <2>8
    <3>2. x \in Pre(m) /\ Pre(m \ {y}) = Pre(m) \ {x}
      BY <2>4, <3>1
    <3> HIDE DEF Pre
    <3>3. F(m) = f[x] + F(m \ {y})
      <4>1. SumOver(f, Pre(m)) = f[x] + SumOver(f, Pre(m) \ {x})
        BY <2>6, <3>2, SumOverFacts, Zenon
      <4> QED
        BY <3>2, <4>1, Zenon
    <3>4. f[x] = g[y]
      BY <3>1
    <3> QED
      BY <2>2, <2>5, <2>7, <3>3, <3>4, Zenon
  <2>9. CASE \A x \in A : h[x] # y
    <3>1. Pre(m \ {y}) = Pre(m)
      BY <2>9
    <3>2. g[y] = 0
      BY <2>2, <2>4, <2>9
    <3> HIDE DEF Pre, G
    <3>3. F(m \ {y}) = F(m)
      BY <3>1
    <3> HIDE DEF F
    <3> QED
      BY <2>2, <2>5, <2>7, <3>2, <3>3
  <2> QED
    BY <2>8, <2>9
<1>2. F(B) = G(B)
  BY <1>1
<1>3. Pre(B) = A /\ f = [x \in A |-> f[x]] /\ g = [y \in B |-> g[y]]
  OBVIOUS
<1> HIDE DEF Pre, Bad
<1> QED
  BY <1>2, <1>3, Zenon DEF SumOver

(* Summands that are not negative. *)
LEMMA SumNat ==
  ASSUME NEW S, IsFiniteSet(S), NEW f \in [S -> Nat]
  PROVE  SumFunction(f) \in Nat
<1> DEFINE F(s) == SumOver(f, s)
           Bad  == {s \in SUBSET S : F(s) \notin Nat}
<1>1. ASSUME Bad # {}
      PROVE  FALSE
  <2>1. PICK m \in Bad : \A s \in Bad : ~(s \subseteq m /\ s # m)
    <3>1. Bad \in SUBSET SUBSET S
      OBVIOUS
    <3> HIDE DEF Bad
    <3> QED
      BY <1>1, <3>1, MinimalSubset
  <2>2. m \subseteq S /\ F(m) \notin Nat /\ \A s \in SUBSET S : s \subseteq m /\ s # m => F(s) \in Nat
    BY <2>1
  <2>3. IsFiniteSet(m) /\ \A y \in m : f[y] \in Int /\ f[y] \in Nat
    BY <2>2, FS_Subset
  <2>4. m # {}
    BY <2>2, <2>3, SumOverFacts
  <2>5. PICK y \in m : TRUE
    BY <2>4
  <2>6. F(m) = f[y] + F(m \ {y})
    BY <2>3, <2>5, SumOverFacts
  <2>7. F(m \ {y}) \in Nat
    BY <2>2, <2>5
  <2> HIDE DEF F
  <2> QED
    BY <2>2, <2>3, <2>5, <2>6, <2>7
<1>2. F(S) \in Nat
  BY <1>1
<1>3. f = [x \in S |-> f[x]]
  OBVIOUS
<1> QED
  BY <1>2, <1>3, Zenon DEF SumOver

(* One summand less. *)
LEMMA SumLess ==
  ASSUME NEW S, IsFiniteSet(S), NEW f \in [S -> Int], NEW g \in [S -> Int], NEW x \in S,
         f[x] < g[x], \A y \in S : y # x => f[y] = g[y]
  PROVE  SumFunction(f) < SumFunction(g)
<1>1. [y \in S \ {x} |-> f[y]] = [y \in S \ {x} |-> g[y]]
  OBVIOUS
<1> DEFINE rest == SumFunction([y \in S \ {x} |-> g[y]])
<1>2. rest \in Int /\ SumFunction(g) = g[x] + rest
  BY SumRemove
<1>3. SumFunction(f) = f[x] + SumFunction([y \in S \ {x} |-> f[y]])
  BY SumRemove
<1>4. SumFunction(f) = f[x] + rest
  BY <1>1, <1>3, Zenon
<1>5. f[x] \in Int /\ g[x] \in Int
  OBVIOUS
<1> HIDE DEF rest
<1> QED
  BY <1>2, <1>4, <1>5

================================================================================
