---------------------------- MODULE SumTheorems ----------------------------
(***************************************************************************)
(* Facts about SumFunction and SumFunctionOnSet: the sum of a function's   *)
(* values over its domain, or a part of it, when that is finite.           *)
(*                                                                         *)
(* A fold is a recursive function on the subsets of its set.  Induction    *)
(* over finite sets is used in the form of its contrapositive: a set of    *)
(* counterexamples has one of which no strict subset is a counterexample.  *)
(***************************************************************************)
EXTENDS Functions, FiniteSetTheorems, TLAPS

LEMMA LeastCounterexample ==
  ASSUME NEW S, IsFiniteSet(S), NEW T, T \subseteq SUBSET S, T # {}
  PROVE  \E m \in T : \A u \in SUBSET m : u # m => u \notin T
<1>1. IsWellFoundedOn(StrictSubsetOrdering(S), SUBSET S)
  BY FS_StrictSubsetOrderingWellFounded, FS_FiniteSubsetsOfFinite
<1>2. PICK m \in T : \A u \in T : <<u, m>> \notin StrictSubsetOrdering(S)
  BY <1>1, WFMin
<1>3. ASSUME NEW u \in SUBSET m, u # m, u \in T PROVE FALSE
  <2>1. u \in SUBSET S /\ m \in SUBSET S /\ <<u, m>> \in (SUBSET S) \X (SUBSET S)
    BY <1>3
  <2>2. <<u, m>>[1] \subseteq <<u, m>>[2] /\ <<u, m>>[1] # <<u, m>>[2]
    BY <1>3
  <2>3. <<u, m>> \in StrictSubsetOrdering(S)
    BY <2>1, <2>2 DEF StrictSubsetOrdering
  <2> QED  BY <1>2, <1>3, <2>3
<1> QED  BY <1>3

-----------------------------------------------------------------------------
(* The element a sum takes first, and the function that sums over T.       *)
First(s) == CHOOSE x \in s : TRUE

SumsOver(g, f, T) ==
  g = [s \in SUBSET T |-> IF s = {} THEN 0 ELSE f[First(s)] + g[s \ {First(s)}]]

LEMMA FirstIn == \A s : s # {} => First(s) \in s
  BY DEF First

LEMMA SumsRestricted ==
  ASSUME NEW f, NEW T, NEW g, SumsOver(g, f, T), NEW U \in SUBSET T
  PROVE  SumsOver([s \in SUBSET U |-> g[s]], f, U)
<1> DEFINE h == [s \in SUBSET U |-> g[s]]
<1>1. ASSUME NEW s \in SUBSET U
      PROVE  h[s] = IF s = {} THEN 0 ELSE f[First(s)] + h[s \ {First(s)}]
  BY DEF SumsOver
<1> QED  BY <1>1 DEF SumsOver

LEMMA SumsUnique ==
  ASSUME NEW f, NEW T, IsFiniteSet(T), NEW g, SumsOver(g, f, T), NEW h, SumsOver(h, f, T)
  PROVE  g = h
<1> DEFINE D == {s \in SUBSET T : g[s] # h[s]}
<1>1. CASE D # {}
  <2>1. PICK m \in D : \A u \in SUBSET m : u # m => u \notin D
    <3> HIDE DEF D
    <3>1. D \subseteq SUBSET T  BY DEF D
    <3> QED  BY <1>1, <3>1, LeastCounterexample
  <2>2. m # {}  BY DEF SumsOver
  <2>3. g[m \ {First(m)}] = h[m \ {First(m)}]  BY <2>1, <2>2, FirstIn
  <2>4. g[m] = h[m]  BY <2>2, <2>3 DEF SumsOver
  <2> QED  BY <2>4
<1>2. CASE D = {}
  <2>1. g = [s \in SUBSET T |-> g[s]] /\ h = [s \in SUBSET T |-> h[s]]  BY DEF SumsOver
  <2>2. \A s \in SUBSET T : g[s] = h[s]  BY <1>2
  <2> QED  BY <2>1, <2>2
<1> QED  BY <1>1, <1>2

LEMMA SumsExist ==
  ASSUME NEW f, NEW T, IsFiniteSet(T)
  PROVE  \E g : SumsOver(g, f, T)
<1> DEFINE D == {s \in SUBSET T : ~ \E g : SumsOver(g, f, s)}
           Sum(s) == CHOOSE g : SumsOver(g, f, s)
<1>1. CASE D # {}
  <2>1. PICK m \in D : \A u \in SUBSET m : u # m => u \notin D
    <3> HIDE DEF D
    <3>1. D \subseteq SUBSET T  BY DEF D
    <3> QED  BY <1>1, <3>1, LeastCounterexample
  <2>2. \A u \in SUBSET m : u # m => SumsOver(Sum(u), f, u) /\ IsFiniteSet(u)
    <3>1. \A u \in SUBSET m : IsFiniteSet(u)  BY FS_Subset
    <3>2. \A u \in SUBSET m : u # m => \E g : SumsOver(g, f, u)  BY <2>1
    <3> QED  BY <3>1, <3>2
  <2> DEFINE rest(s) == s \ {First(s)}
             g == [s \in SUBSET m |->
                     IF s = {} THEN 0 ELSE f[First(s)] + Sum(rest(s))[rest(s)]]
  <2> HIDE DEF Sum
  <2>3. ASSUME NEW s \in SUBSET m, s # {}
        PROVE  g[rest(s)] = Sum(rest(s))[rest(s)]
    <3> DEFINE t == rest(s)
    <3>1. First(s) \in s /\ t \in SUBSET m /\ t # m  BY <2>3, FirstIn
    <3>2. SumsOver(Sum(t), f, t) /\ IsFiniteSet(t)  BY <2>2, <3>1
    <3>3. CASE t = {}
      BY <3>1, <3>2, <3>3 DEF SumsOver
    <3>4. CASE t # {}
      <4>1. First(t) \in t  BY <3>4, FirstIn
      <4>2. rest(t) \in SUBSET t /\ rest(t) \in SUBSET m /\ rest(t) # m  BY <3>1, <4>1
      <4>3. SumsOver(Sum(rest(t)), f, rest(t)) /\ IsFiniteSet(rest(t))  BY <2>2, <4>2
      <4>4. SumsOver([u \in SUBSET rest(t) |-> Sum(t)[u]], f, rest(t))
        BY <3>2, <4>2, SumsRestricted
      <4>5. Sum(rest(t)) = [u \in SUBSET rest(t) |-> Sum(t)[u]]
        BY <4>3, <4>4, SumsUnique
      <4>6. Sum(rest(t))[rest(t)] = Sum(t)[rest(t)]  BY <4>5
      <4>7. Sum(t)[t] = f[First(t)] + Sum(t)[rest(t)]  BY <3>2, <3>4 DEF SumsOver
      <4>8. g[t] = f[First(t)] + Sum(rest(t))[rest(t)]  BY <3>1, <3>4
      <4> QED  BY <4>6, <4>7, <4>8
    <3> QED  BY <3>3, <3>4
  <2>4. \A s \in SUBSET m : g[s] = IF s = {} THEN 0 ELSE f[First(s)] + g[rest(s)]
    BY <2>3
  <2>5. SumsOver(g, f, m)
    <3>1. g = [s \in SUBSET m |-> g[s]]  OBVIOUS
    <3> HIDE DEF g
    <3> QED  BY <2>4, <3>1 DEF SumsOver
  <2> QED  BY <2>1, <2>5
<1>2. CASE D = {}
  BY <1>2
<1> QED  BY <1>1, <1>2

-----------------------------------------------------------------------------
(* The equation of a sum.                                                  *)
LEMMA OverSums ==
  ASSUME NEW f, NEW s, IsFiniteSet(s), NEW g, SumsOver(g, f, s)
  PROVE  SumFunctionOnSet(f, s) = g[s]
<1> DEFINE P(h) == h = [t \in SUBSET s |->
                         IF t = {} THEN 0
                         ELSE f[CHOOSE x \in t : TRUE] + h[t \ {CHOOSE x \in t : TRUE}]]
           h0 == CHOOSE h : P(h)
<1>1. P(g)  BY DEF SumsOver, First
<1>2. P(h0)  BY <1>1
<1>3. SumsOver(h0, f, s)  BY <1>2 DEF SumsOver, First
<1>4. h0 = g  BY <1>3, SumsUnique
<1>5. SumFunctionOnSet(f, s) = h0[s]
  BY DEF SumFunctionOnSet, FoldFunctionOnSet, MapThenFoldSet
<1> QED  BY <1>4, <1>5

LEMMA OverEquation ==
  ASSUME NEW f, NEW s, IsFiniteSet(s)
  PROVE  SumFunctionOnSet(f, s) =
           IF s = {} THEN 0 ELSE f[First(s)] + SumFunctionOnSet(f, s \ {First(s)})
<1> DEFINE t == s \ {First(s)}
<1>1. PICK g : SumsOver(g, f, s)  BY SumsExist
<1>2. SumFunctionOnSet(f, s) = g[s]  BY <1>1, OverSums
<1>3. CASE s = {}
  BY <1>1, <1>2, <1>3 DEF SumsOver
<1>4. CASE s # {}
  <2>1. t \in SUBSET s /\ IsFiniteSet(t)  BY FS_Subset
  <2>2. SumsOver([u \in SUBSET t |-> g[u]], f, t)  BY <1>1, <2>1, SumsRestricted
  <2>3. SumFunctionOnSet(f, t) = g[t]
    <3> DEFINE h == [u \in SUBSET t |-> g[u]]
    <3>1. SumFunctionOnSet(f, t) = h[t]
      <4> HIDE DEF h, t
      <4> QED  BY <2>1, <2>2, OverSums DEF h
    <3> QED  BY <3>1
  <2>4. g[s] = f[First(s)] + g[t]  BY <1>1, <1>4 DEF SumsOver
  <2> QED  BY <1>2, <1>4, <2>3, <2>4
<1> QED  BY <1>3, <1>4

LEMMA OverEmpty == \A f : SumFunctionOnSet(f, {}) = 0
  BY OverEquation, FS_EmptySet

LEMMA OverInt ==
  ASSUME NEW f, NEW s, IsFiniteSet(s), \A x \in s : f[x] \in Int
  PROVE  SumFunctionOnSet(f, s) \in Int
<1> DEFINE D == {t \in SUBSET s : SumFunctionOnSet(f, t) \notin Int}
<1>1. CASE D # {}
  <2>1. PICK m \in D : \A u \in SUBSET m : u # m => u \notin D
    <3> HIDE DEF D
    <3>1. D \subseteq SUBSET s  BY DEF D
    <3> QED  BY <1>1, <3>1, LeastCounterexample
  <2>2. m # {}  BY OverEmpty
  <2>3. First(m) \in m /\ IsFiniteSet(m)  BY <2>2, FirstIn, FS_Subset
  <2>4. SumFunctionOnSet(f, m \ {First(m)}) \in Int  BY <2>1, <2>3
  <2>5. SumFunctionOnSet(f, m) = f[First(m)] + SumFunctionOnSet(f, m \ {First(m)})
    BY <2>2, <2>3, OverEquation
  <2> QED  BY <2>3, <2>4, <2>5
<1>2. CASE D = {}
  BY <1>2
<1> QED  BY <1>1, <1>2

(* Any element may be taken out first.                                     *)
LEMMA OverTake ==
  ASSUME NEW f, NEW s, IsFiniteSet(s), \A x \in s : f[x] \in Int, NEW x \in s
  PROVE  SumFunctionOnSet(f, s) = f[x] + SumFunctionOnSet(f, s \ {x})
<1> DEFINE Wrong(t) ==
             \E y \in t : SumFunctionOnSet(f, t) # f[y] + SumFunctionOnSet(f, t \ {y})
           D == {t \in SUBSET s : Wrong(t)}
<1>1. CASE D # {}
  <2>1. PICK m \in D : \A u \in SUBSET m : u # m => u \notin D
    <3> HIDE DEF D
    <3>1. D \subseteq SUBSET s  BY DEF D
    <3> QED  BY <1>1, <3>1, LeastCounterexample
  <2>2. PICK y \in m : SumFunctionOnSet(f, m) # f[y] + SumFunctionOnSet(f, m \ {y})  BY <2>1
  <2> DEFINE z == First(m)
             rest == (m \ {y}) \ {z}
  <2>3. z \in m /\ IsFiniteSet(m)  BY <2>2, FirstIn, FS_Subset
  <2>4. SumFunctionOnSet(f, m) = f[z] + SumFunctionOnSet(f, m \ {z})
    BY <2>2, <2>3, OverEquation
  <2>5. z # y  BY <2>2, <2>4
  <2>6. ~ Wrong(m \ {z}) /\ ~ Wrong(m \ {y})
    <3>1. m \ {z} \in SUBSET m /\ m \ {z} # m /\ m \ {y} \in SUBSET m /\ m \ {y} # m
      BY <2>2, <2>3
    <3>2. m \ {z} \notin D /\ m \ {y} \notin D  BY <2>1, <3>1
    <3> HIDE DEF Wrong
    <3> QED  BY <3>1, <3>2
  <2>7. /\ SumFunctionOnSet(f, m \ {z}) = f[y] + SumFunctionOnSet(f, (m \ {z}) \ {y})
        /\ SumFunctionOnSet(f, m \ {y}) = f[z] + SumFunctionOnSet(f, rest)
    BY <2>2, <2>3, <2>5, <2>6
  <2>8. (m \ {z}) \ {y} = rest  OBVIOUS
  <2>9. f[y] \in Int /\ f[z] \in Int  BY <2>2, <2>3
  <2>10. SumFunctionOnSet(f, rest) \in Int
    <3>1. rest \in SUBSET s  OBVIOUS
    <3> HIDE DEF rest
    <3> QED  BY <3>1, FS_Subset, OverInt
  <2>11. SumFunctionOnSet(f, m \ {z}) = f[y] + SumFunctionOnSet(f, rest)  BY <2>7, <2>8
  <2> HIDE DEF z, rest
  <2>12. f[z] + (f[y] + SumFunctionOnSet(f, rest)) = f[y] + (f[z] + SumFunctionOnSet(f, rest))
    BY <2>9, <2>10
  <2> QED  BY <2>2, <2>4, <2>7, <2>11, <2>12
<1>2. CASE D = {}
  BY <1>2
<1> QED  BY <1>1, <1>2

-----------------------------------------------------------------------------
(* The facts other modules use.                                            *)
LEMMA TotalOver == \A S, V : \A f \in [S -> V] : SumFunction(f) = SumFunctionOnSet(f, S)
  BY DEF SumFunction

LEMMA OverSame ==
  ASSUME NEW f, NEW g, NEW s, IsFiniteSet(s), \A x \in s : f[x] = g[x]
  PROVE  SumFunctionOnSet(f, s) = SumFunctionOnSet(g, s)
<1>1. PICK h : SumsOver(h, f, s)  BY SumsExist
<1>2. \A u \in SUBSET s : u # {} => f[First(u)] = g[First(u)]  BY FirstIn
<1>3. h = [u \in SUBSET s |-> IF u = {} THEN 0 ELSE f[First(u)] + h[u \ {First(u)}]]
  BY <1>1 DEF SumsOver
<1>4. h = [u \in SUBSET s |-> IF u = {} THEN 0 ELSE g[First(u)] + h[u \ {First(u)}]]
  BY <1>2, <1>3
<1>5. SumsOver(h, g, s)  BY <1>4 DEF SumsOver
<1> QED  BY <1>1, <1>5, OverSums

LEMMA TotalInt ==
  ASSUME NEW S, IsFiniteSet(S), NEW f \in [S -> Int]
  PROVE  SumFunction(f) \in Int
  BY TotalOver, OverInt

(* Two functions that differ at x only.                                    *)
LEMMA TotalChange ==
  ASSUME NEW S, IsFiniteSet(S), NEW f \in [S -> Int], NEW g \in [S -> Int],
         NEW x \in S, \A y \in S \ {x} : f[y] = g[y]
  PROVE  SumFunction(g) = SumFunction(f) - f[x] + g[x]
<1>1. SumFunction(f) = f[x] + SumFunctionOnSet(f, S \ {x})  BY TotalOver, OverTake
<1>2. SumFunction(g) = g[x] + SumFunctionOnSet(g, S \ {x})  BY TotalOver, OverTake
<1>3. SumFunctionOnSet(f, S \ {x}) = SumFunctionOnSet(g, S \ {x})
  BY FS_Subset, OverSame
<1>4. SumFunctionOnSet(f, S \ {x}) \in Int
  <2>1. IsFiniteSet(S \ {x})  BY FS_Subset
  <2> QED  BY <2>1, OverInt
<1> QED  BY <1>1, <1>2, <1>3, <1>4

(* A sum of smaller values is smaller.                                     *)
LEMMA TotalAtMost ==
  ASSUME NEW S, IsFiniteSet(S), NEW f \in [S -> Int], NEW g \in [S -> Int],
         \A x \in S : f[x] <= g[x]
  PROVE  SumFunction(f) <= SumFunction(g)
<1> DEFINE D == {t \in SUBSET S : ~ SumFunctionOnSet(f, t) <= SumFunctionOnSet(g, t)}
<1>1. CASE D # {}
  <2>1. PICK m \in D : \A u \in SUBSET m : u # m => u \notin D
    <3> HIDE DEF D
    <3>1. D \subseteq SUBSET S  BY DEF D
    <3> QED  BY <1>1, <3>1, LeastCounterexample
  <2>2. m # {}  BY OverEmpty
  <2> DEFINE r == m \ {First(m)}
  <2>3. First(m) \in m /\ IsFiniteSet(m)  BY <2>2, FirstIn, FS_Subset
  <2>4. SumFunctionOnSet(f, r) <= SumFunctionOnSet(g, r)  BY <2>1, <2>3
  <2>5. /\ SumFunctionOnSet(f, m) = f[First(m)] + SumFunctionOnSet(f, r)
        /\ SumFunctionOnSet(g, m) = g[First(m)] + SumFunctionOnSet(g, r)
    BY <2>2, <2>3, OverEquation
  <2>6. SumFunctionOnSet(f, r) \in Int /\ SumFunctionOnSet(g, r) \in Int
    <3>1. r \in SUBSET S /\ IsFiniteSet(r)  BY FS_Subset
    <3> HIDE DEF r
    <3> QED  BY <3>1, OverInt
  <2>7. f[First(m)] <= g[First(m)] /\ f[First(m)] \in Int /\ g[First(m)] \in Int
    BY <2>3
  <2> HIDE DEF r
  <2>8. ~ SumFunctionOnSet(f, m) <= SumFunctionOnSet(g, m)  BY <2>1
  <2> QED  BY <2>4, <2>5, <2>6, <2>7, <2>8
<1>2. CASE D = {}
  <2>1. SumFunctionOnSet(f, S) <= SumFunctionOnSet(g, S)  BY <1>2
  <2> QED  BY <2>1, TotalOver
<1> QED  BY <1>1, <1>2

(* A sum of sums.                                                          *)
LEMMA TotalPlus ==
  ASSUME NEW S, IsFiniteSet(S), NEW f \in [S -> Int], NEW g \in [S -> Int]
  PROVE  SumFunction([x \in S |-> f[x] + g[x]]) = SumFunction(f) + SumFunction(g)
<1> DEFINE h == [x \in S |-> f[x] + g[x]]
           D == {t \in SUBSET S :
                   SumFunctionOnSet(h, t) # SumFunctionOnSet(f, t) + SumFunctionOnSet(g, t)}
<1>h. h \in [S -> Int] /\ \A x \in S : h[x] = f[x] + g[x]  OBVIOUS
<1> HIDE DEF h
<1>1. CASE D # {}
  <2>1. PICK m \in D : \A u \in SUBSET m : u # m => u \notin D
    <3> HIDE DEF D
    <3>1. D \subseteq SUBSET S  BY DEF D
    <3> QED  BY <1>1, <3>1, LeastCounterexample
  <2>2. m # {}
    <3>1. /\ SumFunctionOnSet(f, {}) = 0 /\ SumFunctionOnSet(g, {}) = 0
          /\ SumFunctionOnSet(h, {}) = 0
      BY OverEmpty
    <3> QED  BY <3>1
  <2> DEFINE r == m \ {First(m)}
  <2>3. First(m) \in m /\ IsFiniteSet(m)  BY <2>2, FirstIn, FS_Subset
  <2>4. SumFunctionOnSet(h, r) = SumFunctionOnSet(f, r) + SumFunctionOnSet(g, r)  BY <2>1, <2>3
  <2>5. /\ SumFunctionOnSet(f, m) = f[First(m)] + SumFunctionOnSet(f, r)
        /\ SumFunctionOnSet(g, m) = g[First(m)] + SumFunctionOnSet(g, r)
        /\ SumFunctionOnSet(h, m) = h[First(m)] + SumFunctionOnSet(h, r)
    BY <2>2, <2>3, OverEquation
  <2>6. SumFunctionOnSet(f, r) \in Int /\ SumFunctionOnSet(g, r) \in Int
    <3>1. r \in SUBSET S /\ IsFiniteSet(r)  BY FS_Subset
    <3> HIDE DEF r
    <3> QED  BY <3>1, OverInt
  <2>7. /\ h[First(m)] = f[First(m)] + g[First(m)]
        /\ f[First(m)] \in Int /\ g[First(m)] \in Int
    BY <1>h, <2>3
  <2>8. SumFunctionOnSet(h, m) # SumFunctionOnSet(f, m) + SumFunctionOnSet(g, m)  BY <2>1
  <2> HIDE DEF r
  <2> QED  BY <2>4, <2>5, <2>6, <2>7, <2>8
<1>2. CASE D = {}
  <2>1. SumFunctionOnSet(h, S) = SumFunctionOnSet(f, S) + SumFunctionOnSet(g, S)  BY <1>2
  <2> QED  BY <1>h, <2>1, TotalOver DEF h
<1> QED  BY <1>1, <1>2

LEMMA TotalZero ==
  ASSUME NEW S, IsFiniteSet(S)
  PROVE  SumFunction([x \in S |-> 0]) = 0
<1> DEFINE z == [x \in S |-> 0]
<1>1. z \in [S -> Int] /\ [x \in S |-> z[x] + z[x]] = z  OBVIOUS
<1> HIDE DEF z
<1>2. SumFunction(z) = SumFunction(z) + SumFunction(z)  BY <1>1, TotalPlus
<1>3. SumFunction(z) \in Int  BY <1>1, TotalInt
<1>4. \A n \in Int : n = n + n => n = 0  OBVIOUS
<1>5. SumFunction(z) = 0  BY <1>2, <1>3, <1>4
<1> QED  BY <1>5 DEF z

(* Of natural numbers, each is part of the sum.                            *)
LEMMA TotalNat ==
  ASSUME NEW S, IsFiniteSet(S), NEW f \in [S -> Nat]
  PROVE  /\ SumFunction(f) \in Nat
         /\ \A x \in S : f[x] <= SumFunction(f)
<1> DEFINE z == [x \in S |-> 0]
<1>1. z \in [S -> Int] /\ f \in [S -> Int] /\ \A x \in S : z[x] <= f[x]  OBVIOUS
<1>2. SumFunction(z) = 0  BY TotalZero
<1>3. SumFunction(f) \in Int  BY <1>1, TotalInt
<1>4. 0 <= SumFunction(f)
  <2> HIDE DEF z
  <2> QED  BY <1>1, <1>2, TotalAtMost
<1>5. ASSUME NEW x \in S PROVE f[x] <= SumFunction(f)
  <2> DEFINE g == [y \in S |-> IF y = x THEN f[x] ELSE 0]
  <2>1. g \in [S -> Int] /\ \A y \in S : g[y] <= f[y]  OBVIOUS
  <2>2. g[x] = f[x] /\ z[x] = 0 /\ \A y \in S \ {x} : z[y] = g[y]  OBVIOUS
  <2> HIDE DEF g, z
  <2>3. SumFunction(g) = SumFunction(z) - z[x] + g[x]  BY <1>1, <2>1, <2>2, TotalChange
  <2>4. SumFunction(g) <= SumFunction(f)  BY <1>1, <2>1, TotalAtMost
  <2>5. f[x] \in Int  BY <1>1
  <2> QED  BY <1>2, <2>2, <2>3, <2>4, <2>5
<1> QED  BY <1>3, <1>4, <1>5

(* A sum over part of a domain is one over all of it, with zeros.          *)
LEMMA OverPart ==
  ASSUME NEW S, IsFiniteSet(S), NEW T \in SUBSET S, NEW f, \A x \in T : f[x] \in Int
  PROVE  SumFunctionOnSet(f, T) = SumFunction([x \in S |-> IF x \in T THEN f[x] ELSE 0])
<1> DEFINE h == [x \in S |-> IF x \in T THEN f[x] ELSE 0]
           D == {t \in SUBSET S : SumFunctionOnSet(h, t) # SumFunctionOnSet(f, t \cap T)}
<1>h. h \in [S -> Int] /\ \A x \in S : h[x] = IF x \in T THEN f[x] ELSE 0  OBVIOUS
<1> HIDE DEF h
<1>1. CASE D # {}
  <2>1. PICK m \in D : \A u \in SUBSET m : u # m => u \notin D
    <3> HIDE DEF D
    <3>1. D \subseteq SUBSET S  BY DEF D
    <3> QED  BY <1>1, <3>1, LeastCounterexample
  <2>2. m # {}
    <3>1. SumFunctionOnSet(f, {}) = 0 /\ SumFunctionOnSet(h, {}) = 0  BY OverEmpty
    <3>2. {} \cap T = {}  OBVIOUS
    <3> QED  BY <3>1, <3>2
  <2> DEFINE x == First(m)
             r == m \ {x}
  <2>3. x \in m /\ IsFiniteSet(m) /\ IsFiniteSet(m \cap T) /\ IsFiniteSet(r \cap T)
    <3>1. m \in SUBSET S /\ m \cap T \in SUBSET S /\ r \cap T \in SUBSET S  OBVIOUS
    <3> HIDE DEF r
    <3> QED  BY <2>2, <3>1, FirstIn, FS_Subset
  <2>4. SumFunctionOnSet(h, r) = SumFunctionOnSet(f, r \cap T)  BY <2>1, <2>3
  <2>5. SumFunctionOnSet(h, m) = h[x] + SumFunctionOnSet(h, r)  BY <2>2, <2>3, OverEquation
  <2>6. SumFunctionOnSet(f, r \cap T) \in Int
    <3>1. \A y \in r \cap T : f[y] \in Int  OBVIOUS
    <3> HIDE DEF r
    <3> QED  BY <2>3, <3>1, OverInt
  <2>7. SumFunctionOnSet(h, m) # SumFunctionOnSet(f, m \cap T)  BY <2>1
  <2>8. CASE x \in T
    <3>1. (m \cap T) \ {x} = r \cap T /\ x \in m \cap T  BY <2>3, <2>8
    <3>2. \A y \in m \cap T : f[y] \in Int  OBVIOUS
    <3> HIDE DEF x, r
    <3>3. SumFunctionOnSet(f, m \cap T) = f[x] + SumFunctionOnSet(f, (m \cap T) \ {x})
      BY <2>3, <3>1, <3>2, OverTake
    <3>4. h[x] = f[x]  BY <1>h, <2>3, <2>8
    <3> QED  BY <2>4, <2>5, <2>7, <3>1, <3>3, <3>4
  <2>9. CASE x \notin T
    <3>1. m \cap T = r \cap T  BY <2>9
    <3>2. h[x] = 0  BY <1>h, <2>3, <2>9
    <3>3. SumFunctionOnSet(f, m \cap T) = SumFunctionOnSet(f, r \cap T)  BY <3>1
    <3> HIDE DEF x, r, D
    <3>4. PICK a : a = SumFunctionOnSet(f, r \cap T)  OBVIOUS
    <3>5. SumFunctionOnSet(h, m) = 0 + a /\ a \in Int  BY <2>4, <2>5, <2>6, <3>2, <3>4
    <3>6. SumFunctionOnSet(h, m) = a  BY <3>5
    <3> QED  BY <2>7, <3>3, <3>4, <3>6
  <2> QED  BY <2>8, <2>9
<1>2. CASE D = {}
  <2>1. SumFunctionOnSet(h, S) = SumFunctionOnSet(f, S \cap T) /\ S \cap T = T  BY <1>2
  <2>2. SumFunction(h) = SumFunctionOnSet(h, S)  BY <1>h, TotalOver
  <2> QED  BY <2>1, <2>2 DEF h
<1> QED  BY <1>1, <1>2
=============================================================================
