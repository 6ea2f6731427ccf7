------------------------------ MODULE ProxyProofs ------------------------------
(***************************************************************************)
(* Proofs about Proxy and the optimizer it calls, for any number of        *)
(* clients and requests of any length: what is forwarded is equivalent to  *)
(* what the client sent, what a context leaves out can be read back, and   *)
(* the metrics agree with both, in every interleaving of the handlers and  *)
(* whenever the application dies.                                          *)
(*                                                                         *)
(* First sums and sequences, then what the optimizer computes, then the    *)
(* parts of the inductive invariant ProxyInv: the handlers, the rows of    *)
(* the metrics, the runs of the command, the completed runs.               *)
(***************************************************************************)
EXTENDS Proxy, FiniteSetTheorems, SequenceTheorems, WellFoundedInduction, TLAPS

-----------------------------------------------------------------------------
(* Induction, as a statement about sets.                                   *)
LEMMA Least ==
  ASSUME NEW T \in SUBSET Nat, T # {}
  PROVE  \E n \in T : \A m \in T : n <= m
<1> DEFINE R == {p \in Nat \X Nat : p[1] < p[2]}
<1>1. IsWellFoundedOn(R, Nat)
  BY NatLessThanWellFounded DEF OpToRel
<1>2. PICK n \in T : \A m \in T : ~(<<m, n>> \in R)
  <2>. HIDE DEF R
  <2>. QED
    BY <1>1, WFMin
<1>3. ASSUME NEW m \in T PROVE n <= m
  <2>1. ~(<<m, n>> \in R)
    BY <1>2
  <2>2. <<m, n>>[1] = m /\ <<m, n>>[2] = n /\ <<m, n>> \in Nat \X Nat
    OBVIOUS
  <2>3. ~(m < n)
    BY <2>1, <2>2
  <2>. QED
    BY <2>3
<1>. QED
  BY <1>3

(* By induction up to a bound.                                             *)
LEMMA UpTo ==
  ASSUME NEW n \in Nat, NEW S, 0 \in S, \A k \in 0 .. n - 1 : k \in S => k + 1 \in S
  PROVE  \A k \in 0 .. n : k \in S
<1> DEFINE T == {k \in 0 .. n : k \notin S}
<1>1. SUFFICES ASSUME T # {} PROVE FALSE
  OBVIOUS
<1>2. T \in SUBSET Nat
  OBVIOUS
<1>3. PICK k \in T : \A m \in T : k <= m
  <2>. HIDE DEF T
  <2>. QED
    BY <1>1, <1>2, Least
<1>4. k \in 1 .. n /\ k - 1 \in 0 .. n - 1 /\ k - 1 \notin T
  BY <1>3
<1>. QED
  BY <1>3, <1>4

(* The sizes of the subsets of a finite set.                               *)
LEMMA SizeFacts ==
  ASSUME NEW S, IsFiniteSet(S)
  PROVE  /\ \A s \in SUBSET S : IsFiniteSet(s) /\ Cardinality(s) \in Nat
         /\ \A s \in SUBSET S : Cardinality(s) = 0 <=> s = {}
         /\ \A s \in SUBSET S : \A x \in s : Cardinality(s \ {x}) = Cardinality(s) - 1
         /\ \A s \in SUBSET S : Cardinality(s) <= Cardinality(S)
<1>1. \A s \in SUBSET S : IsFiniteSet(s) /\ Cardinality(s) \in Nat
  BY FS_Subset, FS_CardinalityType
<1>2. \A s \in SUBSET S : Cardinality(s) = 0 <=> s = {}
  BY <1>1, FS_EmptySet
<1>3. \A s \in SUBSET S : \A x \in s : Cardinality(s \ {x}) = Cardinality(s) - 1
  BY <1>1, FS_RemoveElement
<1>4. \A s \in SUBSET S : Cardinality(s) <= Cardinality(S)
  BY FS_Subset
<1>. QED
  BY <1>1, <1>2, <1>3, <1>4

(* By induction on the size of a finite set.                               *)
LEMMA BySize ==
  ASSUME NEW S, IsFiniteSet(S), NEW W,
         \A s \in SUBSET S : (\A x \in s : s \ {x} \in W) => s \in W
  PROVE  \A s \in SUBSET S : s \in W
<1> DEFINE K == {k \in 0 .. Cardinality(S) : \A s \in SUBSET S : Cardinality(s) = k => s \in W}
<1>1. Cardinality(S) \in Nat
  BY SizeFacts
<1>2. 0 \in K
  BY SizeFacts, <1>1
<1>3. ASSUME NEW k \in 0 .. Cardinality(S) - 1, k \in K PROVE k + 1 \in K
  <2>1. ASSUME NEW s \in SUBSET S, Cardinality(s) = k + 1 PROVE s \in W
    <3>1. ASSUME NEW x \in s PROVE s \ {x} \in W
      <4>1. Cardinality(s \ {x}) = k /\ s \ {x} \in SUBSET S
        BY <2>1, SizeFacts
      <4>. QED
        BY <1>3, <4>1
    <3>. QED
      BY <3>1
  <2>2. k + 1 \in 0 .. Cardinality(S)
    BY <1>1
  <2>. QED
    BY <2>1, <2>2
<1>4. \A k \in 0 .. Cardinality(S) : k \in K
  <2>. HIDE DEF K
  <2>. QED
    BY <1>1, <1>2, <1>3, UpTo
<1>5. ASSUME NEW s \in SUBSET S PROVE s \in W
  <2>1. Cardinality(s) \in 0 .. Cardinality(S)
    BY SizeFacts
  <2>. QED
    BY <1>4, <2>1
<1>. QED
  BY <1>5

-----------------------------------------------------------------------------
(* Sums over a finite set (Functions!SumFunction takes its elements one    *)
(* by one, in the order of CHOOSE).                                        *)
One(s) == CHOOSE x \in s : TRUE

Sums(g, f, S) ==
  /\ g \in [SUBSET S -> Nat]
  /\ g[{}] = 0
  /\ \A s \in SUBSET S : s # {} => g[s] = f[One(s)] + g[s \ {One(s)}]

(* The sums over all subsets of a finite set, built up by size.            *)
LEMMA SumsExist ==
  ASSUME NEW S, IsFiniteSet(S), NEW f \in [S -> Nat]
  PROVE  \E g : Sums(g, f, S)
<1> DEFINE n == Cardinality(S)
           Small(k) == {s \in SUBSET S : Cardinality(s) <= k}
           Holds(g, k) == \A s \in Small(k) :
                            g[s] = IF s = {} THEN 0 ELSE f[One(s)] + g[s \ {One(s)}]
           K == {k \in 0 .. n : \E g \in [Small(k) -> Nat] : Holds(g, k)}
<1>1. n \in Nat
  BY SizeFacts
<1>2. 0 \in K
  <2> DEFINE g == [s \in Small(0) |-> 0]
  <2>1. \A s \in Small(0) : s = {}
    BY SizeFacts
  <2>2. g \in [Small(0) -> Nat] /\ Holds(g, 0)
    BY <2>1
  <2>3. \E h \in [Small(0) -> Nat] : Holds(h, 0)
    <3>. HIDE DEF Holds, Small, g
    <3>. QED
      BY <2>2
  <2>4. 0 \in 0 .. n
    BY <1>1
  <2>. HIDE DEF Holds, Small
  <2>. QED
    BY <2>3, <2>4, Zenon
<1>3. ASSUME NEW k \in 0 .. n - 1, k \in K PROVE k + 1 \in K
  <2>1. PICK g \in [Small(k) -> Nat] : Holds(g, k)
    BY <1>3
  <2> DEFINE h == [s \in Small(k + 1) |-> IF s = {} THEN 0 ELSE f[One(s)] + g[s \ {One(s)}]]
  <2>2. ASSUME NEW s \in Small(k + 1), s # {}
        PROVE  One(s) \in s /\ One(s) \in S /\ s \ {One(s)} \in Small(k)
               /\ s \ {One(s)} \in Small(k + 1)
    <3>1. One(s) \in s
      BY <2>2 DEF One
    <3>2. Cardinality(s \ {One(s)}) = Cardinality(s) - 1 /\ Cardinality(s) \in Nat
          /\ Cardinality(s) <= k + 1
      BY <3>1, SizeFacts
    <3>. QED
      BY <3>1, <3>2
  <2>3. h \in [Small(k + 1) -> Nat]
    BY <2>2
  <2>4. ASSUME NEW s \in Small(k + 1), s \in Small(k) PROVE h[s] = g[s]
    BY <2>1, <2>4
  <2>5. ASSUME NEW s \in Small(k + 1)
        PROVE  h[s] = IF s = {} THEN 0 ELSE f[One(s)] + h[s \ {One(s)}]
    <3>1. CASE s = {}
      BY <3>1
    <3>2. CASE s # {}
      <4>1. h[s \ {One(s)}] = g[s \ {One(s)}]
        <5>. HIDE DEF h, Small
        <5>. QED
          BY <3>2, <2>2, <2>4
      <4>2. h[s] = f[One(s)] + g[s \ {One(s)}]
        BY <3>2
      <4>. QED
        BY <3>2, <4>1, <4>2
    <3>. QED
      BY <3>1, <3>2
  <2>6. Holds(h, k + 1)
    <3>. HIDE DEF h, Small
    <3>. QED
      BY <2>5
  <2>7. k + 1 \in 0 .. n
    BY <1>1
  <2>. HIDE DEF Holds, Small, h
  <2>. QED
    BY <2>3, <2>6, <2>7
<1>4. n \in K
  <2>. HIDE DEF K, n
  <2>. QED
    BY <1>1, <1>2, <1>3, UpTo
<1>5. PICK g \in [Small(n) -> Nat] : Holds(g, n)
  BY <1>4
<1>6. Small(n) = SUBSET S
  BY SizeFacts
<1>. HIDE DEF n, Small
<1>7. /\ g[{}] = 0
      /\ \A s \in SUBSET S : s # {} => g[s] = f[One(s)] + g[s \ {One(s)}]
  BY <1>5, <1>6
<1>. QED
  BY <1>5, <1>6, <1>7 DEF Sums

(* The order does not matter.                                              *)
LEMMA AnyFirst ==
  ASSUME NEW S, IsFiniteSet(S), NEW f \in [S -> Nat], NEW g, Sums(g, f, S)
  PROVE  \A s \in SUBSET S : \A x \in s : g[s] = f[x] + g[s \ {x}]
<1> DEFINE W == {s \in SUBSET S : \A x \in s : g[s] = f[x] + g[s \ {x}]}
<1>1. ASSUME NEW s \in SUBSET S, \A x \in s : s \ {x} \in W PROVE s \in W
  <2>1. ASSUME NEW x \in s PROVE g[s] = f[x] + g[s \ {x}]
    <3>1. One(s) \in s /\ g[s] = f[One(s)] + g[s \ {One(s)}]
      BY DEF Sums, One
    <3>2. CASE x = One(s)
      BY <3>1, <3>2
    <3>3. CASE x # One(s)
      <4>1. PICK y \in s : y = One(s)
        BY <3>1
      <4>2. g[s \ {y}] = f[x] + g[(s \ {y}) \ {x}]
        BY <1>1, <3>3, <4>1
      <4>3. g[s \ {x}] = f[y] + g[(s \ {x}) \ {y}]
        BY <1>1, <3>3, <4>1
      <4>4. (s \ {y}) \ {x} = (s \ {x}) \ {y} /\ (s \ {x}) \ {y} \in SUBSET S
        OBVIOUS
      <4>5. PICK r \in Nat : r = g[(s \ {x}) \ {y}]
        BY <4>4 DEF Sums
      <4>6. PICK a \in Nat, b \in Nat : a = f[x] /\ b = f[y]
        OBVIOUS
      <4>7. g[s] = b + (a + r) /\ g[s \ {x}] = b + r
        BY <3>1, <4>1, <4>2, <4>3, <4>4, <4>5, <4>6
      <4>. QED
        BY <4>6, <4>7
    <3>. QED
      BY <3>2, <3>3
  <2>. QED
    BY <2>1
<1>2. \A s \in SUBSET S : s \in W
  <2>. HIDE DEF W
  <2>. QED
    BY <1>1, BySize
<1>. QED
  BY <1>2

(* The sums over the subsets of a set are those of any larger set.         *)
LEMMA SumsAgree ==
  ASSUME NEW S, IsFiniteSet(S), NEW f \in [S -> Nat], NEW g, Sums(g, f, S),
         NEW T \in SUBSET S, NEW h, Sums(h, [x \in T |-> f[x]], T)
  PROVE  h[T] = g[T]
<1> DEFINE W == {s \in SUBSET T : h[s] = g[s]}
<1>1. IsFiniteSet(T)
  BY FS_Subset
<1>2. ASSUME NEW s \in SUBSET T, \A x \in s : s \ {x} \in W PROVE s \in W
  <2>1. CASE s = {}
    BY <2>1 DEF Sums
  <2>2. CASE s # {}
    <3>1. One(s) \in s /\ s \ {One(s)} \in W
      BY <1>2, <2>2 DEF One
    <3>2. h[s] = f[One(s)] + h[s \ {One(s)}]
      BY <2>2, <3>1 DEF Sums
    <3>3. g[s] = f[One(s)] + g[s \ {One(s)}]
      BY <2>2 DEF Sums
    <3>. QED
      BY <3>1, <3>2, <3>3
  <2>. QED
    BY <2>1, <2>2
<1>3. \A s \in SUBSET T : s \in W
  <2>. HIDE DEF W
  <2>. QED
    BY <1>1, <1>2, BySize
<1>. QED
  BY <1>3

(* SumFunction is the sum over the whole domain.                           *)
LEMMA SumIs ==
  ASSUME NEW S, IsFiniteSet(S), NEW f \in [S -> Nat]
  PROVE  \E g : Sums(g, f, S) /\ SumFunction(f) = g[S]
<1> DEFINE E(g) == g = [s \in SUBSET S |-> IF s = {} THEN 0
                                          ELSE f[One(s)] + g[s \ {One(s)}]]
           F == CHOOSE g : E(g)
<1>1. SumFunction(f) = F[S]
  BY DEF SumFunction, SumFunctionOnSet, FoldFunctionOnSet, MapThenFoldSet, One
<1>2. E(F)
  <2>1. PICK g : Sums(g, f, S)
    BY SumsExist
  <2>2. E(g)
    BY <2>1 DEF Sums
  <2>. QED
    BY <2>2
<1>3. Sums(F, f, S)
  <2> DEFINE W == {s \in SUBSET S : F[s] \in Nat}
  <2>1. ASSUME NEW s \in SUBSET S
        PROVE  F[s] = IF s = {} THEN 0 ELSE f[One(s)] + F[s \ {One(s)}]
    <3>. HIDE DEF F
    <3>. QED
      BY <1>2
  <2>. HIDE DEF E, F
  <2>2. ASSUME NEW s \in SUBSET S, \A x \in s : s \ {x} \in W PROVE s \in W
    <3>1. CASE s = {}
      <4>1. F[s] = 0
        BY <2>1, <3>1
      <4>. QED
        BY <4>1
    <3>2. CASE s # {}
      <4>1. One(s) \in s /\ f[One(s)] \in Nat
        BY <3>2 DEF One
      <4>2. F[s \ {One(s)}] \in Nat
        BY <2>2, <4>1
      <4>3. F[s] = f[One(s)] + F[s \ {One(s)}]
        BY <2>1, <3>2
      <4>4. PICK a \in Nat, b \in Nat : a = f[One(s)] /\ b = F[s \ {One(s)}]
        BY <4>1, <4>2
      <4>5. F[s] = a + b
        BY <4>3, <4>4
      <4>. QED
        BY <4>5
    <3>. QED
      BY <3>1, <3>2
  <2>3. \A s \in SUBSET S : s \in W
    <3>. HIDE DEF W
    <3>. QED
      BY <2>2, BySize
  <2>4. F = [s \in SUBSET S |-> F[s]]
    BY <1>2 DEF E
  <2>5. F \in [SUBSET S -> Nat]
    BY <2>3, <2>4
  <2>. QED
    BY <2>1, <2>5 DEF Sums
<1>. QED
  BY <1>1, <1>3

(* A sum is any one element and the sum of the others.                     *)
LEMMA SumSplit ==
  ASSUME NEW S, IsFiniteSet(S), NEW f \in [S -> Nat]
  PROVE  /\ SumFunction(f) \in Nat
         /\ S = {} => SumFunction(f) = 0
         /\ \A x \in S : SumFunction(f) = f[x] + SumFunction([y \in S \ {x} |-> f[y]])
<1>1. PICK g : Sums(g, f, S) /\ SumFunction(f) = g[S]
  BY SumIs
<1>2. ASSUME NEW x \in S
      PROVE  SumFunction(f) = f[x] + SumFunction([y \in S \ {x} |-> f[y]])
  <2>1. [y \in S \ {x} |-> f[y]] \in [S \ {x} -> Nat] /\ IsFiniteSet(S \ {x})
    BY FS_Subset
  <2>2. PICK h : /\ Sums(h, [y \in S \ {x} |-> f[y]], S \ {x})
                 /\ SumFunction([y \in S \ {x} |-> f[y]]) = h[S \ {x}]
    BY <2>1, SumIs
  <2>3. h[S \ {x}] = g[S \ {x}]
    <3>1. PICK T : T = S \ {x}
      OBVIOUS
    <3>2. T \in SUBSET S /\ Sums(h, [y \in T |-> f[y]], T)
      BY <2>2, <3>1
    <3>3. h[T] = g[T]
      BY <1>1, <3>2, SumsAgree
    <3>. QED
      BY <3>1, <3>3
  <2>4. g[S] = f[x] + g[S \ {x}]
    BY <1>1, AnyFirst
  <2>. QED
    BY <1>1, <2>2, <2>3, <2>4
<1>. QED
  BY <1>1, <1>2 DEF Sums

(* The sum of a sequence that is appended to.                              *)
LEMMA SumAppended ==
  ASSUME NEW s \in Seq(Nat), NEW x \in Nat
  PROVE  /\ SumFunction(s) \in Nat
         /\ SumFunction(Append(s, x)) = SumFunction(s) + x
<1> DEFINE n == Len(s)
           t == Append(s, x)
<1>1. n \in Nat /\ s \in [1 .. n -> Nat] /\ t \in [1 .. n + 1 -> Nat] /\ t[n + 1] = x
  <2>1. n \in Nat /\ s \in [1 .. n -> Nat] /\ t \in Seq(Nat) /\ Len(t) = n + 1 /\ t[n + 1] = x
    OBVIOUS
  <2>. HIDE DEF t, n
  <2>2. t \in [1 .. Len(t) -> Nat]
    BY <2>1
  <2>. QED
    BY <2>1, <2>2
<1>2. IsFiniteSet(1 .. n) /\ IsFiniteSet(1 .. n + 1)
  BY <1>1, FS_Interval
<1>3. [y \in (1 .. n + 1) \ {n + 1} |-> t[y]] = s
  <2>1. (1 .. n + 1) \ {n + 1} = 1 .. n /\ \A y \in 1 .. n : t[y] = s[y]
    BY <1>1
  <2>2. [y \in (1 .. n + 1) \ {n + 1} |-> t[y]] = [y \in 1 .. n |-> s[y]]
    BY <2>1
  <2>. QED
    BY <1>1, <2>2
<1>. HIDE DEF t, n
<1>4. n + 1 \in 1 .. n + 1
  BY <1>1
<1>5. \A y \in 1 .. n + 1 :
        SumFunction(t) = t[y] + SumFunction([z \in (1 .. n + 1) \ {y} |-> t[z]])
  BY <1>1, <1>2, SumSplit
<1>6. SumFunction(t) = t[n + 1] + SumFunction([z \in (1 .. n + 1) \ {n + 1} |-> t[z]])
  BY <1>4, <1>5
<1>7. SumFunction(s) \in Nat
  BY <1>1, <1>2, SumSplit
<1>. QED
  BY <1>1, <1>3, <1>6, <1>7 DEF t

(* A sum over more of a set is no smaller.                                 *)
LEMMA SumOfMore ==
  ASSUME NEW S, IsFiniteSet(S), NEW f \in [S -> Nat], NEW F, Sums(F, f, S),
         NEW u \in SUBSET S, NEW s \in SUBSET u
  PROVE  F[s] <= F[u]
<1> DEFINE R == u \ s
           W == {d \in SUBSET R : F[s] <= F[s \cup d]}
<1>1. IsFiniteSet(R)
  <2>1. R \in SUBSET S
    OBVIOUS
  <2>. QED
    BY <2>1, FS_Subset
<1>2. ASSUME NEW d \in SUBSET R, \A x \in d : d \ {x} \in W PROVE d \in W
  <2>1. CASE d = {}
    <3>1. s \cup d = s
      BY <2>1
    <3>2. F[s] \in Nat
      BY DEF Sums
    <3>3. F[s] <= F[s \cup d]
      BY <3>1, <3>2
    <3>. QED
      BY <3>3
  <2>2. CASE d # {}
    <3>1. PICK x \in d : TRUE
      BY <2>2
    <3>2. d \ {x} \in W /\ s \cup (d \ {x}) = (s \cup d) \ {x} /\ x \in s \cup d
      BY <1>2, <3>1
    <3>3. F[s \cup d] = f[x] + F[(s \cup d) \ {x}]
      BY <3>1, <3>2, AnyFirst
    <3>4. PICK a \in Nat, b \in Nat, c \in Nat :
            a = f[x] /\ b = F[(s \cup d) \ {x}] /\ c = F[s]
      BY DEF Sums
    <3>5. c <= b /\ F[s \cup d] = a + b
      BY <3>2, <3>3, <3>4
    <3>6. c <= a + b
      BY <3>5
    <3>. QED
      BY <3>4, <3>5, <3>6
  <2>. QED
    BY <2>1, <2>2
<1>3. \A d \in SUBSET R : d \in W
  <2>. HIDE DEF W, R
  <2>. QED
    BY <1>1, <1>2, BySize
<1>4. R \in W /\ s \cup R = u
  BY <1>3
<1>. QED
  BY <1>4

(* A sum over a part of a set, its elements renamed.                       *)
LEMMA SumInto ==
  ASSUME NEW S, IsFiniteSet(S), NEW f \in [S -> Nat],
         NEW T, IsFiniteSet(T), NEW g \in [T -> Nat],
         NEW e \in [T -> S], \A x, y \in T : e[x] = e[y] => x = y,
         \A x \in T : g[x] = f[e[x]]
  PROVE  /\ SumFunction(g) <= SumFunction(f)
         /\ \A y \in S : (\A x \in T : e[x] # y) => SumFunction(g) + f[y] <= SumFunction(f)
<1>1. PICK F : Sums(F, f, S) /\ SumFunction(f) = F[S]
  BY SumIs
<1>2. PICK G : Sums(G, g, T) /\ SumFunction(g) = G[T]
  BY SumIs
<1> DEFINE I(t) == {e[x] : x \in t}
           W == {t \in SUBSET T : G[t] = F[I(t)]}
<1>3. ASSUME NEW t \in SUBSET T, \A x \in t : t \ {x} \in W PROVE t \in W
  <2>1. CASE t = {}
    <3>1. I(t) = {}
      BY <2>1
    <3>. QED
      BY <1>1, <1>2, <2>1, <3>1 DEF Sums
  <2>2. CASE t # {}
    <3>1. PICK x \in t : TRUE
      BY <2>2
    <3>2. I(t \ {x}) = I(t) \ {e[x]} /\ e[x] \in I(t) /\ I(t) \in SUBSET S
      <4>1. \A y \in t : e[y] = e[x] => y = x
        BY <3>1
      <4>. QED
        BY <3>1, <4>1
    <3>3. t \ {x} \in W
      BY <1>3, <3>1
    <3>. HIDE DEF I
    <3>4. F[I(t)] = f[e[x]] + F[I(t) \ {e[x]}]
      BY <1>1, <3>2, AnyFirst
    <3>5. G[t] = g[x] + G[t \ {x}]
      BY <1>2, <3>1, AnyFirst
    <3>. QED
      BY <3>1, <3>2, <3>3, <3>4, <3>5
  <2>. QED
    BY <2>1, <2>2
<1>4. \A t \in SUBSET T : t \in W
  <2>. HIDE DEF W
  <2>. QED
    BY <1>3, BySize
<1>5. G[T] = F[I(T)] /\ I(T) \in SUBSET S
  BY <1>4
<1>6. G[T] <= F[S]
  <2>. HIDE DEF I
  <2>. QED
    BY <1>1, <1>5, SumOfMore
<1>7. ASSUME NEW y \in S, \A x \in T : e[x] # y PROVE G[T] + f[y] <= F[S]
  <2>1. I(T) \in SUBSET (S \ {y})
    BY <1>5, <1>7
  <2>. HIDE DEF I
  <2>2. F[S] = f[y] + F[S \ {y}]
    BY <1>1, AnyFirst
  <2>3. F[I(T)] <= F[S \ {y}]
    BY <1>1, <2>1, SumOfMore
  <2>4. PICK a \in Nat, b \in Nat, c \in Nat : a = f[y] /\ b = F[I(T)] /\ c = F[S \ {y}]
    BY <1>1, <1>5 DEF Sums
  <2>5. F[S] = a + c /\ b <= c /\ G[T] = b
    BY <1>5, <2>2, <2>3, <2>4
  <2>. QED
    BY <2>4, <2>5
<1>. QED
  BY <1>1, <1>2, <1>6, <1>7

-----------------------------------------------------------------------------
(* The elements of a sequence at some positions.                           *)
Picks(e, t, s, positions) ==
  /\ e \in [DOMAIN t -> DOMAIN s]
  /\ \A i, j \in DOMAIN t : i < j => e[i] < e[j]
  /\ \A i \in DOMAIN t : e[i] \in positions /\ t[i] = s[e[i]]
  /\ \A p \in positions : \E i \in DOMAIN t : e[i] = p

(* Positions can be put in order, so that At chooses among something.      *)
LEMMA OrderExists ==
  ASSUME NEW n \in Nat, NEW I \in SUBSET (1 .. n)
  PROVE  /\ Cardinality(I) \in Nat
         /\ \E e \in Bijection(1 .. Cardinality(I), I) : \A i, j \in DOMAIN e : i < j => e[i] < e[j]
<1> DEFINE Ordered(e, J) ==
             /\ \A i, j \in 1 .. Cardinality(J) : i < j => e[i] < e[j]
             /\ \A p \in J : \E i \in 1 .. Cardinality(J) : e[i] = p
           K == {k \in 0 .. n :
                   \A J \in SUBSET (1 .. k) : \E e \in [1 .. Cardinality(J) -> J] : Ordered(e, J)}
<1>1. \A J \in SUBSET (1 .. n) : IsFiniteSet(J) /\ Cardinality(J) \in Nat
  <2>1. IsFiniteSet(1 .. n)
    BY FS_Interval
  <2>. QED
    BY <2>1, SizeFacts
<1>2. 0 \in K
  <2>1. ASSUME NEW J \in SUBSET (1 .. 0) PROVE \E e \in [1 .. Cardinality(J) -> J] : Ordered(e, J)
    <3>1. J = {} /\ Cardinality(J) = 0
      <4>1. 1 .. 0 = {}
        OBVIOUS
      <4>. QED
        BY <4>1, FS_EmptySet
    <3> DEFINE e == [i \in 1 .. 0 |-> 0]
    <3>2. e \in [1 .. Cardinality(J) -> J] /\ Ordered(e, J)
      BY <3>1
    <3>. HIDE DEF Ordered, e
    <3>. QED
      BY <3>2
  <2>2. 0 \in 0 .. n
    OBVIOUS
  <2>. HIDE DEF Ordered
  <2>. QED
    BY <2>1, <2>2
<1>3. ASSUME NEW k \in 0 .. n - 1, k \in K PROVE k + 1 \in K
  <2>1. ASSUME NEW J \in SUBSET (1 .. k + 1)
        PROVE  \E e \in [1 .. Cardinality(J) -> J] : Ordered(e, J)
    <3>1. CASE k + 1 \notin J
      <4>1. J \in SUBSET (1 .. k)
        BY <3>1
      <4>. HIDE DEF Ordered
      <4>. QED
        BY <1>3, <4>1
    <3>2. CASE k + 1 \in J
      <4> DEFINE H == J \ {k + 1}
                 c == Cardinality(H)
      <4>1. H \in SUBSET (1 .. k) /\ H \in SUBSET (1 .. n) /\ J \in SUBSET (1 .. n)
        BY <3>2
      <4>2. c \in Nat /\ Cardinality(J) = c + 1
        BY <1>1, <3>2, <4>1, FS_RemoveElement
      <4>3. PICK e \in [1 .. c -> H] : Ordered(e, H)
        <5>. HIDE DEF Ordered
        <5>. QED
          BY <1>3, <4>1
      <4>. HIDE DEF c, H
      <4> DEFINE f == [i \in 1 .. c + 1 |-> IF i = c + 1 THEN k + 1 ELSE e[i]]
      <4>4. \A i \in 1 .. c : f[i] = e[i] /\ e[i] \in H /\ e[i] \in 1 .. k
        <5>1. ASSUME NEW i \in 1 .. c PROVE i \in 1 .. c + 1 /\ i # c + 1
          BY <4>2
        <5>2. ASSUME NEW i \in 1 .. c PROVE e[i] \in H /\ e[i] \in 1 .. k
          BY <4>1
        <5>. QED
          BY <5>1, <5>2
      <4>5. f[c + 1] = k + 1 /\ \A i \in 1 .. c + 1 : i \in 1 .. c \/ i = c + 1
        <5>1. c + 1 \in 1 .. c + 1
          BY <4>2
        <5>2. \A i \in 1 .. c + 1 : i \in 1 .. c \/ i = c + 1
          BY <4>2
        <5>. QED
          BY <5>1, <5>2
      <4>6. f \in [1 .. c + 1 -> J]
        BY <3>2, <4>2, <4>4, <4>5 DEF H
      <4>. HIDE DEF f
      <4>7. \A i, j \in 1 .. c + 1 : i < j => f[i] < f[j]
        <5>1. \A i, j \in 1 .. c : i < j => e[i] < e[j]
          BY <4>3 DEF c
        <5>2. ASSUME NEW i \in 1 .. c + 1, NEW j \in 1 .. c + 1, i < j PROVE f[i] < f[j]
          <6>1. i \in 1 .. c
            BY <4>2, <5>2
          <6>2. CASE j \in 1 .. c
            BY <4>4, <5>1, <5>2, <6>1, <6>2
          <6>3. CASE j = c + 1
            <7>1. f[i] \in 1 .. k /\ f[j] = k + 1
              BY <4>4, <4>5, <6>1, <6>3
            <7>. QED
              BY <7>1
          <6>. QED
            BY <4>5, <6>2, <6>3
        <5>. QED
          BY <5>2
      <4>8. \A p \in J : \E i \in 1 .. c + 1 : f[i] = p
        <5>1. \A p \in H : \E i \in 1 .. c : e[i] = p
          BY <4>3 DEF c
        <5>2. ASSUME NEW p \in J PROVE \E i \in 1 .. c + 1 : f[i] = p
          <6>1. CASE p = k + 1
            <7>1. c + 1 \in 1 .. c + 1
              BY <4>2
            <7>. QED
              BY <4>5, <6>1, <7>1
          <6>2. CASE p # k + 1
            <7>1. PICK i \in 1 .. c : e[i] = p
              BY <5>1, <6>2 DEF H
            <7>2. i \in 1 .. c + 1
              BY <4>2
            <7>. QED
              BY <4>4, <7>1, <7>2
          <6>. QED
            BY <6>1, <6>2
        <5>. QED
          BY <5>2
      <4>9. Ordered(f, J)
        BY <4>2, <4>7, <4>8
      <4>. HIDE DEF Ordered
      <4>. QED
        BY <4>2, <4>6, <4>9
    <3>. QED
      BY <3>1, <3>2
  <2>2. k + 1 \in 0 .. n
    OBVIOUS
  <2>. HIDE DEF Ordered
  <2>. QED
    BY <2>1, <2>2
<1>4. n \in K
  <2>. HIDE DEF K
  <2>. QED
    BY <1>2, <1>3, UpTo
<1>5. PICK e \in [1 .. Cardinality(I) -> I] : Ordered(e, I)
  <2>. HIDE DEF Ordered
  <2>. QED
    BY <1>4
<1>6. Cardinality(I) \in Nat
  BY <1>1
<1>7. \A i, j \in 1 .. Cardinality(I) : e[i] = e[j] => i = j
  <2>1. ASSUME NEW i \in 1 .. Cardinality(I), NEW j \in 1 .. Cardinality(I), e[i] = e[j] PROVE i = j
    <3>1. ~(e[i] < e[j]) /\ ~(e[j] < e[i])
      <4>1. e[i] \in I /\ e[i] \in 1 .. n
        OBVIOUS
      <4>. QED
        BY <2>1, <4>1
    <3>2. ~(i < j) /\ ~(j < i)
      BY <1>5, <3>1
    <3>. QED
      BY <1>6, <3>2
  <2>. QED
    BY <2>1
<1>8. e \in Bijection(1 .. Cardinality(I), I)
  BY <1>5, <1>7 DEF Bijection, Injection, Surjection, IsInjective
<1>. QED
  BY <1>5, <1>6, <1>8

(* What At returns.                                                        *)
LEMMA AtPicks ==
  ASSUME NEW S, NEW s \in Seq(S), NEW I \in SUBSET DOMAIN s
  PROVE  /\ At(s, I) \in Seq(S)
         /\ \E e : Picks(e, At(s, I), s, I)
<1>1. DOMAIN s = 1 .. Len(s) /\ Len(s) \in Nat /\ I \in SUBSET (1 .. Len(s))
  OBVIOUS
<1> DEFINE P(e) == \A i, j \in DOMAIN e : i < j => e[i] < e[j]
           e == CHOOSE x \in Bijection(1 .. Cardinality(I), I) : P(x)
           t == [k \in DOMAIN e |-> s[e[k]]]
<1>2. e \in Bijection(1 .. Cardinality(I), I) /\ P(e) /\ Cardinality(I) \in Nat
  BY <1>1, OrderExists
<1>3. At(s, I) = t
  BY DEF At
<1>. HIDE DEF e
<1>4. e \in [1 .. Cardinality(I) -> I] /\ \A p \in I : \E i \in 1 .. Cardinality(I) : e[i] = p
  BY <1>2 DEF Bijection, Surjection, Injection
<1>5. DOMAIN e = 1 .. Cardinality(I)
  BY <1>4
<1>6. ASSUME NEW k \in 1 .. Cardinality(I) PROVE e[k] \in 1 .. Len(s) /\ s[e[k]] \in S
  BY <1>1, <1>4
<1>7. t \in [1 .. Cardinality(I) -> S]
  BY <1>5, <1>6
<1>8. t \in Seq(S) /\ DOMAIN t = 1 .. Cardinality(I)
  <2>. HIDE DEF t
  <2>. QED
    BY <1>2, <1>7
<1>9. Picks(e, t, s, I)
  BY <1>1, <1>2, <1>4, <1>5 DEF Picks
<1>. QED
  BY <1>3, <1>8, <1>9

-----------------------------------------------------------------------------
(* Sequences put together one after another.                               *)
Joins(r, s) ==
  \A i \in DOMAIN r : r[i] = IF i = 1 THEN s[1] ELSE r[i - 1] \o s[i]

(* The sequences that FlattenSeq puts together, one more at a time.        *)
LEMMA JoinsExist ==
  ASSUME NEW S, NEW s \in Seq(Seq(S)), Len(s) # 0
  PROVE  \E r \in [1 .. Len(s) -> Seq(S)] : Joins(r, s)
<1> DEFINE n == Len(s)
           K == {k \in 0 .. n : \E r \in [1 .. k -> Seq(S)] : Joins(r, s)}
<1>1. n \in Nat /\ n >= 1 /\ \A i \in 1 .. n : s[i] \in Seq(S)
  OBVIOUS
<1>. HIDE DEF n
<1>2. 0 \in K
  <2> DEFINE r == [i \in 1 .. 0 |-> <<>>]
  <2>1. r \in [1 .. 0 -> Seq(S)] /\ Joins(r, s)
    BY DEF Joins
  <2>2. 0 \in 0 .. n
    BY <1>1
  <2>. HIDE DEF r
  <2>. QED
    BY <2>1, <2>2
<1>3. ASSUME NEW k \in 0 .. n - 1, k \in K PROVE k + 1 \in K
  <2>1. PICK r \in [1 .. k -> Seq(S)] : Joins(r, s)
    BY <1>3
  <2> DEFINE new == IF k = 0 THEN s[1] ELSE r[k] \o s[k + 1]
             q == [i \in 1 .. k + 1 |-> IF i = k + 1 THEN new ELSE r[i]]
  <2>2. new \in Seq(S)
    <3>1. CASE k = 0
      BY <1>1, <3>1
    <3>2. CASE k # 0
      <4>1. k \in 1 .. k /\ k + 1 \in 1 .. n
        BY <1>1, <3>2
      <4>2. r[k] \in Seq(S) /\ s[k + 1] \in Seq(S)
        BY <1>1, <4>1
      <4>. QED
        BY <3>2, <4>2
    <3>. QED
      BY <3>1, <3>2
  <2>3. \A i \in 1 .. k + 1 : i \in 1 .. k \/ i = k + 1
    OBVIOUS
  <2>4. q \in [1 .. k + 1 -> Seq(S)]
    <3>. HIDE DEF new
    <3>. QED
      BY <2>2, <2>3
  <2>5. ASSUME NEW i \in 1 .. k + 1 PROVE q[i] = IF i = 1 THEN s[1] ELSE q[i - 1] \o s[i]
    <3>1. CASE i \in 1 .. k
      <4>1. q[i] = r[i]
        <5>1. i # k + 1
          BY <3>1
        <5>. HIDE DEF new
        <5>. QED
          BY <5>1
      <4>2. r[i] = IF i = 1 THEN s[1] ELSE r[i - 1] \o s[i]
        BY <2>1, <3>1 DEF Joins
      <4>3. i # 1 => q[i - 1] = r[i - 1]
        <5>1. i # 1 => i - 1 \in 1 .. k + 1 /\ i - 1 # k + 1
          BY <3>1
        <5>. QED
          BY <5>1
      <4>. HIDE DEF q, new
      <4>. QED
        BY <4>1, <4>2, <4>3
    <3>2. CASE i = k + 1
      <4>1. q[i] = new
        BY <3>2
      <4>2. CASE k = 0
        BY <3>2, <4>1, <4>2
      <4>3. CASE k # 0
        <5>1. i # 1 /\ i - 1 = k /\ k \in 1 .. k + 1 /\ k # k + 1
          BY <3>2, <4>3
        <5>2. q[k] = r[k]
          BY <5>1
        <5>3. new = r[k] \o s[i]
          BY <3>2, <4>3
        <5>. HIDE DEF q, new
        <5>. QED
          BY <4>1, <5>1, <5>2, <5>3
      <4>. QED
        BY <4>2, <4>3
    <3>. QED
      BY <2>3, <3>1, <3>2
  <2>6. Joins(q, s)
    <3>1. DOMAIN q = 1 .. k + 1
      OBVIOUS
    <3>. HIDE DEF q
    <3>. QED
      BY <2>5, <3>1 DEF Joins
  <2>7. k + 1 \in 0 .. n
    BY <1>1
  <2>. HIDE DEF q
  <2>. QED
    BY <2>4, <2>6, <2>7
<1>4. \A k \in 0 .. n : k \in K
  <2>. HIDE DEF K
  <2>. QED
    BY <1>1, <1>2, <1>3, UpTo
<1>5. n \in K
  <2>. HIDE DEF K
  <2>1. n \in 0 .. n
    BY <1>1
  <2>. QED
    BY <1>4, <2>1
<1>. QED
  BY <1>5 DEF n

(* FlattenSeq returns the last of them.                                    *)
LEMMA FlattenJoins ==
  ASSUME NEW S, NEW s \in Seq(Seq(S)), Len(s) # 0
  PROVE  \E r : Joins(r, s) /\ DOMAIN r = 1 .. Len(s) /\ FlattenSeq(s) = r[Len(s)]
<1> DEFINE E(r) == r = [i \in 1 .. Len(s) |-> IF i = 1 THEN s[i] ELSE r[i - 1] \o s[i]]
           F == CHOOSE r : E(r)
<1>1. FlattenSeq(s) = F[Len(s)]
  BY DEF FlattenSeq
<1>2. E(F)
  <2>1. PICK r \in [1 .. Len(s) -> Seq(S)] : Joins(r, s)
    BY JoinsExist
  <2>2. E(r)
    BY <2>1 DEF Joins
  <2>. QED
    BY <2>2
<1>. HIDE DEF F
<1>3. DOMAIN F = 1 .. Len(s) /\ Joins(F, s)
  BY <1>2 DEF Joins
<1>. QED
  BY <1>1, <1>3

(* What FlattenSeq returns, and what it returns when only the first is not *)
(* empty.                                                                  *)
LEMMA Flattened ==
  ASSUME NEW S, NEW s \in Seq(Seq(S))
  PROVE  /\ FlattenSeq(s) \in Seq(S)
         /\ (\A i \in 2 .. Len(s) : s[i] = <<>>) =>
              FlattenSeq(s) = IF Len(s) = 0 THEN <<>> ELSE s[1]
<1>1. CASE Len(s) = 0
  <2>1. s = <<>> /\ <<>> \in Seq(S)
    BY <1>1
  <2>2. FlattenSeq(s) = <<>>
    BY <1>1, <2>1 DEF FlattenSeq
  <2>. QED
    BY <1>1, <2>1, <2>2
<1>2. CASE Len(s) # 0
  <2>1. PICK r : Joins(r, s) /\ DOMAIN r = 1 .. Len(s) /\ FlattenSeq(s) = r[Len(s)]
    BY <1>2, FlattenJoins
  <2>2. Len(s) \in Nat /\ Len(s) >= 1 /\ \A i \in 1 .. Len(s) : s[i] \in Seq(S)
    BY <1>2
  <2>3. /\ r[1] = s[1]
        /\ \A i \in 1 .. Len(s) : i # 1 => r[i] = r[i - 1] \o s[i]
    <3>1. 1 \in 1 .. Len(s)
      BY <2>2
    <3>. QED
      BY <2>1, <3>1 DEF Joins
  <2>4. FlattenSeq(s) \in Seq(S)
    <3> DEFINE K == {k \in 0 .. Len(s) : k = 0 \/ r[k] \in Seq(S)}
    <3>1. ASSUME NEW k \in 0 .. Len(s) - 1, k \in K PROVE k + 1 \in K
      <4>1. k + 1 \in 1 .. Len(s) /\ s[k + 1] \in Seq(S) /\ (k + 1) - 1 = k /\ k + 1 \in 0 .. Len(s)
        BY <2>2
      <4>2. CASE k = 0
        BY <2>2, <2>3, <4>1, <4>2
      <4>3. CASE k # 0
        <5>1. r[k + 1] = r[k] \o s[k + 1]
          <6>1. k + 1 # 1
            BY <4>3
          <6>2. r[k + 1] = r[(k + 1) - 1] \o s[k + 1]
            BY <2>3, <4>1, <6>1
          <6>. QED
            BY <4>1, <6>2
        <5>2. r[k] \in Seq(S)
          BY <3>1, <4>3
        <5>3. r[k + 1] \in Seq(S)
          BY <4>1, <5>1, <5>2
        <5>. QED
          BY <4>1, <5>3
      <4>. QED
        BY <4>2, <4>3
    <3>2. 0 \in K
      BY <2>2
    <3>3. \A k \in 0 .. Len(s) : k \in K
      <4>1. Len(s) \in Nat
        OBVIOUS
      <4>. HIDE DEF K
      <4>. QED
        BY <3>1, <3>2, <4>1, UpTo
    <3>4. Len(s) \in K
      BY <2>2, <3>3
    <3>. QED
      BY <1>2, <2>1, <3>4
  <2>5. ASSUME \A i \in 2 .. Len(s) : s[i] = <<>> PROVE FlattenSeq(s) = s[1]
    <3> DEFINE K == {k \in 0 .. Len(s) : k = 0 \/ r[k] = s[1]}
    <3>1. ASSUME NEW k \in 0 .. Len(s) - 1, k \in K PROVE k + 1 \in K
      <4>1. k + 1 \in 1 .. Len(s) /\ (k + 1) - 1 = k /\ k + 1 \in 0 .. Len(s)
        BY <2>2
      <4>2. CASE k = 0
        BY <2>2, <2>3, <4>1, <4>2
      <4>3. CASE k # 0
        <5>1. k + 1 \in 2 .. Len(s) /\ k + 1 # 1
          BY <4>1, <4>3
        <5>2. r[k + 1] = s[1] \o <<>>
          BY <2>3, <2>5, <3>1, <4>1, <4>3, <5>1
        <5>3. r[k + 1] = s[1]
          <6>1. s[1] \in Seq(S)
            BY <2>2
          <6>. QED
            BY <5>2, <6>1
        <5>. QED
          BY <4>1, <5>3
      <4>. QED
        BY <4>2, <4>3
    <3>2. 0 \in K
      BY <2>2
    <3>3. \A k \in 0 .. Len(s) : k \in K
      <4>1. Len(s) \in Nat
        OBVIOUS
      <4>. HIDE DEF K
      <4>. QED
        BY <3>1, <3>2, <4>1, UpTo
    <3>4. Len(s) \in K
      BY <2>2, <3>3
    <3>. QED
      BY <1>2, <2>1, <3>4
  <2>. QED
    BY <1>2, <2>4, <2>5
<1>. QED
  BY <1>1, <1>2

-----------------------------------------------------------------------------
(* The optimizer.                                                          *)

(* The size of a sequence of parts is a sum over its positions.            *)
LEMMA TotalIsSum ==
  ASSUME NEW S, \A x \in S : x.content \in Contents, NEW s \in Seq(S)
  PROVE  /\ [i \in DOMAIN s |-> SizeOf(s[i].content)] \in [DOMAIN s -> Nat]
         /\ IsFiniteSet(DOMAIN s)
         /\ Total(s) \in Nat
<1>1. DOMAIN s = 1 .. Len(s) /\ Len(s) \in Nat
  OBVIOUS
<1>2. IsFiniteSet(DOMAIN s)
  BY <1>1, FS_Interval
<1>3. ASSUME NEW i \in DOMAIN s PROVE SizeOf(s[i].content) \in Nat
  <2>1. s[i] \in S
    BY <1>1
  <2>. QED
    BY <2>1, OptimizerAssumption
<1>4. [i \in DOMAIN s |-> SizeOf(s[i].content)] \in [DOMAIN s -> Nat]
  BY <1>3
<1>. QED
  BY <1>2, <1>4, SumSplit DEF Total

(* What is left out of a sequence makes it smaller.                        *)
LEMMA TotalOfPicked ==
  ASSUME NEW S, \A x \in S : x.content \in Contents, NEW s \in Seq(S), NEW I \in SUBSET DOMAIN s
  PROVE  /\ Total(At(s, I)) <= Total(s)
         /\ \A p \in DOMAIN s \ I : Total(At(s, I)) < Total(s)
<1>1. PICK t : t = At(s, I)
  OBVIOUS
<1>2. t \in Seq(S) /\ \E e : Picks(e, t, s, I)
  BY <1>1, AtPicks
<1>3. PICK e : Picks(e, t, s, I)
  BY <1>2
<1>4. PICK f : f = [i \in DOMAIN s |-> SizeOf(s[i].content)]
  OBVIOUS
<1>5. PICK g : g = [i \in DOMAIN t |-> SizeOf(t[i].content)]
  OBVIOUS
<1>6. /\ f \in [DOMAIN s -> Nat] /\ IsFiniteSet(DOMAIN s) /\ Total(s) = SumFunction(f)
      /\ g \in [DOMAIN t -> Nat] /\ IsFiniteSet(DOMAIN t) /\ Total(t) = SumFunction(g)
      /\ Total(s) \in Nat /\ Total(t) \in Nat
  BY <1>2, <1>4, <1>5, TotalIsSum DEF Total
<1>7. e \in [DOMAIN t -> DOMAIN s] /\ \A i \in DOMAIN t : e[i] \in I /\ t[i] = s[e[i]]
  BY <1>3 DEF Picks
<1>8. \A i, j \in DOMAIN t : e[i] = e[j] => i = j
  <2>1. ASSUME NEW i \in DOMAIN t, NEW j \in DOMAIN t, e[i] = e[j] PROVE i = j
    <3>1. DOMAIN t = 1 .. Len(t) /\ Len(t) \in Nat /\ DOMAIN s = 1 .. Len(s) /\ Len(s) \in Nat
      BY <1>2
    <3>2. e[i] \in DOMAIN s /\ ~(e[i] < e[j]) /\ ~(e[j] < e[i])
      BY <1>7, <2>1, <3>1
    <3>3. ~(i < j) /\ ~(j < i)
      BY <1>3, <3>2 DEF Picks
    <3>. QED
      BY <3>1, <3>3
  <2>. QED
    BY <2>1
<1>9. \A i \in DOMAIN t : g[i] = f[e[i]]
  BY <1>4, <1>5, <1>7
<1>10. /\ SumFunction(g) <= SumFunction(f)
       /\ \A y \in DOMAIN s : (\A i \in DOMAIN t : e[i] # y) => SumFunction(g) + f[y] <= SumFunction(f)
  BY <1>6, <1>7, <1>8, <1>9, SumInto
<1>11. ASSUME NEW p \in DOMAIN s \ I PROVE Total(t) < Total(s)
  <2>1. \A i \in DOMAIN t : e[i] # p
    BY <1>7
  <2>2. SumFunction(g) + f[p] <= SumFunction(f)
    BY <1>10, <2>1
  <2>3. f[p] \in Nat \ {0}
    <3>1. s[p] \in S
      OBVIOUS
    <3>. QED
      BY <1>4, <3>1, OptimizerAssumption
  <2>. QED
    BY <1>6, <2>2, <2>3
<1>. QED
  BY <1>1, <1>6, <1>10, <1>11

(* The first of those that have something in common.                       *)
LEMMA FirstOf ==
  ASSUME NEW S, NEW s \in Seq(S), NEW I \in SUBSET DOMAIN s, I # {}
  PROVE  \E j \in I : \A k \in 1 .. j - 1 : k \notin I
<1>1. DOMAIN s = 1 .. Len(s) /\ Len(s) \in Nat /\ I \in SUBSET Nat
  OBVIOUS
<1>2. PICK j \in I : \A k \in I : j <= k
  BY <1>1, Least
<1>3. j \in Nat
  BY <1>1
<1>4. \A k \in 1 .. j - 1 : k \notin I
  BY <1>2, <1>3
<1>. QED
  BY <1>4

(* deduplicate leaves one block of every key.                              *)
LEMMA Deduplicated ==
  ASSUME NEW S \in SUBSET Blocks, NEW s \in Seq(S)
  PROVE  /\ Deduplicate(s) \in Seq(S)
         /\ \A i \in DOMAIN s : \E k \in DOMAIN Deduplicate(s) :
              Key(Deduplicate(s)[k]) = Key(s[i])
         /\ \A k \in DOMAIN Deduplicate(s) : \E i \in DOMAIN s : Deduplicate(s)[k] = s[i]
         /\ \A k, l \in DOMAIN Deduplicate(s) :
              /\ Deduplicate(s)[k].safe /\ Deduplicate(s)[l].safe
              /\ Key(Deduplicate(s)[k]) = Key(Deduplicate(s)[l])
              => k = l
         /\ Total(Deduplicate(s)) <= Total(s)
         /\ \A i, j \in DOMAIN s : /\ s[i].safe /\ s[j].safe
                                   /\ Key(s[i]) = Key(s[j]) /\ i # j
                                   => Total(Deduplicate(s)) < Total(s)
<1> DEFINE I == {i \in DOMAIN s :
                   s[i].safe => \A j \in 1 .. i - 1 : s[j].safe => Key(s[j]) # Key(s[i])}
<1>1. DOMAIN s = 1 .. Len(s) /\ Len(s) \in Nat /\ \A i \in DOMAIN s : s[i] \in S
  OBVIOUS
<1>2. PICK t : t = Deduplicate(s)
  OBVIOUS
<1>3. t = At(s, I) /\ I \in SUBSET DOMAIN s
  BY <1>2 DEF Deduplicate
<1>4. t \in Seq(S) /\ \E e : Picks(e, t, s, I)
  <2>. HIDE DEF I
  <2>. QED
    BY <1>3, AtPicks
<1>5. PICK e : Picks(e, t, s, I)
  BY <1>4
<1>6. DOMAIN t = 1 .. Len(t) /\ Len(t) \in Nat
  BY <1>4
<1>7. ASSUME NEW i \in DOMAIN s PROVE \E k \in DOMAIN t : Key(t[k]) = Key(s[i])
  <2>1. \E j \in I : Key(s[j]) = Key(s[i])
    <3>1. CASE i \in I
      BY <3>1
    <3>2. CASE i \notin I
      <4> DEFINE J == {j \in DOMAIN s : s[j].safe /\ Key(s[j]) = Key(s[i])}
      <4>1. i \in J
        BY <3>2
      <4>2. PICK j \in J : \A k \in 1 .. j - 1 : k \notin J
        <5>. HIDE DEF J
        <5>1. J \in SUBSET DOMAIN s
          BY DEF J
        <5>. QED
          BY <4>1, <5>1, FirstOf
      <4>3. \A k \in 1 .. j - 1 : k \in DOMAIN s
        BY <1>1
      <4>4. j \in I
        BY <4>2, <4>3
      <4>. QED
        BY <4>2, <4>4
    <3>. QED
      BY <3>1, <3>2
  <2>2. PICK j \in I : Key(s[j]) = Key(s[i])
    BY <2>1
  <2>3. PICK k \in DOMAIN t : e[k] = j
    BY <1>5 DEF Picks
  <2>4. t[k] = s[j]
    BY <1>5, <2>3 DEF Picks
  <2>. QED
    BY <2>2, <2>4
<1>8. \A k \in DOMAIN t : \E i \in DOMAIN s : t[k] = s[i]
  BY <1>5 DEF Picks
<1>9. ASSUME NEW k \in DOMAIN t, NEW l \in DOMAIN t, k < l, t[k].safe, t[l].safe,
             Key(t[k]) = Key(t[l])
      PROVE  FALSE
  <2>1. e[k] \in I /\ e[l] \in I /\ t[k] = s[e[k]] /\ t[l] = s[e[l]] /\ e[k] < e[l]
    BY <1>5, <1>9 DEF Picks
  <2>2. e[k] \in 1 .. e[l] - 1
    BY <1>1, <2>1
  <2>. QED
    BY <1>9, <2>1, <2>2
<1>10. ASSUME NEW k \in DOMAIN t, NEW l \in DOMAIN t, t[k].safe, t[l].safe, Key(t[k]) = Key(t[l])
       PROVE  k = l
  BY <1>6, <1>9, <1>10
<1>11. \A x \in S : x.content \in Contents
  BY DEF Blocks
<1>12. Total(t) <= Total(s) /\ \A p \in DOMAIN s \ I : Total(t) < Total(s)
  <2>. HIDE DEF I
  <2>. QED
    BY <1>3, <1>11, TotalOfPicked
<1>13. ASSUME NEW i \in DOMAIN s, NEW j \in DOMAIN s, i < j, s[i].safe, s[j].safe,
              Key(s[i]) = Key(s[j])
       PROVE  Total(t) < Total(s)
  <2>1. i \in 1 .. j - 1
    BY <1>1, <1>13
  <2>2. j \in DOMAIN s \ I
    BY <1>13, <2>1
  <2>. QED
    BY <1>12, <2>2
<1>14. ASSUME NEW i \in DOMAIN s, NEW j \in DOMAIN s, i # j, s[i].safe, s[j].safe,
              Key(s[i]) = Key(s[j])
       PROVE  Total(t) < Total(s)
  BY <1>1, <1>13, <1>14
<1>. HIDE DEF I
<1>. QED
  BY <1>2, <1>4, <1>7, <1>8, <1>10, <1>12, <1>14

Tools == {b \in Blocks : b.kind = "tool_definition"}

(* A request as an adapter makes it, whose tools are definitions of tools. *)
IsTranslated(request) == request \in [blocks : Seq(Blocks), tools : Seq(Tools)]

(* The policies leave out what they exclude.                               *)
LEMMA Selected ==
  ASSUME NEW S \in SUBSET Blocks, NEW s \in Seq(S), NEW P \in SUBSET DOMAIN s
  PROVE  /\ At(s, P) \in Seq(S)
         /\ Total(At(s, P)) <= Total(s)
         /\ \A k \in DOMAIN At(s, P) : \E i \in P : At(s, P)[k] = s[i]
         /\ \A i \in P : \E k \in DOMAIN At(s, P) : At(s, P)[k] = s[i]
<1>1. PICK t : t = At(s, P)
  OBVIOUS
<1>2. t \in Seq(S) /\ \E e : Picks(e, t, s, P)
  BY <1>1, AtPicks
<1>3. PICK e : Picks(e, t, s, P)
  BY <1>2
<1>4. \A x \in S : x.content \in Contents
  BY DEF Blocks
<1>5. Total(t) <= Total(s)
  BY <1>1, <1>4, TotalOfPicked
<1>6. \A k \in DOMAIN t : \E i \in P : t[k] = s[i]
  BY <1>3 DEF Picks
<1>7. \A i \in P : \E k \in DOMAIN t : t[k] = s[i]
  BY <1>3 DEF Picks
<1>. QED
  BY <1>1, <1>2, <1>5, <1>6, <1>7

(* A selection leaves no two parts with one key where there were none.     *)
LEMMA SelectedDistinct ==
  ASSUME NEW S, NEW s \in Seq(S), NEW P \in SUBSET DOMAIN s,
         \A i, j \in DOMAIN s : s[i].content = s[j].content => i = j
  PROVE  \A k, l \in DOMAIN At(s, P) : At(s, P)[k].content = At(s, P)[l].content => k = l
<1>1. PICK t : t = At(s, P)
  OBVIOUS
<1>2. t \in Seq(S) /\ \E e : Picks(e, t, s, P)
  BY <1>1, AtPicks
<1>3. PICK e : Picks(e, t, s, P)
  BY <1>2
<1>4. DOMAIN t = 1 .. Len(t) /\ Len(t) \in Nat /\ DOMAIN s = 1 .. Len(s) /\ Len(s) \in Nat
  BY <1>2
<1>5. ASSUME NEW k \in DOMAIN t, NEW l \in DOMAIN t, k < l, t[k].content = t[l].content PROVE FALSE
  <2>1. e[k] < e[l] /\ t[k] = s[e[k]] /\ t[l] = s[e[l]] /\ e[k] \in DOMAIN s /\ e[l] \in DOMAIN s
    BY <1>3, <1>5 DEF Picks
  <2>2. e[k] = e[l] /\ e[k] \in Nat
    BY <1>4, <1>5, <2>1
  <2>. QED
    BY <2>1, <2>2
<1>6. ASSUME NEW k \in DOMAIN t, NEW l \in DOMAIN t, t[k].content = t[l].content PROVE k = l
  <2>1. ~(k < l) /\ ~(l < k)
    BY <1>5, <1>6
  <2>. QED
    BY <1>4, <2>1
<1>. QED
  BY <1>1, <1>6

(* What Optimizer.optimize returns is a request, and no larger.            *)
LEMMA Optimal ==
  ASSUME NEW m, NEW request, IsTranslated(request)
  PROVE  IsTranslated(Optimize(m, request).request)
<1>1. request.blocks \in Seq(Blocks) /\ request.tools \in Seq(Tools) /\ Tools \in SUBSET Blocks
  BY DEF IsTranslated, Tools
<1>2. Deduplicate(request.blocks) \in Seq(Blocks) /\ Deduplicate(request.tools) \in Seq(Tools)
  BY <1>1, Deduplicated
<1>3. SelectedBlocks(m, Deduplicate(request.blocks)) \in Seq(Blocks)
  BY <1>2, Selected DEF SelectedBlocks
<1>4. SelectedTools(m, Deduplicate(request.tools)) \in Seq(Tools)
  BY <1>1, <1>2, Selected DEF SelectedTools
<1>. QED
  BY <1>3, <1>4 DEF Optimize, IsTranslated, Tools

(* Equal tools never survive: had the result been no smaller, there would  *)
(* have been none.                                                         *)
LEMMA ToolsDistinct ==
  ASSUME NEW m, NEW request, IsTranslated(request), \A i \in DOMAIN request.tools : request.tools[i].safe
  PROVE  LET tools == Optimize(m, request).request.tools
         IN  \A i, j \in DOMAIN tools : tools[i].content = tools[j].content => i = j
<1>1. request.blocks \in Seq(Blocks) /\ request.tools \in Seq(Tools) /\ Tools \in SUBSET Blocks
  BY DEF IsTranslated, Tools
<1>2. PICK b, t : b = Deduplicate(request.blocks) /\ t = Deduplicate(request.tools)
  OBVIOUS
<1>3. b \in Seq(Blocks) /\ t \in Seq(Tools)
  BY <1>1, <1>2, Deduplicated
<1>4. PICK sb, st : sb = SelectedBlocks(m, b) /\ st = SelectedTools(m, t)
  OBVIOUS
<1>5. /\ \A s \in Seq(Tools) : \A i \in DOMAIN s : s[i] \in Tools
      /\ \A x, y \in Tools : Key(x) = Key(y) <=> x.content = y.content
  BY DEF Tools, Key
<1>6. \A i, j \in DOMAIN t : t[i].content = t[j].content => i = j
  <2>1. \A i \in DOMAIN t : t[i].safe /\ t[i] \in Tools
    <3>1. ASSUME NEW i \in DOMAIN t PROVE \E k \in DOMAIN request.tools : t[i] = request.tools[k]
      BY <1>1, <1>2, Deduplicated
    <3>. QED
      BY <1>3, <1>5, <3>1
  <2>2. \A i, j \in DOMAIN t : t[i].safe /\ t[j].safe /\ Key(t[i]) = Key(t[j]) => i = j
    BY <1>1, <1>2, Deduplicated
  <2>. QED
    BY <1>5, <2>1, <2>2
<1>7. \A i, j \in DOMAIN st : st[i].content = st[j].content => i = j
  <2>1. {i \in DOMAIN t : ~ExcludesTool(m, t[i])} \in SUBSET DOMAIN t
    OBVIOUS
  <2>. QED
    BY <1>3, <1>4, <1>6, <2>1, SelectedDistinct DEF SelectedTools
<1>8. ASSUME NEW i \in DOMAIN request.tools, NEW j \in DOMAIN request.tools, i # j,
             request.tools[i].content = request.tools[j].content
      PROVE  Total(sb) + Total(st) < Total(request.blocks) + Total(request.tools)
  <2>1. Total(t) < Total(request.tools)
    <3>1. Key(request.tools[i]) = Key(request.tools[j])
      BY <1>1, <1>5, <1>8
    <3>. QED
      BY <1>1, <1>2, <1>8, <3>1, Deduplicated
  <2>2. Total(b) <= Total(request.blocks)
    BY <1>1, <1>2, Deduplicated
  <2>3. Total(sb) <= Total(b) /\ sb \in Seq(Blocks)
    BY <1>3, <1>4, Selected DEF SelectedBlocks
  <2>4. Total(st) <= Total(t) /\ st \in Seq(Tools)
    BY <1>1, <1>3, <1>4, Selected DEF SelectedTools
  <2>5. /\ Total(sb) \in Nat /\ Total(st) \in Nat /\ Total(b) \in Nat /\ Total(t) \in Nat
        /\ Total(request.blocks) \in Nat /\ Total(request.tools) \in Nat
    <3>1. (\A x \in Blocks : x.content \in Contents) /\ (\A x \in Tools : x.content \in Contents)
      BY DEF Blocks, Tools
    <3>. QED
      BY <1>1, <1>3, <2>3, <2>4, <3>1, TotalIsSum
  <2>. QED
    BY <2>1, <2>2, <2>3, <2>4, <2>5
<1>9. CASE Total(sb) + Total(st) >= Total(request.blocks) + Total(request.tools)
  <2>1. Optimize(m, request).request = request
    BY <1>2, <1>4, <1>9 DEF Optimize
  <2>2. ~(Total(sb) + Total(st) < Total(request.blocks) + Total(request.tools))
    <3>1. /\ Total(sb) \in Nat /\ Total(st) \in Nat
          /\ Total(request.blocks) \in Nat /\ Total(request.tools) \in Nat
      <4>1. (\A x \in Blocks : x.content \in Contents) /\ (\A x \in Tools : x.content \in Contents)
        BY DEF Blocks, Tools
      <4>2. sb \in Seq(Blocks) /\ st \in Seq(Tools)
        BY <1>1, <1>3, <1>4, Selected DEF SelectedBlocks, SelectedTools
      <4>. QED
        BY <1>1, <4>1, <4>2, TotalIsSum
    <3>. QED
      BY <1>9, <3>1
  <2>. QED
    BY <1>8, <2>1, <2>2
<1>10. CASE ~(Total(sb) + Total(st) >= Total(request.blocks) + Total(request.tools))
  <2>1. Optimize(m, request).request.tools = st
    BY <1>2, <1>4, <1>10 DEF Optimize
  <2>. QED
    BY <1>7, <2>1
<1>. QED
  BY <1>9, <1>10

(* The elements of two sequences, one after the other.                     *)
LEMMA ElementsOfBoth ==
  ASSUME NEW S, NEW s \in Seq(S), NEW t \in Seq(S)
  PROVE  ToSet(s \o t) = ToSet(s) \cup ToSet(t)
<1> DEFINE u == s \o t
<1>1. /\ Len(s) \in Nat /\ Len(t) \in Nat
      /\ DOMAIN s = 1 .. Len(s) /\ DOMAIN t = 1 .. Len(t)
      /\ DOMAIN u = 1 .. Len(s) + Len(t)
  OBVIOUS
<1>2. /\ \A i \in DOMAIN s : i \in DOMAIN u /\ u[i] = s[i]
      /\ \A i \in DOMAIN t : Len(s) + i \in DOMAIN u /\ u[Len(s) + i] = t[i]
  OBVIOUS
<1>3. ASSUME NEW i \in DOMAIN u, i \notin DOMAIN s
      PROVE  \E j \in DOMAIN t : u[i] = t[j]
  <2>1. i - Len(s) \in DOMAIN t /\ Len(s) + (i - Len(s)) = i
    BY <1>1, <1>3
  <2>. QED
    BY <1>2, <2>1
<1>. HIDE DEF u
<1>4. ToSet(u) = ToSet(s) \cup ToSet(t)
  <2>1. ASSUME NEW x \in ToSet(u) PROVE x \in ToSet(s) \cup ToSet(t)
    <3>1. PICK i \in DOMAIN u : x = u[i]
      BY DEF ToSet
    <3>2. CASE i \in DOMAIN s
      BY <1>2, <3>1, <3>2 DEF ToSet
    <3>3. CASE i \notin DOMAIN s
      BY <1>3, <3>1, <3>3 DEF ToSet
    <3>. QED
      BY <3>2, <3>3
  <2>2. ASSUME NEW x \in ToSet(s) PROVE x \in ToSet(u)
    BY <1>2 DEF ToSet
  <2>3. ASSUME NEW x \in ToSet(t) PROVE x \in ToSet(u)
    BY <1>2 DEF ToSet
  <2>. QED
    BY <2>1, <2>2, <2>3
<1>. QED
  BY <1>4 DEF u

(* The selection leaves out the parts in X.                                *)
Without(s, X) == At(s, {i \in DOMAIN s : s[i] \notin X})

(* What is not left out is kept.                                           *)
LEMMA WithoutKeeps ==
  ASSUME NEW S, NEW s \in Seq(S), NEW X, NEW i \in DOMAIN s, s[i] \notin X
  PROVE  s[i] \in ToSet(Without(s, X))
<1>1. PICK I : I = {j \in DOMAIN s : s[j] \notin X}
  OBVIOUS
<1>2. i \in I /\ I \in SUBSET DOMAIN s
  BY <1>1
<1>3. PICK t : t = At(s, I)
  OBVIOUS
<1>4. \E e : Picks(e, t, s, I)
  BY <1>2, <1>3, AtPicks
<1>5. s[i] \in ToSet(t)
  BY <1>2, <1>4 DEF Picks, ToSet
<1>. QED
  BY <1>1, <1>3, <1>5 DEF Without

(* What decides for a key is what deduplication leaves of it.              *)
LEMMA RepresentativesKept ==
  ASSUME NEW S \in SUBSET Blocks, NEW s \in Seq(S), NEW key, NEW x \in Representatives(s, key)
  PROVE  x \in ToSet(Deduplicate(s)) /\ x \in ToSet(s) /\ Key(x) = key
<1> DEFINE I == {i \in DOMAIN s :
                   s[i].safe => \A j \in 1 .. i - 1 : s[j].safe => Key(s[j]) # Key(s[i])}
<1>1. PICK i \in DOMAIN s : /\ x = s[i] /\ Key(s[i]) = key
                            /\ s[i].safe => ~\E j \in 1 .. i - 1 : s[j].safe /\ Key(s[j]) = key
  BY DEF Representatives
<1>2. i \in I
  BY <1>1
<1>3. PICK t : t = Deduplicate(s)
  OBVIOUS
<1>4. t = At(s, I) /\ I \in SUBSET DOMAIN s
  BY <1>3 DEF Deduplicate
<1>5. \E e : Picks(e, t, s, I)
  <2>. HIDE DEF I
  <2>. QED
    BY <1>4, AtPicks
<1>6. x \in ToSet(t)
  BY <1>1, <1>2, <1>5 DEF Picks, ToSet
<1>. QED
  BY <1>1, <1>3, <1>6 DEF ToSet

(* A key of which a selection leaves nothing: all that deduplication left  *)
(* of it was excluded.                                                     *)
LEMMA NotSelected ==
  ASSUME NEW s \in Seq(Blocks), NEW X, NEW key,
         \A k \in ToSet(Without(Deduplicate(s), X)) : Key(k) # key
  PROVE  \A x \in Representatives(s, key) : x \in X /\ x \in ToSet(s)
<1>1. PICK d : d = Deduplicate(s)
  OBVIOUS
<1>2. d \in Seq(Blocks)
  BY <1>1, Deduplicated
<1>3. ASSUME NEW x \in Representatives(s, key) PROVE x \in X /\ x \in ToSet(s)
  <2>1. x \in ToSet(d) /\ x \in ToSet(s) /\ Key(x) = key
    BY <1>1, RepresentativesKept
  <2>2. PICK k \in DOMAIN d : x = d[k]
    BY <2>1 DEF ToSet
  <2>3. d[k] \in X
    BY <1>1, <1>2, <2>1, <2>2, WithoutKeeps
  <2>. QED
    BY <2>1, <2>2, <2>3
<1>. QED
  BY <1>3

(* Deduplication leaves something of every key.                            *)
LEMMA KeysStay ==
  ASSUME NEW s \in Seq(Blocks), NEW b \in ToSet(s)
  PROVE  \E x \in ToSet(Deduplicate(s)) : Key(x) = Key(b)
<1>1. PICK d : d = Deduplicate(s)
  OBVIOUS
<1>2. PICK i \in DOMAIN s : b = s[i]
  BY DEF ToSet
<1>3. PICK k \in DOMAIN d : Key(d[k]) = Key(b)
  BY <1>1, <1>2, Deduplicated
<1>. QED
  BY <1>1, <1>3 DEF ToSet

(* What optimize leaves out of a whole request was excluded, and stored    *)
(* before.                                                                 *)
LEMMA LeftOut ==
  ASSUME NEW m, NEW p, NEW request, IsRequest(request), NEW b \in Parts(request),
         \A k \in Parts(Optimize(m, request).request) : Key(k) # Key(b)
  PROVE  /\ \A x \in Representatives(request.blocks, Key(b)) : ExcludesBlock(m, x)
         /\ \A x \in Representatives(request.tools, Key(b)) :
              ExcludesTool(m, x) /\ x \in ToSet(request.tools)
         /\ Persisted(p, b.content) \in Stores(p, request)
<1>1. request.blocks \in Seq(Blocks) /\ request.tools \in Seq(Blocks) /\ Blocks \in SUBSET Blocks
  BY DEF IsRequest
<1>2. PICK d, t : d = Deduplicate(request.blocks) /\ t = Deduplicate(request.tools)
  OBVIOUS
<1>3. d \in Seq(Blocks) /\ t \in Seq(Blocks)
  BY <1>1, <1>2, Deduplicated
<1>4. PICK sb, st : sb = SelectedBlocks(m, d) /\ st = SelectedTools(m, t)
  OBVIOUS
<1>5. sb \in Seq(Blocks) /\ st \in Seq(Blocks)
  BY <1>1, <1>3, <1>4, Selected DEF SelectedBlocks, SelectedTools
<1>6. /\ Parts(request) = ToSet(request.blocks) \cup ToSet(request.tools)
      /\ ToSet(d \o t) = ToSet(d) \cup ToSet(t)
      /\ ToSet(sb \o st) = ToSet(sb) \cup ToSet(st)
  BY <1>1, <1>3, <1>5, ElementsOfBoth DEF Parts
<1>7. \A x \in ToSet(d) \cup ToSet(t) : Persisted(p, x.content) \in Stores(p, request)
  BY <1>2, <1>6 DEF Stores
<1>8. Optimize(m, request).request = [blocks |-> sb, tools |-> st]
  <2>1. Optimize(m, request).request # request
    BY DEF Parts
  <2>. QED
    BY <1>2, <1>4, <2>1 DEF Optimize
<1>9. \A k \in ToSet(sb) \cup ToSet(st) : Key(k) # Key(b)
  BY <1>6, <1>8 DEF Parts
<1>10. /\ \A x \in Representatives(request.blocks, Key(b)) : ExcludesBlock(m, x)
       /\ b \in ToSet(request.blocks) => \E x \in ToSet(d) : Key(x) = Key(b)
  <2>1. PICK X : X = {x \in Blocks : ExcludesBlock(m, x)}
    OBVIOUS
  <2>2. sb = Without(d, X)
    <3>1. \A i \in DOMAIN d : d[i] \in Blocks
      BY <1>1, <1>3
    <3>2. {i \in DOMAIN d : d[i] \notin X} = {i \in DOMAIN d : ~ExcludesBlock(m, d[i])}
      BY <2>1, <3>1
    <3>. QED
      BY <1>4, <3>2 DEF SelectedBlocks, Without
  <2>3. \A k \in ToSet(Without(Deduplicate(request.blocks), X)) : Key(k) # Key(b)
    BY <1>2, <1>9, <2>2
  <2>4. PICK key : key = Key(b)
    OBVIOUS
  <2>5. request.blocks \in Seq(Blocks)
    BY <1>1
  <2>6. \A k \in ToSet(Without(Deduplicate(request.blocks), X)) : Key(k) # key
    BY <2>3, <2>4
  <2>7. \A x \in Representatives(request.blocks, key) : x \in X /\ x \in ToSet(request.blocks)
    BY <2>5, <2>6, NotSelected, Zenon
  <2>8. b \in ToSet(request.blocks) => \E x \in ToSet(d) : Key(x) = Key(b)
    BY <1>2, <2>5, KeysStay
  <2>. QED
    BY <2>1, <2>4, <2>7, <2>8
<1>11. /\ \A x \in Representatives(request.tools, Key(b)) :
            ExcludesTool(m, x) /\ x \in ToSet(request.tools)
       /\ b \in ToSet(request.tools) => \E x \in ToSet(t) : Key(x) = Key(b)
  <2>1. PICK X : X = {x \in Blocks : ExcludesTool(m, x)}
    OBVIOUS
  <2>2. st = Without(t, X)
    <3>1. \A i \in DOMAIN t : t[i] \in Blocks
      BY <1>1, <1>3
    <3>2. {i \in DOMAIN t : t[i] \notin X} = {i \in DOMAIN t : ~ExcludesTool(m, t[i])}
      BY <2>1, <3>1
    <3>. QED
      BY <1>4, <3>2 DEF SelectedTools, Without
  <2>3. \A k \in ToSet(Without(Deduplicate(request.tools), X)) : Key(k) # Key(b)
    BY <1>2, <1>9, <2>2
  <2>4. PICK key : key = Key(b)
    OBVIOUS
  <2>5. request.tools \in Seq(Blocks)
    BY <1>1
  <2>6. \A k \in ToSet(Without(Deduplicate(request.tools), X)) : Key(k) # key
    BY <2>3, <2>4
  <2>7. \A x \in Representatives(request.tools, key) : x \in X /\ x \in ToSet(request.tools)
    BY <2>5, <2>6, NotSelected, Zenon
  <2>8. b \in ToSet(request.tools) => \E x \in ToSet(t) : Key(x) = Key(b)
    BY <1>2, <2>5, KeysStay
  <2>. QED
    BY <2>1, <2>4, <2>7, <2>8
<1>12. Persisted(p, b.content) \in Stores(p, request)
  <2>1. PICK x \in ToSet(d) \cup ToSet(t) : Key(x) = Key(b)
    BY <1>6, <1>10, <1>11
  <2>2. x.content = b.content
    BY <2>1 DEF Key
  <2>. QED
    BY <1>7, <2>1, <2>2
<1>. QED
  BY <1>10, <1>11, <1>12

-----------------------------------------------------------------------------
(* The first occurrences.                                                  *)
LEMMA UniqueKeepsFirst ==
  ASSUME NEW S, NEW s \in Seq(S)
  PROVE  IsFirstOccurrences(Unique(s), s)
<1> DEFINE I == {i \in DOMAIN s : \A j \in 1 .. i - 1 : s[j] # s[i]}
<1>1. PICK t : t = Unique(s)
  OBVIOUS
<1>2. t = At(s, I) /\ I \in SUBSET DOMAIN s
  BY <1>1 DEF Unique
<1>3. t \in Seq(S) /\ \E e : Picks(e, t, s, I)
  <2>. HIDE DEF I
  <2>. QED
    BY <1>2, AtPicks
<1>4. PICK e : Picks(e, t, s, I)
  BY <1>3
<1>5. DOMAIN t = 1 .. Len(t) /\ Len(t) \in Nat /\ DOMAIN s = 1 .. Len(s) /\ Len(s) \in Nat
  BY <1>3
<1>6. \A i \in DOMAIN t : e[i] \in I /\ e[i] \in DOMAIN s /\ t[i] = s[e[i]]
  BY <1>4 DEF Picks
<1>7. \A p \in I : \E i \in DOMAIN t : e[i] = p
  BY <1>4 DEF Picks
<1>8. \A i, j \in DOMAIN t : i < j => e[i] < e[j]
  BY <1>4 DEF Picks
<1>9. ToSet(t) = ToSet(s)
  <2>1. \A x \in ToSet(t) : x \in ToSet(s)
    BY <1>6 DEF ToSet
  <2>2. ASSUME NEW x \in ToSet(s) PROVE x \in ToSet(t)
    <3> DEFINE J == {i \in DOMAIN s : s[i] = x}
    <3>1. J # {} /\ J \in SUBSET DOMAIN s
      BY DEF ToSet
    <3>2. PICK j \in J : \A k \in 1 .. j - 1 : k \notin J
      <4>. HIDE DEF J
      <4>. QED
        BY <3>1, FirstOf
    <3>3. \A k \in 1 .. j - 1 : k \in DOMAIN s
      BY <1>5
    <3>4. j \in I /\ s[j] = x
      BY <3>2, <3>3
    <3>5. PICK i \in DOMAIN t : e[i] = j
      BY <1>7, <3>4
    <3>. QED
      BY <1>6, <3>4, <3>5 DEF ToSet
  <2>. QED
    BY <2>1, <2>2
<1>10. ASSUME NEW p \in I, NEW l \in DOMAIN s, s[l] = s[p] PROVE p <= l
  <2>1. ~(l < p)
    <3>1. l < p => l \in 1 .. p - 1
      BY <1>5
    <3>. QED
      BY <1>10, <3>1
  <2>. QED
    BY <1>5, <2>1
<1>11. ASSUME NEW i \in DOMAIN t, NEW j \in DOMAIN t, t[i] = t[j] PROVE i = j
  <2>1. e[i] <= e[j] /\ e[j] <= e[i]
    BY <1>6, <1>10, <1>11
  <2>2. e[i] \in Nat /\ e[j] \in Nat
    BY <1>5, <1>6
  <2>3. ~(e[i] < e[j]) /\ ~(e[j] < e[i])
    BY <2>1, <2>2
  <2>. QED
    BY <1>5, <1>8, <2>3
<1>12. ASSUME NEW i \in DOMAIN t, NEW j \in DOMAIN t, i < j
       PROVE  \E k \in DOMAIN s : s[k] = t[i] /\ \A l \in DOMAIN s : s[l] = t[j] => k < l
  <2>1. e[i] < e[j] /\ e[i] \in Nat /\ e[j] \in Nat
    BY <1>5, <1>6, <1>8, <1>12
  <2>2. ASSUME NEW l \in DOMAIN s, s[l] = t[j] PROVE e[i] < l
    <3>1. e[j] \in I /\ t[j] = s[e[j]]
      BY <1>6
    <3>2. s[l] = s[e[j]]
      BY <2>2, <3>1
    <3>3. e[j] <= l /\ l \in Nat
      <4>. HIDE DEF I
      <4>. QED
        BY <1>5, <1>10, <3>1, <3>2
    <3>. QED
      BY <2>1, <3>3
  <2>. QED
    BY <1>6, <2>2
<1>. HIDE DEF I
<1>. QED
  BY <1>1, <1>9, <1>11, <1>12 DEF IsFirstOccurrences, IsInjective

(* A sequence without repetition holds its own first occurrences.          *)
LEMMA InjectiveIsFirst ==
  ASSUME NEW S, NEW s \in Seq(S), IsInjective(s)
  PROVE  IsFirstOccurrences(s, s)
<1>1. ASSUME NEW i \in DOMAIN s, NEW j \in DOMAIN s, i < j
      PROVE  \E k \in DOMAIN s : s[k] = s[i] /\ \A l \in DOMAIN s : s[l] = s[j] => k < l
  <2>1. \A l \in DOMAIN s : s[l] = s[j] => l = j
    BY DEF IsInjective
  <2>. QED
    BY <1>1, <2>1
<1>. QED
  BY <1>1 DEF IsFirstOccurrences

-----------------------------------------------------------------------------
(* Requests in a provider's format.                                        *)

(* The function declarations of a list of groups.                          *)
LEMMA DeclarationsType ==
  ASSUME NEW tools \in Seq(Groups)
  PROVE  /\ [i \in DOMAIN tools |-> tools[i].functions] \in Seq(Seq(Contents))
         /\ Declarations(tools) \in Seq(Contents)
<1>1. Len(tools) \in Nat /\ DOMAIN tools = 1 .. Len(tools)
  OBVIOUS
<1>2. \A i \in 1 .. Len(tools) : tools[i].functions \in Seq(Contents)
  <2>1. \A i \in 1 .. Len(tools) : tools[i] \in Groups
    OBVIOUS
  <2>. QED
    BY <2>1 DEF Groups
<1>3. PICK s : s = [i \in DOMAIN tools |-> tools[i].functions]
  OBVIOUS
<1>4. s \in [1 .. Len(tools) -> Seq(Contents)]
  BY <1>1, <1>2, <1>3
<1>5. s \in Seq(Seq(Contents))
  BY <1>1, <1>4
<1>. QED
  BY <1>3, <1>5, Flattened DEF Declarations

(* The other tools of a list of groups.                                    *)
LEMMA OthersType ==
  ASSUME NEW tools \in Seq(Groups)
  PROVE  Others(tools) \in Seq(Contents)
<1>1. PICK I : I = {i \in DOMAIN tools : tools[i].other # Nothing}
  OBVIOUS
<1>2. I \in SUBSET DOMAIN tools
  BY <1>1
<1>3. PICK t : t = At(tools, I)
  OBVIOUS
<1>4. t \in Seq(Groups) /\ \E e : Picks(e, t, tools, I)
  BY <1>2, <1>3, AtPicks
<1>5. \A k \in DOMAIN t : \E i \in I : t[k] = tools[i]
  BY <1>4 DEF Picks
<1>6. \A k \in DOMAIN t : t[k].other # Nothing /\ t[k] \in Groups
  BY <1>1, <1>4, <1>5
<1>7. \A k \in DOMAIN t : t[k].other \in Contents
  BY <1>6 DEF Groups
<1>8. DOMAIN t = 1 .. Len(t) /\ Len(t) \in Nat
  BY <1>4
<1>9. [i \in DOMAIN t |-> t[i].other] \in Seq(Contents)
  BY <1>7, <1>8
<1>. QED
  BY <1>1, <1>3, <1>9 DEF Others

(* The tools of a body, whether it has the key or not.                     *)
LEMMA ToolsOfBody ==
  ASSUME NEW body, IsBody(body)
  PROVE  /\ body.endpoint # "generate-content" => ToolsOf(body) \in Seq(Contents)
         /\ body.endpoint = "generate-content" => ToolsOf(body) \in Seq(Groups)
BY DEF IsBody

(* The size of a body is a number.                                         *)
LEMMA BodySizeIsNat ==
  ASSUME NEW body, IsBody(body)
  PROVE  BodySize(body) \in Nat
<1>1. PICK tools : tools = ToolsOf(body)
  OBVIOUS
<1>2. PICK items : items = IF body.endpoint = "generate-content"
                           THEN Declarations(tools) \o Others(tools) ELSE tools
  OBVIOUS
<1>3. items \in Seq(Contents)
  <2>1. CASE body.endpoint = "generate-content"
    <3>1. Declarations(tools) \in Seq(Contents) /\ Others(tools) \in Seq(Contents)
      BY <1>1, <2>1, ToolsOfBody, DeclarationsType, OthersType
    <3>2. items = Declarations(tools) \o Others(tools)
      BY <1>2, <2>1
    <3>. QED
      BY <3>1, <3>2
  <2>2. CASE body.endpoint # "generate-content"
    BY <1>1, <1>2, <2>2, ToolsOfBody
  <2>. QED
    BY <2>1, <2>2
<1>4. DOMAIN items = 1 .. Len(items) /\ Len(items) \in Nat
  BY <1>3
<1>5. PICK f : f = [i \in DOMAIN items |-> SizeOf(items[i])]
  OBVIOUS
<1>6. f \in [DOMAIN items -> Nat]
  <2>1. \A i \in DOMAIN items : items[i] \in Contents
    BY <1>3, <1>4
  <2>. QED
    BY <1>5, <2>1, OptimizerAssumption
<1>7. SumFunction(f) \in Nat
  <2>1. IsFiniteSet(DOMAIN items)
    BY <1>4, FS_Interval
  <2>. QED
    BY <1>6, <2>1, SumSplit
<1>8. body.messages \in Seq(Messages) /\ body.padding \in Nat
  BY DEF IsBody
<1>9. Total(body.messages) \in Nat
  <2>1. \A x \in Messages : x.content \in Contents
    BY DEF Messages
  <2>. QED
    BY <1>8, <2>1, TotalIsSum
<1>10. BodySize(body) = Total(body.messages) + SumFunction(f)
                          + (IF body.tools = Nothing THEN 0 ELSE 1) + body.padding
  BY <1>1, <1>2, <1>5 DEF BodySize
<1>. QED
  BY <1>7, <1>8, <1>9, <1>10

(* from_native returns a request, for one adapter,                         *)
LEMMA CanonicalIsRequest ==
  ASSUME NEW messages \in Seq(Messages), NEW tools \in Seq(Contents), NEW flagged \in BOOLEAN
  PROVE  /\ IsTranslated(Canonical(messages, tools, flagged))
         /\ \A i \in DOMAIN Canonical(messages, tools, flagged).tools :
              Canonical(messages, tools, flagged).tools[i].safe
<1>1. PICK b : b = [i \in DOMAIN messages |->
                      Block("user", messages[i].content,
                            IF flagged THEN messages[i].flag ELSE "none", FALSE)]
  OBVIOUS
<1>2. PICK t : t = [i \in DOMAIN tools |-> Block("tool_definition", tools[i], "none", TRUE)]
  OBVIOUS
<1>3. b \in Seq(Blocks)
  <2>1. \A i \in 1 .. Len(messages) : messages[i] \in Messages
    OBVIOUS
  <2>2. ASSUME NEW i \in 1 .. Len(messages)
        PROVE  Block("user", messages[i].content,
                     IF flagged THEN messages[i].flag ELSE "none", FALSE) \in Blocks
    <3>1. messages[i].content \in Contents /\ messages[i].flag \in Flags
      BY <2>1 DEF Messages
    <3>2. (IF flagged THEN messages[i].flag ELSE "none") \in Flags
      BY <3>1 DEF Flags
    <3>3. "user" \in Kinds
      BY DEF Kinds
    <3>. QED
      BY <3>1, <3>2, <3>3 DEF Block, Blocks
  <2>3. b \in [1 .. Len(messages) -> Blocks]
    <3>1. DOMAIN messages = 1 .. Len(messages)
      OBVIOUS
    <3>. QED
      BY <1>1, <2>2, <3>1
  <2>. QED
    BY <2>3
<1>4. t \in Seq(Tools)
  <2>1. \A i \in 1 .. Len(tools) : tools[i] \in Contents
    OBVIOUS
  <2>2. ASSUME NEW i \in 1 .. Len(tools)
        PROVE  Block("tool_definition", tools[i], "none", TRUE) \in Tools
    <3>1. Block("tool_definition", tools[i], "none", TRUE) \in Blocks
      BY <2>1 DEF Block, Blocks, Kinds, Flags
    <3>2. Block("tool_definition", tools[i], "none", TRUE).kind = "tool_definition"
      BY DEF Block
    <3>. QED
      BY <3>1, <3>2 DEF Tools
  <2>3. t \in [1 .. Len(tools) -> Tools]
    <3>1. DOMAIN tools = 1 .. Len(tools)
      OBVIOUS
    <3>. QED
      BY <1>2, <2>2, <3>1
  <2>. QED
    BY <2>3
<1>5. \A i \in DOMAIN t : t[i].safe
  BY <1>2 DEF Block
<1>6. Canonical(messages, tools, flagged) = [blocks |-> b, tools |-> t]
  BY <1>1, <1>2 DEF Canonical
<1>. QED
  BY <1>3, <1>4, <1>5, <1>6 DEF IsTranslated, Tools

(* and for each.                                                           *)
LEMMA FromNativeIsRequest ==
  ASSUME NEW body, IsBody(body)
  PROVE  /\ IsTranslated(FromNative(body))
         /\ \A i \in DOMAIN FromNative(body).tools : FromNative(body).tools[i].safe
<1>1. /\ body.messages \in Seq(Messages)
      /\ body.endpoint \in {"chat-completions", "responses", "messages", "generate-content"}
  BY DEF IsBody
<1>2. \E tools \in Seq(Contents), flagged \in BOOLEAN :
        FromNative(body) = Canonical(body.messages, tools, flagged)
  <2>1. CASE body.endpoint \in {"chat-completions", "responses"}
    BY <2>1, ToolsOfBody DEF FromNative, FromOpenAI
  <2>2. CASE body.endpoint = "messages"
    BY <2>2, ToolsOfBody DEF FromNative, FromAnthropic
  <2>3. CASE body.endpoint = "generate-content"
    <3>1. Declarations(ToolsOf(body)) \in Seq(Contents)
      BY <2>3, ToolsOfBody, DeclarationsType
    <3>. QED
      BY <2>3, <3>1 DEF FromNative, FromGemini
  <2>. QED
    BY <1>1, <2>1, <2>2, <2>3
<1>. QED
  BY <1>1, <1>2, CanonicalIsRequest

(* The contents of the tools of a request.                                 *)
LEMMA ItemsOfTools ==
  ASSUME NEW request, IsTranslated(request)
  PROVE  /\ ToolItems(request) \in Seq(Contents)
         /\ (\A i, j \in DOMAIN request.tools :
               request.tools[i].content = request.tools[j].content => i = j)
              => IsInjective(ToolItems(request))
<1>1. request.tools \in Seq(Tools)
  BY DEF IsTranslated, Tools
<1>2. DOMAIN request.tools = 1 .. Len(request.tools) /\ Len(request.tools) \in Nat
  BY <1>1
<1>3. \A i \in DOMAIN request.tools : request.tools[i].content \in Contents
  <2>1. \A i \in DOMAIN request.tools : request.tools[i] \in Tools
    BY <1>1
  <2>. QED
    BY <2>1 DEF Tools, Blocks
<1>4. ToolItems(request) \in Seq(Contents)
  BY <1>2, <1>3 DEF ToolItems
<1>. QED
  BY <1>4 DEF ToolItems, IsInjective

(* Only the first group declares functions.                                *)
LEMMA GroupsDeclare ==
  ASSUME NEW body, IsBody(body), body.endpoint = "generate-content", NEW request, IsTranslated(request)
  PROVE  /\ ToGroups(body, request) \in Seq(Groups)
         /\ Declarations(ToGroups(body, request)) \in {<<>>, ToolItems(request)}
<1>1. PICK others : others = Others(ToolsOf(body))
  OBVIOUS
<1>2. others \in Seq(Contents)
  BY <1>1, ToolsOfBody, OthersType
<1>3. PICK items : items = ToolItems(request)
  OBVIOUS
<1>4. items \in Seq(Contents)
  BY <1>3, ItemsOfTools
<1>5. PICK rest : rest = [i \in DOMAIN others |-> [functions |-> <<>>, other |-> others[i]]]
  OBVIOUS
<1>6. rest \in Seq(Groups) /\ \A i \in DOMAIN rest : rest[i].functions = <<>>
  <2>1. \A i \in 1 .. Len(others) : others[i] \in Contents
    BY <1>2
  <2>2. \A i \in 1 .. Len(others) : [functions |-> <<>>, other |-> others[i]] \in Groups
    BY <2>1 DEF Groups
  <2>3. Len(others) \in Nat /\ DOMAIN others = 1 .. Len(others)
    BY <1>2
  <2>4. rest \in [1 .. Len(others) -> Groups]
    BY <1>5, <2>2, <2>3
  <2>. QED
    BY <1>5, <2>3, <2>4
<1>7. PICK first : first = IF request.tools = <<>> THEN <<>>
                           ELSE <<[functions |-> items, other |-> Nothing]>>
  OBVIOUS
<1>8. first \in Seq(Groups) /\ Len(first) \in {0, 1} /\ (Len(first) = 1 => first[1].functions = items)
  <2>1. [functions |-> items, other |-> Nothing] \in Groups
    BY <1>4 DEF Groups
  <2>. QED
    BY <1>7, <2>1
<1>9. PICK g : g = first \o rest
  OBVIOUS
<1>10. g \in Seq(Groups) /\ ToGroups(body, request) = g
  BY <1>1, <1>3, <1>5, <1>6, <1>7, <1>8, <1>9 DEF ToGroups
<1>11. /\ \A i \in 2 .. Len(g) : g[i].functions = <<>>
       /\ Len(g) = 0 \/ g[1].functions \in {<<>>, items}
  <2>1. Len(g) = Len(first) + Len(rest) /\ Len(rest) \in Nat /\ DOMAIN rest = 1 .. Len(rest)
    BY <1>6, <1>8, <1>9
  <2>2. CASE Len(first) = 0
    <3>1. g = rest
      BY <1>6, <1>8, <1>9, <2>2
    <3>. QED
      BY <1>6, <2>1, <2>2, <3>1
  <2>3. CASE Len(first) = 1
    <3>1. \A i \in 2 .. Len(g) : g[i] = rest[i - 1] /\ i - 1 \in DOMAIN rest
      BY <1>6, <1>8, <1>9, <2>1, <2>3
    <3>2. g[1] = first[1]
      BY <1>6, <1>8, <1>9, <2>1, <2>3
    <3>. QED
      BY <1>6, <1>8, <2>3, <3>1, <3>2
  <2>. QED
    BY <1>8, <2>2, <2>3
<1>12. PICK f : f = [i \in DOMAIN g |-> g[i].functions]
  OBVIOUS
<1>13. f \in Seq(Seq(Contents)) /\ Declarations(g) = FlattenSeq(f)
  BY <1>10, <1>12, DeclarationsType DEF Declarations
<1>14. Len(f) = Len(g) /\ \A i \in 1 .. Len(g) : f[i] = g[i].functions
  BY <1>10, <1>12
<1>15. \A i \in 2 .. Len(f) : f[i] = <<>>
  BY <1>10, <1>11, <1>14
<1>16. FlattenSeq(f) = IF Len(f) = 0 THEN <<>> ELSE f[1]
  BY <1>13, <1>15, Flattened
<1>17. FlattenSeq(f) \in {<<>>, items}
  BY <1>10, <1>11, <1>14, <1>16
<1>. QED
  BY <1>3, <1>10, <1>13, <1>17

(* to_native returns a body for the same endpoint.                         *)
LEMMA CandidateIsBody ==
  ASSUME NEW body, IsBody(body), NEW request, IsTranslated(request)
  PROVE  /\ IsBody(ToNative(body, request))
         /\ ToNative(body, request).endpoint = body.endpoint
<1>1. PICK c : c = ToNative(body, request)
  OBVIOUS
<1>2. /\ body.form \in Forms
      /\ body.endpoint \in {"chat-completions", "responses", "messages", "generate-content"}
  BY DEF IsBody
<1>3. PICK messages : messages = [i \in DOMAIN request.blocks |->
                                    [content |-> request.blocks[i].content, flag |-> "none"]]
  OBVIOUS
<1>4. messages \in Seq(Messages)
  <2>1. request.blocks \in Seq(Blocks)
    BY DEF IsTranslated
  <2>2. Len(request.blocks) \in Nat /\ DOMAIN request.blocks = 1 .. Len(request.blocks)
    BY <2>1
  <2>3. \A i \in DOMAIN request.blocks : request.blocks[i] \in Blocks
    BY <2>1
  <2>4. \A i \in DOMAIN request.blocks :
          [content |-> request.blocks[i].content, flag |-> "none"] \in Messages
    BY <2>3 DEF Blocks, Messages, Flags
  <2>5. messages \in [1 .. Len(request.blocks) -> Messages]
    BY <1>3, <2>2, <2>4
  <2>. QED
    BY <2>2, <2>5
<1>5. PICK tools : tools = IF body.endpoint = "generate-content" THEN ToGroups(body, request)
                           ELSE ToolItems(request)
  OBVIOUS
<1>6. c = [form |-> body.form, endpoint |-> body.endpoint, messages |-> messages,
           tools |-> tools, padding |-> 0]
  BY <1>1, <1>3, <1>5 DEF ToNative
<1>7. tools \in Seq(IF body.endpoint = "generate-content" THEN Groups ELSE Contents)
  <2>1. CASE body.endpoint = "generate-content"
    BY <1>5, <2>1, GroupsDeclare
  <2>2. CASE body.endpoint # "generate-content"
    BY <1>5, <2>2, ItemsOfTools
  <2>. QED
    BY <2>1, <2>2
<1>8. ToolsOf(c) \in Seq(IF c.endpoint = "generate-content" THEN Groups ELSE Contents)
  <2>1. c.tools = tools /\ c.endpoint = body.endpoint
    BY <1>6
  <2>2. ToolsOf(c) \in {<<>>, tools}
    BY <2>1 DEF ToolsOf
  <2>3. PICK T : T = IF body.endpoint = "generate-content" THEN Groups ELSE Contents
    OBVIOUS
  <2>4. ToolsOf(c) \in Seq(T)
    <3>1. tools \in Seq(T)
      BY <1>7, <2>3
    <3>2. <<>> \in Seq(T)
      OBVIOUS
    <3>. QED
      BY <2>2, <3>1, <3>2
  <2>. QED
    BY <2>1, <2>3, <2>4
<1>9. c \in [form : Forms, endpoint : {"chat-completions", "responses", "messages", "generate-content"},
             messages : Seq(Messages), tools : {c.tools}, padding : Nat]
  BY <1>2, <1>4, <1>6
<1>10. c.endpoint = body.endpoint
  BY <1>6
<1>. QED
  BY <1>1, <1>8, <1>9, <1>10 DEF IsBody

(* The tools of a candidate that passes the checks.                        *)
LEMMA SafeKeepsTools ==
  ASSUME NEW body, IsBody(body), NEW request, IsTranslated(request),
         IsInjective(ToolItems(request)), NEW c, c = ToNative(body, request),
         SafeCandidate(body, c)
  PROVE  SameTools(body, c)
<1>1. PICK old, new : old = ToolsOf(body) /\ new = ToolsOf(c)
  OBVIOUS
<1>2. c.endpoint = body.endpoint /\ ExactDuplicateReduction(old, new, body.endpoint)
  BY <1>1, CandidateIsBody DEF SafeCandidate
<1>3. IsInjective(<<>>)
  BY DEF IsInjective
<1>4. CASE body.endpoint # "generate-content"
  <2>1. old \in Seq(Contents)
    BY <1>1, <1>4, ToolsOfBody
  <2>2. new \in {<<>>, ToolItems(request)}
    BY <1>1, <1>4 DEF ToNative, ToolsOf
  <2>3. IsInjective(new)
    BY <1>3, <2>2
  <2>4. old = new \/ new = Unique(old)
    BY <1>2, <1>4 DEF ExactDuplicateReduction
  <2>5. IsFirstOccurrences(new, old)
    BY <2>1, <2>3, <2>4, UniqueKeepsFirst, InjectiveIsFirst
  <2>. QED
    BY <1>1, <1>4, <2>5 DEF SameTools
<1>5. CASE body.endpoint = "generate-content"
  <2>1. old \in Seq(Groups)
    BY <1>1, <1>5, ToolsOfBody
  <2>2. Declarations(old) \in Seq(Contents)
    BY <2>1, DeclarationsType
  <2>3. new \in {<<>>, ToGroups(body, request)}
    BY <1>1, <1>5 DEF ToNative, ToolsOf
  <2>4. Declarations(new) \in {<<>>, ToolItems(request)}
    <3>1. CASE new = <<>>
      <4>1. Declarations(<<>>) = <<>>
        <5>1. [i \in DOMAIN <<>> |-> <<>>[i].functions] = <<>>
          OBVIOUS
        <5>2. FlattenSeq(<<>>) = <<>>
          BY DEF FlattenSeq
        <5>. QED
          BY <5>1, <5>2 DEF Declarations
      <4>. QED
        BY <3>1, <4>1
    <3>2. CASE new = ToGroups(body, request)
      BY <1>5, <3>2, GroupsDeclare
    <3>. QED
      BY <2>3, <3>1, <3>2
  <2>5. IsInjective(Declarations(new))
    BY <1>3, <2>4
  <2>6. \/ old = new
        \/ Others(new) = Others(old) /\ Declarations(new) = Unique(Declarations(old))
    BY <1>2, <1>5 DEF ExactDuplicateReduction
  <2>7. Others(new) = Others(old)
    BY <2>6
  <2>8. IsFirstOccurrences(Declarations(new), Declarations(old))
    BY <2>2, <2>5, <2>6, UniqueKeepsFirst, InjectiveIsFirst
  <2>. QED
    BY <1>1, <1>5, <2>7, <2>8 DEF SameTools
<1>. QED
  BY <1>4, <1>5

(* What optimize_native returns, whatever the body.                        *)
Sent(body, r) ==
  /\ r.effective = BodySize(r.body)
  /\ r.original = BodySize(body)
  /\ BodySize(r.body) \in Nat /\ BodySize(body) \in Nat
  /\ r.effective <= r.original
  /\ (r.status # "optimized") <=> (r.body = body)
  /\ r.body # body => /\ body.form = "object"
                      /\ BodySize(r.body) < BodySize(body)
                      /\ r.body.messages = body.messages
                      /\ SameTools(body, r.body)

(* The body as it came is fit to be sent,                                  *)
LEMMA KeptIsSent ==
  ASSUME NEW body, IsBody(body), NEW status, status # "optimized", NEW attempted
  PROVE  Sent(body, Kept(body, status, attempted))
BY BodySizeIsNat DEF Sent, Kept

(* as is whatever passes the checks of the candidate,                      *)
LEMMA OptimizedIsSent ==
  ASSUME NEW m, NEW body, IsBody(body), body.form = "object"
  PROVE  Sent(body, Optimized(m, body))
<1>1. PICK request : request = Optimize(m, FromNative(body)).request
  OBVIOUS
<1>2. IsTranslated(request) /\ IsInjective(ToolItems(request))
  BY <1>1, FromNativeIsRequest, Optimal, ToolsDistinct, ItemsOfTools
<1>3. PICK c : c = ToNative(body, request)
  OBVIOUS
<1>4. BodySize(c) \in Nat /\ BodySize(body) \in Nat
  BY <1>2, <1>3, CandidateIsBody, BodySizeIsNat
<1>5. CASE \/ ~SemanticallyEqual(body, ToNative(body, FromNative(body)))
           \/ ~SafeCandidate(body, c)
           \/ BodySize(c) >= BodySize(body)
  <2>1. Optimized(m, body) \in {Kept(body, "restored", BodySize(body)),
                                Kept(body, "restored", BodySize(c)),
                                Kept(body, "unchanged", BodySize(c))}
    BY <1>1, <1>3, <1>5 DEF Optimized
  <2>. QED
    BY <2>1, KeptIsSent
<1>6. CASE /\ SemanticallyEqual(body, ToNative(body, FromNative(body)))
           /\ SafeCandidate(body, c)
           /\ ~(BodySize(c) >= BodySize(body))
  <2>1. PICK r : r = [Kept(c, "optimized", BodySize(c)) EXCEPT !.original = BodySize(body)]
    OBVIOUS
  <2>2. Optimized(m, body) = r
    BY <1>1, <1>3, <1>6, <2>1 DEF Optimized
  <2>3. /\ r.effective = BodySize(c) /\ r.body = c /\ r.original = BodySize(body)
        /\ r.status = "optimized"
    BY <2>1 DEF Kept
  <2>4. BodySize(c) < BodySize(body) /\ c # body
    BY <1>4, <1>6
  <2>5. c.messages = body.messages
    BY <1>6 DEF SafeCandidate
  <2>6. SameTools(body, c)
    BY <1>2, <1>3, <1>6, SafeKeepsTools
  <2>. QED
    BY <1>4, <2>2, <2>3, <2>4, <2>5, <2>6 DEF Sent
<1>. QED
  BY <1>5, <1>6

(* and so is whatever optimize_native returns, unless it raises.           *)
LEMMA NativeIsSent ==
  ASSUME NEW m, NEW body, IsBody(body), ~OptimizeNative(m, body).raised
  PROVE  Sent(body, OptimizeNative(m, body))
<1>1. body.form \in Forms
  BY DEF IsBody
<1>2. CASE body.form \in {"undecodable", "odd"}
  <2>1. OptimizeNative(m, body) = Raised(body)
    BY <1>2 DEF OptimizeNative, IsRefused
  <2>2. Raised(body).raised = TRUE
    BY DEF Raised, Kept
  <2>. QED
    BY <2>1, <2>2
<1>3. CASE body.form \in {"invalid", "value"}
  <2>1. OptimizeNative(m, body) = Kept(body, "restored", BodySize(body))
    BY <1>3 DEF OptimizeNative, IsRefused
  <2>. QED
    BY <2>1, KeptIsSent
<1>4. CASE body.form = "object"
  <2>1. OptimizeNative(m, body) = Optimized(m, body)
    BY <1>4 DEF OptimizeNative, IsRefused
  <2>. QED
    BY <1>4, <2>1, OptimizedIsSent
<1>. QED
  BY <1>1, <1>2, <1>3, <1>4 DEF Forms

-----------------------------------------------------------------------------
(* A handler whose request was given to a provider, and one whose request  *)
(* the command optimized.                                                  *)
Forwarded(c) ==
  /\ handler[c].request \in Requests[c]
  /\ handler[c].request.kind = "native"
  /\ handler[c].result = OptimizeNative(mode, handler[c].request.body)
  /\ ~handler[c].result.raised
  /\ handler[c].sent = handler[c].result.body

Commanded(c) ==
  /\ handler[c].request \in Requests[c]
  /\ handler[c].request.kind = "canonical"
  /\ handler[c].result = Optimize(mode, handler[c].request.canonical)

Live == {"sent", "streaming", "reading"}

Handlers(requests, result, sent) ==
  [phase : Phases, request : requests \cup {Nothing}, result : {result}, sent : {sent},
   stream : BOOLEAN, open : BOOLEAN, output : Usages \cup {0},
   answer : Answers]

IsHandler(c) == handler[c] \in Handlers(Requests[c], handler[c].result, handler[c].sent)

(* What a handler remembers of its request.                                *)
HandlerInv(c) ==
  /\ IsHandler(c)
  /\ handler[c].answer # Nothing => handler[c].phase = "ended"
  /\ handler[c].sent # Nothing \/ handler[c].phase \in Live => Forwarded(c)
  /\ handler[c].phase \in Live => handler[c].output = 0
  /\ handler[c].answer = "optimized" => Commanded(c)

HandlersInv ==
  /\ mode \in Modes
  /\ handler = [c \in Clients |-> handler[c]]
  /\ \A c \in Clients : HandlerInv(c)

(* The one row of a request whose response was passed on.                  *)
RowOf(c) == [Row(c, handler[c].result) EXCEPT !.output = handler[c].output]

MetricsInv ==
  /\ \A row \in metrics :
       /\ row.id \in Clients
       /\ row = RowOf(row.id)
       /\ handler[row.id].phase \in {"streaming", "reading", "ended"}
       /\ Forwarded(row.id)
  /\ \A c \in Clients :
       handler[c].phase \in {"streaming", "reading"} \/ handler[c].answer \in {"upstream", "cut"}
         => \E row \in metrics : row.id = c

SumsInv ==
  /\ IsFiniteSet(metrics)
  /\ usage \in Seq(Usages)
  /\ SumFunction(usage) = SumFunction([row \in metrics |-> row.output])

RunsInv ==
  /\ persist \in BOOLEAN
  /\ \A row \in runs :
       /\ row.id \in Clients
       /\ handler[row.id].phase = "ended"
       /\ Commanded(row.id)
       /\ row = RunRow(row.id, handler[row.id].request.canonical, handler[row.id].result)
  /\ \A c \in CommandResults :
       /\ \E row \in runs : row.id = c
       /\ Stores(persist, handler[c].request.canonical) \subseteq evidence

KeptInv ==
  /\ managed \in Seq(Clients)
  /\ recorded \in 0 .. Len(managed)
  /\ restarts \in 0 .. MaxRestarts
  /\ KeptAreLatest

-----------------------------------------------------------------------------
(* The handlers.                                                           *)

(* What the invariant says of one handler.                                 *)
LEMMA HandlerFacts ==
  ASSUME HandlersInv, NEW c \in Clients
  PROVE  /\ HandlerInv(c)
         /\ handler[c].request \in Requests[c] \cup {Nothing}
         /\ handler[c].phase \in Phases
         /\ handler[c].output \in Usages \cup {0}
         /\ handler[c].stream \in BOOLEAN
         /\ handler[c].open \in BOOLEAN
         /\ handler[c].answer \in Answers
         /\ handler = [x \in Clients |-> handler[x]]
<1>1. IsHandler(c) /\ HandlerInv(c) /\ handler = [x \in Clients |-> handler[x]]
  BY DEF HandlersInv, HandlerInv
<1>. QED
  BY <1>1 DEF IsHandler, Handlers

(* A record with fields of the right types is a handler.                   *)
LEMMA RecordIsHandler ==
  ASSUME NEW S, NEW phase \in Phases, NEW request \in S \cup {Nothing}, NEW result, NEW sent,
         NEW stream \in BOOLEAN, NEW open \in BOOLEAN, 
         NEW output \in Usages \cup {0}, NEW a \in Answers, NEW n,
         n = [phase |-> phase, request |-> request, result |-> result, sent |-> sent,
              stream |-> stream, open |-> open, output |-> output, answer |-> a]
  PROVE  n \in Handlers(S, n.result, n.sent)
<1>1. n.result = result /\ n.sent = sent
  OBVIOUS
<1>. QED
  BY <1>1 DEF Handlers

(* A step of one handler leaves the others as they were.                   *)
LEMMA OneHandlerChanges ==
  ASSUME HandlersInv, NEW c \in Clients, NEW n, handler' = [handler EXCEPT ![c] = n],
         mode' = mode, HandlerInv(c)'
  PROVE  HandlersInv'
<1>1. handler' = [x \in Clients |-> handler'[x]] /\ \A x \in Clients \ {c} : handler'[x] = handler[x]
  BY DEF HandlersInv
<1>2. ASSUME NEW x \in Clients \ {c} PROVE HandlerInv(x)'
  <2>1. HandlerInv(x) /\ handler'[x] = handler[x]
    BY <1>1 DEF HandlersInv
  <2>. QED
    BY <2>1 DEF HandlerInv, IsHandler, Forwarded, Commanded
<1>. QED
  BY <1>1, <1>2 DEF HandlersInv

(* No answer is the absent one.                                            *)
LEMMA AnswersApart ==
  /\ \A a \in Told : a # Nothing /\ a \in Answers
  /\ Nothing \in Answers
  /\ \A a \in {"refused", "failed", "timed out", "unreachable", "upstream", "cut", "run",
               "not found", "optimized", "lost"} : a \in Told
BY ProxyAssumption DEF Answers, Told

(* The invariant of the handlers holds at first.                           *)
LEMMA InitHandlers ==
  ASSUME Init
  PROVE  HandlersInv
<1>1. mode \in Modes /\ handler = [c \in Clients |-> Idle]
  BY DEF Init
<1>2. \A c \in Clients : handler[c] = Idle
  BY <1>1
<1>4. ASSUME NEW c \in Clients PROVE HandlerInv(c)
  <2>1. PICK h : h = handler[c]
    OBVIOUS
  <2>2. h = [phase |-> "idle", request |-> Nothing, result |-> Nothing, sent |-> Nothing,
             stream |-> FALSE, open |-> FALSE, output |-> 0, answer |-> Nothing]
    BY <1>2, <2>1 DEF Idle
  <2>3. "idle" \in Phases /\ Nothing \in Requests[c] \cup {Nothing} /\ Nothing \in Answers
    BY DEF Phases, Answers
  <2>4. IsHandler(c)
    BY <2>1, <2>2, <2>3, RecordIsHandler DEF IsHandler
  <2>5. /\ h.phase = "idle" /\ h.sent = Nothing /\ h.answer = Nothing
        /\ "idle" \notin Live /\ Nothing # "optimized"
    BY <2>2, AnswersApart DEF Live
  <2>. QED
    BY <2>1, <2>4, <2>5 DEF HandlerInv
<1>5. handler = [c \in Clients |-> handler[c]]
  BY <1>1
<1>. QED
  BY <1>1, <1>4, <1>5 DEF HandlersInv

(* A request that ends before anything else is known of it.                *)
LEMMA HandlerEnds ==
  ASSUME HandlersInv, NEW c \in Clients, NEW r \in Requests[c], NEW result,
         NEW a \in Told, a # "optimized",
         handler' = [handler EXCEPT ![c] = Ended([Idle EXCEPT !.request = r, !.result = result], a)],
         mode' = mode
  PROVE  HandlersInv'
<1>1. PICK n : n = Ended([Idle EXCEPT !.request = r, !.result = result], a)
  OBVIOUS
<1>2. n = [phase |-> "ended", request |-> r, result |-> result, sent |-> Nothing,
           stream |-> FALSE, open |-> FALSE, output |-> 0, answer |-> a]
  BY <1>1 DEF Ended, Idle
<1>3. handler'[c] = n
  BY <1>1 DEF HandlersInv
<1>5. "ended" \in Phases /\ r \in Requests[c] \cup {Nothing} /\ a \in Answers
  BY DEF Phases, Answers
<1>6. IsHandler(c)'
  <2>1. n \in Handlers(Requests[c], n.result, n.sent)
    BY <1>2, <1>5, RecordIsHandler
  <2>. QED
    BY <1>3, <2>1 DEF IsHandler
<1>7. /\ n.phase = "ended" /\ n.sent = Nothing /\ n.answer # "optimized"
      /\ "ended" \notin Live
  BY <1>2 DEF Live
<1>8. HandlerInv(c)'
  BY <1>3, <1>6, <1>7 DEF HandlerInv
<1>. QED
  BY <1>1, <1>8, OneHandlerChanges

(* A request in flight that goes on, or ends.                              *)
LEMMA HandlerGoesOn ==
  ASSUME HandlersInv, NEW c \in Clients, handler[c].answer = Nothing, mode' = mode,
         NEW phase \in Phases, NEW open \in BOOLEAN, 
         NEW output \in Usages \cup {0}, NEW a \in Answers,
         NEW n, n = [phase |-> phase, request |-> handler[c].request, result |-> handler[c].result,
                     sent |-> handler[c].sent, stream |-> handler[c].stream, open |-> open,
                     output |-> output, answer |-> a],
         handler' = [handler EXCEPT ![c] = n],
         phase \in Live => handler[c].phase \in Live /\ output = 0,
         a # Nothing => phase = "ended" /\ a # "optimized"
  PROVE  HandlersInv'
<1>1. PICK h : h = handler[c]
  OBVIOUS
<1>3. HandlerInv(c) /\ IsHandler(c)
  BY HandlerFacts DEF HandlerInv
<1>4. h \in [phase : Phases, request : Requests[c] \cup {Nothing}, result : {h.result},
             sent : {h.sent}, stream : BOOLEAN, open : BOOLEAN,
             output : Usages \cup {0}, answer : Answers]
  BY <1>1, <1>3 DEF IsHandler, Handlers
<1>5. n = [phase |-> phase, request |-> h.request, result |-> h.result, sent |-> h.sent,
           stream |-> h.stream, open |-> open, output |-> output, answer |-> a]
  BY <1>1
<1>6. handler'[c] = n
  BY DEF HandlersInv
<1>7. IsHandler(c)'
  <2>1. h.request \in Requests[c] \cup {Nothing} /\ h.stream \in BOOLEAN
    BY <1>4
  <2>2. n \in Handlers(Requests[c], n.result, n.sent)
    BY <1>5, <2>1 DEF Handlers
  <2>. QED
    BY <1>6, <2>2 DEF IsHandler
<1>8. /\ n.phase = phase /\ n.request = h.request /\ n.result = h.result /\ n.sent = h.sent
      /\ n.output = output /\ n.answer = a
  BY <1>5
<1>9. HandlerInv(c)'
  <2>1. Forwarded(c) => Forwarded(c)'
    BY <1>1, <1>6, <1>8 DEF Forwarded
  <2>2. h.sent # Nothing \/ h.phase \in Live => Forwarded(c)
    BY <1>1, <1>3 DEF HandlerInv
  <2>3. n.sent # Nothing \/ n.phase \in Live => Forwarded(c)'
    BY <1>1, <1>8, <2>1, <2>2
  <2>4. n.answer # "optimized"
    BY <1>8, AnswersApart
  <2>. QED
    BY <1>6, <1>7, <1>8, <2>3, <2>4 DEF HandlerInv
<1>. QED
  BY <1>9, OneHandlerChanges

(* A request is given to a provider.                                       *)
LEMMA HandlerForwarded ==
  ASSUME HandlersInv, NEW c \in Clients, NEW r \in Requests[c], r.kind = "native", mode' = mode,
         NEW result, result = OptimizeNative(mode, r.body), ~result.raised,
         handler' = [handler EXCEPT ![c] = [[Idle EXCEPT !.request = r, !.result = result] EXCEPT
                       !.phase = "sent", !.sent = result.body, !.stream = StreamRequested(r)]]
  PROVE  HandlersInv'
<1>1. PICK stream : stream = StreamRequested(r)
  OBVIOUS
<1>2. stream \in BOOLEAN
  <2>1. r.stream \in BOOLEAN /\ r.path_stream \in BOOLEAN
    BY ProxyAssumption
  <2>. QED
    BY <1>1, <2>1 DEF StreamRequested
<1>3. PICK n : n = [[Idle EXCEPT !.request = r, !.result = result] EXCEPT
                      !.phase = "sent", !.sent = result.body, !.stream = stream]
  OBVIOUS
<1>4. n = [phase |-> "sent", request |-> r, result |-> result, sent |-> result.body,
           stream |-> stream, open |-> FALSE, output |-> 0, answer |-> Nothing]
  BY <1>3 DEF Idle
<1>5. handler'[c] = n
  BY <1>1, <1>3 DEF HandlersInv
<1>6. /\ "sent" \in Phases /\ r \in Requests[c] \cup {Nothing} /\ Nothing \in Answers
  BY ProxyAssumption DEF Phases, Answers
<1>7. n \in Handlers(Requests[c], n.result, n.sent)
  BY <1>2, <1>4, <1>6 DEF Handlers
<1>8. /\ n.phase = "sent" /\ n.request = r /\ n.result = result /\ n.sent = result.body
      /\ n.output = 0 /\ n.answer = Nothing
  BY <1>4
<1>9. Forwarded(c)'
  BY <1>5, <1>8 DEF Forwarded
<1>10. Nothing # "optimized"
  BY AnswersApart
<1>11. HandlerInv(c)'
  BY <1>5, <1>7, <1>8, <1>9, <1>10 DEF HandlerInv, IsHandler
<1>. QED
  BY <1>1, <1>3, <1>11, OneHandlerChanges

(* A request is optimized by the command.                                  *)
LEMMA HandlerOptimized ==
  ASSUME HandlersInv, NEW c \in Clients, NEW r \in Requests[c], r.kind = "canonical", mode' = mode,
         NEW result, result = Optimize(mode, r.canonical), NEW a, a \in {"optimized", "failed"},
         handler' = [handler EXCEPT ![c] =
                       Ended([[Idle EXCEPT !.request = r] EXCEPT !.result = result], a)]
  PROVE  HandlersInv' /\ Commanded(c)'
<1>1. PICK n : n = Ended([[Idle EXCEPT !.request = r] EXCEPT !.result = result], a)
  OBVIOUS
<1>2. n = [phase |-> "ended", request |-> r, result |-> result, sent |-> Nothing,
           stream |-> FALSE, open |-> FALSE, output |-> 0, answer |-> a]
  BY <1>1 DEF Ended, Idle
<1>3. handler'[c] = n
  BY <1>1 DEF HandlersInv
<1>4. /\ "ended" \in Phases /\ r \in Requests[c] \cup {Nothing} /\ a \in Answers
  BY DEF Phases, Answers, Told
<1>5. n \in Handlers(Requests[c], n.result, n.sent)
  BY <1>2, <1>4 DEF Handlers
<1>6. /\ n.phase = "ended" /\ n.request = r /\ n.result = result /\ n.sent = Nothing
      /\ n.answer = a /\ "ended" \notin Live
  BY <1>2 DEF Live
<1>7. Commanded(c)'
  BY <1>3, <1>6 DEF Commanded
<1>8. HandlerInv(c)'
  BY <1>3, <1>5, <1>6, <1>7 DEF HandlerInv, IsHandler
<1>. QED
  BY <1>1, <1>7, <1>8, OneHandlerChanges

(* A managed run begins.                                                   *)
LEMMA HandlerStarts ==
  ASSUME HandlersInv, NEW c \in Clients, NEW r \in Requests[c], mode' = mode,
         handler' = [handler EXCEPT ![c] = [Idle EXCEPT !.request = r, !.phase = "running"]]
  PROVE  HandlersInv'
<1>1. PICK n : n = [Idle EXCEPT !.request = r, !.phase = "running"]
  OBVIOUS
<1>2. n = [phase |-> "running", request |-> r, result |-> Nothing, sent |-> Nothing,
           stream |-> FALSE, open |-> FALSE, output |-> 0, answer |-> Nothing]
  BY <1>1 DEF Idle
<1>3. handler'[c] = n
  BY <1>1 DEF HandlersInv
<1>4. /\ "running" \in Phases /\ r \in Requests[c] \cup {Nothing} /\ Nothing \in Answers
  BY ProxyAssumption DEF Phases, Answers
<1>5. n \in Handlers(Requests[c], n.result, n.sent)
  BY <1>2, <1>4 DEF Handlers
<1>6. n.phase = "running" /\ n.sent = Nothing /\ n.answer = Nothing /\ "running" \notin Live
  BY <1>2 DEF Live
<1>7. HandlerInv(c)'
  BY <1>3, <1>5, <1>6, AnswersApart DEF HandlerInv, IsHandler
<1>. QED
  BY <1>1, <1>7, OneHandlerChanges

(* The first step of a request keeps the invariant.                        *)
LEMMA AcceptHandlers ==
  ASSUME HandlersInv, NEW c \in Clients, Accept(c), mode' = mode
  PROVE  HandlersInv'
<1>1. PICK r \in Requests[c] : \/ Refuse(c, r) \/ Forward(c, r) \/ StartManaged(c, r)
                               \/ Status(c, r) \/ OptimizeCommand(c, r)
  BY DEF Accept
<1>2. \A x : [Idle EXCEPT !.request = x] = [Idle EXCEPT !.request = x, !.result = Nothing]
  <2> TAKE x
  <2>1. PICK n, o : /\ n = [Idle EXCEPT !.request = x]
                    /\ o = [Idle EXCEPT !.request = x, !.result = Nothing]
    OBVIOUS
  <2>2. n = [phase |-> "idle", request |-> x, result |-> Nothing, sent |-> Nothing,
             stream |-> FALSE, open |-> FALSE, output |-> 0, answer |-> Nothing]
    BY <2>1 DEF Idle
  <2>3. o = [phase |-> "idle", request |-> x, result |-> Nothing, sent |-> Nothing,
             stream |-> FALSE, open |-> FALSE, output |-> 0, answer |-> Nothing]
    BY <2>1 DEF Idle
  <2>. QED
    BY <2>1, <2>2, <2>3
<1>3. CASE Refuse(c, r)
  <2>1. "refused" \in Told /\ "refused" # "optimized"
    BY DEF Told
  <2>2. handler' = [handler EXCEPT ![c] =
                      Ended([Idle EXCEPT !.request = r, !.result = Nothing], "refused")]
    BY <1>2, <1>3 DEF Refuse
  <2>. QED
    BY <2>1, <2>2, HandlerEnds
<1>4. CASE Forward(c, r)
  <2>1. PICK result : result = OptimizeNative(mode, r.body)
    OBVIOUS
  <2>2. r.kind = "native"
    BY <1>4 DEF Forward
  <2>3. \/ handler' = [handler EXCEPT ![c] =
                         Ended([Idle EXCEPT !.request = r, !.result = result], "failed")]
        \/ /\ ~result.raised
           /\ handler' = [handler EXCEPT ![c] = [[Idle EXCEPT !.request = r, !.result = result]
                            EXCEPT !.phase = "sent", !.sent = result.body,
                                   !.stream = StreamRequested(r)]]
    BY <1>4, <2>1 DEF Forward
  <2>4. "failed" \in Told /\ "failed" # "optimized"
    BY DEF Told
  <2>5. CASE handler' = [handler EXCEPT ![c] =
                           Ended([Idle EXCEPT !.request = r, !.result = result], "failed")]
    BY <2>4, <2>5, HandlerEnds
  <2>6. CASE /\ ~result.raised
             /\ handler' = [handler EXCEPT ![c] = [[Idle EXCEPT !.request = r, !.result = result]
                              EXCEPT !.phase = "sent", !.sent = result.body,
                                     !.stream = StreamRequested(r)]]
    BY <2>1, <2>2, <2>6, HandlerForwarded
  <2>. QED
    BY <2>3, <2>5, <2>6
<1>5. CASE StartManaged(c, r)
  <2>1. handler' = [handler EXCEPT ![c] = [Idle EXCEPT !.request = r, !.phase = "running"]]
    BY <1>5 DEF StartManaged
  <2>. QED
    BY <2>1, HandlerStarts
<1>6. CASE Status(c, r)
  <2>1. PICK a : a = IF Contains(completed, r.run) THEN "run" ELSE "not found"
    OBVIOUS
  <2>2. a \in Told /\ a # "optimized"
    BY <2>1 DEF Told
  <2>3. handler' = [handler EXCEPT ![c] =
                      Ended([Idle EXCEPT !.request = r, !.result = Nothing], a)]
    BY <1>2, <1>6, <2>1 DEF Status
  <2>. QED
    BY <2>2, <2>3, HandlerEnds
<1>7. CASE OptimizeCommand(c, r)
  <2>1. PICK result : result = Optimize(mode, r.canonical)
    OBVIOUS
  <2>2. r.kind = "canonical"
    BY <1>7 DEF OptimizeCommand
  <2>3. \/ handler' = [handler EXCEPT ![c] = Ended([Idle EXCEPT !.request = r], "failed")]
        \/ \E a \in {"optimized", "failed"} :
             handler' = [handler EXCEPT ![c] =
                           Ended([[Idle EXCEPT !.request = r] EXCEPT !.result = result], a)]
    BY <1>7, <2>1 DEF OptimizeCommand
  <2>4. "failed" \in Told /\ "failed" # "optimized"
    BY DEF Told
  <2>5. CASE handler' = [handler EXCEPT ![c] = Ended([Idle EXCEPT !.request = r], "failed")]
    <3>1. handler' = [handler EXCEPT ![c] =
                        Ended([Idle EXCEPT !.request = r, !.result = Nothing], "failed")]
      BY <1>2, <2>5
    <3>. QED
      BY <2>4, <3>1, HandlerEnds
  <2>6. CASE \E a \in {"optimized", "failed"} :
               handler' = [handler EXCEPT ![c] =
                             Ended([[Idle EXCEPT !.request = r] EXCEPT !.result = result], a)]
    <3>1. PICK a \in {"optimized", "failed"} :
            handler' = [handler EXCEPT ![c] =
                          Ended([[Idle EXCEPT !.request = r] EXCEPT !.result = result], a)]
      BY <2>6
    <3>. QED
      BY <2>1, <2>2, <3>1, HandlerOptimized
  <2>. QED
    BY <2>3, <2>5, <2>6
<1>. QED
  BY <1>1, <1>3, <1>4, <1>5, <1>6, <1>7

(* What Continue makes of a handler.                                       *)
Advanced(h, phase, open, output, a) ==
  [phase |-> phase, request |-> h.request, result |-> h.result, sent |-> h.sent,
   stream |-> h.stream, open |-> open, output |-> output, answer |-> a]

(* Every later step changes no more of a handler than Advanced does.       *)
LEMMA ContinueAdvances ==
  ASSUME HandlersInv, NEW c \in Clients, Continue(c)
  PROVE  /\ handler[c].phase \in {"sent", "streaming", "reading", "running"}
         /\ handler[c].answer = Nothing
         /\ \E phase \in Phases, open \in BOOLEAN, 
               output \in Usages \cup {0}, a \in Answers :
              /\ handler' = [handler EXCEPT ![c] =
                               Advanced(handler[c], phase, open, output, a)]
              /\ phase \in Live => handler[c].phase \in Live /\ output = 0
              /\ a # Nothing => phase = "ended" /\ a # "optimized"
<1> DEFINE Goal == \E phase \in Phases, open \in BOOLEAN, 
                     output \in Usages \cup {0}, a \in Answers :
                    /\ handler' = [handler EXCEPT ![c] =
                                     Advanced(handler[c], phase, open, output, a)]
                    /\ phase \in Live => handler[c].phase \in Live /\ output = 0
                    /\ a # Nothing => phase = "ended" /\ a # "optimized"
<1>1. PICK h : h = handler[c]
  OBVIOUS
<1>2. /\ h \in [phase : Phases, request : Requests[c] \cup {Nothing}, result : {h.result},
                sent : {h.sent}, stream : BOOLEAN, open : BOOLEAN,
                output : Usages \cup {0}, answer : Answers]
      /\ handler = [x \in Clients |-> handler[x]]
  BY <1>1, HandlerFacts DEF HandlerInv, IsHandler, Handlers
<1>3. h.phase \in {"sent", "streaming", "reading", "running"}
  BY <1>1 DEF Continue, UpstreamFails, RecordRequest, EndStream, Reply, EndManaged
<1>4. h.answer = Nothing
  BY <1>1, <1>3, HandlerFacts DEF HandlerInv
<1>5. h.phase \in Live => h.output = 0
  BY <1>1, HandlerFacts DEF HandlerInv
<1>6. \A a \in {"timed out", "unreachable", "failed", "upstream", "cut", "refused", "run"} :
        a \in Answers /\ a # "optimized"
  BY DEF Answers, Told
<1>7. "ended" \in Phases /\ "ended" \notin Live /\ {"streaming", "reading"} \subseteq Live \cap Phases
  BY DEF Phases, Live
<1>8. ASSUME NEW phase \in Phases, NEW open \in BOOLEAN, 
              NEW output \in Usages \cup {0}, NEW a \in Answers,
              handler' = [handler EXCEPT ![c] = Advanced(h, phase, open, output, a)],
              phase \in Live => h.phase \in Live /\ output = 0,
              a # Nothing => phase = "ended" /\ a # "optimized"
       PROVE  Goal
  BY <1>1, <1>8
<1>9. /\ h.open \in BOOLEAN /\ h.stream \in BOOLEAN
       /\ h.output \in Usages \cup {0}
  BY <1>2
<1>10. SUFFICES Goal
  BY <1>1, <1>3, <1>4
<1>. HIDE DEF Goal
<1>11. CASE UpstreamFails(c)
  <2>1. PICK a \in {"timed out", "unreachable"} : handler' = [handler EXCEPT ![c] = Ended(@, a)]
    BY <1>11 DEF UpstreamFails
  <2>2. PICK n : n = Ended(h, a)
    OBVIOUS
  <2>3. n = Advanced(h, "ended", h.open, h.output, a)
    BY <1>2, <2>2 DEF Ended, Advanced
  <2>4. handler' = [handler EXCEPT ![c] = Advanced(h, "ended", h.open, h.output, a)]
    BY <1>1, <2>1, <2>2, <2>3
  <2>. QED
    BY <1>6, <1>7, <1>8, <1>9, <2>4
<1>12. CASE RecordRequest(c)
  <2>1. h.phase = "sent"
    BY <1>1, <1>12 DEF RecordRequest
  <2>2. CASE handler' = [handler EXCEPT ![c] =
                           Ended([@ EXCEPT !.open = handler[c].stream], "failed")]
    <3>1. PICK n : n = Ended([h EXCEPT !.open = h.stream], "failed")
      OBVIOUS
    <3>2. n = Advanced(h, "ended", h.stream, h.output, "failed")
      BY <1>2, <3>1 DEF Ended, Advanced
    <3>3. handler' = [handler EXCEPT ![c] =
                        Advanced(h, "ended", h.stream, h.output, "failed")]
      BY <1>1, <2>2, <3>1, <3>2
    <3>. QED
      BY <1>6, <1>7, <1>8, <1>9, <3>3
  <2>3. CASE handler' = [handler EXCEPT ![c].phase = IF handler[c].stream THEN "streaming"
                                                                       ELSE "reading",
                                        ![c].open = handler[c].stream]
    <3>1. PICK phase : phase = IF h.stream THEN "streaming" ELSE "reading"
      OBVIOUS
    <3>2. PICK n : n = [[h EXCEPT !.phase = phase] EXCEPT !.open = h.stream]
      OBVIOUS
    <3>3. n = Advanced(h, phase, h.stream, h.output, Nothing)
      BY <1>2, <1>4, <3>2 DEF Advanced
    <3>4. handler' = [handler EXCEPT ![c] = n]
      BY <1>1, <1>2, <2>3, <3>1, <3>2
    <3>5. phase \in Phases /\ "sent" \in Live /\ Nothing \in Answers
      BY <1>7, <3>1 DEF Live, Answers
    <3>. QED
      BY <1>5, <1>8, <1>9, <2>1, <3>3, <3>4, <3>5
  <2>. QED
    BY <1>12, <2>2, <2>3 DEF RecordRequest
<1>14. CASE EndStream(c)
  <2>1. PICK a \in {"upstream", "cut"} :
          handler' = [handler EXCEPT ![c] = Ended([@ EXCEPT !.open = FALSE], a)]
    BY <1>14 DEF EndStream
  <2>2. PICK n : n = Ended([h EXCEPT !.open = FALSE], a)
    OBVIOUS
  <2>3. n = Advanced(h, "ended", FALSE, h.output, a)
    BY <1>2, <2>2 DEF Ended, Advanced
  <2>4. handler' = [handler EXCEPT ![c] = Advanced(h, "ended", FALSE, h.output, a)]
    BY <1>1, <2>1, <2>2, <2>3
  <2>. QED
    BY <1>6, <1>7, <1>8, <1>9, <2>4
<1>15. CASE Reply(c)
  <2>1. CASE handler' = [handler EXCEPT ![c] = Ended(@, "failed")]
    <3>1. PICK n : n = Ended(h, "failed")
      OBVIOUS
    <3>2. n = Advanced(h, "ended", h.open, h.output, "failed")
      BY <1>2, <3>1 DEF Ended, Advanced
    <3>3. handler' = [handler EXCEPT ![c] =
                        Advanced(h, "ended", h.open, h.output, "failed")]
      BY <1>1, <2>1, <3>1, <3>2
    <3>. QED
      BY <1>6, <1>7, <1>8, <1>9, <3>3
  <2>2. ASSUME NEW tokens \in Usages,
               handler' = [handler EXCEPT ![c] = Ended([@ EXCEPT !.output = tokens], "upstream")]
        PROVE  Goal
    <3>1. PICK n : n = Ended([h EXCEPT !.output = tokens], "upstream")
      OBVIOUS
    <3>2. n = Advanced(h, "ended", h.open, tokens, "upstream")
      BY <1>2, <3>1 DEF Ended, Advanced
    <3>3. handler' = [handler EXCEPT ![c] =
                        Advanced(h, "ended", h.open, tokens, "upstream")]
      BY <1>1, <2>2, <3>1, <3>2
    <3>. QED
      BY <1>6, <1>7, <1>8, <1>9, <3>3
  <2>. QED
    BY <1>15, <2>1, <2>2 DEF Reply
<1>16. CASE EndManaged(c)
  <2>1. PICK a \in {"refused", "failed", "run"} : handler' = [handler EXCEPT ![c] = Ended(@, a)]
    BY <1>16 DEF EndManaged
  <2>2. PICK n : n = Ended(h, a)
    OBVIOUS
  <2>3. n = Advanced(h, "ended", h.open, h.output, a)
    BY <1>2, <2>2 DEF Ended, Advanced
  <2>4. handler' = [handler EXCEPT ![c] = Advanced(h, "ended", h.open, h.output, a)]
    BY <1>1, <2>1, <2>2, <2>3
  <2>. QED
    BY <1>6, <1>7, <1>8, <1>9, <2>4
<1>. QED
  BY <1>11, <1>12, <1>14, <1>15, <1>16 DEF Continue

(* Every later step keeps the invariant.                                   *)
LEMMA ContinueHandlers ==
  ASSUME HandlersInv, NEW c \in Clients, Continue(c), mode' = mode
  PROVE  HandlersInv'
<1>1. PICK phase \in Phases, open \in BOOLEAN, 
           output \in Usages \cup {0}, a \in Answers :
        /\ handler' = [handler EXCEPT ![c] = Advanced(handler[c], phase, open, output, a)]
        /\ phase \in Live => handler[c].phase \in Live /\ output = 0
        /\ a # Nothing => phase = "ended" /\ a # "optimized"
  BY ContinueAdvances
<1>2. handler[c].answer = Nothing
  BY ContinueAdvances
<1>3. PICK n : n = Advanced(handler[c], phase, open, output, a)
  OBVIOUS
<1>. QED
  BY <1>1, <1>2, <1>3, HandlerGoesOn DEF Advanced

(* The application dies: what each handler remembers stays.                *)
LEMMA RestartKeeps ==
  ASSUME HandlersInv, Restart, NEW c \in Clients
  PROVE  /\ handler'[c].request = handler[c].request
         /\ handler'[c].result = handler[c].result
         /\ handler'[c].sent = handler[c].sent
         /\ handler'[c].output = handler[c].output
         /\ handler'[c].phase \in {"idle", "ended"}
         /\ handler[c].phase = "idle" => handler'[c].phase = "idle"
         /\ handler[c].phase # "idle" => handler'[c].phase = "ended"
         /\ \/ handler'[c].answer = handler[c].answer /\ handler'[c].phase = handler[c].phase
            \/ handler'[c].answer = "lost" /\ handler'[c].phase = "ended"
                                           /\ handler[c].answer = Nothing
         /\ IsHandler(c)'
<1>1. PICK h : h = handler[c]
  OBVIOUS
<1>2. h \in [phase : Phases, request : Requests[c] \cup {Nothing}, result : {h.result},
             sent : {h.sent}, stream : BOOLEAN, open : BOOLEAN,
             output : Usages \cup {0}, answer : Answers]
  BY <1>1, HandlerFacts DEF HandlerInv, IsHandler, Handlers
<1>3. PICK n : n = IF h.phase \in {"idle", "ended"} THEN [h EXCEPT !.open = FALSE]
                   ELSE Ended([h EXCEPT !.open = FALSE], "lost")
  OBVIOUS
<1>4. handler'[c] = n
  BY <1>1, <1>3 DEF Restart
<1>5. PICK phase, a : IF h.phase \in {"idle", "ended"} THEN phase = h.phase /\ a = h.answer
                      ELSE phase = "ended" /\ a = "lost"
  OBVIOUS
<1>6. n = Advanced(h, phase, FALSE, h.output, a)
  <2>1. CASE h.phase \in {"idle", "ended"}
    <3>1. n = [h EXCEPT !.open = FALSE]
      BY <1>3, <2>1
    <3>. QED
      BY <1>2, <1>5, <2>1, <3>1 DEF Advanced
  <2>2. CASE h.phase \notin {"idle", "ended"}
    <3>1. n = Ended([h EXCEPT !.open = FALSE], "lost")
      BY <1>3, <2>2
    <3>. QED
      BY <1>2, <1>5, <2>2, <3>1 DEF Advanced, Ended
  <2>. QED
    BY <2>1, <2>2
<1>7. /\ n.request = h.request /\ n.result = h.result /\ n.sent = h.sent /\ n.output = h.output
      /\ n.phase = phase /\ n.answer = a
  BY <1>6 DEF Advanced
<1>8. h.phase \notin {"idle", "ended"} => h.answer = Nothing
  BY <1>1, HandlerFacts DEF HandlerInv
<1>9. phase \in Phases /\ a \in Answers
  BY <1>2, <1>5 DEF Phases, Answers, Told
<1>10. n \in Handlers(Requests[c], n.result, n.sent)
  BY <1>2, <1>6, <1>9 DEF Handlers, Advanced
<1>11. IsHandler(c)'
  BY <1>4, <1>10 DEF IsHandler
<1>. QED
  BY <1>1, <1>4, <1>5, <1>7, <1>8, <1>11

(* A restart keeps the invariant of the handlers.                          *)
LEMMA RestartHandlers ==
  ASSUME HandlersInv, Restart
  PROVE  HandlersInv'
<1>1. mode' = mode /\ handler' = [c \in Clients |-> handler'[c]]
  BY DEF Restart
<1>2. ASSUME NEW c \in Clients PROVE HandlerInv(c)'
  <2>1. HandlerInv(c)
    BY HandlerFacts
  <2>2. Forwarded(c) => Forwarded(c)'
    BY <1>1, RestartKeeps DEF Forwarded
  <2>3. Commanded(c) => Commanded(c)'
    BY <1>1, RestartKeeps DEF Commanded
  <2>4. handler'[c].phase \notin Live
    BY RestartKeeps DEF Live
  <2>5. handler'[c].answer # Nothing => handler'[c].phase = "ended"
    BY <2>1, RestartKeeps DEF HandlerInv
  <2>6. handler'[c].answer = "optimized" => handler[c].answer = "optimized"
    BY RestartKeeps
  <2>7. handler'[c].sent # Nothing => handler[c].sent # Nothing
    BY RestartKeeps
  <2>8. IsHandler(c)'
    BY RestartKeeps
  <2>. QED
    BY <2>1, <2>2, <2>3, <2>4, <2>5, <2>6, <2>7, <2>8 DEF HandlerInv
<1>3. mode' \in Modes
  BY <1>1 DEF HandlersInv
<1>. QED
  BY <1>1, <1>2, <1>3 DEF HandlersInv

(* Every step keeps the invariant of the handlers.                         *)
LEMMA HandlersStep ==
  ASSUME HandlersInv, [Next]_vars
  PROVE  HandlersInv'
<1>1. CASE Restart
  BY <1>1, RestartHandlers
<1>2. ASSUME NEW c \in Clients, Serve(c) PROVE HandlersInv'
  <2>1. mode' = mode /\ (Accept(c) \/ Continue(c))
    BY <1>2 DEF Serve
  <2>. QED
    BY <2>1, AcceptHandlers, ContinueHandlers
<1>3. CASE UNCHANGED vars
  BY <1>3 DEF vars, HandlersInv, HandlerInv, IsHandler, Forwarded, Commanded
<1>. QED
  BY <1>1, <1>2, <1>3 DEF Next

-----------------------------------------------------------------------------
(* The rows of the metrics.                                                *)

HasRow == {"streaming", "reading", "ended"}

(* The rows of other clients stay what they are.                           *)
LEMMA RowsElsewhere ==
  ASSUME HandlersInv, MetricsInv, NEW c \in Clients, NEW n,
         handler' = [handler EXCEPT ![c] = n], mode' = mode
  PROVE  /\ handler'[c] = n
         /\ \A d \in Clients \ {c} : /\ handler'[d] = handler[d]
                                     /\ RowOf(d)' = RowOf(d)
                                     /\ Forwarded(d) => Forwarded(d)'
<1>1. handler'[c] = n /\ \A d \in Clients \ {c} : handler'[d] = handler[d]
  BY DEF HandlersInv
<1>. QED
  BY <1>1 DEF RowOf, Row, Forwarded

(* A request without a row goes on without one.                            *)
LEMMA NoRowYet ==
  ASSUME HandlersInv, MetricsInv, NEW c \in Clients, NEW n,
         handler' = [handler EXCEPT ![c] = n], mode' = mode, metrics' = metrics,
         handler[c].phase \notin HasRow,
         n.phase \notin {"streaming", "reading"}, n.answer \notin {"upstream", "cut"}
  PROVE  MetricsInv'
<1>1. /\ handler'[c] = n
      /\ \A d \in Clients \ {c} : /\ handler'[d] = handler[d]
                                  /\ RowOf(d)' = RowOf(d)
                                  /\ Forwarded(d) => Forwarded(d)'
  BY RowsElsewhere
<1>2. ASSUME NEW row \in metrics
      PROVE  /\ row.id \in Clients
             /\ row = RowOf(row.id)'
             /\ handler'[row.id].phase \in {"streaming", "reading", "ended"}
             /\ Forwarded(row.id)'
  <2>1. /\ row.id \in Clients /\ row = RowOf(row.id)
        /\ handler[row.id].phase \in {"streaming", "reading", "ended"}
        /\ Forwarded(row.id)
    BY DEF MetricsInv
  <2>2. row.id # c
    BY <2>1 DEF HasRow
  <2>. QED
    BY <1>1, <2>1, <2>2
<1>3. ASSUME NEW d \in Clients,
             handler'[d].phase \in {"streaming", "reading"} \/ handler'[d].answer \in {"upstream", "cut"}
      PROVE  \E row \in metrics : row.id = d
  <2>1. d # c
    BY <1>1, <1>3
  <2>. QED
    BY <1>1, <1>3, <2>1 DEF MetricsInv
<1>. QED
  BY <1>2, <1>3 DEF MetricsInv

(* A request with a row keeps it.                                          *)
LEMMA RowKept ==
  ASSUME HandlersInv, MetricsInv, NEW c \in Clients, NEW n,
         handler' = [handler EXCEPT ![c] = n], mode' = mode, metrics' = metrics,
         handler[c].phase \in {"streaming", "reading"}, n.phase \in HasRow,
         n.request = handler[c].request, n.result = handler[c].result,
         n.sent = handler[c].sent, n.output = handler[c].output
  PROVE  MetricsInv'
<1>1. /\ handler'[c] = n
      /\ \A d \in Clients \ {c} : /\ handler'[d] = handler[d]
                                  /\ RowOf(d)' = RowOf(d)
                                  /\ Forwarded(d) => Forwarded(d)'
  BY RowsElsewhere
<1>2. RowOf(c)' = RowOf(c) /\ (Forwarded(c) => Forwarded(c)')
  BY <1>1 DEF RowOf, Row, Forwarded
<1>3. ASSUME NEW row \in metrics
      PROVE  /\ row.id \in Clients
             /\ row = RowOf(row.id)'
             /\ handler'[row.id].phase \in {"streaming", "reading", "ended"}
             /\ Forwarded(row.id)'
  <2>1. /\ row.id \in Clients /\ row = RowOf(row.id)
        /\ handler[row.id].phase \in {"streaming", "reading", "ended"}
        /\ Forwarded(row.id)
    BY DEF MetricsInv
  <2>2. CASE row.id = c
    <3>1. handler'[c].phase \in {"streaming", "reading", "ended"}
      BY <1>1 DEF HasRow
    <3>. QED
      BY <1>2, <2>1, <2>2, <3>1
  <2>3. CASE row.id # c
    BY <1>1, <2>1, <2>3
  <2>. QED
    BY <2>2, <2>3
<1>4. \E row \in metrics : row.id = c
  BY DEF MetricsInv
<1>5. ASSUME NEW d \in Clients,
             handler'[d].phase \in {"streaming", "reading"} \/ handler'[d].answer \in {"upstream", "cut"}
      PROVE  \E row \in metrics : row.id = d
  <2>1. CASE d = c
    BY <1>4, <2>1
  <2>2. CASE d # c
    BY <1>1, <1>5, <2>2 DEF MetricsInv
  <2>. QED
    BY <2>1, <2>2
<1>. QED
  BY <1>3, <1>5 DEF MetricsInv

(* A request gets its row.                                                 *)
LEMMA RowAdded ==
  ASSUME HandlersInv, MetricsInv, NEW c \in Clients, NEW n,
         handler' = [handler EXCEPT ![c] = n], mode' = mode,
         handler[c].phase = "sent", n.phase \in {"streaming", "reading"},
         n.request = handler[c].request, n.result = handler[c].result,
         n.sent = handler[c].sent, n.output = handler[c].output,
         NEW new, new = Row(c, handler[c].result), metrics' = metrics \cup {new}
  PROVE  /\ MetricsInv'
         /\ new \notin metrics
         /\ new.output = 0
<1>1. /\ handler'[c] = n
      /\ \A d \in Clients \ {c} : /\ handler'[d] = handler[d]
                                  /\ RowOf(d)' = RowOf(d)
                                  /\ Forwarded(d) => Forwarded(d)'
  BY RowsElsewhere
<1>2. HandlerInv(c)
  BY HandlerFacts
<1>3. Forwarded(c) /\ handler[c].output = 0
  BY <1>2 DEF HandlerInv, Live
<1>4. Forwarded(c)'
  BY <1>1, <1>3 DEF Forwarded
<1>5. new.id = c /\ new.output = 0 /\ new = [new EXCEPT !.output = 0]
  BY DEF Row
<1>6. new = RowOf(c)'
  <2>1. RowOf(c)' = [new EXCEPT !.output = 0]
    BY <1>1, <1>3 DEF RowOf, Row
  <2>. QED
    BY <1>5, <2>1
<1>7. \A row \in metrics : row.id # c
  BY DEF MetricsInv
<1>8. ASSUME NEW row \in metrics \cup {new}
      PROVE  /\ row.id \in Clients
             /\ row = RowOf(row.id)'
             /\ handler'[row.id].phase \in {"streaming", "reading", "ended"}
             /\ Forwarded(row.id)'
  <2>1. CASE row = new
    BY <1>1, <1>4, <1>5, <1>6, <2>1
  <2>2. CASE row \in metrics
    <3>1. /\ row.id \in Clients /\ row = RowOf(row.id)
          /\ handler[row.id].phase \in {"streaming", "reading", "ended"}
          /\ Forwarded(row.id)
      BY <2>2 DEF MetricsInv
    <3>. QED
      BY <1>1, <1>7, <2>2, <3>1
  <2>. QED
    BY <2>1, <2>2
<1>9. ASSUME NEW d \in Clients,
             handler'[d].phase \in {"streaming", "reading"} \/ handler'[d].answer \in {"upstream", "cut"}
      PROVE  \E row \in metrics \cup {new} : row.id = d
  <2>1. CASE d = c
    BY <1>5, <2>1
  <2>2. CASE d # c
    BY <1>1, <1>9, <2>2 DEF MetricsInv
  <2>. QED
    BY <2>1, <2>2
<1>10. MetricsInv'
  BY <1>8, <1>9 DEF MetricsInv
<1>. QED
  BY <1>5, <1>7, <1>10

(* A request's row is given the output of its response.                    *)
LEMMA RowReplaced ==
  ASSUME HandlersInv, MetricsInv, NEW c \in Clients, NEW n,
         handler' = [handler EXCEPT ![c] = n], mode' = mode,
         handler[c].phase = "reading", n.phase = "ended",
         n.request = handler[c].request, n.result = handler[c].result,
         n.sent = handler[c].sent, metrics' = WithOutput(c, n.output)
  PROVE  /\ MetricsInv'
         /\ \E old \in metrics : /\ old.output = 0
                                 /\ RowOf(c)' \notin metrics \ {old}
                                 /\ RowOf(c)'.output = n.output
                                 /\ metrics' = (metrics \ {old}) \cup {RowOf(c)'}
<1>1. /\ handler'[c] = n
      /\ \A d \in Clients \ {c} : /\ handler'[d] = handler[d]
                                  /\ RowOf(d)' = RowOf(d)
                                  /\ Forwarded(d) => Forwarded(d)'
  BY RowsElsewhere
<1>2. HandlerInv(c)
  BY HandlerFacts
<1>3. Forwarded(c) /\ handler[c].output = 0
  BY <1>2 DEF HandlerInv, Live
<1>4. Forwarded(c)'
  BY <1>1, <1>3 DEF Forwarded
<1>5. PICK new : new = RowOf(c)'
  OBVIOUS
<1>6. new = [Row(c, handler[c].result) EXCEPT !.output = n.output]
  BY <1>1, <1>5 DEF RowOf, Row
<1>7. PICK old : old \in metrics /\ old.id = c
  BY DEF MetricsInv
<1>8. old = RowOf(c) /\ \A row \in metrics : row.id = c => row = old
  BY <1>7 DEF MetricsInv
<1>9. old.output = 0 /\ new.id = c /\ new.output = n.output
  BY <1>3, <1>6, <1>8 DEF RowOf, Row
<1>10. new = [old EXCEPT !.output = n.output]
  BY <1>6, <1>8 DEF RowOf, Row
<1>11. metrics' = (metrics \ {old}) \cup {new}
  <2>1. \A row \in metrics :
          (IF row.id = c THEN [row EXCEPT !.output = n.output] ELSE row) =
            IF row = old THEN new ELSE row
    BY <1>7, <1>8, <1>10
  <2>2. metrics' = {IF row.id = c THEN [row EXCEPT !.output = n.output] ELSE row : row \in metrics}
    BY DEF WithOutput
  <2>3. ASSUME NEW x \in metrics' PROVE x \in (metrics \ {old}) \cup {new}
    <3>1. PICK row \in metrics :
            x = IF row.id = c THEN [row EXCEPT !.output = n.output] ELSE row
      BY <2>2
    <3>2. x = IF row = old THEN new ELSE row
      BY <2>1, <3>1
    <3>. QED
      BY <3>2
  <2>4. \A x \in metrics \ {old} : x \in metrics'
    BY <2>1, <2>2
  <2>5. new \in metrics'
    BY <1>7, <2>1, <2>2
  <2>. QED
    BY <2>3, <2>4, <2>5
<1>12. new \notin metrics \ {old}
  BY <1>8, <1>9
<1>13. ASSUME NEW row \in metrics'
       PROVE  /\ row.id \in Clients
              /\ row = RowOf(row.id)'
              /\ handler'[row.id].phase \in {"streaming", "reading", "ended"}
              /\ Forwarded(row.id)'
  <2>1. CASE row = new
    BY <1>1, <1>4, <1>5, <1>9, <2>1
  <2>2. CASE row \in metrics \ {old}
    <3>1. /\ row.id \in Clients /\ row = RowOf(row.id)
          /\ handler[row.id].phase \in {"streaming", "reading", "ended"}
          /\ Forwarded(row.id)
      BY <2>2 DEF MetricsInv
    <3>2. row.id # c
      BY <1>8, <2>2
    <3>. QED
      BY <1>1, <3>1, <3>2
  <2>. QED
    BY <1>11, <2>1, <2>2
<1>14. ASSUME NEW d \in Clients,
              handler'[d].phase \in {"streaming", "reading"} \/ handler'[d].answer \in {"upstream", "cut"}
       PROVE  \E row \in metrics' : row.id = d
  <2>1. CASE d = c
    BY <1>9, <1>11, <2>1
  <2>2. CASE d # c
    <3>1. PICK row \in metrics : row.id = d
      BY <1>1, <1>14, <2>2 DEF MetricsInv
    <3>. QED
      BY <1>7, <1>11, <2>2, <3>1
  <2>. QED
    BY <2>1, <2>2
<1>15. MetricsInv'
  BY <1>13, <1>14 DEF MetricsInv
<1>. QED
  BY <1>5, <1>7, <1>9, <1>11, <1>12, <1>15

Outputs(rows) == SumFunction([row \in rows |-> row.output])

(* The outputs of the rows, with one row more,                             *)
LEMMA OutputsOfMore ==
  ASSUME NEW R, IsFiniteSet(R), \A row \in R : row.output \in Nat,
         NEW new, new \notin R, new.output \in Nat
  PROVE  /\ IsFiniteSet(R \cup {new})
         /\ Outputs(R \cup {new}) = new.output + Outputs(R)
         /\ Outputs(R) \in Nat
<1>1. PICK S : S = R \cup {new}
  OBVIOUS
<1>2. PICK f : f = [row \in S |-> row.output]
  OBVIOUS
<1>3. IsFiniteSet(S) /\ f \in [S -> Nat] /\ new \in S
  BY <1>1, <1>2, FS_AddElement
<1>4. SumFunction(f) = f[new] + SumFunction([y \in S \ {new} |-> f[y]])
  <2>1. \A x \in S : SumFunction(f) = f[x] + SumFunction([y \in S \ {x} |-> f[y]])
    BY <1>3, SumSplit
  <2>. QED
    BY <1>3, <2>1
<1>5. [y \in S \ {new} |-> f[y]] = [row \in R |-> row.output] /\ f[new] = new.output
  <2>1. S \ {new} = R
    BY <1>1
  <2>. QED
    BY <1>2, <1>3, <2>1
<1>6. Outputs(S) = SumFunction(f)
  BY <1>2 DEF Outputs
<1>7. Outputs(R) \in Nat
  <2>1. [row \in R |-> row.output] \in [R -> Nat]
    OBVIOUS
  <2>. QED
    BY <2>1, SumSplit DEF Outputs
<1>8. SumFunction([y \in S \ {new} |-> f[y]]) = Outputs(R)
  BY <1>5 DEF Outputs
<1>. QED
  BY <1>1, <1>3, <1>4, <1>5, <1>6, <1>7, <1>8

(* or with one replaced that had no output yet.                            *)
LEMMA OutputsReplaced ==
  ASSUME NEW R, IsFiniteSet(R), \A row \in R : row.output \in Nat,
         NEW old \in R, old.output = 0, NEW new, new \notin R \ {old}, new.output \in Nat
  PROVE  /\ IsFiniteSet((R \ {old}) \cup {new})
         /\ Outputs((R \ {old}) \cup {new}) = new.output + Outputs(R)
<1>1. PICK Q : Q = R \ {old}
  OBVIOUS
<1>2. IsFiniteSet(Q) /\ (\A row \in Q : row.output \in Nat) /\ R = Q \cup {old} /\ old \notin Q
  BY <1>1, FS_RemoveElement
<1>3. Outputs(R) = old.output + Outputs(Q) /\ Outputs(Q) \in Nat
  BY <1>2, OutputsOfMore
<1>4. IsFiniteSet(Q \cup {new}) /\ Outputs(Q \cup {new}) = new.output + Outputs(Q)
  BY <1>1, <1>2, OutputsOfMore
<1>. QED
  BY <1>1, <1>3, <1>4

(* The outputs of the rows are numbers.                                    *)
LEMMA OutputsAreNat ==
  ASSUME HandlersInv, MetricsInv
  PROVE  \A row \in metrics : row.output \in Usages \cup {0} /\ row.output \in Nat
<1>1. ASSUME NEW row \in metrics PROVE row.output \in Usages \cup {0}
  <2>1. row.id \in Clients /\ row = RowOf(row.id)
    BY DEF MetricsInv
  <2>2. row.output = handler[row.id].output
    BY <2>1 DEF RowOf, Row
  <2>. QED
    BY <2>1, <2>2, HandlerFacts
<1>2. Usages \cup {0} \subseteq Nat
  BY ProxyAssumption
<1>. QED
  BY <1>1, <1>2

(* The first step of a request touches no row.                             *)
LEMMA AcceptHasNoRow ==
  ASSUME HandlersInv, NEW c \in Clients, Accept(c), mode' = mode
  PROVE  /\ handler[c].phase = "idle"
         /\ metrics' = metrics /\ usage' = usage /\ managed' = managed /\ completed' = completed
         /\ \E n : /\ handler' = [handler EXCEPT ![c] = n]
                   /\ n.phase \in {"sent", "running", "ended"}
                   /\ n.answer \notin {"upstream", "cut"}
<1>1. PICK r \in Requests[c] : \/ Refuse(c, r) \/ Forward(c, r) \/ StartManaged(c, r)
                               \/ Status(c, r) \/ OptimizeCommand(c, r)
  BY DEF Accept
<1>2. handler[c].phase = "idle"
  BY DEF Accept
<1>3. UNCHANGED <<metrics, usage, managed, completed>>
  BY <1>1 DEF Refuse, Forward, StartManaged, Status, OptimizeCommand, tables
<1>4. ASSUME NEW h, h \in {[Idle EXCEPT !.request = r],
                           [Idle EXCEPT !.request = r, !.result = OptimizeNative(mode, r.body)],
                           [[Idle EXCEPT !.request = r] EXCEPT
                               !.result = Optimize(mode, r.canonical)]},
             NEW a, a \in {"refused", "failed", "run", "not found", "optimized"}
      PROVE  Ended(h, a).phase = "ended" /\ Ended(h, a).answer \notin {"upstream", "cut"}
  BY <1>4 DEF Ended, Idle
<1>5. CASE Refuse(c, r)
  BY <1>2, <1>3, <1>4, <1>5 DEF Refuse
<1>6. CASE Forward(c, r)
  <2>1. PICK result : result = OptimizeNative(mode, r.body)
    OBVIOUS
  <2>2. PICK n : n = [[Idle EXCEPT !.request = r, !.result = result] EXCEPT
                        !.phase = "sent", !.sent = result.body, !.stream = StreamRequested(r)]
    OBVIOUS
  <2>3. n.phase = "sent" /\ n.answer = Nothing
    BY <2>2 DEF Idle
  <2>4. n.answer \notin {"upstream", "cut"}
    BY <2>3, AnswersApart
  <2>5. \/ handler' = [handler EXCEPT ![c] =
                         Ended([Idle EXCEPT !.request = r, !.result = result], "failed")]
        \/ handler' = [handler EXCEPT ![c] = n]
    BY <1>6, <2>1, <2>2 DEF Forward
  <2>6. CASE handler' = [handler EXCEPT ![c] =
                           Ended([Idle EXCEPT !.request = r, !.result = result], "failed")]
    BY <1>2, <1>3, <1>4, <2>1, <2>6
  <2>7. CASE handler' = [handler EXCEPT ![c] = n]
    BY <1>2, <1>3, <2>3, <2>4, <2>7
  <2>. QED
    BY <2>5, <2>6, <2>7
<1>7. CASE StartManaged(c, r)
  <2>1. PICK n : n = [Idle EXCEPT !.request = r, !.phase = "running"]
    OBVIOUS
  <2>2. n.phase = "running" /\ n.answer = Nothing
    BY <2>1 DEF Idle
  <2>3. handler' = [handler EXCEPT ![c] = n]
    BY <1>7, <2>1 DEF StartManaged
  <2>4. n.answer \notin {"upstream", "cut"}
    BY <2>2, AnswersApart
  <2>. QED
    BY <1>2, <1>3, <2>2, <2>3, <2>4
<1>8. CASE Status(c, r)
  <2>1. PICK a : a = IF Contains(completed, r.run) THEN "run" ELSE "not found"
    OBVIOUS
  <2>2. handler' = [handler EXCEPT ![c] = Ended([Idle EXCEPT !.request = r], a)]
    BY <1>8, <2>1 DEF Status
  <2>3. a \in {"refused", "failed", "run", "not found", "optimized"}
    BY <2>1
  <2>. QED
    BY <1>2, <1>3, <1>4, <2>2, <2>3
<1>9. CASE OptimizeCommand(c, r)
  <2>1. \/ handler' = [handler EXCEPT ![c] = Ended([Idle EXCEPT !.request = r], "failed")]
        \/ handler' = [handler EXCEPT ![c] =
             Ended([[Idle EXCEPT !.request = r] EXCEPT !.result = Optimize(mode, r.canonical)],
                   "optimized")]
        \/ handler' = [handler EXCEPT ![c] =
             Ended([[Idle EXCEPT !.request = r] EXCEPT !.result = Optimize(mode, r.canonical)],
                   "failed")]
    <3>1. PICK result : result = Optimize(mode, r.canonical)
      OBVIOUS
    <3>2. \/ handler' = [handler EXCEPT ![c] = Ended([Idle EXCEPT !.request = r], "failed")]
          \/ \E a \in {"optimized", "failed"} :
               handler' = [handler EXCEPT ![c] =
                             Ended([[Idle EXCEPT !.request = r] EXCEPT !.result = result], a)]
      BY <1>9, <3>1 DEF OptimizeCommand
    <3>. QED
      BY <3>1, <3>2
  <2>. QED
    BY <1>2, <1>3, <1>4, <2>1
<1>. QED
  BY <1>1, <1>5, <1>6, <1>7, <1>8, <1>9

(* A sequence over a set is one over a larger set.                         *)
LEMMA WiderSequence ==
  ASSUME NEW S, NEW T, S \subseteq T, NEW s \in Seq(S)
  PROVE  s \in Seq(T)
<1>1. Len(s) \in Nat /\ s \in [1 .. Len(s) -> S]
  OBVIOUS
<1>2. s \in [1 .. Len(s) -> T]
  BY <1>1
<1>. QED
  BY <1>1, <1>2

(* The sums stay where neither table changes.                              *)
LEMMA SameSums ==
  ASSUME SumsInv, metrics' = metrics, usage' = usage
  PROVE  SumsInv'
BY DEF SumsInv

(* record_request adds a row without output.                               *)
LEMMA RecordedRequest ==
  ASSUME HandlersInv, MetricsInv, SumsInv, NEW c \in Clients, RecordRequest(c), mode' = mode
  PROVE  MetricsInv' /\ SumsInv'
<1>1. PICK h : h = handler[c]
  OBVIOUS
<1>2. /\ h \in [phase : Phases, request : Requests[c] \cup {Nothing}, result : {h.result},
                sent : {h.sent}, stream : BOOLEAN, open : BOOLEAN,
                output : Usages \cup {0}, answer : Answers]
      /\ handler = [x \in Clients |-> handler[x]]
  BY <1>1, HandlerFacts DEF HandlerInv, IsHandler, Handlers
<1>3. h.phase = "sent" /\ usage' = usage
  BY <1>1 DEF RecordRequest
<1>4. CASE /\ handler' = [handler EXCEPT ![c] =
                            Ended([@ EXCEPT !.open = handler[c].stream], "failed")]
           /\ metrics' = metrics
  <2>1. PICK n : n = Ended([h EXCEPT !.open = h.stream], "failed")
    OBVIOUS
  <2>2. n.phase = "ended" /\ n.answer = "failed"
    BY <1>2, <2>1 DEF Ended
  <2>3. handler' = [handler EXCEPT ![c] = n]
    BY <1>1, <1>4, <2>1
  <2>4. MetricsInv'
    BY <1>1, <1>3, <1>4, <2>2, <2>3, NoRowYet DEF HasRow
  <2>. QED
    BY <1>3, <1>4, <2>4, SameSums
<1>5. CASE /\ handler' = [handler EXCEPT ![c].phase = IF handler[c].stream THEN "streaming"
                                                                          ELSE "reading",
                                         ![c].open = handler[c].stream]
           /\ metrics' = metrics \cup {Row(c, handler[c].result)}
  <2>1. PICK phase : phase = IF h.stream THEN "streaming" ELSE "reading"
    OBVIOUS
  <2>2. PICK n : n = [[h EXCEPT !.phase = phase] EXCEPT !.open = h.stream]
    OBVIOUS
  <2>3. handler' = [handler EXCEPT ![c] = n]
    BY <1>1, <1>2, <1>5, <2>1, <2>2
  <2>4. /\ n.phase \in {"streaming", "reading"} /\ n.request = h.request /\ n.result = h.result
        /\ n.sent = h.sent /\ n.output = h.output
    BY <1>2, <2>1, <2>2
  <2>5. PICK new : new = Row(c, handler[c].result)
    OBVIOUS
  <2>6. MetricsInv' /\ new \notin metrics /\ new.output = 0
    BY <1>1, <1>3, <1>5, <2>3, <2>4, <2>5, RowAdded
  <2>7. metrics' = metrics \cup {new}
    BY <1>5, <2>5
  <2>8. \A row \in metrics : row.output \in Nat
    BY OutputsAreNat
  <2>9. IsFiniteSet(metrics) /\ SumFunction(usage) = Outputs(metrics)
    BY DEF SumsInv, Outputs
  <2>10. IsFiniteSet(metrics') /\ Outputs(metrics') = 0 + Outputs(metrics) /\ Outputs(metrics) \in Nat
    <3>1. PICK R : R = metrics
      OBVIOUS
    <3>2. IsFiniteSet(R \cup {new}) /\ Outputs(R \cup {new}) = new.output + Outputs(R) /\ Outputs(R) \in Nat
      BY <2>6, <2>8, <2>9, <3>1, OutputsOfMore
    <3>. QED
      BY <2>6, <2>7, <3>1, <3>2
  <2>11. SumFunction(usage') = Outputs(metrics')
    BY <1>3, <2>9, <2>10
  <2>12. SumsInv'
    BY <1>3, <2>10, <2>11 DEF SumsInv, Outputs
  <2>. QED
    BY <2>6, <2>12
<1>. QED
  BY <1>4, <1>5 DEF RecordRequest

(* _record_usage adds the same output to both tables.                      *)
LEMMA Replied ==
  ASSUME HandlersInv, MetricsInv, SumsInv, NEW c \in Clients, Reply(c), mode' = mode
  PROVE  MetricsInv' /\ SumsInv'
<1>1. PICK h : h = handler[c]
  OBVIOUS
<1>2. /\ h \in [phase : Phases, request : Requests[c] \cup {Nothing}, result : {h.result},
                sent : {h.sent}, stream : BOOLEAN, open : BOOLEAN,
                output : Usages \cup {0}, answer : Answers]
      /\ handler = [x \in Clients |-> handler[x]]
  BY <1>1, HandlerFacts DEF HandlerInv, IsHandler, Handlers
<1>3. h.phase = "reading"
  BY <1>1 DEF Reply
<1>4. h.output = 0
  BY <1>1, <1>3, HandlerFacts DEF HandlerInv, Live
<1>5. CASE handler' = [handler EXCEPT ![c] = Ended(@, "failed")] /\ metrics' = metrics /\ usage' = usage
  <2>1. PICK n : n = Ended(h, "failed")
    OBVIOUS
  <2>2. /\ n.phase = "ended" /\ n.request = h.request /\ n.result = h.result
        /\ n.sent = h.sent /\ n.output = h.output
    BY <1>2, <2>1 DEF Ended
  <2>3. handler' = [handler EXCEPT ![c] = n]
    BY <1>1, <1>5, <2>1
  <2>4. MetricsInv'
    BY <1>1, <1>3, <1>5, <2>2, <2>3, RowKept DEF HasRow
  <2>. QED
    BY <1>5, <2>4, SameSums
<1>6. ASSUME NEW tokens \in Usages,
             handler' = [handler EXCEPT ![c] = Ended([@ EXCEPT !.output = tokens], "upstream")],
             usage' = IF tokens = 0 THEN usage ELSE Append(usage, tokens),
             metrics' = IF tokens = 0 THEN metrics ELSE WithOutput(c, tokens)
      PROVE  MetricsInv' /\ SumsInv'
  <2>1. PICK n : n = Ended([h EXCEPT !.output = tokens], "upstream")
    OBVIOUS
  <2>2. /\ n.phase = "ended" /\ n.request = h.request /\ n.result = h.result
        /\ n.sent = h.sent /\ n.output = tokens
    BY <1>2, <2>1 DEF Ended
  <2>3. handler' = [handler EXCEPT ![c] = n]
    BY <1>1, <1>6, <2>1
  <2>4. CASE tokens = 0
    <3>1. metrics' = metrics /\ usage' = usage /\ n.output = h.output
      BY <1>4, <1>6, <2>2, <2>4
    <3>2. MetricsInv'
      BY <1>1, <1>3, <2>2, <2>3, <3>1, RowKept DEF HasRow
    <3>. QED
      BY <3>1, <3>2, SameSums
  <2>5. CASE tokens # 0
    <3>1. metrics' = WithOutput(c, n.output)
      BY <1>6, <2>2, <2>5
    <3>2. /\ MetricsInv'
          /\ \E old \in metrics : /\ old.output = 0
                                  /\ RowOf(c)' \notin metrics \ {old}
                                  /\ RowOf(c)'.output = n.output
                                  /\ metrics' = (metrics \ {old}) \cup {RowOf(c)'}
      BY <1>1, <1>3, <2>2, <2>3, <3>1, RowReplaced
    <3>3. PICK R, new : R = metrics /\ new = RowOf(c)'
      OBVIOUS
    <3>4. PICK old \in R : old.output = 0 /\ new \notin R \ {old} /\ new.output = tokens
                           /\ metrics' = (R \ {old}) \cup {new}
      BY <2>2, <3>2, <3>3
    <3>5. tokens \in Nat /\ usage \in Seq(Nat) /\ usage \in Seq(Usages)
      <4>1. Usages \subseteq Nat
        BY ProxyAssumption
      <4>2. usage \in Seq(Usages)
        BY DEF SumsInv
      <4>. QED
        BY <4>1, <4>2, WiderSequence
    <3>6. IsFiniteSet(R) /\ SumFunction(usage) = Outputs(R) /\ \A row \in R : row.output \in Nat
      BY <3>3, OutputsAreNat DEF SumsInv, Outputs
    <3>7. IsFiniteSet(metrics') /\ Outputs(metrics') = tokens + Outputs(R)
      BY <3>4, <3>5, <3>6, OutputsReplaced
    <3>8. SumFunction(Append(usage, tokens)) = SumFunction(usage) + tokens /\ SumFunction(usage) \in Nat
      BY <3>5, SumAppended
    <3>9. usage' = Append(usage, tokens)
      BY <1>6, <2>5
    <3>10. SumFunction(usage') = Outputs(metrics')
      BY <3>5, <3>6, <3>7, <3>8, <3>9
    <3>11. usage' \in Seq(Usages)
      BY <3>5, <3>9
    <3>12. SumsInv'
      BY <3>7, <3>10, <3>11 DEF SumsInv, Outputs
    <3>. QED
      BY <3>2, <3>12
  <2>. QED
    BY <2>4, <2>5
<1>. QED
  BY <1>5, <1>6 DEF Reply

(* Every step keeps the rows and the sums.                                 *)
LEMMA MetricsStep ==
  ASSUME HandlersInv, MetricsInv, SumsInv, [Next]_vars
  PROVE  MetricsInv' /\ SumsInv'
<1>1. CASE Restart
  <2>1. metrics' = metrics /\ usage' = usage /\ mode' = mode
    BY <1>1 DEF Restart
  <2>2. \A c \in Clients : RowOf(c)' = RowOf(c) /\ (Forwarded(c) => Forwarded(c)')
    BY <1>1, <2>1, RestartKeeps DEF RowOf, Row, Forwarded
  <2>3. \A c \in Clients : handler[c].phase # "idle" => handler'[c].phase = "ended"
    BY <1>1, RestartKeeps
  <2>4. ASSUME NEW c \in Clients,
               handler'[c].phase \in {"streaming", "reading"} \/ handler'[c].answer \in {"upstream", "cut"}
        PROVE  handler[c].answer \in {"upstream", "cut"}
    <3>1. /\ handler'[c].phase \in {"idle", "ended"}
          /\ handler'[c].answer = handler[c].answer \/ handler'[c].answer = "lost"
      BY <1>1, RestartKeeps
    <3>. QED
      BY <2>4, <3>1
  <2>5. MetricsInv'
    BY <2>1, <2>2, <2>3, <2>4 DEF MetricsInv
  <2>. QED
    BY <2>1, <2>5, SameSums
<1>2. ASSUME NEW c \in Clients, Serve(c) PROVE MetricsInv' /\ SumsInv'
  <2>1. mode' = mode
    BY <1>2 DEF Serve
  <2>2. CASE Accept(c)
    <3>1. PICK n : /\ handler' = [handler EXCEPT ![c] = n]
                   /\ n.phase \in {"sent", "running", "ended"}
                   /\ n.answer \notin {"upstream", "cut"}
      BY <2>1, <2>2, AcceptHasNoRow
    <3>2. handler[c].phase = "idle" /\ metrics' = metrics /\ usage' = usage
      BY <2>1, <2>2, AcceptHasNoRow
    <3>3. MetricsInv'
      BY <2>1, <3>1, <3>2, NoRowYet DEF HasRow
    <3>. QED
      BY <3>2, <3>3, SameSums
  <2>3. CASE RecordRequest(c)
    BY <2>1, <2>3, RecordedRequest
  <2>4. CASE Reply(c)
    BY <2>1, <2>4, Replied
  <2>5. CASE UpstreamFails(c) \/ EndStream(c) \/ EndManaged(c)
    <3>1. PICK h : h = handler[c]
      OBVIOUS
    <3>2. /\ h \in [phase : Phases, request : Requests[c] \cup {Nothing}, result : {h.result},
                    sent : {h.sent}, stream : BOOLEAN, open : BOOLEAN,
                    output : Usages \cup {0}, answer : Answers]
          /\ handler = [x \in Clients |-> handler[x]]
      BY <3>1, HandlerFacts DEF HandlerInv, IsHandler, Handlers
    <3>3. metrics' = metrics /\ usage' = usage
      BY <2>5 DEF UpstreamFails, EndStream, EndManaged, tables
    <3>4. ASSUME NEW a \in {"timed out", "unreachable", "refused", "failed", "run"},
                 h.phase \in {"sent", "running"},
                 handler' = [handler EXCEPT ![c] = Ended(@, a)]
          PROVE  MetricsInv'
      <4>1. PICK n : n = Ended(h, a)
        OBVIOUS
      <4>2. n.phase = "ended" /\ n.answer = a
        BY <3>2, <4>1 DEF Ended
      <4>3. handler' = [handler EXCEPT ![c] = n]
        BY <3>1, <3>4, <4>1
      <4>. QED
        BY <2>1, <3>1, <3>3, <3>4, <4>2, <4>3, NoRowYet DEF HasRow
    <3>5. CASE UpstreamFails(c) \/ EndManaged(c)
      <4>1. \E a \in {"timed out", "unreachable", "refused", "failed", "run"} :
              handler' = [handler EXCEPT ![c] = Ended(@, a)]
        BY <3>5 DEF UpstreamFails, EndManaged
      <4>2. h.phase \in {"sent", "running"}
        BY <3>1, <3>5 DEF UpstreamFails, EndManaged
      <4>. QED
        BY <3>3, <3>4, <4>1, <4>2, SameSums
    <3>7. CASE EndStream(c)
      <4>1. PICK a \in {"upstream", "cut"} :
              handler' = [handler EXCEPT ![c] = Ended([@ EXCEPT !.open = FALSE], a)]
        BY <3>7 DEF EndStream
      <4>2. PICK n : n = Ended([h EXCEPT !.open = FALSE], a)
        OBVIOUS
      <4>3. h.phase = "streaming" /\ handler' = [handler EXCEPT ![c] = n]
        BY <3>1, <3>7, <4>1, <4>2 DEF EndStream
      <4>4. /\ n.phase = "ended" /\ n.request = h.request /\ n.result = h.result
            /\ n.sent = h.sent /\ n.output = h.output
        BY <3>2, <4>2 DEF Ended
      <4>5. MetricsInv'
        BY <2>1, <3>1, <3>3, <4>3, <4>4, RowKept DEF HasRow
      <4>. QED
        BY <3>3, <4>5, SameSums
    <3>. QED
      BY <2>5, <3>5, <3>7
  <2>. QED
    BY <1>2, <2>2, <2>3, <2>4, <2>5 DEF Serve, Continue
<1>3. CASE UNCHANGED vars
  BY <1>3 DEF vars, MetricsInv, SumsInv, RowOf, Row, Forwarded
<1>. QED
  BY <1>1, <1>2, <1>3 DEF Next

-----------------------------------------------------------------------------
(* The command's runs.                                                     *)

(* The rows and results of a step that is not the command's, or elsewhere. *)
LEMMA RunsElsewhere ==
  ASSUME HandlersInv, RunsInv, NEW c \in Clients, NEW n,
         handler' = [handler EXCEPT ![c] = n], mode' = mode, persist' = persist,
         evidence \subseteq evidence', runs \subseteq runs', handler[c].phase # "ended"
  PROVE  /\ handler'[c] = n
         /\ \A row \in runs :
              /\ row.id \in Clients
              /\ handler'[row.id].phase = "ended"
              /\ Commanded(row.id)'
              /\ row = RunRow(row.id, handler'[row.id].request.canonical, handler'[row.id].result)
         /\ \A d \in CommandResults' \ {c} :
              /\ \E row \in runs' : row.id = d
              /\ Stores(persist', handler'[d].request.canonical) \subseteq evidence'
<1>1. handler'[c] = n /\ \A d \in Clients \ {c} : handler'[d] = handler[d]
  BY DEF HandlersInv
<1>2. ASSUME NEW row \in runs
      PROVE  /\ row.id \in Clients
             /\ handler'[row.id].phase = "ended"
             /\ Commanded(row.id)'
             /\ row = RunRow(row.id, handler'[row.id].request.canonical, handler'[row.id].result)
  <2>1. /\ row.id \in Clients /\ handler[row.id].phase = "ended" /\ Commanded(row.id)
        /\ row = RunRow(row.id, handler[row.id].request.canonical, handler[row.id].result)
    BY DEF RunsInv
  <2>2. handler'[row.id] = handler[row.id]
    BY <1>1, <2>1
  <2>. QED
    BY <2>1, <2>2 DEF Commanded
<1>3. ASSUME NEW d \in CommandResults' \ {c}
      PROVE  /\ \E row \in runs' : row.id = d
             /\ Stores(persist', handler'[d].request.canonical) \subseteq evidence'
  <2>1. d \in CommandResults /\ handler'[d] = handler[d]
    BY <1>1 DEF CommandResults
  <2>. QED
    BY <2>1 DEF RunsInv
<1>. QED
  BY <1>1, <1>2, <1>3

(* A step that is not the command's leaves its runs as they were.          *)
LEMMA SameRuns ==
  ASSUME HandlersInv, RunsInv, NEW c \in Clients, NEW n,
         handler' = [handler EXCEPT ![c] = n], mode' = mode, persist' = persist, runs' = runs,
         evidence \subseteq evidence', handler[c].phase # "ended", n.answer # "optimized"
  PROVE  RunsInv'
<1>1. c \notin CommandResults'
  BY RunsElsewhere DEF CommandResults
<1>. QED
  BY <1>1, RunsElsewhere DEF RunsInv

(* The command adds the row of its result, also when it fails afterwards.  *)
LEMMA RunAdded ==
  ASSUME HandlersInv, RunsInv, NEW c \in Clients, NEW n,
         handler' = [handler EXCEPT ![c] = n], mode' = mode, persist' = persist,
         handler[c].phase # "ended", n.phase = "ended", Commanded(c)',
         runs' = runs \cup {RunRow(c, n.request.canonical, n.result)},
         evidence' = evidence \cup Stores(persist, n.request.canonical)
  PROVE  RunsInv'
<1>1. PICK new : new = RunRow(c, n.request.canonical, n.result)
  OBVIOUS
<1>2. new.id = c /\ runs' = runs \cup {new}
  BY <1>1 DEF RunRow
<1>3. handler'[c] = n
  BY RunsElsewhere
<1>4. /\ new.id \in Clients /\ handler'[new.id].phase = "ended" /\ Commanded(new.id)'
      /\ new = RunRow(new.id, handler'[new.id].request.canonical, handler'[new.id].result)
  BY <1>1, <1>2, <1>3
<1>5. \A row \in runs : /\ row.id \in Clients /\ handler'[row.id].phase = "ended"
                         /\ Commanded(row.id)'
                         /\ row = RunRow(row.id, handler'[row.id].request.canonical,
                                         handler'[row.id].result)
  BY RunsElsewhere
<1>6. /\ \E row \in runs' : row.id = c
      /\ Stores(persist', handler'[c].request.canonical) \subseteq evidence'
  BY <1>2, <1>3
<1>7. \A d \in CommandResults' \ {c} :
        /\ \E row \in runs' : row.id = d
        /\ Stores(persist', handler'[d].request.canonical) \subseteq evidence'
  BY <1>2, RunsElsewhere
<1>. QED
  BY <1>2, <1>4, <1>5, <1>6, <1>7 DEF RunsInv

(* The first step of a request keeps the invariant of the runs.            *)
LEMMA AcceptRuns ==
  ASSUME HandlersInv, RunsInv, NEW c \in Clients, Accept(c), mode' = mode,
         persist' = persist, HandlersInv'
  PROVE  RunsInv'
<1>1. PICK r \in Requests[c] : \/ Refuse(c, r) \/ Forward(c, r) \/ StartManaged(c, r)
                               \/ Status(c, r) \/ OptimizeCommand(c, r)
  BY DEF Accept
<1>2. handler[c].phase # "ended"
  BY DEF Accept
<1>3. CASE Refuse(c, r) \/ Forward(c, r) \/ StartManaged(c, r) \/ Status(c, r)
  <2>1. runs' = runs /\ evidence \subseteq evidence'
    BY <1>3 DEF Refuse, Forward, StartManaged, Status, tables, PutSome
  <2>2. ASSUME NEW h, h \in {[Idle EXCEPT !.request = r],
                             [Idle EXCEPT !.request = r, !.result = OptimizeNative(mode, r.body)]},
               NEW a, a \in {"refused", "failed", "run", "not found"}
        PROVE  Ended(h, a).answer # "optimized"
    BY <2>2 DEF Ended, Idle
  <2>3. CASE Refuse(c, r)
    BY <1>2, <2>1, <2>2, <2>3, SameRuns DEF Refuse
  <2>4. CASE Forward(c, r)
    <3>1. PICK result : result = OptimizeNative(mode, r.body)
      OBVIOUS
    <3>2. PICK n : n = [[Idle EXCEPT !.request = r, !.result = result] EXCEPT
                          !.phase = "sent", !.sent = result.body, !.stream = StreamRequested(r)]
      OBVIOUS
    <3>3. n.answer # "optimized"
      BY <3>2, AnswersApart DEF Idle
    <3>4. PICK o : o = Ended([Idle EXCEPT !.request = r, !.result = result], "failed")
      OBVIOUS
    <3>5. o.answer # "optimized"
      BY <2>2, <3>1, <3>4
    <3>6. handler' = [handler EXCEPT ![c] = o] \/ handler' = [handler EXCEPT ![c] = n]
      BY <2>4, <3>1, <3>2, <3>4 DEF Forward
    <3>. QED
      BY <1>2, <2>1, <3>3, <3>5, <3>6, SameRuns
  <2>5. CASE StartManaged(c, r)
    <3>1. PICK n : n = [Idle EXCEPT !.request = r, !.phase = "running"]
      OBVIOUS
    <3>2. n.answer # "optimized"
      BY <3>1, AnswersApart DEF Idle
    <3>3. handler' = [handler EXCEPT ![c] = n]
      BY <2>5, <3>1 DEF StartManaged
    <3>. QED
      BY <1>2, <2>1, <3>2, <3>3, SameRuns
  <2>6. CASE Status(c, r)
    <3>1. PICK a : a = IF Contains(completed, r.run) THEN "run" ELSE "not found"
      OBVIOUS
    <3>2. handler' = [handler EXCEPT ![c] = Ended([Idle EXCEPT !.request = r], a)]
      BY <2>6, <3>1 DEF Status
    <3>3. Ended([Idle EXCEPT !.request = r], a).answer # "optimized"
      BY <2>2, <3>1
    <3>. QED
      BY <1>2, <2>1, <3>2, <3>3, SameRuns
  <2>. QED
    BY <1>3, <2>3, <2>4, <2>5, <2>6
<1>4. CASE OptimizeCommand(c, r)
  <2>1. PICK result, stored : result = Optimize(mode, r.canonical) /\ stored = Stores(persist, r.canonical)
    OBVIOUS
  <2>2. CASE /\ handler' = [handler EXCEPT ![c] = Ended([Idle EXCEPT !.request = r], "failed")]
             /\ runs' = runs
             /\ evidence \subseteq evidence'
    <3>1. PICK o : o = Ended([Idle EXCEPT !.request = r], "failed")
      OBVIOUS
    <3>2. o.answer # "optimized"
      BY <3>1 DEF Ended, Idle
    <3>. QED
      BY <1>2, <2>2, <3>1, <3>2, SameRuns
  <2>3. ASSUME NEW a \in {"optimized", "failed"},
               handler' = [handler EXCEPT ![c] =
                             Ended([[Idle EXCEPT !.request = r] EXCEPT !.result = result], a)],
               evidence' = evidence \cup stored,
               runs' = runs \cup {RunRow(c, r.canonical, result)}
        PROVE  RunsInv'
    <3>1. PICK n : n = Ended([[Idle EXCEPT !.request = r] EXCEPT !.result = result], a)
      OBVIOUS
    <3>2. n.phase = "ended" /\ n.request = r /\ n.result = result
      BY <3>1 DEF Ended, Idle
    <3>3. r.kind = "canonical"
      BY <1>4 DEF OptimizeCommand
    <3>4. Commanded(c)'
      BY <2>1, <2>3, <3>3, HandlerOptimized
    <3>. QED
      BY <1>2, <2>1, <2>3, <3>1, <3>2, <3>4, RunAdded
  <2>. QED
    BY <1>4, <2>1, <2>2, <2>3 DEF OptimizeCommand, PutSome
<1>. QED
  BY <1>1, <1>3, <1>4

(* Every step keeps the invariant of the runs.                             *)
LEMMA RunsStep ==
  ASSUME HandlersInv, RunsInv, [Next]_vars
  PROVE  RunsInv'
<1>1. CASE Restart
  <2>1. runs' = runs /\ evidence' = evidence /\ mode' = mode /\ persist' = persist
    BY <1>1 DEF Restart
  <2>2. CommandResults' \subseteq CommandResults
    <3>1. ASSUME NEW c \in Clients, handler'[c].answer = "optimized"
          PROVE  handler[c].answer = "optimized"
      BY <1>1, <3>1, RestartKeeps
    <3>. QED
      BY <3>1 DEF CommandResults
  <2>3. \A c \in Clients : /\ handler'[c].request = handler[c].request
                           /\ handler'[c].result = handler[c].result
    BY <1>1, RestartKeeps
  <2>4. ASSUME NEW row \in runs
        PROVE  /\ row.id \in Clients
               /\ handler'[row.id].phase = "ended"
               /\ Commanded(row.id)'
               /\ row = RunRow(row.id, handler'[row.id].request.canonical,
                                handler'[row.id].result)
    <3>1. /\ row.id \in Clients /\ handler[row.id].phase = "ended" /\ Commanded(row.id)
          /\ row = RunRow(row.id, handler[row.id].request.canonical, handler[row.id].result)
      BY DEF RunsInv
    <3>2. handler'[row.id].phase = "ended"
      BY <1>1, <3>1, RestartKeeps
    <3>. QED
      BY <2>1, <2>3, <3>1, <3>2 DEF Commanded
  <2>5. ASSUME NEW c \in CommandResults'
        PROVE  /\ \E row \in runs : row.id = c
               /\ Stores(persist, handler'[c].request.canonical) \subseteq evidence
    <3>1. c \in CommandResults /\ c \in Clients
      BY <2>2 DEF CommandResults
    <3>. QED
      BY <2>3, <3>1 DEF RunsInv
  <2>. QED
    BY <2>1, <2>4, <2>5 DEF RunsInv
<1>2. ASSUME NEW c \in Clients, Serve(c) PROVE RunsInv'
  <2>1. mode' = mode /\ persist' = persist
    BY <1>2 DEF Serve
  <2>2. CASE Accept(c)
    BY <2>1, <2>2, AcceptHandlers, AcceptRuns
  <2>3. CASE Continue(c)
    <3>1. PICK phase \in Phases, open \in BOOLEAN, output \in Usages \cup {0}, a \in Answers :
            /\ handler' = [handler EXCEPT ![c] = Advanced(handler[c], phase, open, output, a)]
            /\ a # Nothing => a # "optimized"
      BY <2>3, ContinueAdvances
    <3>2. handler[c].phase # "ended"
      BY <2>3, ContinueAdvances
    <3>3. PICK n : n = Advanced(handler[c], phase, open, output, a)
      OBVIOUS
    <3>4. n.answer # "optimized"
      BY <3>1, <3>3, AnswersApart DEF Advanced
    <3>5. runs' = runs /\ evidence' = evidence
      BY <2>3 DEF Continue, UpstreamFails, RecordRequest, EndStream, Reply, EndManaged, tables
    <3>. QED
      BY <2>1, <3>1, <3>2, <3>3, <3>4, <3>5, SameRuns
  <2>. QED
    BY <1>2, <2>2, <2>3 DEF Serve
<1>3. CASE UNCHANGED vars
  BY <1>3 DEF vars, RunsInv, CommandResults, Commanded
<1>. QED
  BY <1>1, <1>2, <1>3 DEF Next

-----------------------------------------------------------------------------
(* The runs that are kept.                                                 *)

From(n, m) == 1 + (IF n > m + KeptRuns THEN n - KeptRuns ELSE m)

(* A run that ends is kept, and the oldest dropped beyond the limit.       *)
LEMMA RunKept ==
  ASSUME KeptInv, NEW c \in Clients, managed' = Append(managed, c),
         completed' = Keep(Append(completed, c)), recorded' = recorded, restarts' = restarts
  PROVE  KeptInv'
<1>1. PICK m, t, o, n : m = managed /\ t = Append(m, c) /\ o = recorded /\ n = Len(m)
  OBVIOUS
<1>2. /\ m \in Seq(Clients) /\ n \in Nat /\ o \in Nat /\ o <= n /\ KeptRuns \in Nat /\ KeptRuns >= 1
      /\ completed = SubSeq(m, From(n, o), n)
  <2>1. KeptRuns \in Nat \ {0}
    BY ProxyAssumption
  <2>. QED
    BY <1>1, <2>1 DEF KeptInv, KeptAreLatest, From
<1>3. t \in Seq(Clients) /\ Len(t) = n + 1 /\ t[n + 1] = c /\ \A i \in 1 .. n : t[i] = m[i]
  BY <1>1, <1>2
<1>4. PICK a : a = From(n, o)
  OBVIOUS
<1>5. a \in Nat /\ a >= 1 /\ a <= n + 1
  BY <1>2, <1>4 DEF From
<1>6. PICK u : u = SubSeq(t, a, n + 1)
  OBVIOUS
<1>7. Append(completed, c) = u
  <2>1. PICK s : s = SubSeq(m, a, n)
    OBVIOUS
  <2>2. s \in Seq(Clients)
    <3>1. ASSUME NEW i \in a .. n PROVE m[i] \in Clients
      <4>1. i \in 1 .. Len(m)
        BY <1>1, <1>2, <1>5
      <4>. QED
        BY <1>2, <4>1, ElementOfSeq
    <3>2. a \in Int /\ n \in Int
      BY <1>2, <1>5
    <3>. QED
      BY <2>1, <3>1, <3>2, SubSeqProperties
  <2>3. u = SubSeq(t, a, n) \o <<c>>
    <3>1. a \in 1 .. Len(t) /\ n + 1 \in a .. Len(t) /\ (n + 1) - 1 = n
      BY <1>2, <1>3, <1>5
    <3>2. SubSeq(t, a, n + 1) = SubSeq(t, a, (n + 1) - 1) \o <<t[n + 1]>>
      BY <1>3, <3>1, SubSeqRecursiveSecond
    <3>. QED
      BY <1>3, <1>6, <3>1, <3>2
  <2>4. SubSeq(t, a, n) = s
    <3>1. CASE a = n + 1
      <4>1. a \in Int /\ n \in Int /\ n < a
        BY <1>2, <3>1
      <4>. QED
        BY <2>1, <4>1, SubSeqEmpty
    <3>2. CASE a # n + 1
      <4>1. a \in 1 .. Len(m) /\ n \in 1 .. Len(m) /\ <<c>> \in Seq(Clients)
        BY <1>1, <1>2, <1>5, <3>2
      <4>2. t = m \o <<c>>
        BY <1>1, <1>2, AppendIsConcat
      <4>. QED
        BY <1>2, <2>1, <4>1, <4>2, SubSeqOfConcat1
    <3>. QED
      BY <3>1, <3>2
  <2>5. Append(s, c) = s \o <<c>>
    BY <2>2, AppendIsConcat
  <2>. QED
    BY <1>2, <1>4, <2>1, <2>3, <2>4, <2>5
<1>8. Len(u) = n - a + 2 /\ u \in Seq(Clients)
  BY <1>2, <1>3, <1>5, <1>6
<1>9. Keep(u) = SubSeq(t, From(n + 1, o), n + 1)
  <2>1. CASE Len(u) > KeptRuns
    <3>1. a + 1 = From(n + 1, o) /\ a <= n + 1 /\ Len(u) >= 1
      BY <1>2, <1>4, <1>5, <1>8, <2>1 DEF From
    <3>2. Tail(u) = SubSeq(t, a + 1, n + 1)
      <4>1. a \in 1 .. Len(t) /\ n + 1 \in a .. Len(t)
        BY <1>2, <1>3, <1>5
      <4>. QED
        BY <1>3, <1>6, <4>1, HeadTailOfSubSeq
    <3>. QED
      BY <2>1, <3>1, <3>2 DEF Keep
  <2>2. CASE ~(Len(u) > KeptRuns)
    <3>1. a = From(n + 1, o)
      BY <1>2, <1>4, <1>5, <1>8, <2>2 DEF From
    <3>. QED
      BY <1>6, <2>2, <3>1 DEF Keep
  <2>. QED
    BY <2>1, <2>2
<1>10. completed' = SubSeq(t, From(Len(t), o), Len(t))
  BY <1>3, <1>7, <1>9
<1>11. managed' = t /\ recorded' = o /\ o \in 0 .. Len(t)
  BY <1>1, <1>2, <1>3
<1>12. KeptAreLatest'
  BY <1>10, <1>11 DEF KeptAreLatest, From
<1>. QED
  BY <1>3, <1>11, <1>12 DEF KeptInv

(* Every step keeps the completed runs the latest.                         *)
LEMMA KeptStep ==
  ASSUME HandlersInv, KeptInv, [Next]_vars
  PROVE  KeptInv'
<1>1. CASE Restart
  <2>1. /\ managed' = managed /\ completed' = <<>> /\ recorded' = Len(managed)
        /\ restarts < MaxRestarts /\ restarts' = restarts + 1
    BY <1>1 DEF Restart
  <2>2. managed \in Seq(Clients) /\ Len(managed) \in Nat /\ restarts \in 0 .. MaxRestarts
    BY DEF KeptInv
  <2>3. KeptRuns \in Nat /\ MaxRestarts \in Nat
    BY ProxyAssumption
  <2>4. SubSeq(managed, 1 + Len(managed), Len(managed)) = <<>>
    BY <2>2
  <2>5. ~(Len(managed) > Len(managed) + KeptRuns)
    BY <2>2, <2>3
  <2>6. KeptAreLatest'
    BY <2>1, <2>4, <2>5 DEF KeptAreLatest
  <2>. QED
    BY <2>1, <2>2, <2>3, <2>6 DEF KeptInv
<1>2. ASSUME NEW c \in Clients, Serve(c) PROVE KeptInv'
  <2>1. recorded' = recorded /\ restarts' = restarts
    BY <1>2 DEF Serve
  <2>2. CASE managed' = managed /\ completed' = completed
    BY <2>1, <2>2 DEF KeptInv, KeptAreLatest
  <2>3. CASE managed' = Append(managed, c) /\ completed' = Keep(Append(completed, c))
    BY <2>1, <2>3, RunKept
  <2>4. CASE Accept(c)
    <3>1. managed' = managed /\ completed' = completed
      BY <2>4 DEF Accept, Refuse, Forward, StartManaged, Status, OptimizeCommand, tables
    <3>. QED
      BY <2>2, <3>1
  <2>5. CASE Continue(c)
    <3>1. \/ managed' = managed /\ completed' = completed
          \/ managed' = Append(managed, c) /\ completed' = Keep(Append(completed, c))
      BY <2>5 DEF Continue, UpstreamFails, RecordRequest, EndStream, Reply, EndManaged,
                  WithRun, tables
    <3>. QED
      BY <2>2, <2>3, <3>1
  <2>. QED
    BY <1>2, <2>4, <2>5 DEF Serve
<1>3. CASE UNCHANGED vars
  BY <1>3 DEF vars, KeptInv, KeptAreLatest
<1>. QED
  BY <1>1, <1>2, <1>3 DEF Next

-----------------------------------------------------------------------------
(* The inductive invariant, and what it says of the properties.            *)

ProxyInv == HandlersInv /\ MetricsInv /\ SumsInv /\ RunsInv /\ KeptInv

(* The invariant holds at first.                                           *)
LEMMA ProxyInit ==
  ASSUME Init
  PROVE  ProxyInv
<1>1. /\ metrics = {} /\ runs = {} /\ usage = <<>> /\ managed = <<>> /\ completed = <<>>
      /\ recorded = 0 /\ restarts = 0
  BY DEF Init
<1>2. \A c \in Clients : handler[c].phase = "idle" /\ handler[c].answer = Nothing
  <2>1. \A c \in Clients : handler[c] = Idle
    BY DEF Init
  <2>. QED
    BY <2>1 DEF Idle
<1>3. HandlersInv
  BY InitHandlers
<1>4. MetricsInv
  BY <1>1, <1>2, AnswersApart DEF MetricsInv
<1>5. SumsInv
  <2>1. IsFiniteSet(metrics)
    BY <1>1, FS_EmptySet
  <2>2. SumFunction([row \in metrics |-> row.output]) = 0
    <3>1. [row \in metrics |-> row.output] \in [metrics -> Nat]
      BY <1>1
    <3>. QED
      BY <1>1, <2>1, <3>1, SumSplit
  <2>3. usage \in Seq(Usages) /\ SumFunction(usage) = 0
    <3>1. PICK u : u = usage
      OBVIOUS
    <3>2. u \in Seq(Usages) /\ u \in Seq(Nat) /\ Len(u) = 0
      BY <1>1, <3>1
    <3>3. u \in [1 .. Len(u) -> Nat]
      BY <3>2
    <3>4. IsFiniteSet(1 .. Len(u)) /\ 1 .. Len(u) = {}
      BY <3>2, FS_EmptySet
    <3>5. SumFunction(u) = 0
      BY <3>3, <3>4, SumSplit
    <3>. QED
      BY <3>1, <3>2, <3>5
  <2>. QED
    BY <2>1, <2>2, <2>3 DEF SumsInv
<1>6. RunsInv
  <2>1. CommandResults = {}
    BY <1>2, AnswersApart DEF CommandResults
  <2>2. persist \in BOOLEAN
    BY DEF Init
  <2>. QED
    BY <1>1, <2>1, <2>2 DEF RunsInv
<1>7. KeptInv
  <2>1. PICK s : s = managed
    OBVIOUS
  <2>2. s = <<>> /\ s \in Seq(Clients) /\ Len(s) = 0
    BY <1>1, <2>1
  <2>3. KeptRuns \in Nat /\ MaxRestarts \in Nat
    BY ProxyAssumption
  <2>4. SubSeq(s, 1, 0) = <<>>
    BY <2>2
  <2>5. KeptAreLatest
    BY <1>1, <2>1, <2>2, <2>3, <2>4 DEF KeptAreLatest
  <2>. QED
    BY <1>1, <2>1, <2>2, <2>3, <2>5 DEF KeptInv
<1>. QED
  BY <1>3, <1>4, <1>5, <1>6, <1>7 DEF ProxyInv

(* The rows, the sums, the runs and the completed runs each follow the     *)
(* handlers, in every interleaving of requests and restarts.               *)
THEOREM ProxyInvariant == Spec => []ProxyInv
<1>1. Init => ProxyInv
  BY ProxyInit
<1>2. ProxyInv /\ [Next]_vars => ProxyInv'
  BY HandlersStep, MetricsStep, RunsStep, KeptStep DEF ProxyInv
<1>. QED
  BY <1>1, <1>2, PTL DEF Spec

-----------------------------------------------------------------------------
(* The types follow from the invariant,                                    *)
LEMMA ProxyTyped == ProxyInv => TypeOK
<1>. SUFFICES ASSUME HandlersInv, MetricsInv, SumsInv, RunsInv, KeptInv PROVE TypeOK
  BY DEF ProxyInv
<1>1. mode \in Modes /\ persist \in BOOLEAN
  BY DEF HandlersInv, RunsInv
<1>2. \A row \in metrics : row.id \in Clients /\ row.output \in Usages \cup {0}
  BY OutputsAreNat DEF MetricsInv
<1>3. /\ usage \in Seq(Usages) /\ managed \in Seq(Clients)
      /\ recorded \in 0 .. Len(managed) /\ restarts \in 0 .. MaxRestarts
  BY DEF SumsInv, KeptInv
<1>4. completed \in Seq(Clients)
  <2>1. PICK m, n, o : m = managed /\ n = Len(m) /\ o = recorded
    OBVIOUS
  <2>2. /\ m \in Seq(Clients) /\ n \in Nat /\ o \in Nat /\ KeptRuns \in Nat /\ n = Len(m)
    BY <1>3, <2>1, ProxyAssumption
  <2>3. PICK a : a = From(n, o)
    OBVIOUS
  <2>4. a \in Nat /\ a >= 1
    BY <2>2, <2>3 DEF From
  <2>5. completed = SubSeq(m, a, n)
    BY <2>1, <2>3 DEF KeptInv, KeptAreLatest, From
  <2>6. ASSUME NEW i \in a .. n PROVE m[i] \in Clients
    <3>1. i \in 1 .. Len(m)
      BY <2>2, <2>4
    <3>. QED
      BY <2>2, <3>1, ElementOfSeq
  <2>7. a \in Int /\ n \in Int
    BY <2>2, <2>4
  <2>. QED
    BY <2>5, <2>6, <2>7, SubSeqProperties
<1>. QED
  BY <1>1, <1>2, <1>3, <1>4, HandlerFacts DEF TypeOK

(* The types, usage and the completed runs among them.                     *)
THEOREM ProxyTypes == Spec => []TypeOK
BY ProxyInvariant, ProxyTyped, PTL

(* An id a caller was given can be asked for until enough others have      *)
(* ended, or the application has died.                                     *)
THEOREM KeepsLatest == Spec => []KeptAreLatest
<1>1. ProxyInv => KeptAreLatest
  BY DEF ProxyInv, KeptInv
<1>. QED
  BY <1>1, ProxyInvariant, PTL

(* What a handler has forwarded is what optimize_native returned.          *)
LEMMA ForwardedWasSent ==
  ASSUME NEW c \in Clients, Forwarded(c)
  PROVE  Sent(handler[c].request.body, handler[c].result) /\ handler[c].sent = handler[c].result.body
<1>1. PICK r : r = handler[c].request
  OBVIOUS
<1>2. r \in Requests[c] /\ r.kind = "native"
  BY <1>1 DEF Forwarded
<1>3. IsBody(r.body)
  BY <1>2, ProxyAssumption
<1>. QED
  BY <1>1, <1>3, NativeIsSent DEF Forwarded

(* a body that was sent is one that optimize_native returned,              *)
LEMMA Equivalent == ProxyInv => ForwardedIsEquivalent
<1>1. ASSUME HandlersInv, NEW c \in Clients, handler[c].sent # Nothing
      PROVE  \/ handler[c].sent = handler[c].request.body
             \/ /\ handler[c].request.body.form = "object"
                /\ BodySize(handler[c].sent) < BodySize(handler[c].request.body)
                /\ handler[c].sent.messages = handler[c].request.body.messages
                /\ SameTools(handler[c].request.body, handler[c].sent)
  <2>1. HandlerInv(c)
    BY <1>1 DEF HandlersInv
  <2>2. Forwarded(c)
    BY <1>1, <2>1 DEF HandlerInv
  <2>3. PICK body, r : body = handler[c].request.body /\ r = handler[c].result
    OBVIOUS
  <2>4. Sent(body, r) /\ handler[c].sent = r.body
    BY <2>2, <2>3, ForwardedWasSent
  <2>. QED
    BY <2>3, <2>4 DEF Sent
<1>. QED
  BY <1>1 DEF ProxyInv, ForwardedIsEquivalent

(* Whatever is forwarded is the body as it came, or a smaller one with the *)
(* same messages and the first of every group of equal tools.              *)
THEOREM ForwardsEquivalent == Spec => []ForwardedIsEquivalent
BY ProxyInvariant, Equivalent, PTL

(* the rows say of it what it was,                                         *)
LEMMA RowsTell == ProxyInv => RowsTellWhatWasSent
<1>. SUFFICES ASSUME HandlersInv, MetricsInv, SumsInv, RunsInv PROVE RowsTellWhatWasSent
  BY DEF ProxyInv
<1>1. \A c \in Clients : handler[c].answer \in {"upstream", "cut"} => \E row \in metrics : row.id = c
  BY DEF MetricsInv
<1>2. ASSUME NEW row \in metrics
      PROVE  /\ row.effective = BodySize(handler[row.id].sent)
             /\ row.effective <= row.original
             /\ row.fallback = (handler[row.id].sent = handler[row.id].request.body)
             /\ row.output = handler[row.id].output
  <2>1. PICK c, r, body : c = row.id /\ r = handler[c].result /\ body = handler[c].request.body
    OBVIOUS
  <2>2. c \in Clients /\ row = RowOf(c) /\ Forwarded(c)
    BY <2>1 DEF MetricsInv
  <2>3. Sent(body, r) /\ handler[c].sent = r.body
    BY <2>1, <2>2, ForwardedWasSent
  <2>4. row = [id |-> c, original |-> r.original, effective |-> r.effective,
               fallback |-> r.status # "optimized", output |-> handler[c].output]
    BY <2>1, <2>2 DEF RowOf, Row
  <2>5. /\ row.original = r.original /\ row.effective = r.effective
        /\ row.fallback = (r.status # "optimized") /\ row.output = handler[c].output
    BY <2>4
  <2>6. row.fallback = (r.body = body)
    BY <2>3, <2>5 DEF Sent
  <2>. QED
    BY <2>1, <2>3, <2>5, <2>6 DEF Sent
<1>3. ASSUME NEW row \in runs
      PROVE  row.optimized = Total(handler[row.id].result.request.blocks)
                               + Total(handler[row.id].result.request.tools)
  BY DEF RunsInv, RunRow
<1>4. /\ SumFunction(usage) = SumFunction([row \in metrics |-> row.output])
      /\ CommandResults \subseteq {row.id : row \in runs}
  BY DEF SumsInv, RunsInv
<1>. QED
  BY <1>1, <1>2, <1>3, <1>4 DEF RowsTellWhatWasSent

(* Whatever the interleaving, the metrics agree with what was sent and     *)
(* with the usage that was reported.                                       *)
THEOREM RowsTellTheTruth == Spec => []RowsTellWhatWasSent
BY ProxyInvariant, RowsTell, PTL

(* and whatever the command left out is among what it put.                 *)
LEMMA Recoverable == ProxyInv => OmittedIsRecoverable
<1>. SUFFICES ASSUME HandlersInv, RunsInv, NEW c \in CommandResults
              PROVE  LET request == handler[c].request.canonical
                         omitted == Omitted(request, handler[c].result.request)
                     IN  /\ \A b \in omitted :
                              /\ \A x \in Representatives(request.blocks, Key(b))
                                          \cup Representatives(request.tools, Key(b)) :
                                   Omissible(request, x)
                              /\ persist => b.content \in Secrets
                                              \/ <<"exact", b.content>> \in evidence
                         /\ persist /\ ContentsOf(request) \cap Secrets = {}
                              => <<"request", request>> \in evidence
  BY DEF ProxyInv, OmittedIsRecoverable
<1>1. PICK r, request : r = handler[c].request /\ request = r.canonical
  OBVIOUS
<1>2. c \in Clients /\ handler[c].answer = "optimized"
  BY DEF CommandResults
<1>3. Commanded(c)
  BY <1>2 DEF HandlersInv, HandlerInv
<1>4. r \in Requests[c] /\ r.kind = "canonical" /\ handler[c].result = Optimize(mode, request)
  BY <1>1, <1>3 DEF Commanded
<1>5. IsRequest(request)
  BY <1>1, <1>2, <1>4, ProxyAssumption
<1>6. Stores(persist, request) \subseteq evidence
  BY <1>1 DEF RunsInv
<1>7. ASSUME NEW b \in Omitted(request, Optimize(mode, request).request)
      PROVE  /\ \A x \in Representatives(request.blocks, Key(b))
                         \cup Representatives(request.tools, Key(b)) : Omissible(request, x)
             /\ persist => b.content \in Secrets \/ <<"exact", b.content>> \in evidence
  <2>1. /\ b \in Parts(request)
        /\ \A k \in Parts(Optimize(mode, request).request) : Key(k) # Key(b)
    BY DEF Omitted
  <2>2. /\ \A x \in Representatives(request.blocks, Key(b)) : ExcludesBlock(mode, x)
        /\ \A x \in Representatives(request.tools, Key(b)) :
             ExcludesTool(mode, x) /\ x \in ToSet(request.tools)
        /\ Persisted(persist, b.content) \in Stores(persist, request)
    BY <1>5, <2>1, LeftOut
  <2>3. ASSUME NEW x \in Representatives(request.blocks, Key(b)) PROVE Omissible(request, x)
    BY <2>2 DEF ExcludesBlock, ProvenOmission, Omissible
  <2>4. ASSUME NEW x \in Representatives(request.tools, Key(b)) PROVE Omissible(request, x)
    BY <2>2 DEF ExcludesTool, Omissible
  <2>5. persist /\ b.content \notin Secrets => Persisted(persist, b.content) = <<"exact", b.content>>
    BY DEF Persisted
  <2>. QED
    BY <1>6, <2>2, <2>3, <2>4, <2>5
<1>8. persist /\ ContentsOf(request) \cap Secrets = {} => <<"request", request>> \in evidence
  BY <1>6 DEF Stores, StoredRequest
<1>. QED
  BY <1>1, <1>4, <1>7, <1>8

(* What a context leaves out, the caller had flagged, and where contents   *)
(* are persisted it can be read back unless redaction changed it.          *)
THEOREM OmitsRecoverably == Spec => []OmittedIsRecoverable
BY ProxyInvariant, Recoverable, PTL

=============================================================================
