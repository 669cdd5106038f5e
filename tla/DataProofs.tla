----------------------------- MODULE DataProofs -----------------------------
(***************************************************************************)
(* Facts about data that the proofs of the other modules cite: the totals  *)
(* of Totals, induction over the natural numbers, sequences as sets of     *)
(* their elements, the selections of Selections and left folds.            *)
(*                                                                         *)
(* Induction is stated for a set instead of a predicate: the least number  *)
(* theorem of WellFoundedInduction is about sets, and a theorem about sets *)
(* can be cited like any other.                                            *)
(***************************************************************************)
EXTENDS Totals, Selections, FiniteSetTheorems, SequenceTheorems, WellFoundedInduction, TLAPS

-----------------------------------------------------------------------------
(* Totals.                                                                 *)

\* The units of one element.
LEMMA OneUnits ==
  ASSUME NEW x, NEW n \in Nat
  PROVE  IsFiniteSet({x} \X (1 .. n)) /\ Cardinality({x} \X (1 .. n)) = n
<1>1. IsFiniteSet(1 .. n) /\ Cardinality(1 .. n) = n
  BY FS_Interval
<1>2. IsFiniteSet({x}) /\ Cardinality({x}) = 1
  BY FS_Singleton
<1>3. Cardinality({x} \X (1 .. n)) = Cardinality({x}) * Cardinality(1 .. n)
  BY <1>1, <1>2, FS_Product
<1> QED  BY <1>1, <1>2, <1>3, FS_Product

\* A total over a finite set is a natural number.
LEMMA TotalNat ==
  ASSUME NEW S, IsFiniteSet(S), NEW f, \A x \in S : f[x] \in Nat
  PROVE  IsFiniteSet(Units(S, f)) /\ Total(S, f) \in Nat
<1> DEFINE U == {{x} \X (1 .. f[x]) : x \in S}
<1>1. IsFiniteSet(U)
  <2> DEFINE F == [x \in S |-> {x} \X (1 .. f[x])]
  <2>1. F \in [S -> U] /\ \A T \in U : \E x \in S : F[x] = T
    OBVIOUS
  <2>2. F \in Surjection(S, U)
    BY <2>1 DEF Surjection
  <2> HIDE DEF F, U
  <2> QED  BY <2>2, FS_Surjection
<1>2. \A T \in U : IsFiniteSet(T)
  <2>1. ASSUME NEW x \in S PROVE IsFiniteSet({x} \X (1 .. f[x]))
    BY OneUnits
  <2> QED  BY <2>1
<1>3. IsFiniteSet(UNION U)
  BY <1>1, <1>2, FS_UNION
<1> QED  BY <1>3, FS_CardinalityType DEF Units, Total

\* Functions that agree on S have the same total over S.
LEMMA TotalSame ==
  ASSUME NEW S, NEW f, NEW g, \A x \in S : f[x] = g[x]
  PROVE  Total(S, f) = Total(S, g)
<1>1. {{x} \X (1 .. f[x]) : x \in S} = {{x} \X (1 .. g[x]) : x \in S}
  OBVIOUS
<1> QED  BY <1>1 DEF Total, Units

\* Taking one element out of a total.
LEMMA TotalSplit ==
  ASSUME NEW S, IsFiniteSet(S), NEW f, \A x \in S : f[x] \in Nat, NEW y \in S
  PROVE  Total(S, f) = Total(S \ {y}, f) + f[y]
<1> DEFINE A == Units(S \ {y}, f)
           B == {y} \X (1 .. f[y])
<1>1. IsFiniteSet(S \ {y})
  BY FS_RemoveElement
<1>2. IsFiniteSet(A) /\ Cardinality(A) \in Nat
  BY <1>1, TotalNat DEF Total
<1>3. IsFiniteSet(B) /\ Cardinality(B) = f[y]
  BY OneUnits
<1>4. A \cap B = {}
  BY DEF Units
<1>5. Units(S, f) = A \cup B
  BY DEF Units
<1>6. Cardinality(A \cup B) = Cardinality(A) + Cardinality(B) - Cardinality(A \cap B)
  BY <1>2, <1>3, FS_Union
<1>7. Cardinality(A \cap B) = 0
  BY <1>4, FS_EmptySet
<1> QED  BY <1>2, <1>3, <1>5, <1>6, <1>7 DEF Total

\* Changing the amount of one element of S changes the total by the
\* difference.
LEMMA TotalUpdate ==
  ASSUME NEW S, IsFiniteSet(S),
         NEW f, \A x \in S : f[x] \in Nat,
         NEW g, \A x \in S : g[x] \in Nat,
         NEW y \in S, \A x \in S \ {y} : g[x] = f[x]
  PROVE  Total(S, g) = Total(S, f) - f[y] + g[y]
<1>1. Total(S, f) = Total(S \ {y}, f) + f[y]
  BY TotalSplit
<1>2. Total(S, g) = Total(S \ {y}, g) + g[y]
  BY TotalSplit
<1>3. Total(S \ {y}, f) = Total(S \ {y}, g)
  BY TotalSame
<1>4. IsFiniteSet(S \ {y})
  BY FS_RemoveElement
<1>5. Total(S \ {y}, f) \in Nat
  BY <1>4, TotalNat
<1> QED  BY <1>1, <1>2, <1>3, <1>5

\* No element exceeds the total.
LEMMA TotalBound ==
  ASSUME NEW S, IsFiniteSet(S), NEW f, \A x \in S : f[x] \in Nat, NEW y \in S
  PROVE  f[y] <= Total(S, f)
<1>1. Total(S, f) = Total(S \ {y}, f) + f[y]
  BY TotalSplit
<1>2. IsFiniteSet(S \ {y})
  BY FS_RemoveElement
<1>3. Total(S \ {y}, f) \in Nat
  BY <1>2, TotalNat
<1> QED  BY <1>1, <1>3

\* All amounts zero: the total is zero.
LEMMA TotalZero ==
  ASSUME NEW S, NEW f, \A x \in S : f[x] = 0
  PROVE  Total(S, f) = 0
<1>1. Units(S, f) = {}
  BY DEF Units
<1> QED  BY <1>1, FS_EmptySet DEF Total

\* Amounts of at most k each.
LEMMA TotalAtMost ==
  ASSUME NEW S, IsFiniteSet(S), NEW f, NEW k \in Nat, \A x \in S : f[x] \in Nat /\ f[x] <= k
  PROVE  Total(S, f) <= Cardinality(S) * k
<1>1. IsFiniteSet(1 .. k) /\ Cardinality(1 .. k) = k
  BY FS_Interval
<1>2. IsFiniteSet(S \X (1 .. k)) /\ Cardinality(S \X (1 .. k)) = Cardinality(S) * k
  BY <1>1, FS_Product
<1>3. Units(S, f) \subseteq S \X (1 .. k)
  BY DEF Units
<1> QED  BY <1>2, <1>3, FS_Subset DEF Total

-----------------------------------------------------------------------------
(* Induction, and the recursion of a left fold.                           *)

\* A set of natural numbers that is not empty has a least element.
LEMMA NatLeast ==
  ASSUME NEW T, T \subseteq Nat, T # {}
  PROVE  \E x \in T : \A y \in T : x <= y
<1> DEFINE R == OpToRel(<, Nat)
<1>1. \A x, y \in Nat : <<y, x>> \in R <=> y < x
  BY DEF OpToRel
<1>2. IsWellFoundedOn(R, Nat)
  BY NatLessThanWellFounded
<1> HIDE DEF R
<1>3. PICK x \in T : \A y \in T : ~ (<<y, x>> \in R)
  BY <1>2, WFMin
<1>4. \A y \in T : ~ (y < x)
  BY <1>1, <1>3
<1> QED  BY <1>4

\* Induction over the natural numbers: a set that holds 0 and with every
\* number its successor holds them all.
LEMMA NatInduct ==
  ASSUME NEW S, 0 \in S, \A n \in Nat : n \in S => n + 1 \in S
  PROVE  Nat \subseteq S
<1> SUFFICES ASSUME Nat \ S # {} PROVE FALSE
  OBVIOUS
<1>1. PICK x \in Nat \ S : \A y \in Nat \ S : x <= y
  BY NatLeast
<1>2. x - 1 \in Nat
  BY <1>1
<1>3. x - 1 \in S
  BY <1>2, <1>1
<1> QED  BY <1>1, <1>2, <1>3

\* The greatest element of a set that lies below n.
LEMMA MaxBelow ==
  ASSUME NEW n \in Nat, NEW S, S \subseteq 1 .. n, S # {}
  PROVE  Max(S) \in S /\ \A y \in S : Max(S) >= y
<1> DEFINE T == {k \in Nat : n - k \in S}
<1>1. \E z \in S : z \in 1 .. n
  OBVIOUS
<1>2. \E k \in T : \A y \in T : k <= y
  <2>1. PICK z \in S : z \in 1 .. n
    BY <1>1
  <2>2. n - z \in T
    BY <2>1
  <2> QED  BY <2>2, NatLeast
<1>3. PICK k \in T : \A y \in T : k <= y
  BY <1>2
<1>4. \A y \in S : n - y \in T
  OBVIOUS
<1>5. ASSUME NEW y \in S PROVE n - k >= y
  <2>1. n - y \in T /\ y \in 1 .. n
    BY <1>4
  <2>2. k <= n - y /\ k \in Nat
    BY <1>3, <2>1
  <2> QED  BY <2>1, <2>2
<1> QED  BY <1>3, <1>5 DEF Max

\* The greatest element when it is known.
LEMMA MaxIs ==
  ASSUME NEW S, S \subseteq Nat, NEW x \in S, \A y \in S : x >= y
  PROVE  Max(S) = x
<1>1. PICK z \in S : \A y \in S : z >= y
  OBVIOUS
<1>2. \A w \in S : (\A y \in S : w >= y) => w = x
  OBVIOUS
<1>3. Max(S) \in S /\ \A y \in S : Max(S) >= y
  BY <1>1 DEF Max
<1> QED  BY <1>2, <1>3

\* The recursion a left fold is made of has a solution: it is defined on the
\* sets of positions and takes the greatest position last.
FoldOver(it, D, base, step) ==
    it = [S \in SUBSET D |-> IF S = {} THEN base
                             ELSE step[<<Max(S), it[S \ {Max(S)}]>>]]

LEMMA FoldExists ==
  ASSUME NEW T, NEW base \in T, NEW n \in Nat, NEW step \in [(1 .. n) \X T -> T]
  PROVE  \E it \in [SUBSET (1 .. n) -> T] : FoldOver(it, 1 .. n, base, step)
<1> DEFINE G(m) == m <= n => \E it \in [SUBSET (1 .. m) -> T] : FoldOver(it, 1 .. m, base, step)
<1>1. G(0)
  <2> DEFINE it == [S \in SUBSET (1 .. 0) |-> base]
  <2>1. 1 .. 0 = {}
    OBVIOUS
  <2>2. it \in [SUBSET (1 .. 0) -> T]
    OBVIOUS
  <2>3. FoldOver(it, 1 .. 0, base, step)
    BY <2>1 DEF FoldOver
  <2> QED  BY <2>2, <2>3
<1>2. ASSUME NEW m \in Nat, G(m) PROVE G(m + 1)
  <2> SUFFICES ASSUME m + 1 <= n
               PROVE  \E it \in [SUBSET (1 .. m + 1) -> T] : FoldOver(it, 1 .. m + 1, base, step)
    OBVIOUS
  <2>1. PICK f \in [SUBSET (1 .. m) -> T] : FoldOver(f, 1 .. m, base, step)
    <3>1. m <= n
      OBVIOUS
    <3> QED  BY <1>2, <3>1
  <2> DEFINE g == [S \in SUBSET (1 .. m + 1) |->
                      IF m + 1 \in S THEN step[<<m + 1, f[S \ {m + 1}]>>] ELSE f[S]]
  <2>2. \A S \in SUBSET (1 .. m + 1) : m + 1 \in S => Max(S) = m + 1 /\ S \ {m + 1} \in SUBSET (1 .. m)
    <3> SUFFICES ASSUME NEW S \in SUBSET (1 .. m + 1), m + 1 \in S
                 PROVE  Max(S) = m + 1 /\ S \ {m + 1} \in SUBSET (1 .. m)
      OBVIOUS
    <3>1. S \subseteq Nat /\ \A y \in S : m + 1 >= y
      OBVIOUS
    <3>2. Max(S) = m + 1
      BY <3>1, MaxIs
    <3> QED  BY <3>2
  <2>3. \A S \in SUBSET (1 .. m + 1) : m + 1 \notin S => S \in SUBSET (1 .. m)
    OBVIOUS
  <2>4. g \in [SUBSET (1 .. m + 1) -> T]
    BY <2>2, <2>3
  <2>5. ASSUME NEW S \in SUBSET (1 .. m + 1)
        PROVE  g[S] = IF S = {} THEN base ELSE step[<<Max(S), g[S \ {Max(S)}]>>]
    <3>1. CASE m + 1 \in S
      <4>1. Max(S) = m + 1 /\ S \ {m + 1} \in SUBSET (1 .. m)
        BY <2>2, <3>1
      <4>2. g[S \ {m + 1}] = f[S \ {m + 1}]
        BY <4>1
      <4> QED  BY <3>1, <4>1, <4>2
    <3>2. CASE m + 1 \notin S
      <4>1. S \in SUBSET (1 .. m) /\ S \ {Max(S)} \in SUBSET (1 .. m)
        BY <2>3, <3>2
      <4>2. f[S] = IF S = {} THEN base ELSE step[<<Max(S), f[S \ {Max(S)}]>>]
        BY <2>1, <4>1 DEF FoldOver
      <4>3. g[S] = f[S] /\ g[S \ {Max(S)}] = f[S \ {Max(S)}]
        BY <3>2, <4>1
      <4> HIDE DEF g
      <4> QED  BY <4>2, <4>3
    <3> QED  BY <3>1, <3>2
  <2>6. FoldOver(g, 1 .. m + 1, base, step)
    <3>1. DOMAIN g = SUBSET (1 .. m + 1) /\ g = [S \in DOMAIN g |-> g[S]]
      OBVIOUS
    <3> HIDE DEF g
    <3> QED  BY <2>5, <3>1 DEF FoldOver
  <2> QED  BY <2>4, <2>6
<1> DEFINE H == {m \in Nat : G(m)}
<1>3. Nat \subseteq H
  <2> HIDE DEF G
  <2>1. 0 \in H /\ \A m \in Nat : m \in H => m + 1 \in H
    BY <1>1, <1>2
  <2> HIDE DEF H
  <2> QED  BY <2>1, NatInduct
<1>4. G(n)
  BY <1>3
<1>5. n <= n
  OBVIOUS
<1> QED  BY <1>4, <1>5

\* The positions up to k, and the last of them.
LEMMA UpTo ==
  ASSUME NEW n \in Nat, NEW k \in 1 .. n
  PROVE  /\ 1 .. k \in SUBSET (1 .. n) /\ 1 .. k # {} /\ Max(1 .. k) = k
         /\ (1 .. k) \ {k} = 1 .. (k - 1) /\ k - 1 \in 0 .. n /\ k \in 0 .. n
<1>1. k \in 1 .. k /\ 1 .. k \subseteq Nat /\ \A y \in 1 .. k : k >= y
  OBVIOUS
<1>2. Max(1 .. k) = k
  <2> DEFINE D == 1 .. k
  <2> HIDE DEF D
  <2> QED  BY <1>1, MaxIs DEF D
<1>3. 1 .. k \in SUBSET (1 .. n) /\ 1 .. k # {}
  BY <1>1
<1>4. (1 .. k) \ {k} = 1 .. (k - 1) /\ k - 1 \in 0 .. n /\ k \in 0 .. n
  OBVIOUS
<1> QED  BY <1>2, <1>3, <1>4

-----------------------------------------------------------------------------
(* Sequences as sets.                                                      *)

\* The set of a sequence: with one more element, ...
LEMMA AppendSet ==
  ASSUME NEW X, NEW s \in Seq(X), NEW x \in X
  PROVE  /\ Append(s, x) \in Seq(X) /\ ToSet(Append(s, x)) = ToSet(s) \cup {x}
         /\ IsInjective(s) /\ x \notin ToSet(s) => IsInjective(Append(s, x))
<1> DEFINE t == Append(s, x)
           n == Len(s)
<1>1. /\ n \in Nat /\ DOMAIN s = 1 .. n /\ t \in Seq(X) /\ DOMAIN t = 1 .. (n + 1)
      /\ t[n + 1] = x /\ \A k \in 1 .. n : t[k] = s[k]
  OBVIOUS
<1> HIDE DEF t, n
<1>2. \A k : k \in 1 .. (n + 1) <=> k \in 1 .. n \/ k = n + 1
  BY <1>1
<1>3. ToSet(t) = ToSet(s) \cup {x}
  BY <1>1, <1>2 DEF ToSet
<1>4. IsInjective(s) /\ x \notin ToSet(s) => IsInjective(t)
  BY <1>1, <1>2 DEF ToSet, IsInjective
<1> QED  BY <1>1, <1>3, <1>4 DEF t

\* ... without the first, ...
LEMMA TailSet ==
  ASSUME NEW X, NEW s \in Seq(X), s # <<>>
  PROVE  /\ Head(s) \in X /\ Tail(s) \in Seq(X)
         /\ ToSet(s) = ToSet(Tail(s)) \cup {Head(s)}
         /\ IsInjective(s) => IsInjective(Tail(s)) /\ Head(s) \notin ToSet(Tail(s))
<1> DEFINE t == Tail(s)
           n == Len(s)
<1>1. /\ n \in Nat \ {0} /\ DOMAIN s = 1 .. n /\ t \in Seq(X) /\ DOMAIN t = 1 .. (n - 1)
      /\ Head(s) = s[1] /\ s[1] \in X /\ \A k \in 1 .. n - 1 : t[k] = s[k + 1]
  OBVIOUS
<1> HIDE DEF t, n
<1>2. /\ 1 \in 1 .. n
      /\ \A k \in 1 .. n : k = 1 \/ (k - 1 \in 1 .. (n - 1) /\ (k - 1) + 1 = k)
      /\ \A k \in 1 .. (n - 1) : k + 1 \in 1 .. n /\ k + 1 # 1 /\ (k + 1) - 1 = k
      /\ \A j, k \in 1 .. (n - 1) : j + 1 = k + 1 => j = k
  BY <1>1
<1>3. ToSet(s) = ToSet(t) \cup {s[1]}
  <2>1. \A x \in ToSet(s) : x \in ToSet(t) \cup {s[1]}
    <3> SUFFICES ASSUME NEW k \in 1 .. n PROVE s[k] \in ToSet(t) \cup {s[1]}
      BY <1>1 DEF ToSet
    <3>1. CASE k - 1 \in 1 .. (n - 1) /\ (k - 1) + 1 = k
      <4>1. t[k - 1] = s[k]
        BY <1>1, <3>1
      <4> QED  BY <1>1, <3>1, <4>1 DEF ToSet
    <3> QED  BY <1>2, <3>1
  <2>2. \A x \in ToSet(t) \cup {s[1]} : x \in ToSet(s)
    BY <1>1, <1>2 DEF ToSet
  <2> QED  BY <2>1, <2>2
<1>4. ASSUME IsInjective(s) PROVE IsInjective(t) /\ s[1] \notin ToSet(t)
  <2>1. \A a, b \in 1 .. n : s[a] = s[b] => a = b
    BY <1>1, <1>4 DEF IsInjective
  <2>2. ASSUME NEW j \in 1 .. (n - 1), NEW k \in 1 .. (n - 1), t[j] = t[k] PROVE j = k
    <3>1. s[j + 1] = s[k + 1]
      BY <1>1, <2>2
    <3> QED  BY <1>2, <2>1, <3>1
  <2>3. ASSUME NEW k \in 1 .. (n - 1) PROVE t[k] # s[1]
    <3>1. t[k] = s[k + 1]
      BY <1>1
    <3> QED  BY <1>2, <2>1, <3>1
  <2> QED  BY <1>1, <2>2, <2>3 DEF ToSet, IsInjective
<1> QED  BY <1>1, <1>3, <1>4 DEF t

\* ... and of one sequence after another.
LEMMA ConcatSet ==
  ASSUME NEW X, NEW s \in Seq(X), NEW t \in Seq(X)
  PROVE  /\ s \o t \in Seq(X) /\ ToSet(s \o t) = ToSet(s) \cup ToSet(t)
         /\ IsInjective(s) /\ IsInjective(t) /\ ToSet(s) \cap ToSet(t) = {} => IsInjective(s \o t)
<1> DEFINE m == Len(s)
           n == Len(t)
           u == s \o t
<1>1. /\ m \in Nat /\ n \in Nat /\ DOMAIN s = 1 .. m /\ DOMAIN t = 1 .. n
      /\ u \in Seq(X) /\ DOMAIN u = 1 .. (m + n)
      /\ \A k \in 1 .. m : u[k] = s[k]
  OBVIOUS
<1>2. \A k \in 1 .. n : u[m + k] = t[k]
  OBVIOUS
<1> HIDE DEF u, m, n
<1>3. /\ \A k \in 1 .. m : k \in 1 .. (m + n)
      /\ \A k \in 1 .. n : m + k \in 1 .. (m + n) /\ m + k \notin 1 .. m
      /\ \A k \in 1 .. (m + n) : k \in 1 .. m \/ \E j \in 1 .. n : k = m + j
  <2>1. \A k \in 1 .. (m + n) : k \in 1 .. m \/ (k - m \in 1 .. n /\ k = m + (k - m))
    BY <1>1
  <2> QED  BY <1>1, <2>1
<1>4. ToSet(u) = ToSet(s) \cup ToSet(t)
  <2>1. \A x \in ToSet(u) : x \in ToSet(s) \cup ToSet(t)
    <3> SUFFICES ASSUME NEW k \in 1 .. (m + n) PROVE u[k] \in ToSet(s) \cup ToSet(t)
      BY <1>1 DEF ToSet
    <3>1. CASE k \in 1 .. m
      BY <1>1, <3>1 DEF ToSet
    <3>2. CASE \E j \in 1 .. n : k = m + j
      BY <1>1, <1>2, <3>2 DEF ToSet
    <3> QED  BY <1>3, <3>1, <3>2
  <2>2. \A x \in ToSet(s) : x \in ToSet(u)
    BY <1>1, <1>3 DEF ToSet
  <2>3. \A x \in ToSet(t) : x \in ToSet(u)
    BY <1>1, <1>2, <1>3 DEF ToSet
  <2> QED  BY <2>1, <2>2, <2>3
<1>5. ASSUME IsInjective(s), IsInjective(t), ToSet(s) \cap ToSet(t) = {}
      PROVE  IsInjective(u)
  <2> SUFFICES ASSUME NEW i \in 1 .. (m + n), NEW j \in 1 .. (m + n), u[i] = u[j]
               PROVE  i = j
    BY <1>1 DEF IsInjective
  <2>1. CASE i \in 1 .. m /\ j \in 1 .. m
    BY <1>1, <1>5, <2>1 DEF IsInjective
  <2>2. CASE i \in 1 .. m /\ \E b \in 1 .. n : j = m + b
    BY <1>1, <1>2, <1>5, <2>2 DEF ToSet
  <2>3. CASE j \in 1 .. m /\ \E b \in 1 .. n : i = m + b
    BY <1>1, <1>2, <1>5, <2>3 DEF ToSet
  <2>4. CASE (\E c \in 1 .. n : i = m + c) /\ (\E b \in 1 .. n : j = m + b)
    <3>1. PICK c \in 1 .. n, b \in 1 .. n : i = m + c /\ j = m + b
      BY <2>4
    <3>2. t[c] = t[b]
      BY <1>2, <3>1
    <3> QED  BY <1>1, <1>5, <3>1, <3>2 DEF IsInjective
  <2> QED  BY <1>3, <2>1, <2>2, <2>3, <2>4
<1> QED  BY <1>1, <1>4, <1>5 DEF u

\* The set of a sequence is finite, and as large as the sequence is long when
\* nothing occurs twice.
LEMMA InjectiveCard ==
  ASSUME NEW X, NEW s \in Seq(X)
  PROVE  /\ IsFiniteSet(ToSet(s)) /\ ToSet(s) \subseteq X
         /\ IsInjective(s) => Cardinality(ToSet(s)) = Len(s)
<1> DEFINE n == Len(s)
<1>1. n \in Nat /\ DOMAIN s = 1 .. n /\ \A k \in 1 .. n : s[k] \in X
  OBVIOUS
<1>2. s \in [1 .. n -> ToSet(s)] /\ \A x \in ToSet(s) : \E k \in 1 .. n : s[k] = x
  BY <1>1 DEF ToSet
<1> HIDE DEF n
<1>3. IsFiniteSet(1 .. n) /\ Cardinality(1 .. n) = n
  BY <1>1, FS_Interval
<1>4. s \in Surjection(1 .. n, ToSet(s))
  BY <1>2 DEF Surjection
<1>5. IsFiniteSet(ToSet(s))
  BY <1>3, <1>4, FS_Surjection
<1>6. IsInjective(s) => Cardinality(ToSet(s)) = n
  <2> SUFFICES ASSUME IsInjective(s) PROVE Cardinality(ToSet(s)) = n
    OBVIOUS
  <2>1. s \in Bijection(1 .. n, ToSet(s))
    BY <1>1, <1>2, <1>4 DEF Bijection, Injection, IsInjective
  <2>2. ExistsBijection(1 .. n, ToSet(s))
    BY <2>1 DEF ExistsBijection
  <2> QED  BY <1>3, <2>2, FS_Bijection
<1> QED  BY <1>1, <1>5, <1>6 DEF ToSet, n

\* The elements of a finite set one after another.
LEMMA SetToSeqFacts ==
  ASSUME NEW S, IsFiniteSet(S)
  PROVE  SetToSeq(S) \in Seq(S) /\ ToSet(SetToSeq(S)) = S /\ IsInjective(SetToSeq(S))
<1> DEFINE n == Cardinality(S)
           D == 1 .. n
<1>1. n \in Nat /\ ExistsBijection(D, S)
  BY FS_CardinalityType
<1>2. PICK f \in [D -> S] : IsInjective(f) /\ \A x \in S : \E k \in D : f[k] = x
  BY <1>1 DEF ExistsBijection, Bijection, Injection, Surjection, IsInjective
<1> DEFINE q == SetToSeq(S)
<1>3. q \in [D -> S] /\ IsInjective(q)
  BY <1>2 DEF SetToSeq
<1> HIDE DEF q, n
<1>4. q \in Seq(S)
  BY <1>1, <1>3, IsASeq
<1>5. Len(q) = n /\ DOMAIN q = 1 .. n
  BY <1>1, <1>3, <1>4
<1>6. Cardinality(ToSet(q)) = Cardinality(S) /\ ToSet(q) \subseteq S
  BY <1>3, <1>4, <1>5, InjectiveCard DEF n
<1>7. ToSet(q) = S
  BY <1>6, FS_Subset
<1> QED  BY <1>3, <1>4, <1>7 DEF q

-----------------------------------------------------------------------------
(* Selections.                                                             *)

\* A selection is built element by element.
LEMMA OnlyPath ==
  ASSUME NEW X, NEW s \in Seq(X), NEW S
  PROVE  \E h : /\ h[0] = <<>>
                /\ \A k \in 1 .. Len(s) :
                      h[k] = IF s[k] \in S THEN Append(h[k - 1], s[k]) ELSE h[k - 1]
                /\ Only(s, S) = h[Len(s)]
<1> DEFINE n == Len(s)
           op(r, x) == IF x \in S THEN Append(r, x) ELSE r
           Solves(f) == f = [D \in SUBSET DOMAIN s |->
                               IF D = {} THEN <<>> ELSE op(f[D \ {Max(D)}], s[Max(D)])]
<1>0. n \in Nat /\ DOMAIN s = 1 .. n /\ \A k \in 1 .. n : s[k] \in X
  OBVIOUS
<1>1. \E f : Solves(f)
  <2> DEFINE step == [p \in (1 .. n) \X Seq(X) |-> op(p[2], s[p[1]])]
  <2>1. step \in [(1 .. n) \X Seq(X) -> Seq(X)]
    BY <1>0
  <2>2. PICK f \in [SUBSET (1 .. n) -> Seq(X)] : FoldOver(f, 1 .. n, <<>>, step)
    <3>1. <<>> \in Seq(X)
      OBVIOUS
    <3> HIDE DEF step, n
    <3> QED  BY <1>0, <2>1, <3>1, FoldExists
  <2>3. ASSUME NEW D \in SUBSET (1 .. n), D # {}
        PROVE  step[<<Max(D), f[D \ {Max(D)}]>>] = op(f[D \ {Max(D)}], s[Max(D)])
    <3>1. Max(D) \in 1 .. n
      BY <1>0, <2>3, MaxBelow
    <3>2. f[D \ {Max(D)}] \in Seq(X)
      BY <2>2
    <3> QED  BY <3>1, <3>2
  <2> HIDE DEF step, n, op
  <2>4. f = [D \in SUBSET (1 .. n) |->
               IF D = {} THEN <<>> ELSE op(f[D \ {Max(D)}], s[Max(D)])]
    BY <2>2, <2>3 DEF FoldOver
  <2> QED  BY <1>0, <2>4
<1> DEFINE f == CHOOSE f : Solves(f)
<1>2. Only(s, S) = f[DOMAIN s]
  BY DEF Only, FoldLeft, MapThenFoldSet
<1>3. Solves(f)
  <2> HIDE DEF Solves
  <2> QED  BY <1>1
<1> HIDE DEF f
<1> DEFINE h == [k \in 0 .. n |-> f[1 .. k]]
<1>4. h[0] = <<>>
  <2>1. 1 .. 0 = {} /\ {} \in SUBSET DOMAIN s
    OBVIOUS
  <2>2. f[{}] = <<>>
    BY <1>3, <2>1
  <2> QED  BY <1>0, <2>1, <2>2
<1>5. ASSUME NEW k \in 1 .. n PROVE h[k] = op(h[k - 1], s[k])
  <2>1. /\ 1 .. k \in SUBSET DOMAIN s /\ 1 .. k # {} /\ Max(1 .. k) = k
        /\ (1 .. k) \ {k} = 1 .. (k - 1) /\ k - 1 \in 0 .. n /\ k \in 0 .. n
    <3> HIDE DEF n
    <3> QED  BY <1>0, UpTo
  <2>2. f[1 .. k] = op(f[(1 .. k) \ {Max(1 .. k)}], s[Max(1 .. k)])
    <3> HIDE DEF op
    <3> QED  BY <1>3, <2>1
  <2> HIDE DEF op
  <2> QED  BY <2>1, <2>2
<1>6. Only(s, S) = h[n]
  BY <1>0, <1>2
<1> HIDE DEF h, f
<1>7. \A k \in 1 .. Len(s) : h[k] = IF s[k] \in S THEN Append(h[k - 1], s[k]) ELSE h[k - 1]
  BY <1>5
<1> QED  BY <1>4, <1>6, <1>7

\* A selection has the elements of s that are in S, and each as often.
LEMMA OnlyFacts ==
  ASSUME NEW X, NEW s \in Seq(X), NEW S
  PROVE  /\ Only(s, S) \in Seq(X) /\ ToSet(Only(s, S)) = ToSet(s) \cap S
         /\ IsInjective(s) => IsInjective(Only(s, S))
<1> DEFINE n == Len(s)
           Upto(k) == {s[i] : i \in 1 .. k}
<1>0. n \in Nat /\ DOMAIN s = 1 .. n /\ \A k \in 1 .. n : s[k] \in X
  OBVIOUS
<1>1. PICK h : /\ h[0] = <<>>
               /\ \A k \in 1 .. n : h[k] = IF s[k] \in S THEN Append(h[k - 1], s[k]) ELSE h[k - 1]
               /\ Only(s, S) = h[n]
  BY OnlyPath
<1> HIDE DEF n
<1> DEFINE Good(k) == /\ h[k] \in Seq(X) /\ ToSet(h[k]) = Upto(k) \cap S
                      /\ IsInjective(s) => IsInjective(h[k])
           H == {k \in Nat : k <= n => Good(k)}
<1>2. 0 \in H
  <2>1. <<>> \in Seq(X) /\ ToSet(<<>>) = {} /\ IsInjective(<<>>) /\ Upto(0) = {}
    BY DEF ToSet, IsInjective
  <2> QED  BY <1>1, <2>1
<1>3. ASSUME NEW k \in Nat, k \in H PROVE k + 1 \in H
  <2> SUFFICES ASSUME k + 1 <= n PROVE Good(k + 1)
    OBVIOUS
  <2> DEFINE x == s[k + 1]
  <2>1. k + 1 \in 1 .. n /\ (k + 1) - 1 = k /\ k <= n
    BY <1>0
  <2>2. Good(k)
    BY <1>3, <2>1
  <2>3. Upto(k + 1) = Upto(k) \cup {x} /\ x \in X
    BY <1>0, <2>1
  <2>4. IsInjective(s) => x \notin Upto(k)
    BY <1>0, <2>1 DEF IsInjective
  <2>5. h[k + 1] = IF x \in S THEN Append(h[k], x) ELSE h[k]
    BY <1>1, <2>1
  <2> HIDE DEF x, Upto
  <2>6. CASE x \in S
    BY <2>2, <2>3, <2>4, <2>5, <2>6, AppendSet
  <2>7. CASE x \notin S
    BY <2>2, <2>3, <2>5, <2>7
  <2> QED  BY <2>6, <2>7
<1>4. Good(n)
  <2>1. Nat \subseteq H
    <3> HIDE DEF H
    <3> QED  BY <1>2, <1>3, NatInduct
  <2> HIDE DEF Good
  <2> QED  BY <1>0, <2>1
<1>5. Upto(n) = ToSet(s)
  BY <1>0 DEF ToSet
<1> QED  BY <1>1, <1>4, <1>5

=============================================================================
