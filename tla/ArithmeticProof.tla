-------------------------- MODULE ArithmeticProof ---------------------------
(***************************************************************************)
(* Facts that the theorems on the daemon, the planner and the contest rest *)
(* on: division and rounding, sums over finite sets and over sequences,    *)
(* which the modules take with the folds of the community modules, and     *)
(* what a set becomes when it is written down in an order.                 *)
(*                                                                         *)
(* An induction is an argument about a least counterexample: a set of      *)
(* numbers that is not empty has a least member.                           *)
(***************************************************************************)
EXTENDS Integers, SequencesExt, FiniteSetTheorems, WellFoundedInduction, TLAPS

-----------------------------------------------------------------------------
(* Least members. *)

Smaller == {ss \in Nat \X Nat : ss[1] < ss[2]}

\* A set of natural numbers that is not empty has a least one.
LEMMA LeastOf ==
    ASSUME NEW T, T \subseteq Nat, T # {}
    PROVE  \E x \in T : \A y \in T : x <= y
<1>1. OpToRel(<, Nat) = Smaller
  BY Zenon DEF OpToRel, Smaller
<1>2. IsWellFoundedOn(Smaller, Nat)
  BY <1>1, NatLessThanWellFounded, Zenon
<1>3. PICK x \in T : \A y \in T : ~ (<<y, x>> \in Smaller)
  BY <1>2, WFMin, Zenon
<1>4. \A y \in T : <<y, x>> \in Smaller <=> y < x
  BY DEF Smaller
<1>5. \A y \in T : ~ (y < x)
  BY <1>3, <1>4, Zenon
<1>6. \A y \in T : x <= y
  BY <1>5
<1> QED
  BY <1>6

\* Of some subsets of a finite set, one is smallest.
LEMMA SmallestOf ==
    ASSUME NEW S, IsFiniteSet(S), NEW F, F \subseteq SUBSET S, F # {}
    PROVE  \E T \in F : \A U \in F : Cardinality(T) <= Cardinality(U)
<1> DEFINE sizes == {Cardinality(U) : U \in F}
<1>1. \A U \in F : Cardinality(U) \in Nat
  BY FS_Subset, FS_CardinalityType
<1>2. sizes \subseteq Nat /\ sizes # {}
  BY <1>1
<1>3. PICK n \in sizes : \A m \in sizes : n <= m
  BY <1>2, LeastOf
<1>4. QED
  BY <1>3

-----------------------------------------------------------------------------
(* Sums. *)

Chosen(S) == CHOOSE x \in S : TRUE

\* f summed over S; what the modules write out.
SumOn(f, S) == FoldFunctionOnSet(+, 0, f, S)

AddUp(f, g, s) == IF s = {} THEN 0 ELSE f[Chosen(s)] + g[s \ {Chosen(s)}]

\* g adds f up over every subset of S.
Adds(f, S, g) == g = [s \in SUBSET S |-> AddUp(f, g, s)]

\* The library's definition: the fold takes its function from CHOOSE.
LEMMA SumIsFold ==
    ASSUME NEW f, NEW S
    PROVE  SumOn(f, S) = (CHOOSE g : Adds(f, S, g))[S]
BY DEF SumOn, FoldFunctionOnSet, MapThenFoldSet, Adds, AddUp, Chosen

\* Taking the chosen element away makes a set smaller by one.
LEMMA WithoutChosen ==
    ASSUME NEW S, IsFiniteSet(S), S # {}
    PROVE  /\ Chosen(S) \in S /\ IsFiniteSet(S \ {Chosen(S)})
           /\ Cardinality(S \ {Chosen(S)}) = Cardinality(S) - 1
           /\ Cardinality(S) \in Nat \ {0}
<1>1. Chosen(S) \in S
  BY DEF Chosen
<1>2. Cardinality(S) \in Nat /\ Cardinality(S) # 0
  BY FS_CardinalityType, FS_EmptySet
<1>3. QED
  BY <1>1, <1>2, FS_RemoveElement

\* There is such a function: extend it from the subsets of up to n elements.
LEMMA AdderExists ==
    ASSUME NEW f, NEW S, IsFiniteSet(S)
    PROVE  \E g : Adds(f, S, g)
<1> DEFINE upTo(g, n) == \A s \in SUBSET S : Cardinality(s) <= n => g[s] = AddUp(f, g, s)
           open == {n \in Nat : ~ \E g : upTo(g, n)}
<1>1. \A s \in SUBSET S : IsFiniteSet(s) /\ Cardinality(s) \in Nat
  BY FS_Subset, FS_CardinalityType
<1>2. open = {}
  <2>1. SUFFICES ASSUME open # {} PROVE FALSE
    OBVIOUS
  <2>2. PICK n \in open : \A m \in open : n <= m
    BY <2>1, LeastOf
  <2>3. CASE n = 0
    <3> DEFINE g == [s \in SUBSET S |-> 0]
    <3>1. \A s \in SUBSET S : Cardinality(s) <= 0 => s = {}
      BY <1>1, FS_EmptySet
    <3>2. upTo(g, 0)
      BY <3>1 DEF AddUp
    <3>3. QED
      BY <2>2, <2>3, <3>2
  <2>4. CASE n # 0
    <3>1. n - 1 \in Nat /\ n - 1 \notin open
      BY <2>2, <2>4
    <3>2. PICK g : upTo(g, n - 1)
      BY <3>1
    <3> DEFINE h == [s \in SUBSET S |-> IF Cardinality(s) <= n - 1 THEN g[s] ELSE AddUp(f, g, s)]
    <3>3. ASSUME NEW s \in SUBSET S, Cardinality(s) <= n
          PROVE  h[s] = AddUp(f, h, s)
      <4>1. h[s] = AddUp(f, g, s)
        BY <3>2
      <4>2. CASE s = {}
        BY <4>1, <4>2 DEF AddUp
      <4>3. CASE s # {}
        <5>1. s \ {Chosen(s)} \in SUBSET S /\ Cardinality(s \ {Chosen(s)}) <= n - 1
          BY <1>1, <3>1, <3>3, <4>3, WithoutChosen
        <5>2. h[s \ {Chosen(s)}] = g[s \ {Chosen(s)}]
          BY <5>1
        <5> HIDE DEF h
        <5>3. QED
          BY <4>1, <5>2 DEF AddUp
      <4>4. QED
        BY <4>2, <4>3
    <3> HIDE DEF h
    <3>4. upTo(h, n)
      BY <3>3
    <3>5. QED
      BY <2>2, <3>4
  <2>5. QED
    BY <2>3, <2>4
<1>3. PICK g : upTo(g, Cardinality(S))
  BY <1>1, <1>2
<1> DEFINE h == [s \in SUBSET S |-> g[s]]
<1>4. \A s \in SUBSET S : h[s] = AddUp(f, h, s)
  <2>1. SUFFICES ASSUME NEW s \in SUBSET S PROVE h[s] = AddUp(f, h, s)
    OBVIOUS
  <2>2. Cardinality(s) <= Cardinality(S)
    BY FS_Subset
  <2>3. g[s] = AddUp(f, g, s)
    BY <1>3, <2>2
  <2>4. s \ {Chosen(s)} \in SUBSET S
    OBVIOUS
  <2>5. QED
    BY <2>3, <2>4 DEF AddUp
<1>5. Adds(f, S, h)
  BY <1>4 DEF Adds
<1>6. QED
  BY <1>5

\* Two such functions agree, also if one is for a larger set.
LEMMA AdderUnique ==
    ASSUME NEW f, NEW S, IsFiniteSet(S), NEW T \in SUBSET S, NEW g, NEW h,
           Adds(f, S, g), Adds(f, T, h)
    PROVE  g[T] = h[T]
<1> DEFINE differ == {s \in SUBSET T : g[s] # h[s]}
<1>1. IsFiniteSet(T)
  BY FS_Subset
<1>2. SUFFICES ASSUME differ # {} PROVE FALSE
  OBVIOUS
<1>3. PICK s \in differ : \A u \in differ : Cardinality(s) <= Cardinality(u)
  BY <1>1, <1>2, SmallestOf
<1>4. g[s] = AddUp(f, g, s) /\ h[s] = AddUp(f, h, s)
  BY DEF Adds
<1>5. s # {}
  BY <1>4 DEF AddUp
<1>6. IsFiniteSet(s)
  BY <1>1, FS_Subset
<1>7. /\ s \ {Chosen(s)} \in SUBSET T
      /\ Cardinality(s \ {Chosen(s)}) = Cardinality(s) - 1 /\ Cardinality(s) \in Nat
  BY <1>5, <1>6, WithoutChosen
<1>8. s \ {Chosen(s)} \notin differ
  BY <1>3, <1>7
<1>9. g[s \ {Chosen(s)}] = h[s \ {Chosen(s)}]
  BY <1>7, <1>8
<1>10. QED
  BY <1>3, <1>4, <1>9 DEF AddUp

\* The sum over a set from the sum over the set without its chosen element.
LEMMA SumUnrolls ==
    ASSUME NEW f, NEW S, IsFiniteSet(S)
    PROVE  /\ SumOn(f, {}) = 0
           /\ S # {} => SumOn(f, S) = f[Chosen(S)] + SumOn(f, S \ {Chosen(S)})
<1> DEFINE adder(T) == CHOOSE g : Adds(f, T, g)
<1>1. \A T : IsFiniteSet(T) => Adds(f, T, adder(T)) /\ SumOn(f, T) = adder(T)[T]
  BY AdderExists, SumIsFold
<1>2. SumOn(f, {}) = 0
  <2>1. Adds(f, {}, adder({})) /\ SumOn(f, {}) = adder({})[{}]
    BY <1>1, FS_EmptySet
  <2> HIDE DEF adder
  <2>2. QED
    BY <2>1 DEF Adds, AddUp
<1>3. ASSUME S # {} PROVE SumOn(f, S) = f[Chosen(S)] + SumOn(f, S \ {Chosen(S)})
  <2> DEFINE T == S \ {Chosen(S)}
  <2>1. T \in SUBSET S /\ IsFiniteSet(T)
    BY <1>3, WithoutChosen
  <2>2. Adds(f, S, adder(S)) /\ Adds(f, T, adder(T))
    BY <1>1, <2>1
  <2>3. adder(S)[T] = adder(T)[T]
    BY <2>1, <2>2, AdderUnique
  <2>4. adder(S)[S] = AddUp(f, adder(S), S)
    BY <2>2 DEF Adds
  <2> HIDE DEF adder
  <2>5. QED
    BY <1>1, <1>3, <2>1, <2>3, <2>4 DEF AddUp
<1>4. QED
  BY <1>2, <1>3

\* The sum of integers is an integer.
LEMMA SumType ==
    ASSUME NEW f, NEW S, IsFiniteSet(S), \A x \in S : f[x] \in Int
    PROVE  SumOn(f, S) \in Int
<1> DEFINE bad == {s \in SUBSET S : SumOn(f, s) \notin Int}
<1>1. SUFFICES ASSUME bad # {} PROVE FALSE
  OBVIOUS
<1>2. PICK s \in bad : \A u \in bad : Cardinality(s) <= Cardinality(u)
  BY <1>1, SmallestOf
<1>3. IsFiniteSet(s)
  BY FS_Subset
<1>4. s # {}
  <2>1. SumOn(f, {}) = 0
    BY FS_EmptySet, SumUnrolls
  <2>2. QED
    BY <1>2, <2>1
<1>5. /\ s \ {Chosen(s)} \in SUBSET S /\ Chosen(s) \in S
      /\ Cardinality(s \ {Chosen(s)}) = Cardinality(s) - 1 /\ Cardinality(s) \in Nat
  BY <1>3, <1>4, WithoutChosen
<1>6. SumOn(f, s \ {Chosen(s)}) \in Int
  BY <1>2, <1>5
<1>7. QED
  BY <1>2, <1>3, <1>4, <1>5, <1>6, SumUnrolls

\* One more element adds its value, whichever element the fold would choose.
LEMMA SumInsert ==
    ASSUME NEW f, NEW R, IsFiniteSet(R), \A y \in R : f[y] \in Int,
           NEW S \in SUBSET R, NEW x \in R, x \notin S
    PROVE  SumOn(f, S \union {x}) = f[x] + SumOn(f, S)
<1> DEFINE adds(s, y) == SumOn(f, s \union {y}) = f[y] + SumOn(f, s)
           bad == {s \in SUBSET R : \E y \in R \ s : ~adds(s, y)}
<1>1. SUFFICES ASSUME bad # {} PROVE FALSE
  OBVIOUS
<1>2. PICK s \in bad : \A u \in bad : Cardinality(s) <= Cardinality(u)
  BY <1>1, SmallestOf
<1>3. PICK y \in R \ s : ~adds(s, y)
  BY <1>2
<1>4. IsFiniteSet(s) /\ IsFiniteSet(s \union {y}) /\ s \union {y} # {} /\ Cardinality(s) \in Nat
  BY FS_Subset, FS_AddElement, FS_CardinalityType
<1>5. PICK c \in s \union {y} :
          SumOn(f, s \union {y}) = f[c] + SumOn(f, (s \union {y}) \ {c})
  BY <1>4, SumUnrolls, WithoutChosen
<1>6. c # y
  <2>1. c = y => (s \union {y}) \ {c} = s
    BY <1>3
  <2>2. QED
    BY <1>3, <1>5, <2>1
<1>7. PICK u : u = s \ {c}
  OBVIOUS
<1>8. /\ c \in s /\ u \in SUBSET R /\ c \in R \ u /\ y \in R \ u
      /\ (s \union {y}) \ {c} = u \union {y} /\ s = u \union {c}
  BY <1>5, <1>6, <1>7
<1>9. IsFiniteSet(u) /\ Cardinality(u) = Cardinality(s) - 1
  BY <1>4, <1>7, <1>8, FS_RemoveElement
<1>10. u \notin bad
  BY <1>2, <1>4, <1>9
<1>11. adds(u, y) /\ adds(u, c)
  BY <1>8, <1>10
<1>12. SumOn(f, u) \in Int /\ f[y] \in Int /\ f[c] \in Int
  BY <1>8, <1>9, SumType
<1>13. SumOn(f, u \union {y}) = f[y] + SumOn(f, u) /\ SumOn(f, s) = f[c] + SumOn(f, u)
  BY <1>8, <1>11
<1>14. SumOn(f, s \union {y}) = f[c] + (f[y] + SumOn(f, u))
  BY <1>5, <1>8, <1>13
<1>15. SumOn(f, s \union {y}) = f[y] + (f[c] + SumOn(f, u))
  BY <1>12, <1>14
<1>16. QED
  BY <1>3, <1>13, <1>15

\* A sum over two sets without a common member.
LEMMA SumSplit ==
    ASSUME NEW f, NEW R, IsFiniteSet(R), \A y \in R : f[y] \in Int, NEW S \in SUBSET R
    PROVE  SumOn(f, R) = SumOn(f, S) + SumOn(f, R \ S)
<1> DEFINE bad == {T \in SUBSET (R \ S) : SumOn(f, S \union T) # SumOn(f, S) + SumOn(f, T)}
<1>1. \A T \in SUBSET R : IsFiniteSet(T) /\ SumOn(f, T) \in Int
  BY FS_Subset, SumType
<1>2. bad = {}
  <2>1. SUFFICES ASSUME bad # {} PROVE FALSE
    OBVIOUS
  <2>2. IsFiniteSet(R \ S)
    BY <1>1
  <2>3. PICK T \in bad : \A U \in bad : Cardinality(T) <= Cardinality(U)
    BY <2>1, <2>2, SmallestOf
  <2>4. IsFiniteSet(T) /\ Cardinality(T) \in Nat
    BY <1>1, FS_CardinalityType
  <2>5. T # {}
    <3>1. SumOn(f, {}) = 0
      BY FS_EmptySet, SumUnrolls
    <3>2. SUFFICES ASSUME T = {} PROVE FALSE
      OBVIOUS
    <3>3. S \union T = S /\ SumOn(f, T) = 0
      BY <3>1, <3>2
    <3>4. SumOn(f, S \union T) = SumOn(f, S)
      BY <3>3, Zenon
    <3>5. SumOn(f, S) \in Int
      BY <1>1
    <3>6. QED
      BY <2>3, <3>3, <3>4, <3>5
  <2>6. PICK x \in T : TRUE
    BY <2>5
  <2>7. PICK U : U = T \ {x}
    OBVIOUS
  <2>8. /\ U \in SUBSET (R \ S) /\ x \in R /\ x \notin U /\ x \notin S \union U
        /\ T = U \union {x} /\ S \union T = (S \union U) \union {x}
        /\ S \union U \in SUBSET R /\ U \in SUBSET R
    BY <2>7
  <2>9. Cardinality(U) = Cardinality(T) - 1
    BY <2>4, <2>7, FS_RemoveElement
  <2>10. U \notin bad
    BY <2>3, <2>4, <2>9
  <2>11. SumOn(f, S \union U) = SumOn(f, S) + SumOn(f, U)
    BY <2>8, <2>10
  <2>12. SumOn(f, S \union T) = f[x] + SumOn(f, S \union U)
    BY <2>8, SumInsert
  <2>13. SumOn(f, T) = f[x] + SumOn(f, U)
    BY <2>8, SumInsert
  <2>14. SumOn(f, S) \in Int /\ SumOn(f, U) \in Int /\ f[x] \in Int
    BY <1>1, <2>8
  <2>15. QED
    BY <2>3, <2>11, <2>12, <2>13, <2>14
<1>3. R \ S \in SUBSET (R \ S) /\ S \union (R \ S) = R
  OBVIOUS
<1>4. QED
  BY <1>2, <1>3

\* Of natural numbers: the sum is one, and a larger set has no smaller sum.
LEMMA SumGrows ==
    ASSUME NEW f, NEW R, IsFiniteSet(R), \A y \in R : f[y] \in Nat, NEW S \in SUBSET R
    PROVE  SumOn(f, S) \in Nat /\ SumOn(f, S) <= SumOn(f, R)
<1> DEFINE bad == {s \in SUBSET R : SumOn(f, s) \notin Nat}
<1>1. bad = {}
  <2>1. SUFFICES ASSUME bad # {} PROVE FALSE
    OBVIOUS
  <2>2. PICK s \in bad : \A u \in bad : Cardinality(s) <= Cardinality(u)
    BY <2>1, SmallestOf
  <2>3. IsFiniteSet(s)
    BY FS_Subset
  <2>4. s # {}
    <3>1. SumOn(f, {}) = 0
      BY FS_EmptySet, SumUnrolls
    <3>2. QED
      BY <2>2, <3>1
  <2>5. /\ s \ {Chosen(s)} \in SUBSET R /\ Chosen(s) \in R
        /\ Cardinality(s \ {Chosen(s)}) = Cardinality(s) - 1 /\ Cardinality(s) \in Nat
    BY <2>3, <2>4, WithoutChosen
  <2>6. SumOn(f, s \ {Chosen(s)}) \in Nat
    BY <2>2, <2>5
  <2>7. QED
    BY <2>2, <2>3, <2>4, <2>5, <2>6, SumUnrolls
<1>2. SumOn(f, R) = SumOn(f, S) + SumOn(f, R \ S)
  BY SumSplit
<1>3. SumOn(f, S) \in Nat /\ SumOn(f, R \ S) \in Nat
  BY <1>1
<1>4. QED
  BY <1>2, <1>3

\* Only the values on the set count.
LEMMA SumSame ==
    ASSUME NEW f, NEW g, NEW S, IsFiniteSet(S), \A x \in S : f[x] = g[x]
    PROVE  SumOn(f, S) = SumOn(g, S)
<1> DEFINE bad == {s \in SUBSET S : SumOn(f, s) # SumOn(g, s)}
<1>1. SUFFICES ASSUME bad # {} PROVE FALSE
  OBVIOUS
<1>2. PICK s \in bad : \A u \in bad : Cardinality(s) <= Cardinality(u)
  BY <1>1, SmallestOf
<1>3. IsFiniteSet(s)
  BY FS_Subset
<1>4. s # {}
  <2>1. SumOn(f, {}) = 0 /\ SumOn(g, {}) = 0
    BY FS_EmptySet, SumUnrolls
  <2>2. QED
    BY <1>2, <2>1
<1>5. /\ s \ {Chosen(s)} \in SUBSET S /\ Chosen(s) \in S
      /\ Cardinality(s \ {Chosen(s)}) = Cardinality(s) - 1 /\ Cardinality(s) \in Nat
  BY <1>3, <1>4, WithoutChosen
<1>6. SumOn(f, s \ {Chosen(s)}) = SumOn(g, s \ {Chosen(s)})
  BY <1>2, <1>5
<1>7. QED
  BY <1>2, <1>3, <1>4, <1>5, <1>6, SumUnrolls

\* A function that is 1 on some members and 0 on the others counts them.
LEMMA SumCounts ==
    ASSUME NEW f, NEW R, IsFiniteSet(R), NEW S \in SUBSET R,
           \A x \in R : f[x] = IF x \in S THEN 1 ELSE 0
    PROVE  SumOn(f, R) = Cardinality(S)
<1> DEFINE bad == {s \in SUBSET R : SumOn(f, s) # Cardinality(s \intersect S)}
<1>1. SUFFICES ASSUME bad # {} PROVE FALSE
  <2>1. R \notin bad => SumOn(f, R) = Cardinality(R \intersect S)
    OBVIOUS
  <2>2. R \intersect S = S
    OBVIOUS
  <2>3. QED
    BY <2>1, <2>2
<1>2. PICK s \in bad : \A u \in bad : Cardinality(s) <= Cardinality(u)
  BY <1>1, SmallestOf
<1>3. IsFiniteSet(s) /\ Cardinality(s) \in Nat
  BY FS_Subset, FS_CardinalityType
<1>4. s # {}
  <2>1. SumOn(f, {}) = 0 /\ Cardinality({}) = 0 /\ {} \intersect S = {}
    BY FS_EmptySet, SumUnrolls
  <2>2. QED
    BY <1>2, <2>1
<1>5. PICK x \in s : TRUE
  BY <1>4
<1>6. PICK u : u = s \ {x}
  OBVIOUS
<1>7. u \in SUBSET R /\ x \in R /\ x \notin u /\ s = u \union {x}
  BY <1>6
<1>8. Cardinality(u) = Cardinality(s) - 1
  BY <1>3, <1>6, FS_RemoveElement
<1>9. SumOn(f, u) = Cardinality(u \intersect S)
  BY <1>2, <1>3, <1>7, <1>8
<1>10. SumOn(f, s) = f[x] + SumOn(f, u)
  BY <1>7, SumInsert
<1>11. IsFiniteSet(u \intersect S) /\ x \notin u \intersect S
  BY <1>7, FS_Subset, FS_Intersection
<1>12. Cardinality((u \intersect S) \union {x}) = Cardinality(u \intersect S) + 1
       /\ Cardinality(u \intersect S) \in Nat
  BY <1>11, FS_AddElement, FS_CardinalityType
<1>13. s \intersect S = IF x \in S THEN (u \intersect S) \union {x} ELSE u \intersect S
  BY <1>7
<1>14. QED
  BY <1>2, <1>7, <1>9, <1>10, <1>12, <1>13

\* A sum of multiples.
LEMMA SumScaled ==
    ASSUME NEW S, IsFiniteSet(S), NEW c \in Int, NEW g, \A x \in S : g[x] \in Int,
           NEW f, \A x \in S : f[x] = g[x] * c
    PROVE  SumOn(f, S) = SumOn(g, S) * c
<1> DEFINE bad == {s \in SUBSET S : SumOn(f, s) # SumOn(g, s) * c}
<1>1. SUFFICES ASSUME bad # {} PROVE FALSE
  OBVIOUS
<1>2. PICK s \in bad : \A u \in bad : Cardinality(s) <= Cardinality(u)
  BY <1>1, SmallestOf
<1>3. IsFiniteSet(s)
  BY FS_Subset
<1>4. s # {}
  <2>1. SumOn(f, {}) = 0 /\ SumOn(g, {}) = 0
    BY FS_EmptySet, SumUnrolls
  <2>2. 0 * c = 0
    OBVIOUS
  <2>3. QED
    BY <1>2, <2>1, <2>2
<1> DEFINE u == s \ {Chosen(s)}
<1>5. /\ u \in SUBSET S /\ Chosen(s) \in S /\ IsFiniteSet(u)
      /\ Cardinality(u) = Cardinality(s) - 1 /\ Cardinality(s) \in Nat
  BY <1>3, <1>4, WithoutChosen
<1>6. SumOn(f, u) = SumOn(g, u) * c
  BY <1>2, <1>5
<1>7. SumOn(f, s) = f[Chosen(s)] + SumOn(f, u) /\ SumOn(g, s) = g[Chosen(s)] + SumOn(g, u)
  BY <1>3, <1>4, SumUnrolls
<1>8. /\ f[Chosen(s)] = g[Chosen(s)] * c /\ g[Chosen(s)] \in Int /\ SumOn(g, u) \in Int
  BY <1>5, SumType
<1>9. (g[Chosen(s)] + SumOn(g, u)) * c = g[Chosen(s)] * c + SumOn(g, u) * c
  BY <1>8
<1>10. SumOn(f, s) = SumOn(g, s) * c
  BY <1>6, <1>7, <1>8, <1>9
<1>11. QED
  BY <1>2, <1>10

\* A sum over the indices of some things, none of them twice.
LEMMA SumReindexed ==
    ASSUME NEW I, IsFiniteSet(I), NEW q, \A i, j \in I : q[i] = q[j] => i = j,
           NEW f, \A i \in I : f[q[i]] \in Int, NEW h, \A i \in I : h[i] = f[q[i]]
    PROVE  SumOn(h, I) = SumOn(f, {q[i] : i \in I})
<1> DEFINE image(s) == {q[i] : i \in s}
           bad == {s \in SUBSET I : SumOn(h, s) # SumOn(f, image(s))}
<1>1. SUFFICES ASSUME bad # {} PROVE FALSE
  OBVIOUS
<1>2. PICK s \in bad : \A u \in bad : Cardinality(s) <= Cardinality(u)
  BY <1>1, SmallestOf
<1>3. IsFiniteSet(s) /\ Cardinality(s) \in Nat
  BY FS_Subset, FS_CardinalityType
<1>4. s # {}
  <2>1. image({}) = {} /\ SumOn(f, {}) = 0 /\ SumOn(h, {}) = 0
    BY FS_EmptySet, SumUnrolls
  <2>2. QED
    BY <1>2, <2>1
<1>5. PICK x \in s : TRUE
  BY <1>4
<1>6. PICK u : u = s \ {x}
  OBVIOUS
<1>7. u \in SUBSET I /\ x \in I /\ x \notin u /\ s = u \union {x}
  BY <1>6
<1>8. Cardinality(u) = Cardinality(s) - 1
  BY <1>3, <1>6, FS_RemoveElement
<1>9. SumOn(h, u) = SumOn(f, image(u))
  <2>1. u \notin bad
    <3> HIDE DEF bad
    <3>1. Cardinality(u) < Cardinality(s)
      BY <1>3, <1>8
    <3>2. QED
      BY <1>2, <1>3, <1>8, <3>1
  <2> HIDE DEF image
  <2>2. QED
    BY <1>7, <2>1
<1>10. SumOn(h, u \union {x}) = h[x] + SumOn(h, u)
  BY <1>7, SumInsert
<1>11. /\ image(s) = image(u) \union {q[x]} /\ q[x] \notin image(u)
       /\ image(u) \in SUBSET image(I) /\ q[x] \in image(I)
  BY <1>7
<1>12. IsFiniteSet(image(I))
  <2> DEFINE at == [i \in I |-> q[i]]
  <2>1. at \in Surjection(I, image(I))
    BY DEF Surjection
  <2>2. QED
    BY <2>1, FS_Surjection
<1>13. \A y \in image(I) : f[y] \in Int
  OBVIOUS
<1>14. SumOn(f, image(u) \union {q[x]}) = f[q[x]] + SumOn(f, image(u))
  <2> DEFINE R == image(I)
             S == image(u)
             y == q[x]
  <2>1. /\ IsFiniteSet(R) /\ \A z \in R : f[z] \in Int
        /\ S \in SUBSET R /\ y \in R /\ y \notin S
    BY <1>11, <1>12, <1>13
  <2> HIDE DEF R, S, y
  <2>2. SumOn(f, S \union {y}) = f[y] + SumOn(f, S)
    BY <2>1, SumInsert
  <2>3. QED
    BY <2>2 DEF S, y
<1>15. SumOn(h, s) = SumOn(f, image(s))
  BY <1>7, <1>9, <1>10, <1>11, <1>14
<1>16. QED
  BY <1>2, <1>15

-----------------------------------------------------------------------------
(* Folds over a sequence.  FoldLeft takes the greatest index first. *)

\* A sequence is a function on its indices.
LEMMA SeqParts ==
    ASSUME NEW S, NEW q \in Seq(S)
    PROVE  Len(q) \in Nat /\ DOMAIN q = 1..Len(q) /\ \A i \in DOMAIN q : q[i] \in S
OBVIOUS

\* The greatest of some indices.
LEMMA LastIndex ==
    ASSUME NEW n \in Nat, NEW s \in SUBSET (1..n), s # {}
    PROVE  Max(s) \in s /\ \A i \in s : i <= Max(s)
<1> DEFINE from == {n - i : i \in s}
<1>1. from \subseteq Nat /\ from # {}
  <2>1. \A i \in s : i \in 1..n /\ n - i \in Nat
    OBVIOUS
  <2>2. QED
    BY <2>1
<1>2. PICK k \in from : \A m \in from : k <= m
  BY <1>1, LeastOf
<1>3. PICK j \in s : k = n - j
  BY <1>2
<1>4. \A i \in s : j >= i
  <2>1. SUFFICES ASSUME NEW i \in s PROVE j >= i
    OBVIOUS
  <2>2. n - i \in from
    OBVIOUS
  <2>3. k <= n - i
    BY <1>2, <2>2
  <2>4. QED
    BY <1>3, <2>3
<1>5. \E x \in s : \A y \in s : x >= y
  BY <1>4
<1>6. Max(s) \in s /\ \A y \in s : Max(s) >= y
  BY <1>5 DEF Max
<1>7. QED
  BY <1>6

\* The first indices, without the last of them.
LEMMA Prefix ==
    ASSUME NEW n \in Nat, NEW k \in 1..n
    PROVE  /\ 1..k \in SUBSET (1..n) /\ 1..k # {} /\ Max(1..k) = k
           /\ (1..k) \ {Max(1..k)} = 1..(k - 1) /\ 1..(k - 1) \in SUBSET (1..n)
<1>1. 1..k \in SUBSET (1..n) /\ 1..k # {} /\ k \in 1..k
  OBVIOUS
<1>2. Max(1..k) \in 1..k /\ \A i \in 1..k : i <= Max(1..k)
  BY <1>1, LastIndex
<1>3. Max(1..k) = k
  BY <1>1, <1>2
<1>4. (1..k) \ {k} = 1..(k - 1)
  OBVIOUS
<1>5. QED
  BY <1>1, <1>3, <1>4

\* Induction over the first n numbers, for what a set of numbers says.
LEMMA UpTo ==
    ASSUME NEW n \in Nat, NEW T, 0 \in T, \A k \in 1..n : k - 1 \in T => k \in T
    PROVE  \A k \in 0..n : k \in T
<1> DEFINE bad == {k \in 0..n : k \notin T}
<1>1. SUFFICES ASSUME bad # {} PROVE FALSE
  OBVIOUS
<1>2. bad \subseteq Nat
  OBVIOUS
<1>3. PICK k \in bad : \A m \in bad : k <= m
  BY <1>1, <1>2, LeastOf
<1>4. k # 0 /\ k \in 1..n /\ k - 1 \in 0..n
  BY <1>3
<1>5. k - 1 \notin bad
  BY <1>3, <1>4
<1>6. QED
  BY <1>3, <1>4, <1>5

\* Induction over the subsets of the first n numbers, their greatest member last.
LEMMA OverSubsets ==
    ASSUME NEW n \in Nat, NEW T, {} \in T,
           \A s \in SUBSET (1..n) : s # {} /\ s \ {Max(s)} \in T => s \in T
    PROVE  \A s \in SUBSET (1..n) : s \in T
<1> DEFINE bad == {s \in SUBSET (1..n) : s \notin T}
<1>1. SUFFICES ASSUME bad # {} PROVE FALSE
  OBVIOUS
<1>2. IsFiniteSet(1..n)
  BY FS_Interval
<1>3. PICK s \in bad : \A u \in bad : Cardinality(s) <= Cardinality(u)
  BY <1>1, <1>2, SmallestOf
<1>4. s # {}
  BY <1>3
<1>5. Max(s) \in s
  BY <1>4, LastIndex
<1>6. IsFiniteSet(s)
  BY <1>2, FS_Subset
<1>7. /\ Cardinality(s \ {Max(s)}) = Cardinality(s) - 1 /\ Cardinality(s) \in Nat
  BY <1>5, <1>6, FS_RemoveElement, FS_CardinalityType
<1>8. s \ {Max(s)} \notin bad
  BY <1>3, <1>7
<1>9. QED
  BY <1>3, <1>4, <1>8

\* A sum without its last index.
LEMMA SumLast ==
    ASSUME NEW n \in Nat, NEW f, \A i \in 1..n : f[i] \in Int,
           NEW s \in SUBSET (1..n), s # {}
    PROVE  /\ Max(s) \in s /\ f[Max(s)] \in Int
           /\ SumOn(f, s) = SumOn(f, s \ {Max(s)}) + f[Max(s)]
<1> DEFINE rest == s \ {Max(s)}
<1>1. Max(s) \in s /\ Max(s) \in 1..n /\ f[Max(s)] \in Int
  BY LastIndex
<1>2. IsFiniteSet(1..n)
  BY FS_Interval
<1>3. rest \in SUBSET (1..n) /\ Max(s) \notin rest /\ rest \union {Max(s)} = s
  BY <1>1
<1>4. SumOn(f, rest \union {Max(s)}) = f[Max(s)] + SumOn(f, rest)
  <2> DEFINE all == 1..n
             last == Max(s)
  <2>1. /\ IsFiniteSet(all) /\ \A y \in all : f[y] \in Int
        /\ rest \in SUBSET all /\ last \in all /\ last \notin rest
    BY <1>1, <1>2, <1>3
  <2> HIDE DEF all, last, rest
  <2>2. SumOn(f, rest \union {last}) = f[last] + SumOn(f, rest)
    BY <2>1, SumInsert
  <2>3. QED
    BY <2>2 DEF last
<1>5. SumOn(f, rest) \in Int
  <2>1. IsFiniteSet(rest) /\ \A i \in rest : f[i] \in Int
    BY <1>2, <1>3, FS_Subset
  <2>2. QED
    BY <2>1, SumType
<1>6. QED
  BY <1>1, <1>3, <1>4, <1>5

\* A sum with one more index.
LEMMA SumExtends ==
    ASSUME NEW n \in Nat, NEW f, \A i \in 1..(n + 1) : f[i] \in Int,
           NEW g, \A i \in 1..n : g[i] = f[i]
    PROVE  SumOn(f, 1..(n + 1)) = SumOn(g, 1..n) + f[n + 1]
<1>1. n + 1 \in 1..(n + 1) /\ n + 1 \in Nat
  OBVIOUS
<1>2. /\ 1..(n + 1) \in SUBSET (1..(n + 1)) /\ 1..(n + 1) # {} /\ Max(1..(n + 1)) = n + 1
      /\ (1..(n + 1)) \ {Max(1..(n + 1))} = 1..((n + 1) - 1)
  BY <1>1, Prefix
<1>3. SumOn(f, 1..(n + 1)) = SumOn(f, (1..(n + 1)) \ {Max(1..(n + 1))}) + f[Max(1..(n + 1))]
  BY <1>1, <1>2, SumLast
<1>4. (n + 1) - 1 = n
  OBVIOUS
<1>5. SumOn(f, 1..n) = SumOn(g, 1..n)
  <2>1. IsFiniteSet(1..n) /\ \A i \in 1..n : f[i] = g[i]
    BY FS_Interval
  <2>2. QED
    BY <2>1, SumSame
<1>6. QED
  BY <1>2, <1>3, <1>4, <1>5

\* A sum of equal terms.
LEMMA SumOfEqual ==
    ASSUME NEW n \in Nat, NEW c \in Int, NEW f, \A i \in 1..n : f[i] = c
    PROVE  SumOn(f, 1..n) = n * c
<1> DEFINE T == {k \in 0..n : SumOn(f, 1..k) = k * c}
<1>1. 0 \in T
  <2>1. 1..0 = {} /\ 0 * c = 0 /\ 0 \in 0..n
    OBVIOUS
  <2>2. SumOn(f, {}) = 0
    BY SumUnrolls, FS_EmptySet
  <2>3. QED
    BY <2>1, <2>2
<1>2. ASSUME NEW k \in 1..n, k - 1 \in T PROVE k \in T
  <2>1. k - 1 \in Nat /\ (k - 1) + 1 = k
    OBVIOUS
  <2>2. SumOn(f, 1..((k - 1) + 1)) = SumOn(f, 1..(k - 1)) + f[(k - 1) + 1]
    <3>1. \A i \in 1..((k - 1) + 1) : f[i] \in Int
      OBVIOUS
    <3>2. QED
      BY <2>1, <3>1, SumExtends
  <2>3. (k - 1) * c + c = k * c
    OBVIOUS
  <2>4. QED
    BY <1>2, <2>1, <2>2, <2>3
<1> HIDE DEF T
<1>3. \A k \in 0..n : k \in T
  BY <1>1, <1>2, UpTo
<1>4. n \in T
  BY <1>3
<1>5. QED
  BY <1>4 DEF T

\* What a left fold of a sum computes: the sum over the indices.
LEMMA FoldsToSum ==
    ASSUME NEW n \in Nat, NEW f, \A i \in 1..n : f[i] \in Int, NEW g,
           \A s \in SUBSET (1..n) :
               g[s] = IF s = {} THEN 0 ELSE g[s \ {Max(s)}] + f[Max(s)]
    PROVE  g[1..n] = SumOn(f, 1..n)
<1> DEFINE T == {s \in SUBSET (1..n) : g[s] = SumOn(f, s)}
<1>1. \A s \in SUBSET (1..n) : s # {} =>
          /\ Max(s) \in s /\ f[Max(s)] \in Int
          /\ SumOn(f, s) = SumOn(f, s \ {Max(s)}) + f[Max(s)]
  BY SumLast
<1>2. {} \in T
  BY SumUnrolls, FS_EmptySet
<1>3. ASSUME NEW s \in SUBSET (1..n), s # {}, s \ {Max(s)} \in T PROVE s \in T
  BY <1>1, <1>3
<1>4. QED
  BY <1>2, <1>3, OverSubsets

\* The sums over the subsets are such a function.
LEMMA SumsFold ==
    ASSUME NEW n \in Nat, NEW f, \A i \in 1..n : f[i] \in Int
    PROVE  \E g : g = [s \in SUBSET (1..n) |->
                          IF s = {} THEN 0 ELSE g[s \ {Max(s)}] + f[Max(s)]]
<1> DEFINE g == [s \in SUBSET (1..n) |-> SumOn(f, s)]
<1>1. ASSUME NEW s \in SUBSET (1..n)
      PROVE  g[s] = IF s = {} THEN 0 ELSE g[s \ {Max(s)}] + f[Max(s)]
  <2>1. CASE s = {}
    BY <2>1, SumUnrolls, FS_EmptySet
  <2>2. CASE s # {}
    <3>1. SumOn(f, s) = SumOn(f, s \ {Max(s)}) + f[Max(s)]
      BY <2>2, SumLast
    <3>2. s \ {Max(s)} \in SUBSET (1..n)
      OBVIOUS
    <3>3. QED
      BY <2>2, <3>1, <3>2
  <2>3. QED
    BY <2>1, <2>2
<1>2. g = [s \in SUBSET (1..n) |-> IF s = {} THEN 0 ELSE g[s \ {Max(s)}] + f[Max(s)]]
  BY <1>1
<1>3. QED
  BY <1>2

\* The least of some indices.
LEMMA FirstIndex ==
    ASSUME NEW n \in Nat, NEW s \in SUBSET (1..n), s # {}
    PROVE  Min(s) \in s /\ \A i \in s : Min(s) <= i
<1>1. s \subseteq Nat
  OBVIOUS
<1>2. PICK m \in s : \A i \in s : m <= i
  <2> HIDE DEF Min
  <2>1. QED
    BY <1>1, LeastOf
<1>3. QED
  BY <1>2 DEF Min

\* The indices from k on, with and without k.
LEMMA Suffix ==
    ASSUME NEW n \in Nat, NEW k \in 1..n
    PROVE  /\ k..n \in SUBSET (1..n) /\ k..n # {} /\ Min(k..n) = k
           /\ (k..n) \ {Min(k..n)} = (k + 1)..n /\ (k + 1)..n \in SUBSET (1..n)
<1>1. k..n \in SUBSET (1..n) /\ k..n # {} /\ k \in k..n
  OBVIOUS
<1>2. Min(k..n) \in k..n /\ \A i \in k..n : Min(k..n) <= i
  BY <1>1, FirstIndex
<1> DEFINE m == Min(k..n)
<1>3. m \in k..n /\ m <= k
  BY <1>1, <1>2
<1> HIDE DEF m
<1>4. m = k
  BY <1>3
<1>5. QED
  BY <1>1, <1>4 DEF m

\* pick names a member of each set that is not empty.
Chooses(pick, S) == \A s \in SUBSET S : s # {} => pick[s] \in s

\* g takes a step of the fold for each member, the one that is picked last.
FoldingBy(g, base, step, pick, S) ==
    \A s \in SUBSET S :
        g[s] = IF s = {} THEN base ELSE step[<<g[s \ {pick[s]}], pick[s]>>]

\* A fold of any kind: a step on values of A has such a function.
LEMMA FoldByExists ==
    ASSUME NEW S, IsFiniteSet(S), NEW A, NEW base \in A, NEW step \in [A \X S -> A],
           NEW pick, Chooses(pick, S)
    PROVE  \E g \in [SUBSET S -> A] : FoldingBy(g, base, step, pick, S)
<1> DEFINE n == Cardinality(S)
           steps(g, s) == g[s] = IF s = {} THEN base ELSE step[<<g[s \ {pick[s]}], pick[s]>>]
           upTo(g, k) == \A s \in SUBSET S : Cardinality(s) <= k => steps(g, s)
           good == {k \in 0..n : \E g \in [SUBSET S -> A] : upTo(g, k)}
<1>1. n \in Nat
  BY FS_CardinalityType
<1>2. \A s \in SUBSET S : IsFiniteSet(s) /\ Cardinality(s) \in Nat /\ Cardinality(s) <= n
  BY FS_Subset, FS_CardinalityType
<1>3. \A s \in SUBSET S : Cardinality(s) = 0 => s = {}
  BY <1>2, FS_EmptySet
<1>4. ASSUME NEW s \in SUBSET S, s # {}
      PROVE  /\ pick[s] \in S /\ s \ {pick[s]} \in SUBSET S
             /\ Cardinality(s \ {pick[s]}) = Cardinality(s) - 1
  <2>1. pick[s] \in s
    BY <1>4 DEF Chooses
  <2>2. IsFiniteSet(s)
    BY <1>2
  <2>3. QED
    BY <2>1, <2>2, FS_RemoveElement
<1> HIDE DEF n
<1>5. 0 \in good
  <2> DEFINE g == [s \in SUBSET S |-> base]
  <2>1. g \in [SUBSET S -> A]
    OBVIOUS
  <2>2. upTo(g, 0)
    <3>1. SUFFICES ASSUME NEW s \in SUBSET S, Cardinality(s) <= 0 PROVE steps(g, s)
      OBVIOUS
    <3>2. s = {}
      BY <1>2, <1>3, <3>1
    <3>3. QED
      BY <3>2
  <2> HIDE DEF g, upTo
  <2>3. QED
    BY <1>1, <2>1, <2>2
<1>6. ASSUME NEW k \in 1..n, k - 1 \in good PROVE k \in good
  <2>1. PICK g \in [SUBSET S -> A] : upTo(g, k - 1)
    BY <1>6
  <2> DEFINE next(s) == IF s = {} THEN base ELSE step[<<g[s \ {pick[s]}], pick[s]>>]
             h == [s \in SUBSET S |-> IF Cardinality(s) <= k - 1 THEN g[s] ELSE next(s)]
  <2>2. ASSUME NEW s \in SUBSET S PROVE next(s) \in A
    <3>1. CASE s = {}
      BY <3>1
    <3>2. CASE s # {}
      <4>1. g[s \ {pick[s]}] \in A /\ pick[s] \in S
        BY <1>4, <3>2
      <4>2. QED
        BY <3>2, <4>1
    <3>3. QED
      BY <3>1, <3>2
  <2>3. h \in [SUBSET S -> A]
    BY <2>2
  <2>4. ASSUME NEW s \in SUBSET S, Cardinality(s) <= k PROVE h[s] = next(s)
    <3>1. CASE Cardinality(s) <= k - 1
      <4>1. h[s] = g[s] /\ steps(g, s)
        BY <2>1, <3>1
      <4>2. QED
        BY <4>1
    <3>2. CASE ~(Cardinality(s) <= k - 1)
      BY <3>2
    <3>3. QED
      BY <3>1, <3>2
  <2>5. ASSUME NEW s \in SUBSET S, s # {}, Cardinality(s) <= k
        PROVE  h[s \ {pick[s]}] = g[s \ {pick[s]}]
    <3>1. s \ {pick[s]} \in SUBSET S /\ Cardinality(s \ {pick[s]}) = Cardinality(s) - 1
      BY <1>4, <2>5
    <3>2. Cardinality(s) \in Nat /\ k \in Int
      BY <1>2
    <3>3. Cardinality(s \ {pick[s]}) <= k - 1
      BY <2>5, <3>1, <3>2
    <3>4. QED
      BY <3>1, <3>3
  <2> HIDE DEF h
  <2>6. upTo(h, k)
    <3>1. SUFFICES ASSUME NEW s \in SUBSET S, Cardinality(s) <= k PROVE steps(h, s)
      OBVIOUS
    <3>2. QED
      BY <2>4, <2>5, <3>1
  <2> HIDE DEF upTo
  <2>7. QED
    BY <2>3, <2>6
<1>7. n \in good
  <2> HIDE DEF good
  <2>1. \A k \in 0..n : k \in good
    BY <1>1, <1>5, <1>6, UpTo
  <2>2. QED
    BY <1>1, <2>1
<1>8. PICK g \in [SUBSET S -> A] : upTo(g, n)
  BY <1>7
<1>9. \A s \in SUBSET S : steps(g, s)
  BY <1>2, <1>8 DEF n
<1>10. FoldingBy(g, base, step, pick, S)
  BY <1>9 DEF FoldingBy
<1>11. QED
  BY <1>10

\* g folds the indices from the left: the greatest one is the last step.
Folding(g, base, step, n) ==
    \A s \in SUBSET (1..n) :
        g[s] = IF s = {} THEN base ELSE step[<<g[s \ {Max(s)}], Max(s)>>]

LEMMA FoldExists ==
    ASSUME NEW n \in Nat, NEW A, NEW base \in A, NEW step \in [A \X (1..n) -> A]
    PROVE  \E g \in [SUBSET (1..n) -> A] : Folding(g, base, step, n)
<1> DEFINE pick == [s \in SUBSET (1..n) |-> Max(s)]
<1>1. Chooses(pick, 1..n)
  BY LastIndex DEF Chooses
<1>2. IsFiniteSet(1..n)
  BY FS_Interval
<1> HIDE DEF pick
<1>3. PICK g \in [SUBSET (1..n) -> A] : FoldingBy(g, base, step, pick, 1..n)
  BY <1>1, <1>2, FoldByExists
<1>4. Folding(g, base, step, n)
  BY <1>3 DEF FoldingBy, Folding, pick
<1>5. QED
  BY <1>4

\* Step by step, from the first index: f is what g folds after k steps.
Runs(f, g, base, step, n) ==
    /\ f[0] = base /\ f[n] = g[1..n]
    /\ \A k \in 1..n : f[k] = step[<<f[k - 1], k>>]

LEMMA FoldRuns ==
    ASSUME NEW n \in Nat, NEW A, NEW base \in A, NEW step \in [A \X (1..n) -> A],
           NEW g, Folding(g, base, step, n)
    PROVE  \E f \in [0..n -> A] : Runs(f, g, base, step, n)
<1> DEFINE f == [k \in 0..n |-> g[1..k]]
           T == {k \in 0..n : f[k] \in A}
<1>1. g[1..0] = base
  <2>1. 1..0 = {}
    OBVIOUS
  <2>2. QED
    BY <2>1 DEF Folding
<1>2. \A k \in 1..n : g[1..k] = step[<<g[1..(k - 1)], k>>]
  <2>1. SUFFICES ASSUME NEW k \in 1..n PROVE g[1..k] = step[<<g[1..(k - 1)], k>>]
    OBVIOUS
  <2>2. 1..k \in SUBSET (1..n) /\ 1..k # {} /\ Max(1..k) = k /\ (1..k) \ {Max(1..k)} = 1..(k - 1)
    BY Prefix
  <2>3. g[1..k] = step[<<g[(1..k) \ {Max(1..k)}], Max(1..k)>>]
    BY <2>2 DEF Folding
  <2>4. QED
    BY <2>2, <2>3
<1>3. f[0] = base /\ f[n] = g[1..n] /\ \A k \in 1..n : f[k] = step[<<f[k - 1], k>>]
  BY <1>1, <1>2
<1> HIDE DEF f
<1>4. 0 \in T /\ \A k \in 1..n : k - 1 \in T => k \in T
  <2>1. 0 \in T
    BY <1>3
  <2>2. ASSUME NEW k \in 1..n, k - 1 \in T PROVE k \in T
    <3>1. f[k - 1] \in A /\ f[k] = step[<<f[k - 1], k>>]
      BY <1>3, <2>2
    <3>2. QED
      BY <3>1
  <2>3. QED
    BY <2>1, <2>2
<1>5. \A k \in 0..n : f[k] \in A
  <2> HIDE DEF T
  <2>1. \A k \in 0..n : k \in T
    BY <1>4, UpTo
  <2>2. QED
    BY <2>1 DEF T
<1>6. f \in [0..n -> A]
  <2>1. f = [k \in 0..n |-> f[k]]
    BY DEF f
  <2>2. QED
    BY <1>5, <2>1
<1>7. QED
  BY <1>3, <1>6 DEF Runs

\* g folds the indices from the right: the least one is the last step.
FoldingBack(g, base, step, n) ==
    \A s \in SUBSET (1..n) :
        g[s] = IF s = {} THEN base ELSE step[<<g[s \ {Min(s)}], Min(s)>>]

LEMMA FoldBackExists ==
    ASSUME NEW n \in Nat, NEW A, NEW base \in A, NEW step \in [A \X (1..n) -> A]
    PROVE  \E g \in [SUBSET (1..n) -> A] : FoldingBack(g, base, step, n)
<1> DEFINE pick == [s \in SUBSET (1..n) |-> Min(s)]
<1>1. Chooses(pick, 1..n)
  BY FirstIndex DEF Chooses
<1>2. IsFiniteSet(1..n)
  BY FS_Interval
<1> HIDE DEF pick
<1>3. PICK g \in [SUBSET (1..n) -> A] : FoldingBy(g, base, step, pick, 1..n)
  BY <1>1, <1>2, FoldByExists
<1>4. FoldingBack(g, base, step, n)
  BY <1>3 DEF FoldingBy, FoldingBack, pick
<1>5. QED
  BY <1>4

\* Step by step, from the last index.
RunsBack(f, g, base, step, n) ==
    /\ f[n + 1] = base /\ f[1] = g[1..n]
    /\ \A k \in 1..n : f[k] = step[<<f[k + 1], k>>]

LEMMA FoldBackRuns ==
    ASSUME NEW n \in Nat, NEW A, NEW base \in A, NEW step \in [A \X (1..n) -> A],
           NEW g, FoldingBack(g, base, step, n)
    PROVE  \E f \in [1..(n + 1) -> A] : RunsBack(f, g, base, step, n)
<1> DEFINE f == [k \in 1..(n + 1) |-> g[k..n]]
           T == {k \in 0..n : f[n + 1 - k] \in A}
<1>1. g[(n + 1)..n] = base
  <2>1. (n + 1)..n = {}
    OBVIOUS
  <2>2. QED
    BY <2>1 DEF FoldingBack
<1>2. \A k \in 1..n : g[k..n] = step[<<g[(k + 1)..n], k>>]
  <2>1. SUFFICES ASSUME NEW k \in 1..n PROVE g[k..n] = step[<<g[(k + 1)..n], k>>]
    OBVIOUS
  <2>2. k..n \in SUBSET (1..n) /\ k..n # {} /\ Min(k..n) = k /\ (k..n) \ {Min(k..n)} = (k + 1)..n
    BY Suffix
  <2>3. g[k..n] = step[<<g[(k..n) \ {Min(k..n)}], Min(k..n)>>]
    BY <2>2 DEF FoldingBack
  <2>4. QED
    BY <2>2, <2>3
<1>3. f[n + 1] = base /\ f[1] = g[1..n] /\ \A k \in 1..n : f[k] = step[<<f[k + 1], k>>]
  BY <1>1, <1>2
<1> HIDE DEF f
<1>4. 0 \in T
  BY <1>3
<1>5. ASSUME NEW k \in 1..n, k - 1 \in T PROVE k \in T
  <2> DEFINE j == n + 1 - k
  <2>1. j \in 1..n /\ n + 1 - (k - 1) = j + 1
    OBVIOUS
  <2> HIDE DEF j
  <2>2. f[j + 1] \in A /\ f[j] = step[<<f[j + 1], j>>]
    BY <1>3, <1>5, <2>1
  <2>3. f[j] \in A
    BY <2>1, <2>2
  <2>4. QED
    BY <2>3 DEF j
<1>6. \A k \in 1..(n + 1) : f[k] \in A
  <2> HIDE DEF T
  <2>1. \A k \in 0..n : k \in T
    BY <1>4, <1>5, UpTo
  <2>2. SUFFICES ASSUME NEW k \in 1..(n + 1) PROVE f[k] \in A
    OBVIOUS
  <2>3. n + 1 - k \in 0..n /\ n + 1 - (n + 1 - k) = k
    OBVIOUS
  <2>4. n + 1 - k \in T
    BY <2>1, <2>3
  <2>5. QED
    BY <2>3, <2>4 DEF T
<1>7. f \in [1..(n + 1) -> A]
  <2>1. f = [k \in 1..(n + 1) |-> f[k]]
    BY DEF f
  <2>2. QED
    BY <1>6, <2>1
<1>8. QED
  BY <1>3, <1>7 DEF RunsBack

-----------------------------------------------------------------------------
(* Finite sets in order. *)

\* before, a set of pairs, orders S strictly and totally.
Orders(before, S) ==
    /\ \A x \in S : <<x, x>> \notin before
    /\ \A x, y, z \in S : <<x, y>> \in before /\ <<y, z>> \in before => <<x, z>> \in before
    /\ \A x, y \in S : x # y => <<x, y>> \in before \/ <<y, x>> \in before

\* How many members of S come before x.
Rank(before, S, x) == Cardinality({y \in S : <<y, x>> \in before})

\* Who comes later has more before it.
LEMMA RankGrows ==
    ASSUME NEW S, IsFiniteSet(S), NEW before, Orders(before, S)
    PROVE  /\ \A x \in S : Rank(before, S, x) \in 0..(Cardinality(S) - 1)
           /\ \A x, y \in S : <<x, y>> \in before <=> Rank(before, S, x) < Rank(before, S, y)
           /\ \A x, y \in S : Rank(before, S, x) = Rank(before, S, y) => x = y
<1> DEFINE below(x) == {y \in S : <<y, x>> \in before}
<1>1. \A x \in S : /\ below(x) \in SUBSET (S \ {x}) /\ IsFiniteSet(below(x))
                   /\ Cardinality(below(x)) \in Nat
                   /\ Cardinality(below(x)) <= Cardinality(S) - 1
  <2>1. SUFFICES ASSUME NEW x \in S
                 PROVE  /\ below(x) \in SUBSET (S \ {x}) /\ IsFiniteSet(below(x))
                        /\ Cardinality(below(x)) \in Nat
                        /\ Cardinality(below(x)) <= Cardinality(S) - 1
    OBVIOUS
  <2>2. below(x) \in SUBSET (S \ {x})
    BY DEF Orders
  <2>3. IsFiniteSet(S \ {x}) /\ Cardinality(S \ {x}) = Cardinality(S) - 1
    BY FS_RemoveElement
  <2>4. IsFiniteSet(below(x)) /\ Cardinality(below(x)) <= Cardinality(S \ {x})
    BY <2>2, <2>3, FS_Subset
  <2>5. Cardinality(below(x)) \in Nat
    BY <2>4, FS_CardinalityType
  <2>6. QED
    BY <2>2, <2>3, <2>4, <2>5
<1>2. \A x \in S : Rank(before, S, x) = Cardinality(below(x))
  BY DEF Rank
<1>3. \A x, y \in S : <<x, y>> \in before => Cardinality(below(x)) < Cardinality(below(y))
  <2>1. SUFFICES ASSUME NEW x \in S, NEW y \in S, <<x, y>> \in before
                 PROVE  Cardinality(below(x)) < Cardinality(below(y))
    OBVIOUS
  <2>2. below(x) \in SUBSET below(y) /\ x \in below(y) /\ x \notin below(x)
    BY <2>1 DEF Orders
  <2>3. /\ Cardinality(below(x)) <= Cardinality(below(y))
        /\ Cardinality(below(y)) = Cardinality(below(x)) => below(y) = below(x)
    BY <1>1, <2>2, FS_Subset
  <2>4. Cardinality(below(x)) # Cardinality(below(y))
    BY <2>2, <2>3
  <2>5. Cardinality(below(x)) \in Nat /\ Cardinality(below(y)) \in Nat
    BY <1>1
  <2>6. QED
    BY <2>3, <2>4, <2>5
<1> HIDE DEF below
<1> DEFINE size == [x \in S |-> Cardinality(below(x))]
<1>4. \A x \in S : size[x] \in Nat /\ size[x] \in 0..(Cardinality(S) - 1)
  BY <1>1, FS_CardinalityType
<1>5. \A x, y \in S : x = y \/ <<x, y>> \in before \/ <<y, x>> \in before
  BY DEF Orders
<1>6. \A x, y \in S : <<x, y>> \in before => size[x] < size[y]
  BY <1>3
<1>7. \A x \in S : Rank(before, S, x) = size[x]
  BY <1>2
<1> HIDE DEF size
<1>8. /\ \A x, y \in S : size[x] < size[y] => <<x, y>> \in before
      /\ \A x, y \in S : size[x] = size[y] => x = y
  <2>1. SUFFICES ASSUME NEW x \in S, NEW y \in S
                 PROVE  /\ size[x] < size[y] => <<x, y>> \in before
                        /\ size[x] = size[y] => x = y
    OBVIOUS
  <2>2. size[x] \in Nat /\ size[y] \in Nat
    BY <1>4
  <2>3. /\ x = y \/ <<x, y>> \in before \/ <<y, x>> \in before
        /\ <<x, y>> \in before => size[x] < size[y]
        /\ <<y, x>> \in before => size[y] < size[x]
    BY <1>5, <1>6
  <2>4. QED
    BY <2>2, <2>3
<1>9. QED
  BY <1>4, <1>6, <1>7, <1>8

\* Every rank is taken, once.
LEMMA RankIsTaken ==
    ASSUME NEW S, IsFiniteSet(S), NEW before, Orders(before, S),
           NEW k \in 0..(Cardinality(S) - 1)
    PROVE  \E x \in S : Rank(before, S, x) = k
<1> DEFINE n == Cardinality(S)
           rank == [x \in S |-> Rank(before, S, x)]
<1>1. n \in Nat /\ IsFiniteSet(0..(n - 1)) /\ Cardinality(0..(n - 1)) = n
  BY FS_CardinalityType, FS_Interval
<1>2. rank \in Injection(S, 0..(n - 1))
  <2>1. rank \in [S -> 0..(n - 1)]
    BY RankGrows
  <2>2. \A x, y \in S : rank[x] = rank[y] => x = y
    BY RankGrows
  <2>3. QED
    BY <2>1, <2>2 DEF Injection, IsInjective
<1>3. rank \in Surjection(S, 0..(n - 1))
  BY <1>1, <1>2, FS_Injection
<1>4. QED
  BY <1>3 DEF Surjection

\* Ascending positions.
Before(positions) == {p \in positions \X positions : p[1] < p[2]}

\* Ascending positions are in order.
LEMMA BeforeOrders ==
    ASSUME NEW positions \in SUBSET Int
    PROVE  Orders(Before(positions), positions)
BY DEF Orders, Before

\* Every rank below the number of positions is the rank of one of them.
LEMMA PositionIsTaken ==
    ASSUME NEW S \in SUBSET Int, IsFiniteSet(S), NEW k \in 0..(Cardinality(S) - 1)
    PROVE  \E x \in S : Rank(Before(S), S, x) = k
<1>1. PICK before, T : before = Before(S) /\ T = S
  OBVIOUS
<1>2. Orders(before, T) /\ IsFiniteSet(T) /\ k \in 0..(Cardinality(T) - 1)
  BY <1>1, BeforeOrders
<1>3. \E x \in T : Rank(before, T, x) = k
  BY <1>2, RankIsTaken
<1>4. QED
  BY <1>1, <1>3

\* The members of S by rank.
InOrder(before, S) == [n \in 1..Cardinality(S) |-> CHOOSE x \in S : Rank(before, S, x) = n - 1]

\* Sorting loses no member and repeats none.
LEMMA OrderSorts ==
    ASSUME NEW S, IsFiniteSet(S), NEW before, Orders(before, S)
    PROVE  /\ InOrder(before, S) \in Seq(S) /\ Len(InOrder(before, S)) = Cardinality(S)
           /\ \A x \in S : \E i \in 1..Cardinality(S) : InOrder(before, S)[i] = x
           /\ \A i, j \in 1..Cardinality(S) :
                 i < j => <<InOrder(before, S)[i], InOrder(before, S)[j]>> \in before
<1> DEFINE n == Cardinality(S)
           at == InOrder(before, S)
           rank(x) == Rank(before, S, x)
<1>1. n \in Nat
  BY FS_CardinalityType
<1>2. ASSUME NEW i \in 1..n PROVE at[i] \in S /\ rank(at[i]) = i - 1
  <2>1. i - 1 \in 0..(n - 1)
    BY <1>1
  <2>2. \E x \in S : rank(x) = i - 1
    BY <2>1, RankIsTaken
  <2>3. at[i] = CHOOSE x \in S : rank(x) = i - 1
    BY DEF InOrder
  <2>4. QED
    BY <2>2, <2>3
<1>3. at \in [1..n -> S]
  <2>1. at = [i \in 1..n |-> at[i]]
    BY DEF InOrder
  <2>2. QED
    BY <1>2, <2>1
<1>4. at \in Seq(S) /\ Len(at) = n
  BY <1>1, <1>3
<1> HIDE DEF at
<1>5. ASSUME NEW x \in S PROVE \E i \in 1..n : at[i] = x
  <2>1. rank(x) \in 0..(n - 1)
    BY RankGrows
  <2>2. rank(x) + 1 \in 1..n /\ (rank(x) + 1) - 1 = rank(x)
    BY <1>1, <2>1
  <2> DEFINE i == rank(x) + 1
  <2>3. i \in 1..n /\ i - 1 = rank(x)
    BY <2>2
  <2> HIDE DEF i
  <2>4. at[i] \in S /\ rank(at[i]) = rank(x)
    BY <1>2, <2>3
  <2>5. at[i] = x
    BY <2>4, RankGrows
  <2>6. QED
    BY <2>3, <2>5
<1>6. ASSUME NEW i \in 1..n, NEW j \in 1..n, i < j PROVE <<at[i], at[j]>> \in before
  <2>1. at[i] \in S /\ at[j] \in S /\ rank(at[i]) = i - 1 /\ rank(at[j]) = j - 1
    BY <1>2
  <2>2. rank(at[i]) < rank(at[j])
    BY <1>6, <2>1
  <2>3. QED
    BY <2>1, <2>2, RankGrows
<1>7. QED
  BY <1>4, <1>5, <1>6 DEF at

\* Some member of a finite set comes last.
LEMMA LastInOrder ==
    ASSUME NEW S, IsFiniteSet(S), S # {}, NEW before, Orders(before, S)
    PROVE  \E x \in S : \A y \in S : <<x, y>> \notin before
<1>1. Cardinality(S) \in Nat \ {0}
  BY FS_CardinalityType, FS_EmptySet
<1>2. Cardinality(S) - 1 \in 0..(Cardinality(S) - 1)
  BY <1>1
<1>3. PICK x \in S : Rank(before, S, x) = Cardinality(S) - 1
  BY <1>2, RankIsTaken
<1>4. ASSUME NEW y \in S, <<x, y>> \in before PROVE FALSE
  <2>1. Rank(before, S, x) < Rank(before, S, y)
    BY <1>4, RankGrows
  <2>2. Rank(before, S, y) \in 0..(Cardinality(S) - 1)
    BY RankGrows
  <2>3. QED
    BY <1>1, <1>3, <2>1, <2>2
<1>5. QED
  BY <1>4

\* A finite set of integers has a greatest member.
LEMMA GreatestOf ==
    ASSUME NEW S, IsFiniteSet(S), S # {}, S \subseteq Int
    PROVE  Max(S) \in S /\ \A y \in S : y <= Max(S)
<1> DEFINE before == {p \in S \X S : p[1] < p[2]}
<1>1. \A x, y \in S : <<x, y>> \in before <=> x < y
  OBVIOUS
<1>2. \A x \in S : x \in Int
  OBVIOUS
<1> HIDE DEF before
<1>3. Orders(before, S)
  BY <1>1, <1>2 DEF Orders
<1>4. PICK x \in S : \A y \in S : <<x, y>> \notin before
  BY <1>3, LastInOrder, Zenon
<1>5. \A y \in S : x >= y
  <2>1. SUFFICES ASSUME NEW y \in S PROVE x >= y
    OBVIOUS
  <2>2. x \in Int /\ y \in Int /\ ~ (x < y)
    BY <1>1, <1>2, <1>4
  <2>3. QED
    BY <2>2
<1>6. Max(S) \in S /\ \A y \in S : Max(S) >= y
  BY <1>5 DEF Max
<1>7. QED
  BY <1>2, <1>6

\* The greatest of m and the values of f on S.
MostOf(f, S, m) == Max({m} \union {f[x] : x \in S})

\* It is m or one of the values, and no less than any of them.
LEMMA GreatestValue ==
    ASSUME NEW S, IsFiniteSet(S), NEW f, \A x \in S : f[x] \in Int, NEW m \in Int
    PROVE  /\ MostOf(f, S, m) \in Int /\ MostOf(f, S, m) >= m
           /\ MostOf(f, S, m) # m => \E x \in S : f[x] = MostOf(f, S, m)
           /\ \A x \in S : f[x] <= MostOf(f, S, m)
<1> DEFINE values == {f[x] : x \in S}
           h == [x \in S |-> f[x]]
<1>1. h \in Surjection(S, values)
  BY DEF Surjection
<1>2. IsFiniteSet(values)
  BY <1>1, FS_Surjection
<1>3. IsFiniteSet(values \union {m})
  BY <1>2, FS_AddElement
<1>4. {m} \union values = values \union {m} /\ values \union {m} \subseteq Int
  OBVIOUS
<1>5. values \union {m} # {}
  OBVIOUS
<1>6. /\ Max(values \union {m}) \in values \union {m}
      /\ \A y \in values \union {m} : y <= Max(values \union {m})
  BY <1>3, <1>4, <1>5, GreatestOf
<1>7. QED
  BY <1>4, <1>6 DEF MostOf

-----------------------------------------------------------------------------
(* Division and rounding. *)

\* Division rounds down.
LEMMA Quotient ==
    ASSUME NEW m \in Int, NEW n \in Nat \ {0}
    PROVE  /\ m \div n \in Int
           /\ (m \div n) * n <= m
           /\ m < (m \div n) * n + n
OBVIOUS

\* Of a number that is not negative, it is not negative either.
LEMMA QuotientIsNat ==
    ASSUME NEW m \in Nat, NEW n \in Nat \ {0}
    PROVE  m \div n \in Nat
<1>1. m \div n \in Int /\ (m \div n) * n <= m /\ m < (m \div n) * n + n
  BY Quotient
<1>2. SUFFICES ASSUME m \div n <= -1 PROVE FALSE
  BY <1>1
<1>3. (m \div n) * n <= (-1) * n
  BY <1>1, <1>2
<1>4. QED
  BY <1>1, <1>3

\* Division that rounds up: the least multiple that is large enough.
LEMMA CeilingCovers ==
    ASSUME NEW m \in Int, NEW n \in Nat \ {0}
    PROVE  /\ (m + n - 1) \div n \in Int
           /\ m <= ((m + n - 1) \div n) * n
           /\ ((m + n - 1) \div n) * n < m + n
<1>1. m + n - 1 \in Int
  OBVIOUS
<1>2. /\ (m + n - 1) \div n \in Int
      /\ ((m + n - 1) \div n) * n <= m + n - 1
      /\ m + n - 1 < ((m + n - 1) \div n) * n + n
  BY <1>1, Quotient
<1>3. QED
  BY <1>1, <1>2

\* A share a/b of m, with a <= b, is at most m.
LEMMA ShareFits ==
    ASSUME NEW m \in Nat, NEW a \in Nat, NEW b \in Nat \ {0}, a <= b
    PROVE  (m * a) \div b \in 0..m
<1>1. m * a \in Nat /\ m * a <= m * b
  OBVIOUS
<1>2. /\ (m * a) \div b \in Int
      /\ ((m * a) \div b) * b <= m * a
      /\ m * a < ((m * a) \div b) * b + b
  BY <1>1, Quotient
<1>3. (m * a) \div b <= m
  <2>1. SUFFICES ASSUME (m * a) \div b >= m + 1 PROVE FALSE
    BY <1>2
  <2>2. ((m * a) \div b) * b >= (m + 1) * b
    BY <1>2, <2>1
  <2>3. QED
    BY <1>1, <1>2, <2>2
<1>4. (m * a) \div b >= 0
  <2>1. SUFFICES ASSUME (m * a) \div b <= -1 PROVE FALSE
    BY <1>2
  <2>2. ((m * a) \div b) * b <= (-1) * b
    BY <1>2, <2>1
  <2>3. QED
    BY <1>1, <1>2, <2>2
<1>5. QED
  BY <1>2, <1>3, <1>4

\* Rounding down to units loses less than a unit.
LEMMA UnitsFit ==
    ASSUME NEW m \in Nat, NEW unit \in Nat \ {0}
    PROVE  (m \div unit) * unit \in 0..m /\ m - (m \div unit) * unit < unit
<1>1. /\ m \div unit \in Int /\ (m \div unit) * unit <= m /\ m < (m \div unit) * unit + unit
  BY Quotient
<1>2. m \div unit >= 0
  <2>1. SUFFICES ASSUME m \div unit <= -1 PROVE FALSE
    BY <1>1
  <2>2. (m \div unit) * unit <= (-1) * unit
    BY <1>1, <2>1
  <2>3. QED
    BY <1>1, <2>2
<1>3. QED
  BY <1>1, <1>2

\* The order of the factors does not matter.
LEMMA Regroup ==
    ASSUME NEW k \in Int, NEW m \in Int, NEW n \in Int
    PROVE  k * (m * n) = (k * n) * m /\ k * m * n = k * (m * n)
OBVIOUS

\* A product grows with its first factor.
LEMMA Scale ==
    ASSUME NEW k \in Int, NEW m \in Int, NEW n \in Nat, k <= m
    PROVE  k * n <= m * n
OBVIOUS

\* Division of a multiple, and what is left over.
LEMMA Multiples ==
    ASSUME NEW m \in Int, NEW n \in Nat \ {0}
    PROVE  /\ (m * n) \div n = m /\ (m * n) % n = 0
           /\ m % n = 0 => (m \div n) * n = m
<1>1. (m * n) \div n = m
  <2>1. m * n \in Int
    OBVIOUS
  <2> DEFINE q == (m * n) \div n
  <2>2. q \in Int /\ q * n <= m * n /\ m * n < q * n + n
    BY <2>1, Quotient
  <2> HIDE DEF q
  <2>3. q <= m
    <3>1. SUFFICES ASSUME q >= m + 1 PROVE FALSE
      BY <2>2
    <3>2. (m + 1) * n <= q * n
      BY <2>2, <3>1, Scale
    <3>3. QED
      BY <2>1, <2>2, <3>2
  <2>4. q >= m
    <3>1. SUFFICES ASSUME q <= m - 1 PROVE FALSE
      BY <2>2
    <3>2. q * n <= (m - 1) * n
      BY <2>2, <3>1, Scale
    <3>3. QED
      BY <2>1, <2>2, <3>2
  <2>5. QED
    BY <2>2, <2>3, <2>4 DEF q
<1>2. (m * n) % n = 0
  BY <1>1
<1>3. m % n = 0 => (m \div n) * n = m
  OBVIOUS
<1>4. QED
  BY <1>1, <1>2, <1>3

\* What fits a number of times, its quotient counts.
LEMMA QuotientCounts ==
    ASSUME NEW m \in Int, NEW n \in Nat \ {0}, NEW k \in Int, k * n <= m
    PROVE  k <= m \div n
<1>1. m \div n \in Int /\ m < (m \div n) * n + n /\ (m \div n) * n \in Int /\ k * n \in Int
  BY Quotient
<1>2. SUFFICES ASSUME m \div n <= k - 1 PROVE FALSE
  BY <1>1
<1>3. (m \div n) * n <= (k - 1) * n /\ (k - 1) * n = k * n - n
  BY <1>1, <1>2, Scale
<1>4. QED
  BY <1>1, <1>3
=============================================================================
