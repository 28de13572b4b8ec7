---------------------------- MODULE SumTheorems ----------------------------
(***************************************************************************)
(* Sums of a function over a finite set (SumFunctionOnSet of the community *)
(* modules), for the provers: quota used and held, tokens of a minute and  *)
(* spend windows are such sums.                                            *)
(*                                                                         *)
(* Induction is over sets of sets and not over an operator: FiniteInduction*)
(* is the least-counterexample principle, which the first-order provers    *)
(* can instantiate.  That the recursive definition of the sum has a        *)
(* solution (SumExists) is proved with it first.                           *)
(***************************************************************************)
EXTENDS FiniteSetsExt, FiniteSetTheorems, WellFoundedInduction, TLAPS

\* The element a sum takes from a set first
Pick(s) == CHOOSE x \in s : TRUE

\* g is a table of the sums of f over the sets in D
Sums(g, f, D) == g = [s \in D |-> IF s = {} THEN 0 ELSE f[Pick(s)] + g[s \ {Pick(s)}]]

\* What holds of a finite set if it holds of all its strict subsets holds of S
LEMMA FiniteInduction ==
    ASSUME NEW S, IsFiniteSet(S), NEW Good,
           \A T \in SUBSET S : (\A U \in SUBSET T : U # T => U \in Good) => T \in Good
    PROVE  S \in Good
  <1> DEFINE Bad == {T \in SUBSET S : T \notin Good}
  <1>1. IsWellFoundedOn(StrictSubsetOrdering(S), FiniteSubsetsOf(S))
    BY FS_StrictSubsetOrderingWellFounded
  <1>2. FiniteSubsetsOf(S) = SUBSET S
    BY FS_FiniteSubsetsOfFinite
  <1> SUFFICES ASSUME Bad # {} PROVE FALSE
    OBVIOUS
  <1>3. Bad \subseteq SUBSET S
    OBVIOUS
  <1>4. PICK T \in Bad : \A U \in Bad : ~(<<U, T>> \in StrictSubsetOrdering(S))
    <2> HIDE DEF Bad
    <2> QED
      BY <1>1, <1>2, <1>3, WFMin
  <1> QED
    BY <1>4 DEF StrictSubsetOrdering

\* ... and so it does if it holds of {}, and of every set that lacks the
\* element the sum takes first.
LEMMA PickInduction ==
    ASSUME NEW S, IsFiniteSet(S), NEW Good, {} \in Good,
           \A T \in SUBSET S : T # {} /\ T \ {Pick(T)} \in Good => T \in Good
    PROVE  S \in Good
  <1>1. \A T \in SUBSET S : (\A U \in SUBSET T : U # T => U \in Good) => T \in Good
    <2> SUFFICES ASSUME NEW T \in SUBSET S, \A U \in SUBSET T : U # T => U \in Good, T # {}
                 PROVE  T \in Good
      OBVIOUS
    <2>1. Pick(T) \in T
      BY DEF Pick
    <2>2. T \ {Pick(T)} \in SUBSET T /\ T \ {Pick(T)} # T
      BY <2>1
    <2>3. T \ {Pick(T)} \in Good
      BY <2>2
    <2> QED
      BY <2>3
  <1> QED
    BY <1>1, FiniteInduction

\* Every function has a table of sums, of the subsets of any finite set.
LEMMA SumExists ==
    ASSUME NEW f, NEW S, IsFiniteSet(S)
    PROVE  \E g : Sums(g, f, SUBSET S)
  <1> DEFINE Small(n) == {s \in SUBSET S : Cardinality(s) <= n}
             Good == {T \in SUBSET S : \E g : Sums(g, f, Small(Cardinality(T)))}
  <1>1. \A T \in SUBSET S : IsFiniteSet(T) /\ Cardinality(T) \in Nat
    BY FS_Subset, FS_CardinalityType
  <1>2. {} \in Good
    <2>1. Small(Cardinality({})) = {{}}
      BY <1>1, FS_EmptySet
    <2> DEFINE g == [s \in {{}} |-> 0]
    <2>2. Sums(g, f, {{}})
      BY DEF Sums
    <2> QED
      BY <2>1, <2>2
  <1>3. ASSUME NEW T \in SUBSET S, T # {}, T \ {Pick(T)} \in Good PROVE T \in Good
    <2> DEFINE n == Cardinality(T)
    <2>1. Pick(T) \in T
      BY <1>3 DEF Pick
    <2>2. n \in Nat /\ Cardinality(T \ {Pick(T)}) = n - 1
      BY <1>1, <2>1, FS_RemoveElement
    <2>3. PICK g : Sums(g, f, Small(n - 1))
      BY <1>3, <2>2
    <2> DEFINE h == [s \in Small(n) |-> IF s = {} THEN 0 ELSE f[Pick(s)] + g[s \ {Pick(s)}]]
    <2>4. Small(n - 1) \subseteq Small(n)
      BY <1>1, <2>2
    <2>5. \A s \in Small(n - 1) : h[s] = g[s]
      <3> HIDE DEF Small, n
      <3> QED
        BY <2>3, <2>4 DEF Sums
    <2>6. ASSUME NEW s \in Small(n), s # {} PROVE s \ {Pick(s)} \in Small(n - 1)
      <3>1. Pick(s) \in s
        BY <2>6 DEF Pick
      <3>2. Cardinality(s \ {Pick(s)}) = Cardinality(s) - 1
        BY <1>1, <3>1, FS_RemoveElement
      <3> HIDE DEF n
      <3> QED
        BY <1>1, <2>2, <3>2
    <2>7. Sums(h, f, Small(n))
      <3> HIDE DEF Small, n
      <3> QED
        BY <2>5, <2>6 DEF Sums
    <2> QED
      BY <2>7
  <1>4. S \in Good
    <2> HIDE DEF Good
    <2> QED
      BY <1>2, <1>3, PickInduction
  <1>5. Small(Cardinality(S)) = SUBSET S
    BY <1>1, FS_Subset
  <1> QED
    BY <1>4, <1>5

\* Tables of the same function agree where they overlap.
LEMMA SumUnique ==
    ASSUME NEW f, NEW S, NEW T, NEW g, NEW h, Sums(g, f, SUBSET S), Sums(h, f, SUBSET T),
           NEW U \in (SUBSET S) \cap (SUBSET T), IsFiniteSet(U)
    PROVE  g[U] = h[U]
  <1> DEFINE Good == {V \in SUBSET U : g[V] = h[V]}
  <1>1. {} \in Good
    BY DEF Sums
  <1>2. ASSUME NEW V \in SUBSET U, V # {}, V \ {Pick(V)} \in Good PROVE V \in Good
    BY <1>2 DEF Sums
  <1>3. U \in Good
    <2> HIDE DEF Good
    <2> QED
      BY <1>1, <1>2, PickInduction
  <1> QED
    BY <1>3

\* The sum over S is the entry of S in such a table.
LEMMA SumIsSums ==
    ASSUME NEW f, NEW S, IsFiniteSet(S)
    PROVE  \E g : Sums(g, f, SUBSET S) /\ SumFunctionOnSet(f, S) = g[S]
  <1>1. SumFunctionOnSet(f, S) = (CHOOSE g : Sums(g, f, SUBSET S))[S]
    BY DEF SumFunctionOnSet, FoldFunctionOnSet, MapThenFoldSet, Sums, Pick
  <1> QED
    BY <1>1, SumExists

\* The sum over no element is 0.
LEMMA SumEmpty == ASSUME NEW f PROVE SumFunctionOnSet(f, {}) = 0
  <1>1. PICK g : Sums(g, f, SUBSET {}) /\ SumFunctionOnSet(f, {}) = g[{}]
    BY SumIsSums, FS_EmptySet
  <1> QED
    BY <1>1 DEF Sums

\* The recursion of the definition.
LEMMA SumPick ==
    ASSUME NEW f, NEW S, IsFiniteSet(S), S # {}
    PROVE  SumFunctionOnSet(f, S) = f[Pick(S)] + SumFunctionOnSet(f, S \ {Pick(S)})
  <1> DEFINE U == S \ {Pick(S)}
  <1>1. PICK g : Sums(g, f, SUBSET S) /\ SumFunctionOnSet(f, S) = g[S]
    BY SumIsSums
  <1>2. IsFiniteSet(U) /\ U \in (SUBSET S) \cap (SUBSET U)
    BY FS_RemoveElement
  <1>3. PICK h : Sums(h, f, SUBSET U) /\ SumFunctionOnSet(f, U) = h[U]
    BY <1>2, SumIsSums
  <1>4. h[U] = g[U]
    <2> HIDE DEF U
    <2>1. Sums(g, f, SUBSET S) /\ Sums(h, f, SUBSET U) /\ IsFiniteSet(U)
           /\ U \in (SUBSET S) \cap (SUBSET U)
      BY <1>1, <1>2, <1>3
    <2> QED
      BY <2>1, SumUnique
  <1> QED
    BY <1>1, <1>3, <1>4 DEF Sums

\* A sum of integers is an integer,
LEMMA SumType ==
    ASSUME NEW S, IsFiniteSet(S), NEW f, \A x \in S : f[x] \in Int
    PROVE  SumFunctionOnSet(f, S) \in Int
  <1> DEFINE Good == {T \in SUBSET S : SumFunctionOnSet(f, T) \in Int}
  <1>1. {} \in Good
    BY SumEmpty
  <1>2. ASSUME NEW T \in SUBSET S, T # {}, T \ {Pick(T)} \in Good PROVE T \in Good
    <2> DEFINE c == Pick(T)
    <2>1. c \in T /\ IsFiniteSet(T)
      BY <1>2, FS_Subset DEF Pick
    <2>2. SumFunctionOnSet(f, T) = f[c] + SumFunctionOnSet(f, T \ {c})
      BY <1>2, <2>1, SumPick
    <2>3. f[c] \in Int /\ SumFunctionOnSet(f, T \ {c}) \in Int
      BY <1>2, <2>1
    <2> HIDE DEF c
    <2> QED
      BY <2>2, <2>3
  <1>3. S \in Good
    <2> HIDE DEF Good
    <2> QED
      BY <1>1, <1>2, PickInduction
  <1> QED
    BY <1>3

\* ... and one of natural numbers a natural number.
LEMMA SumNat ==
    ASSUME NEW S, IsFiniteSet(S), NEW f, \A x \in S : f[x] \in Nat
    PROVE  SumFunctionOnSet(f, S) \in Nat
  <1> DEFINE Good == {T \in SUBSET S : SumFunctionOnSet(f, T) \in Nat}
  <1>1. {} \in Good
    BY SumEmpty
  <1>2. ASSUME NEW T \in SUBSET S, T # {}, T \ {Pick(T)} \in Good PROVE T \in Good
    <2> DEFINE c == Pick(T)
    <2>1. c \in T /\ IsFiniteSet(T)
      BY <1>2, FS_Subset DEF Pick
    <2>2. SumFunctionOnSet(f, T) = f[c] + SumFunctionOnSet(f, T \ {c})
      BY <1>2, <2>1, SumPick
    <2>3. f[c] \in Nat /\ SumFunctionOnSet(f, T \ {c}) \in Nat
      BY <1>2, <2>1
    <2> HIDE DEF c
    <2> QED
      BY <2>2, <2>3
  <1>3. S \in Good
    <2> HIDE DEF Good
    <2> QED
      BY <1>1, <1>2, PickInduction
  <1> QED
    BY <1>3

\* Any element of the set may be taken first.
LEMMA SumRemove ==
    ASSUME NEW S, IsFiniteSet(S), NEW f, \A x \in S : f[x] \in Int, NEW e \in S
    PROVE  SumFunctionOnSet(f, S) = f[e] + SumFunctionOnSet(f, S \ {e})
  <1> DEFINE Good == {T \in SUBSET S : \A x \in T :
                        SumFunctionOnSet(f, T) = f[x] + SumFunctionOnSet(f, T \ {x})}
  <1>1. ASSUME NEW T \in SUBSET S, \A U \in SUBSET T : U # T => U \in Good PROVE T \in Good
    <2> SUFFICES ASSUME NEW x \in T
                 PROVE  SumFunctionOnSet(f, T) = f[x] + SumFunctionOnSet(f, T \ {x})
      OBVIOUS
    <2> DEFINE c == Pick(T)
               rest == SumFunctionOnSet(f, (T \ {x}) \ {c})
    <2>1. c \in T
      BY DEF Pick
    <2>2. \A U \in SUBSET S : IsFiniteSet(U) /\ SumFunctionOnSet(f, U) \in Int
      BY FS_Subset, SumType
    <2>3. SumFunctionOnSet(f, T) = f[c] + SumFunctionOnSet(f, T \ {c})
      BY <2>2, SumPick
    <2>4. CASE x # c
      <3>1. T \ {c} \in Good /\ T \ {x} \in Good /\ x \in T \ {c} /\ c \in T \ {x}
        BY <1>1, <2>1, <2>4
      <3>2. (T \ {c}) \ {x} = (T \ {x}) \ {c} /\ (T \ {x}) \ {c} \in SUBSET S
        OBVIOUS
      <3>3. SumFunctionOnSet(f, T \ {c}) = f[x] + rest
        BY <3>1, <3>2
      <3>4. SumFunctionOnSet(f, T \ {x}) = f[c] + rest
        BY <3>1
      <3>5. f[x] \in Int /\ f[c] \in Int /\ rest \in Int
        BY <2>1, <2>2, <3>2
      <3> HIDE DEF c, rest
      <3> QED
        BY <2>3, <3>3, <3>4, <3>5
    <2> QED
      BY <2>3, <2>4
  <1>2. S \in Good
    <2> HIDE DEF Good
    <2> QED
      BY <1>1, FiniteInduction
  <1> QED
    BY <1>2

\* Functions that agree on the set have the same sum.
LEMMA SumSame ==
    ASSUME NEW S, IsFiniteSet(S), NEW f, NEW g, \A x \in S : f[x] = g[x]
    PROVE  SumFunctionOnSet(f, S) = SumFunctionOnSet(g, S)
  <1> DEFINE Good == {T \in SUBSET S : SumFunctionOnSet(f, T) = SumFunctionOnSet(g, T)}
  <1>1. {} \in Good
    BY SumEmpty
  <1>2. ASSUME NEW T \in SUBSET S, T # {}, T \ {Pick(T)} \in Good PROVE T \in Good
    <2> DEFINE c == Pick(T)
    <2>1. c \in T /\ IsFiniteSet(T)
      BY <1>2, FS_Subset DEF Pick
    <2>2. /\ SumFunctionOnSet(f, T) = f[c] + SumFunctionOnSet(f, T \ {c})
          /\ SumFunctionOnSet(g, T) = g[c] + SumFunctionOnSet(g, T \ {c})
      BY <1>2, <2>1, SumPick
    <2>3. f[c] = g[c] /\ SumFunctionOnSet(f, T \ {c}) = SumFunctionOnSet(g, T \ {c})
      BY <1>2, <2>1
    <2> HIDE DEF c
    <2> QED
      BY <2>2, <2>3
  <1>3. S \in Good
    <2> HIDE DEF Good
    <2> QED
      BY <1>1, <1>2, PickInduction
  <1> QED
    BY <1>3

\* Nothing adds up to nothing.
LEMMA SumZero ==
    ASSUME NEW S, IsFiniteSet(S), NEW f, \A x \in S : f[x] = 0
    PROVE  SumFunctionOnSet(f, S) = 0
  <1> DEFINE Good == {T \in SUBSET S : SumFunctionOnSet(f, T) = 0}
  <1>1. {} \in Good
    BY SumEmpty
  <1>2. ASSUME NEW T \in SUBSET S, T # {}, T \ {Pick(T)} \in Good PROVE T \in Good
    <2> DEFINE c == Pick(T)
    <2>1. c \in T /\ IsFiniteSet(T)
      BY <1>2, FS_Subset DEF Pick
    <2>2. SumFunctionOnSet(f, T) = f[c] + SumFunctionOnSet(f, T \ {c})
      BY <1>2, <2>1, SumPick
    <2>3. f[c] = 0 /\ SumFunctionOnSet(f, T \ {c}) = 0
      BY <1>2, <2>1
    <2> HIDE DEF c
    <2> QED
      BY <2>2, <2>3
  <1>3. S \in Good
    <2> HIDE DEF Good
    <2> QED
      BY <1>1, <1>2, PickInduction
  <1> QED
    BY <1>3

\* A larger function has no smaller sum.
LEMMA SumMonotone ==
    ASSUME NEW S, IsFiniteSet(S), NEW f, NEW g,
           \A x \in S : f[x] \in Int /\ g[x] \in Int /\ f[x] <= g[x]
    PROVE  SumFunctionOnSet(f, S) <= SumFunctionOnSet(g, S)
  <1> DEFINE Good == {T \in SUBSET S : SumFunctionOnSet(f, T) <= SumFunctionOnSet(g, T)}
  <1>1. {} \in Good
    <2>1. SumFunctionOnSet(f, {}) = 0 /\ SumFunctionOnSet(g, {}) = 0
      BY SumEmpty
    <2> QED
      BY <2>1
  <1>2. ASSUME NEW T \in SUBSET S, T # {}, T \ {Pick(T)} \in Good PROVE T \in Good
    <2> DEFINE c == Pick(T)
    <2>1. c \in T /\ IsFiniteSet(T) /\ IsFiniteSet(T \ {c})
      BY <1>2, FS_Subset DEF Pick
    <2>2. SumFunctionOnSet(f, T \ {c}) \in Int /\ SumFunctionOnSet(g, T \ {c}) \in Int
      BY <2>1, SumType
    <2>3. /\ SumFunctionOnSet(f, T) = f[c] + SumFunctionOnSet(f, T \ {c})
          /\ SumFunctionOnSet(g, T) = g[c] + SumFunctionOnSet(g, T \ {c})
      BY <1>2, <2>1, SumPick
    <2>4. f[c] \in Int /\ g[c] \in Int /\ f[c] <= g[c]
      BY <2>1
    <2>5. SumFunctionOnSet(f, T \ {c}) <= SumFunctionOnSet(g, T \ {c})
      BY <1>2
    <2> HIDE DEF c
    <2> QED
      BY <2>2, <2>3, <2>4, <2>5
  <1>3. S \in Good
    <2> HIDE DEF Good
    <2> QED
      BY <1>1, <1>2, PickInduction
  <1> QED
    BY <1>3

\* The sum of two functions has the sum of their sums.
LEMMA SumPlus ==
    ASSUME NEW S, IsFiniteSet(S), NEW f, NEW g, NEW h,
           \A x \in S : f[x] \in Int /\ g[x] \in Int /\ h[x] = f[x] + g[x]
    PROVE  SumFunctionOnSet(h, S) = SumFunctionOnSet(f, S) + SumFunctionOnSet(g, S)
  <1> DEFINE Good == {T \in SUBSET S :
                        SumFunctionOnSet(h, T) = SumFunctionOnSet(f, T) + SumFunctionOnSet(g, T)}
  <1>1. {} \in Good
    <2>1. SumFunctionOnSet(f, {}) = 0 /\ SumFunctionOnSet(g, {}) = 0 /\ SumFunctionOnSet(h, {}) = 0
      BY SumEmpty
    <2> QED
      BY <2>1
  <1>2. ASSUME NEW T \in SUBSET S, T # {}, T \ {Pick(T)} \in Good PROVE T \in Good
    <2> DEFINE c == Pick(T)
    <2>1. c \in T /\ IsFiniteSet(T) /\ IsFiniteSet(T \ {c})
      BY <1>2, FS_Subset DEF Pick
    <2>2. SumFunctionOnSet(f, T \ {c}) \in Int /\ SumFunctionOnSet(g, T \ {c}) \in Int
      BY <2>1, SumType
    <2>3. /\ SumFunctionOnSet(f, T) = f[c] + SumFunctionOnSet(f, T \ {c})
          /\ SumFunctionOnSet(g, T) = g[c] + SumFunctionOnSet(g, T \ {c})
          /\ SumFunctionOnSet(h, T) = h[c] + SumFunctionOnSet(h, T \ {c})
      BY <1>2, <2>1, SumPick
    <2>4. f[c] \in Int /\ g[c] \in Int /\ h[c] = f[c] + g[c]
      BY <2>1
    <2>5. SumFunctionOnSet(h, T \ {c}) = SumFunctionOnSet(f, T \ {c}) + SumFunctionOnSet(g, T \ {c})
      BY <1>2
    <2> HIDE DEF c
    <2> QED
      BY <2>2, <2>3, <2>4, <2>5
  <1>3. S \in Good
    <2> HIDE DEF Good
    <2> QED
      BY <1>1, <1>2, PickInduction
  <1> QED
    BY <1>3

\* One more element adds its value.
LEMMA SumAdd ==
    ASSUME NEW S, IsFiniteSet(S), NEW f, NEW e, e \notin S, \A x \in S \cup {e} : f[x] \in Int
    PROVE  SumFunctionOnSet(f, S \cup {e}) = f[e] + SumFunctionOnSet(f, S)
  <1>1. IsFiniteSet(S \cup {e})
    BY FS_AddElement
  <1>2. (S \cup {e}) \ {e} = S
    OBVIOUS
  <1>3. SumFunctionOnSet(f, S \cup {e}) = f[e] + SumFunctionOnSet(f, (S \cup {e}) \ {e})
    BY <1>1, SumRemove
  <1> QED
    BY <1>2, <1>3

\* A change of one value changes the sum by as much.
LEMMA SumChange ==
    ASSUME NEW S, IsFiniteSet(S), NEW f, NEW g, NEW e \in S, f[e] \in Int, g[e] \in Int,
           \A x \in S \ {e} : f[x] \in Int /\ g[x] = f[x]
    PROVE  SumFunctionOnSet(g, S) = SumFunctionOnSet(f, S) + (g[e] - f[e])
  <1>1. IsFiniteSet(S \ {e})
    BY FS_RemoveElement
  <1>2. SumFunctionOnSet(f, S) = f[e] + SumFunctionOnSet(f, S \ {e})
    BY SumRemove
  <1>3. SumFunctionOnSet(g, S) = g[e] + SumFunctionOnSet(g, S \ {e})
    BY SumRemove
  <1>4. SumFunctionOnSet(g, S \ {e}) = SumFunctionOnSet(f, S \ {e})
    BY <1>1, SumSame
  <1>5. SumFunctionOnSet(f, S \ {e}) \in Int
    BY <1>1, SumType
  <1> QED
    BY <1>2, <1>3, <1>4, <1>5

\* A sum over part of a set is one over the whole, with 0 for the others.
LEMMA SumWhere ==
    ASSUME NEW S, IsFiniteSet(S), NEW f, NEW P \in SUBSET S, \A x \in P : f[x] \in Int
    PROVE  SumFunctionOnSet(f, P) = SumFunctionOnSet([x \in S |-> IF x \in P THEN f[x] ELSE 0], S)
  <1> DEFINE g == [x \in S |-> IF x \in P THEN f[x] ELSE 0]
             Good == {T \in SUBSET S : SumFunctionOnSet(f, T \cap P) = SumFunctionOnSet(g, T)}
  <1>1. {} \in Good
    <2>1. SumFunctionOnSet(f, {}) = 0 /\ SumFunctionOnSet(g, {}) = 0 /\ {} \cap P = {}
      BY SumEmpty
    <2> QED
      BY <2>1
  <1>2. ASSUME NEW T \in SUBSET S, T # {}, T \ {Pick(T)} \in Good PROVE T \in Good
    <2> DEFINE c == Pick(T)
               U == T \ {c}
    <2>1. c \in T /\ IsFiniteSet(T) /\ IsFiniteSet(T \cap P) /\ IsFiniteSet(U \cap P)
      BY <1>2, FS_Subset DEF Pick
    <2>2. SumFunctionOnSet(f, U \cap P) = SumFunctionOnSet(g, U)
      BY <1>2
    <2>3. SumFunctionOnSet(g, T) = g[c] + SumFunctionOnSet(g, U)
      BY <1>2, <2>1, SumPick
    <2>4. SumFunctionOnSet(f, U \cap P) \in Int
      BY <2>1, SumType
    <2>5. CASE c \in P
      <3>1. c \in T \cap P /\ (T \cap P) \ {c} = U \cap P /\ \A x \in T \cap P : f[x] \in Int
        BY <2>1, <2>5
      <3>2. SumFunctionOnSet(f, T \cap P) = f[c] + SumFunctionOnSet(f, (T \cap P) \ {c})
        <4> HIDE DEF c
        <4> QED
          BY <3>1, <2>1, SumRemove
      <3>3. g[c] = f[c]
        BY <2>1, <2>5
      <3> HIDE DEF c, g, U
      <3>4. SumFunctionOnSet(f, T \cap P) = SumFunctionOnSet(g, T)
        BY <2>2, <2>3, <3>1, <3>2, <3>3
      <3> QED
        BY <3>4
    <2>6. CASE c \notin P
      <3>1. T \cap P = U \cap P
        BY <2>6
      <3>2. g[c] = 0
        BY <2>1, <2>6
      <3> HIDE DEF c, g, U
      <3>3. SumFunctionOnSet(f, T \cap P) = SumFunctionOnSet(g, T)
        BY <2>2, <2>3, <2>4, <3>1, <3>2
      <3> QED
        BY <3>3
    <2> QED
      BY <2>5, <2>6
  <1>3. S \in Good
    <2> HIDE DEF Good
    <2> QED
      BY <1>1, <1>2, PickInduction
  <1> QED
    BY <1>3

\* The sum over two sets without a common element
LEMMA SumUnion ==
    ASSUME NEW A, IsFiniteSet(A), NEW B, IsFiniteSet(B), A \cap B = {}, NEW f, \A x \in A \cup B : f[x] \in Int
    PROVE  SumFunctionOnSet(f, A \cup B) = SumFunctionOnSet(f, A) + SumFunctionOnSet(f, B)
  <1> DEFINE S == A \cup B
             fA == [x \in S |-> IF x \in A THEN f[x] ELSE 0]
             fB == [x \in S |-> IF x \in B THEN f[x] ELSE 0]
  <1>1. IsFiniteSet(S) /\ A \in SUBSET S /\ B \in SUBSET S
    BY FS_Union
  <1>2. (\A x \in A : f[x] \in Int) /\ (\A x \in B : f[x] \in Int)
    OBVIOUS
  <1>3. SumFunctionOnSet(f, A) = SumFunctionOnSet(fA, S)
    <2> HIDE DEF S
    <2> QED
      BY <1>1, <1>2, SumWhere
  <1>4. SumFunctionOnSet(f, B) = SumFunctionOnSet(fB, S)
    <2> HIDE DEF S
    <2> QED
      BY <1>1, <1>2, SumWhere
  <1>5. \A x \in S : fA[x] \in Int /\ fB[x] \in Int /\ f[x] = fA[x] + fB[x]
    OBVIOUS
  <1>6. SumFunctionOnSet(f, S) = SumFunctionOnSet(fA, S) + SumFunctionOnSet(fB, S)
    <2> HIDE DEF S, fA, fB
    <2> QED
      BY <1>1, <1>5, SumPlus
  <1> QED
    BY <1>3, <1>4, <1>6

\* Part of a set of natural numbers has no larger sum.
LEMMA SumSubset ==
    ASSUME NEW S, IsFiniteSet(S), NEW P \in SUBSET S, NEW f, \A x \in S : f[x] \in Nat
    PROVE  SumFunctionOnSet(f, P) <= SumFunctionOnSet(f, S)
  <1> DEFINE rest == S \ P
             all == P \cup rest
  <1>1. IsFiniteSet(P) /\ IsFiniteSet(rest) /\ P \cap rest = {} /\ all = S
    BY FS_Subset
  <1>2. (\A x \in all : f[x] \in Int) /\ (\A x \in P : f[x] \in Nat) /\ (\A x \in rest : f[x] \in Nat)
    OBVIOUS
  <1>3. SumFunctionOnSet(f, all) = SumFunctionOnSet(f, P) + SumFunctionOnSet(f, rest)
    <2> HIDE DEF rest
    <2> QED
      BY <1>1, <1>2, SumUnion
  <1>4. SumFunctionOnSet(f, P) \in Nat /\ SumFunctionOnSet(f, rest) \in Nat
    <2> HIDE DEF rest
    <2> QED
      BY <1>1, <1>2, SumNat
  <1> HIDE DEF all, rest
  <1> QED
    BY <1>1, <1>3, <1>4

\* The elements of S that m puts in a class, and in a class of K.
ClassOf(S, m, k) == {x \in S : m[x] = k}
\* The elements whose class is one of K
ClassesOf(S, m, K) == {x \in S : m[x] \in K}

\* A sum may be taken by classes: m names the class of an element.
LEMMA SumByClass ==
    ASSUME NEW S, IsFiniteSet(S), NEW K, IsFiniteSet(K), NEW m, NEW f, \A x \in S : f[x] \in Int,
           NEW g, \A k \in K : g[k] = SumFunctionOnSet(f, ClassOf(S, m, k))
    PROVE  SumFunctionOnSet(g, K) = SumFunctionOnSet(f, ClassesOf(S, m, K))
  <1> DEFINE In(L) == ClassesOf(S, m, L)
             Good == {L \in SUBSET K : SumFunctionOnSet(g, L) = SumFunctionOnSet(f, In(L))}
  <1>1. {} \in Good
    <2>1. In({}) = {}
      BY DEF ClassesOf, ClassOf
    <2> HIDE DEF In
    <2> QED
      BY <2>1, SumEmpty
  <1>2. ASSUME NEW L \in SUBSET K, L # {}, L \ {Pick(L)} \in Good PROVE L \in Good
    <2> DEFINE c == Pick(L)
               A == In(L \ {c})
               B == ClassOf(S, m, c)
    <2>1. c \in L /\ IsFiniteSet(L)
      BY <1>2, FS_Subset DEF Pick
    <2>2. SumFunctionOnSet(g, L) = g[c] + SumFunctionOnSet(g, L \ {c})
      BY <1>2, <2>1, SumPick
    <2>3. In(L) = A \cup B /\ A \cap B = {}
      BY <2>1 DEF ClassesOf, ClassOf
    <2>4. IsFiniteSet(A) /\ IsFiniteSet(B)
      BY FS_Subset DEF ClassesOf, ClassOf
    <2>5. \A x \in A \cup B : f[x] \in Int
      BY DEF ClassesOf, ClassOf
    <2>6. /\ SumFunctionOnSet(f, A \cup B) = SumFunctionOnSet(f, A) + SumFunctionOnSet(f, B)
          /\ SumFunctionOnSet(f, A) \in Int /\ SumFunctionOnSet(f, B) \in Int
      <3> HIDE DEF A, B
      <3> QED
        BY <2>3, <2>4, <2>5, SumUnion, SumType
    <2>7. g[c] = SumFunctionOnSet(f, B)
      BY <2>1
    <2>8. SumFunctionOnSet(g, L \ {c}) = SumFunctionOnSet(f, A)
      BY <1>2
    <2>9. SumFunctionOnSet(g, L) = SumFunctionOnSet(f, In(L))
      <3> HIDE DEF A, B, In, c
      <3> QED
        BY <2>2, <2>3, <2>6, <2>7, <2>8
    <2> QED
      BY <2>9
  <1>3. K \in Good
    <2> HIDE DEF Good
    <2> QED
      BY <1>1, <1>2, PickInduction
  <1> QED
    BY <1>3

----------------------------------------------------------------------------
(* Induction over numbers, in the same way. *)

\* What holds of 0, and of a number if it holds of the one before, holds up to n.
LEMMA NumberInduction ==
    ASSUME NEW n \in Nat, NEW Good, 0 \in Good, \A k \in 1..n : k - 1 \in Good => k \in Good
    PROVE  \A k \in 0..n : k \in Good
  <1> SUFFICES ASSUME NEW m \in 0..n PROVE m \in Good
    OBVIOUS
  <1> DEFINE S == 0..m
             Fine == {T \in SUBSET S : \A k \in 0..m : T = 0..k => k \in Good}
  <1>0. m \in Nat /\ m <= n
    OBVIOUS
  <1>1. \A T \in SUBSET S : (\A U \in SUBSET T : U # T => U \in Fine) => T \in Fine
    <2> SUFFICES ASSUME NEW T \in SUBSET S, \A U \in SUBSET T : U # T => U \in Fine,
                        NEW k \in 0..m, T = 0..k, k # 0
                 PROVE  k \in Good
      OBVIOUS
    <2>0. k \in Nat /\ k <= m /\ k - 1 \in 0..m /\ k \in 1..n
      BY <1>0
    <2>1. 0..(k - 1) \in SUBSET T
      BY <2>0
    <2>2. k \in T /\ k \notin 0..(k - 1)
      BY <2>0
    <2>3. 0..(k - 1) # T
      BY <2>2
    <2>4. 0..(k - 1) \in Fine
      BY <2>1, <2>3
    <2>5. k - 1 \in Good
      BY <2>0, <2>4
    <2> QED
      BY <2>0, <2>5
  <1>2. IsFiniteSet(S)
    BY <1>0, FS_Interval
  <1>3. S \in Fine
    <2> HIDE DEF Fine, S
    <2> QED
      BY <1>1, <1>2, FiniteInduction
  <1> QED
    BY <1>0, <1>3

\* Of some numbers up to n one is the least.
LEMMA LeastNumber ==
    ASSUME NEW n \in Nat, NEW S \in SUBSET (0..n), S # {}
    PROVE  \E i \in S : \A j \in S : i <= j
  <1> SUFFICES ASSUME \A i \in S : \E j \in S : j < i PROVE FALSE
    OBVIOUS
  <1> DEFINE Good == {k \in 0..n : S \cap (0..k) = {}}
  <1>1. 0 \in Good
    OBVIOUS
  <1>2. ASSUME NEW k \in 1..n, k - 1 \in Good PROVE k \in Good
    <2>1. 0..k = (0..(k - 1)) \cup {k}
      OBVIOUS
    <2>2. k \notin S
      BY <1>2
    <2> QED
      BY <1>2, <2>1, <2>2
  <1>3. n \in Good
    <2> HIDE DEF Good
    <2> QED
      BY <1>1, <1>2, NumberInduction
  <1> QED
    BY <1>3

\* Among finitely many numbers there is one of every rank.
LEMMA RankExists ==
    ASSUME NEW n \in Nat, NEW S \in SUBSET (1..n), NEW r \in 1..Cardinality(S)
    PROVE  \E i \in S : Cardinality({j \in S : j <= i}) = r
  <1> DEFINE Below(i) == {j \in S : j <= i}
             Far == {i \in 0..n : Cardinality(Below(i)) >= r}
  <1>1. IsFiniteSet(S) /\ Cardinality(S) \in Nat
    <2>1. IsFiniteSet(1..n)
      BY FS_Interval
    <2> QED
      BY <2>1, FS_Subset, FS_CardinalityType
  <1>2. \A i : IsFiniteSet(Below(i)) /\ Cardinality(Below(i)) \in Nat
    <2> SUFFICES ASSUME NEW i PROVE IsFiniteSet(Below(i)) /\ Cardinality(Below(i)) \in Nat
      OBVIOUS
    <2>1. Below(i) \in SUBSET S
      OBVIOUS
    <2> HIDE DEF Below
    <2> QED
      BY <1>1, <2>1, FS_Subset, FS_CardinalityType
  <1>3. \A i \in S : i \in 1..n /\ i \in Int
    OBVIOUS
  <1>4. n \in Far
    <2>1. \A j \in S : j <= n
      BY <1>3
    <2>2. Below(n) = S
      BY <2>1
    <2> QED
      BY <1>1, <2>2
  <1>5. PICK i \in Far : \A j \in Far : i <= j
    <2>1. Far \in SUBSET (0..n) /\ Far # {}
      BY <1>4
    <2> HIDE DEF Far
    <2> QED
      BY <2>1, LeastNumber
  <1>6. i # 0
    <2>1. \A j \in S : ~(j <= 0)
      BY <1>3
    <2>2. Below(0) = {}
      BY <2>1
    <2>3. Cardinality(Below(0)) = 0
      BY <2>2, FS_EmptySet
    <2> QED
      BY <1>5, <2>3
  <1>7. i \in Nat /\ Cardinality(Below(i - 1)) < r
    <2>1. i \in 0..n /\ i - 1 \in 0..n
      BY <1>5, <1>6
    <2>2. i - 1 \notin Far
      <3> HIDE DEF Far
      <3>1. ~(i <= i - 1)
        BY <2>1
      <3> QED
        BY <1>5, <3>1
    <2>3. ~(Cardinality(Below(i - 1)) >= r)
      BY <2>1, <2>2
    <2> HIDE DEF Below, Far
    <2> QED
      BY <1>1, <1>2, <2>1, <2>3
  <1>8. CASE i \in S
    <2>0. \A j \in S : (j <= i <=> j <= i - 1 \/ j = i) /\ ~(i <= i - 1)
      BY <1>3, <1>7
    <2>1. Below(i) = Below(i - 1) \cup {i} /\ i \notin Below(i - 1)
      BY <1>8, <2>0
    <2>2. Cardinality(Below(i)) >= r
      BY <1>5
    <2> HIDE DEF Below, Far
    <2>3. Cardinality(Below(i)) = Cardinality(Below(i - 1)) + 1
      BY <1>2, <2>1, FS_AddElement
    <2>4. Cardinality(Below(i)) = r
      BY <1>1, <1>2, <1>7, <2>2, <2>3
    <2> QED
      BY <1>8, <2>4 DEF Below
  <1>9. CASE i \notin S
    <2>0. \A j \in S : j <= i <=> j <= i - 1
      BY <1>3, <1>7, <1>9
    <2>1. Below(i) = Below(i - 1)
      BY <2>0
    <2>2. Cardinality(Below(i)) >= r
      BY <1>5
    <2> HIDE DEF Below, Far
    <2> QED
      BY <1>1, <1>2, <1>7, <2>1, <2>2
  <1> QED
    BY <1>8, <1>9
=============================================================================
