---------------------------- MODULE SumTheorems ----------------------------
(***************************************************************************)
(* Facts about sums over finite sets, SumFunctionOnSet and MapThenSumSet   *)
(* of the community modules: the meters of a broker key, of an identity's  *)
(* window and of a signed order are compared with such sums.  The library  *)
(* takes the elements in an arbitrary but fixed order; SumInsert says that *)
(* the order does not matter.  Then, about the functions by which the      *)
(* models read a file line by line: the function defined by what the last  *)
(* index adds to all before it exists, and keeps a type that every step    *)
(* keeps.  Every induction is an appeal to a smallest counterexample.      *)
(***************************************************************************)
EXTENDS Integers, Functions, FiniteSetsExt, FiniteSetTheorems, TLAPS

(* The element the library takes next, and the function its sum is read     *)
(* off.                                                                     *)
First(s) == CHOOSE x \in s : TRUE
IsIter(F, w, U) ==
  F = [s \in SUBSET U |-> IF s = {} THEN 0 ELSE w[First(s)] + F[s \ {First(s)}]]
Iter(w, U) == CHOOSE F : IsIter(F, w, U)

(* A non-empty set of subsets of a finite set has a smallest element.       *)
LEMMA SmallestSubset ==
  ASSUME NEW U, IsFiniteSet(U), NEW T, T \subseteq SUBSET U, T # {}
  PROVE  \E x \in T : \A y \in T : y \subseteq x => y = x
PROOF
<1>1. T \subseteq FiniteSubsetsOf(U)
  BY FS_FiniteSubsetsOfFinite
<1>2. \E x \in T : \A y \in T : ~ (<<y, x>> \in StrictSubsetOrdering(U))
  BY <1>1, FS_StrictSubsetOrderingWellFounded, WFMin
<1> QED BY <1>2 DEF StrictSubsetOrdering

(* A non-empty set contains its first element.                              *)
LEMMA FirstIn == ASSUME NEW s, s # {} PROVE First(s) \in s
  BY DEF First

(* The library's sum in these terms.                                        *)
LEMMA SumIsIter == ASSUME NEW w, NEW U PROVE SumFunctionOnSet(w, U) = Iter(w, U)[U]
  BY DEF SumFunctionOnSet, FoldFunctionOnSet, MapThenFoldSet, Iter, IsIter, First

(* Two such functions agree where their weights do.                         *)
LEMMA IterAgree ==
  ASSUME NEW U, IsFiniteSet(U), NEW V \in SUBSET U, NEW F, NEW G, NEW w, NEW v,
         IsIter(F, w, U), IsIter(G, v, V), \A x \in V : w[x] = v[x]
  PROVE  \A s \in SUBSET V : F[s] = G[s]
PROOF
<1> DEFINE T == {s \in SUBSET V : F[s] # G[s]}
<1> SUFFICES ASSUME T # {} PROVE FALSE
  OBVIOUS
<1>0. T \subseteq SUBSET V
  OBVIOUS
<1>1. IsFiniteSet(V)
  BY FS_Subset
<1> HIDE DEF T
<1>2. PICK s \in T : \A y \in T : y \subseteq s => y = s
  BY <1>0, <1>1, SmallestSubset
<1> USE DEF T
<1>3. CASE s = {}
  BY <1>2, <1>3 DEF IsIter
<1>4. CASE s # {}
  <2>1. First(s) \in s
    BY <1>4, FirstIn
  <2>2. F[s \ {First(s)}] = G[s \ {First(s)}]
    BY <1>2, <2>1
  <2>3. F[s] = w[First(s)] + F[s \ {First(s)}]
    BY <1>2, <1>4 DEF IsIter
  <2>4. G[s] = v[First(s)] + G[s \ {First(s)}]
    BY <1>2, <1>4 DEF IsIter
  <2> QED BY <1>2, <2>1, <2>2, <2>3, <2>4
<1> QED BY <1>3, <1>4

(* Over a finite set the recursion has a solution.                          *)
LEMMA IterExists ==
  ASSUME NEW U, IsFiniteSet(U), NEW w
  PROVE  IsIter(Iter(w, U), w, U)
PROOF
<1> DEFINE T == {s \in SUBSET U : ~ IsIter(Iter(w, s), w, s)}
<1> SUFFICES ASSUME T # {} PROVE FALSE
  OBVIOUS
<1>0. T \subseteq SUBSET U
  OBVIOUS
<1> HIDE DEF T
<1>1. PICK s \in T : \A y \in T : y \subseteq s => y = s
  BY <1>0, SmallestSubset
<1> USE DEF T
<1> DEFINE H(t) == IF t = {} THEN 0 ELSE w[First(t)] + Iter(w, t \ {First(t)})[t \ {First(t)}]
           G == [t \in SUBSET s |-> H(t)]
<1>2. ASSUME NEW t \in SUBSET s, t # s PROVE Iter(w, t)[t] = H(t)
  <2>1. IsIter(Iter(w, t), w, t)
    BY <1>1, <1>2
  <2>2. CASE t = {}
    BY <2>1, <2>2 DEF IsIter
  <2>3. CASE t # {}
    <3> DEFINE r == t \ {First(t)}
    <3>1. First(t) \in t
      BY <2>3, FirstIn
    <3>2. r \in SUBSET s /\ r # s /\ r \in SUBSET t
      BY <3>1
    <3>3. IsIter(Iter(w, r), w, r)
      BY <1>1, <3>2
    <3>4. IsFiniteSet(t)
      BY FS_Subset
    <3>5. Iter(w, t)[r] = Iter(w, r)[r]
      BY <2>1, <3>2, <3>3, <3>4, IterAgree
    <3>6. Iter(w, t)[t] = w[First(t)] + Iter(w, t)[r]
      BY <2>1, <2>3 DEF IsIter
    <3> QED BY <2>3, <3>5, <3>6
  <2> QED BY <2>2, <2>3
<1>3. ASSUME NEW t \in SUBSET s
      PROVE  G[t] = IF t = {} THEN 0 ELSE w[First(t)] + G[t \ {First(t)}]
  <2>1. CASE t = {}
    BY <2>1
  <2>2. CASE t # {}
    <3> DEFINE r == t \ {First(t)}
    <3>1. First(t) \in t
      BY <2>2, FirstIn
    <3>2. r \in SUBSET s /\ r # s
      BY <3>1
    <3>3. G[r] = H(r) /\ G[t] = H(t)
      BY <3>2
    <3>4. H(t) = w[First(t)] + Iter(w, r)[r]
      BY <2>2
    <3> HIDE DEF H
    <3> QED BY <1>2, <2>2, <3>2, <3>3, <3>4
  <2> QED BY <2>1, <2>2
<1>4. G = [t \in SUBSET s |-> IF t = {} THEN 0 ELSE w[First(t)] + G[t \ {First(t)}]]
  <2>1. G = [t \in SUBSET s |-> G[t]]
    OBVIOUS
  <2> HIDE DEF G
  <2> QED BY <1>3, <2>1
<1>5. IsIter(G, w, s)
  BY <1>4 DEF IsIter
<1> HIDE DEF G
<1>6. IsIter(Iter(w, s), w, s)
  BY <1>5 DEF Iter
<1> QED BY <1>1, <1>6

(* The sum over the empty set, and the library's own order.                 *)
LEMMA SumEmpty == ASSUME NEW w PROVE SumFunctionOnSet(w, {}) = 0
PROOF
<1>1. IsIter(Iter(w, {}), w, {})
  BY IterExists, FS_EmptySet
<1> QED BY <1>1, SumIsIter DEF IsIter

(* One step of the library's recursion.                                     *)
LEMMA SumFirst ==
  ASSUME NEW w, NEW U, IsFiniteSet(U), U # {}
  PROVE  SumFunctionOnSet(w, U) = w[First(U)] + SumFunctionOnSet(w, U \ {First(U)})
PROOF
<1> DEFINE r == U \ {First(U)}
<1>1. IsIter(Iter(w, U), w, U)
  BY IterExists
<1>2. IsFiniteSet(r)
  BY FS_Subset
<1>3. IsIter(Iter(w, r), w, r)
  BY <1>2, IterExists
<1>4. Iter(w, U)[r] = Iter(w, r)[r]
  BY <1>1, <1>3, IterAgree
<1>5. Iter(w, U)[U] = w[First(U)] + Iter(w, U)[r]
  BY <1>1 DEF IsIter
<1> QED BY <1>4, <1>5, SumIsIter

(* A sum depends on the weights of its members alone.                       *)
LEMMA SumSameWeights ==
  ASSUME NEW w, NEW v, NEW U, IsFiniteSet(U), \A x \in U : w[x] = v[x]
  PROVE  SumFunctionOnSet(w, U) = SumFunctionOnSet(v, U)
PROOF
<1>1. IsIter(Iter(w, U), w, U) /\ IsIter(Iter(v, U), v, U)
  BY IterExists
<1>2. U \in SUBSET U
  OBVIOUS
<1>3. \A s \in SUBSET U : Iter(w, U)[s] = Iter(v, U)[s]
  BY <1>1, <1>2, IterAgree
<1> QED BY <1>2, <1>3, SumIsIter

(* A sum of integers is an integer.                                         *)
LEMMA SumInt ==
  ASSUME NEW w, NEW U, IsFiniteSet(U), \A x \in U : w[x] \in Int
  PROVE  SumFunctionOnSet(w, U) \in Int
PROOF
<1> DEFINE T == {s \in SUBSET U : SumFunctionOnSet(w, s) \notin Int}
<1> SUFFICES ASSUME T # {} PROVE FALSE
  OBVIOUS
<1>0. T \subseteq SUBSET U
  OBVIOUS
<1> HIDE DEF T
<1>1. PICK s \in T : \A y \in T : y \subseteq s => y = s
  BY <1>0, SmallestSubset
<1> USE DEF T
<1>2. IsFiniteSet(s)
  BY FS_Subset
<1>3. s # {}
  BY SumEmpty
<1>4. First(s) \in s
  BY <1>3, FirstIn
<1>5. SumFunctionOnSet(w, s \ {First(s)}) \in Int
  BY <1>1, <1>4
<1>6. w[First(s)] + SumFunctionOnSet(w, s \ {First(s)}) \in Int
  BY <1>4, <1>5
<1> QED BY <1>1, <1>2, <1>3, <1>6, SumFirst

(* Any member may be taken out first.                                       *)
THEOREM SumTake ==
  ASSUME NEW w, NEW U, IsFiniteSet(U), \A x \in U : w[x] \in Int
  PROVE  \A x \in U : SumFunctionOnSet(w, U) = w[x] + SumFunctionOnSet(w, U \ {x})
PROOF
<1> DEFINE S(V) == SumFunctionOnSet(w, V)
           T == {s \in SUBSET U : \E x \in s : S(s) # w[x] + S(s \ {x})}
<1> SUFFICES ASSUME T # {} PROVE FALSE
  OBVIOUS
<1>0. T \subseteq SUBSET U
  OBVIOUS
<1> HIDE DEF T
<1>1. PICK s \in T : \A y \in T : y \subseteq s => y = s
  BY <1>0, SmallestSubset
<1> USE DEF T
<1>2. PICK x \in s : S(s) # w[x] + S(s \ {x})
  BY <1>1
<1> DEFINE c == First(s)
           r == (s \ {c}) \ {x}
<1>3. c \in s /\ IsFiniteSet(s)
  BY <1>2, FirstIn, FS_Subset
<1>4. S(s) = w[c] + S(s \ {c})
  BY <1>2, <1>3, SumFirst
<1>5. x # c
  BY <1>2, <1>4
<1> HIDE DEF S, c
<1>6. \A y \in SUBSET U : y \subseteq s /\ y # s => \A z \in y : S(y) = w[z] + S(y \ {z})
  BY <1>1
<1>7. /\ s \ {c} \in SUBSET U /\ s \ {c} # s /\ x \in s \ {c}
      /\ s \ {x} \in SUBSET U /\ s \ {x} # s /\ c \in s \ {x}
      /\ r = (s \ {x}) \ {c}
  BY <1>2, <1>3, <1>5
<1>8. S(s \ {c}) = w[x] + S(r) /\ S(s \ {x}) = w[c] + S(r)
  BY <1>6, <1>7
<1>9. w[x] \in Int /\ w[c] \in Int /\ S(r) \in Int
  BY <1>2, <1>3, SumInt, FS_Subset DEF S
<1> QED BY <1>2, <1>4, <1>8, <1>9

(* Adding a new member adds its weight.                                     *)
LEMMA SumInsert ==
  ASSUME NEW w, NEW U, IsFiniteSet(U), NEW c, c \notin U,
         w[c] \in Int, \A x \in U : w[x] \in Int
  PROVE  SumFunctionOnSet(w, U \cup {c}) = w[c] + SumFunctionOnSet(w, U)
PROOF
<1>1. IsFiniteSet(U \cup {c})
  BY FS_AddElement
<1>2. (U \cup {c}) \ {c} = U
  OBVIOUS
<1> QED BY <1>1, <1>2, SumTake

(* The sum over one member.                                                 *)
LEMMA SumSingle ==
  ASSUME NEW w, NEW c, w[c] \in Int PROVE SumFunctionOnSet(w, {c}) = w[c]
PROOF
<1>1. SumFunctionOnSet(w, {} \cup {c}) = w[c] + SumFunctionOnSet(w, {})
  BY SumInsert, FS_EmptySet
<1> QED BY <1>1, SumEmpty

(* A sum of zeros is zero.                                                  *)
LEMMA SumZero ==
  ASSUME NEW w, NEW U, IsFiniteSet(U), \A x \in U : w[x] = 0
  PROVE  SumFunctionOnSet(w, U) = 0
PROOF
<1> DEFINE T == {s \in SUBSET U : SumFunctionOnSet(w, s) # 0}
<1> SUFFICES ASSUME T # {} PROVE FALSE
  OBVIOUS
<1>0. T \subseteq SUBSET U
  OBVIOUS
<1> HIDE DEF T
<1>1. PICK s \in T : \A y \in T : y \subseteq s => y = s
  BY <1>0, SmallestSubset
<1> USE DEF T
<1>2. IsFiniteSet(s) /\ s # {}
  BY FS_Subset, SumEmpty
<1>3. First(s) \in s
  BY <1>2, FirstIn
<1>4. SumFunctionOnSet(w, s \ {First(s)}) = 0 /\ w[First(s)] = 0
  BY <1>1, <1>3
<1> QED BY <1>1, <1>2, <1>4, SumFirst

(* A sum of natural numbers is one, and bounds the sum over every part.     *)
LEMMA SumSubset ==
  ASSUME NEW w, NEW U, IsFiniteSet(U), \A x \in U : w[x] \in Nat
  PROVE  \A s \in SUBSET U : SumFunctionOnSet(w, s) \in Nat /\ SumFunctionOnSet(w, s) <= SumFunctionOnSet(w, U)
PROOF
<1> DEFINE S(V) == SumFunctionOnSet(w, V)
           Fine(V) == S(V) \in Nat /\ \A s \in SUBSET V : S(s) \in Nat /\ S(s) <= S(V)
           T == {V \in SUBSET U : ~ Fine(V)}
<1> SUFFICES ASSUME T # {} PROVE FALSE
  OBVIOUS
<1>0. T \subseteq SUBSET U
  OBVIOUS
<1> HIDE DEF T
<1>1. PICK V \in T : \A y \in T : y \subseteq V => y = V
  BY <1>0, SmallestSubset
<1> USE DEF T
<1>2. V \in SUBSET U /\ IsFiniteSet(V) /\ ~ Fine(V)
  BY <1>1, FS_Subset
<1> HIDE DEF Fine
<1>3. ASSUME NEW x \in V PROVE w[x] \in Nat /\ S(V) = w[x] + S(V \ {x}) /\ Fine(V \ {x})
  <2>1. V \ {x} \in SUBSET U /\ V \ {x} # V /\ V \ {x} \subseteq V
    BY <1>2
  <2>2. Fine(V \ {x})
    BY <1>1, <2>1
  <2>3. \A y \in V : w[y] \in Int
    BY <1>2
  <2> HIDE DEF T
  <2>4. S(V) = w[x] + S(V \ {x})
    BY <1>2, <2>3, SumTake
  <2> QED BY <1>2, <2>2, <2>4
<1>a. ASSUME NEW x \in V
      PROVE  /\ w[x] \in Nat /\ S(V) = w[x] + S(V \ {x}) /\ S(V \ {x}) \in Nat
             /\ \A s \in SUBSET (V \ {x}) : S(s) \in Nat /\ S(s) <= S(V \ {x})
  <2> HIDE DEF S
  <2> QED BY <1>3 DEF Fine
<1>b. ~ (S(V) \in Nat /\ \A s \in SUBSET V : S(s) \in Nat /\ S(s) <= S(V))
  <2> HIDE DEF S
  <2> QED BY <1>2 DEF Fine
<1>c. ASSUME NEW x \in V
      PROVE  S(V) \in Nat /\ \A s \in SUBSET (V \ {x}) : S(s) \in Nat /\ S(s) <= S(V)
  <2> HIDE DEF S, T
  <2>1. PICK n \in Nat : n = w[x]
    BY <1>a
  <2>2. PICK m \in Nat : m = S(V \ {x})
    BY <1>a
  <2>3. S(V) = n + m
    BY <1>a, <2>1, <2>2, Zenon
  <2>4. \A s \in SUBSET (V \ {x}) : S(s) \in Nat /\ S(s) <= m
    BY <1>a, <2>2, Zenon
  <2> QED BY <2>3, <2>4
<1> HIDE DEF S, T
<1>4. S({}) = 0
  BY SumEmpty DEF S
<1>5. CASE V = {}
  BY <1>4, <1>5, <1>b
<1>6. CASE V # {}
  <2>1. S(V) \in Nat
    BY <1>6, <1>c
  <2>2. ASSUME NEW s \in SUBSET V, s # V PROVE S(s) \in Nat /\ S(s) <= S(V)
    <3>1. PICK x \in V : x \notin s
      BY <2>2
    <3>2. s \in SUBSET (V \ {x})
      BY <3>1
    <3> QED BY <1>c, <3>2
  <2> QED BY <1>b, <2>1, <2>2
<1>7. FALSE
  BY <1>5, <1>6
<1> QED BY <1>7

(* A sum is that of a part and that of the rest.                            *)
LEMMA SumSplit ==
  ASSUME NEW w, NEW U, IsFiniteSet(U), \A x \in U : w[x] \in Int
  PROVE  \A s \in SUBSET U : SumFunctionOnSet(w, U) = SumFunctionOnSet(w, s) + SumFunctionOnSet(w, U \ s)
PROOF
<1> DEFINE S(V) == SumFunctionOnSet(w, V)
           T == {s \in SUBSET U : S(U) # S(s) + S(U \ s)}
<1> SUFFICES ASSUME T # {} PROVE FALSE
  OBVIOUS
<1>0. T \subseteq SUBSET U
  OBVIOUS
<1> HIDE DEF T
<1>1. PICK s \in T : \A y \in T : y \subseteq s => y = s
  BY <1>0, SmallestSubset
<1> USE DEF T
<1>2. s \in SUBSET U /\ IsFiniteSet(s) /\ S(U) # S(s) + S(U \ s)
  BY <1>1, FS_Subset
<1>3. S(U) \in Int
  BY SumInt
<1>4. s # {}
  <2>1. U \ {} = U /\ S({}) = 0
    BY SumEmpty
  <2> HIDE DEF S
  <2> QED BY <1>2, <1>3, <2>1
<1>5. PICK x \in s : TRUE
  BY <1>4
<1> DEFINE r == s \ {x}
<1>6. S(U) = S(r) + S(U \ r)
  BY <1>1, <1>5
<1>7. IsFiniteSet(U \ s) /\ U \ r = (U \ s) \cup {x} /\ x \notin U \ s
  BY <1>2, FS_Subset
<1>8. S((U \ s) \cup {x}) = w[x] + S(U \ s)
  BY <1>2, <1>7, SumInsert
<1>9. S(s) = w[x] + S(r)
  BY <1>2, SumTake
<1>10. w[x] \in Int /\ S(r) \in Int /\ S(U \ s) \in Int
  <2>1. IsFiniteSet(r)
    BY <1>2, FS_RemoveElement
  <2> QED BY <1>2, <1>7, <2>1, SumInt
<1>11. S(U \ r) = w[x] + S(U \ s)
  BY <1>7, <1>8
<1> HIDE DEF S, r, T
<1> QED BY <1>2, <1>6, <1>9, <1>10, <1>11

(* The image of a finite set under a function is finite.                    *)
LEMMA FiniteImage ==
  ASSUME NEW f, NEW I, IsFiniteSet(I) PROVE IsFiniteSet({f[i] : i \in I})
PROOF
<1> DEFINE g == [i \in I |-> f[i]]
           T == {f[i] : i \in I}
<1>1. g \in Surjection(I, T)
  BY DEF Surjection
<1> QED BY <1>1, FS_Surjection

(* A sum over indices is the sum over what they stand for, when no two      *)
(* stand for the same.                                                      *)
LEMMA SumReindex ==
  ASSUME NEW w, NEW f, NEW v, NEW I, IsFiniteSet(I),
         \A i \in I : v[i] \in Int /\ v[i] = w[f[i]],
         \A i, j \in I : f[i] = f[j] => i = j, NEW J, J = {f[i] : i \in I}
  PROVE  SumFunctionOnSet(v, I) = SumFunctionOnSet(w, J)
PROOF
<1> DEFINE Im(s) == {f[i] : i \in s}
           T == {s \in SUBSET I : SumFunctionOnSet(v, s) # SumFunctionOnSet(w, Im(s))}
<1> SUFFICES ASSUME T # {} PROVE FALSE
  OBVIOUS
<1>0. T \subseteq SUBSET I
  OBVIOUS
<1> HIDE DEF T
<1>1. PICK s \in T : \A y \in T : y \subseteq s => y = s
  BY <1>0, SmallestSubset
<1> USE DEF T
<1>2. s \in SUBSET I /\ IsFiniteSet(s) /\ SumFunctionOnSet(v, s) # SumFunctionOnSet(w, Im(s))
  BY <1>1, FS_Subset
<1>3. s # {}
  <2>1. Im({}) = {}
    OBVIOUS
  <2> QED BY <1>2, <2>1, SumEmpty
<1>4. PICK x \in s : TRUE
  BY <1>3
<1> DEFINE r == s \ {x}
<1>5. SumFunctionOnSet(v, r) = SumFunctionOnSet(w, Im(r))
  BY <1>1, <1>4
<1>6. SumFunctionOnSet(v, s) = v[x] + SumFunctionOnSet(v, r)
  BY <1>2, SumTake
<1>7. Im(s) = Im(r) \cup {f[x]} /\ f[x] \notin Im(r)
  BY <1>2
<1>8. IsFiniteSet(Im(r))
  <2>1. IsFiniteSet(r)
    BY <1>2, FS_RemoveElement
  <2> HIDE DEF r, T
  <2> QED BY <2>1, FiniteImage
<1>9. (\A y \in Im(r) : w[y] \in Int) /\ w[f[x]] \in Int
  BY <1>2
<1> HIDE DEF Im, r, T
<1>10. SumFunctionOnSet(w, Im(r) \cup {f[x]}) = w[f[x]] + SumFunctionOnSet(w, Im(r))
  BY <1>7, <1>8, <1>9, SumInsert
<1>11. v[x] = w[f[x]]
  BY <1>2
<1> QED BY <1>2, <1>5, <1>6, <1>7, <1>10, <1>11

(* Every rank is taken: in a finite set with a strict total order there is  *)
(* an element with each number of others before it.                         *)
LEMMA RanksTaken ==
  ASSUME NEW U, IsFiniteSet(U), NEW R,
         \A a \in U : <<a, a>> \notin R,
         \A a, b, c \in U : <<a, b>> \in R /\ <<b, c>> \in R => <<a, c>> \in R,
         \A a, b \in U : a = b \/ <<a, b>> \in R \/ <<b, a>> \in R
  PROVE  /\ \A i \in 1..Cardinality(U) : \E c \in U : Cardinality({d \in U : <<d, c>> \in R}) = i - 1
         /\ \A a, b \in U : Cardinality({d \in U : <<d, a>> \in R}) = Cardinality({d \in U : <<d, b>> \in R}) => a = b
PROOF
<1> DEFINE Below(c) == {d \in U : <<d, c>> \in R}
           n == Cardinality(U)
           rank == [c \in U |-> Cardinality(Below(c))]
<1>1. n \in Nat
  BY FS_CardinalityType
<1>2. ASSUME NEW c \in U PROVE IsFiniteSet(Below(c)) /\ rank[c] \in 0..(n - 1)
  <2>1. Below(c) \in SUBSET U /\ Below(c) # U
    OBVIOUS
  <2>2. IsFiniteSet(Below(c)) /\ Cardinality(Below(c)) <= n /\ Cardinality(Below(c)) # n
    BY <2>1, FS_Subset
  <2>3. Cardinality(Below(c)) \in Nat
    BY <2>2, FS_CardinalityType
  <2> QED BY <1>1, <2>2, <2>3
<1>3. ASSUME NEW a \in U, NEW b \in U, <<a, b>> \in R PROVE rank[a] # rank[b]
  <2>1. Below(a) \in SUBSET Below(b) /\ a \in Below(b) /\ a \notin Below(a)
    BY <1>3
  <2>2. IsFiniteSet(Below(b))
    BY <1>2
  <2>3. Cardinality(Below(b)) = Cardinality(Below(a)) => Below(b) = Below(a)
    BY <2>1, <2>2, FS_Subset
  <2> QED BY <2>1, <2>3
<1>4. rank \in Injection(U, 0..(n - 1))
  BY <1>2, <1>3 DEF Injection, IsInjective
<1>5. IsFiniteSet(0..(n - 1)) /\ Cardinality(0..(n - 1)) = n
  <2> HIDE DEF n
  <2>1. n - 1 \in Int /\ (IF 0 > n - 1 THEN 0 ELSE n - 1 - 0 + 1) = n
    BY <1>1
  <2> QED BY <2>1, FS_Interval
<1>6. rank \in Surjection(U, 0..(n - 1))
  <2> HIDE DEF rank
  <2> QED BY <1>4, <1>5, FS_Injection
<1>7. ASSUME NEW i \in 1..n PROVE \E c \in U : Cardinality(Below(c)) = i - 1
  <2>1. i - 1 \in 0..(n - 1)
    BY <1>1
  <2>2. PICK c \in U : rank[c] = i - 1
    BY <1>6, <2>1 DEF Surjection
  <2> QED BY <2>2
<1>8. \A a, b \in U : Cardinality(Below(a)) = Cardinality(Below(b)) => a = b
  <2>1. \A c \in U : rank[c] = Cardinality(Below(c))
    OBVIOUS
  <2> HIDE DEF rank, Below
  <2> QED BY <1>3, <2>1
<1> HIDE DEF rank
<1> QED BY <1>7, <1>8

-----------------------------------------------------------------------------
(* Folds from the left, which the library takes from the largest index of a *)
(* sequence down.  The step is given as a function of the state so far and  *)
(* the index.                                                               *)

(* A smallest set of indexes.                                               *)
Smallest(x, T) == x \in T /\ \A y \in T : y \subseteq x => y = x

LEMMA SmallestOf ==
  \A U : IsFiniteSet(U) => \A T \in SUBSET SUBSET U : T # {} => \E x : Smallest(x, T)
PROOF
<1> SUFFICES ASSUME NEW U, NEW T, IsFiniteSet(U), T \subseteq SUBSET U, T # {}
             PROVE \E x : Smallest(x, T)
  OBVIOUS
<1>1. \E x \in T : \A y \in T : y \subseteq x => y = x
  BY SmallestSubset
<1> QED BY <1>1 DEF Smallest

LEMMA SmallestIndexes ==
  ASSUME NEW n \in Nat
  PROVE  \A T \in SUBSET SUBSET (1..n) : T # {} => \E x : Smallest(x, T)
PROOF
<1>1. IsFiniteSet(1..n)
  BY FS_Interval
<1> QED BY <1>1, SmallestOf

(* Induction along a sequence: what holds of 0 and goes on from one index   *)
(* to the next holds of all.                                                *)
LEMMA Upwards ==
  ASSUME NEW n \in Nat, NEW P, 0 \in P, \A k \in 1..n : k - 1 \in P => k \in P
  PROVE  0..n \subseteq P
PROOF
<1> DEFINE T == {1..k : k \in {j \in 0..n : j \notin P}}
<1> SUFFICES ASSUME NEW k \in 0..n, k \notin P PROVE FALSE
  OBVIOUS
<1>1. T \subseteq SUBSET (1..n) /\ T # {}
  OBVIOUS
<1> HIDE DEF T
<1>3. PICK t \in T : \A y \in T : y \subseteq t => y = t
  <2>1. PICK x : Smallest(x, T)
    BY <1>1, SmallestIndexes
  <2> QED BY <2>1 DEF Smallest
<1>4. PICK j \in 0..n : t = 1..j /\ j \notin P
  BY <1>3 DEF T
<1>5. j # 0
  BY <1>4
<1>6. j - 1 \in 0..n /\ j \in 1..n /\ j - 1 \notin P
  BY <1>4, <1>5
<1>7. 1..(j - 1) \in T /\ 1..(j - 1) \subseteq t
  BY <1>4, <1>6 DEF T
<1>8. 1..(j - 1) = 1..j /\ j \in 1..j /\ j \notin 1..(j - 1)
  BY <1>3, <1>4, <1>6, <1>7
<1> QED BY <1>8

(* The largest index of a set of indexes.                                   *)
LEMMA MaxIn ==
  ASSUME NEW n \in Nat, NEW s \in SUBSET (1..n), s # {}
  PROVE  Max(s) \in s /\ \A y \in s : y <= Max(s)
PROOF
<1> DEFINE T == {x..n : x \in s}
<1>1. T \subseteq SUBSET (1..n) /\ T # {}
  <2>1. \A x \in s : x \in 1..n /\ x..n \in SUBSET (1..n)
    OBVIOUS
  <2> QED BY <2>1
<1> HIDE DEF T
<1>3. PICK t \in T : \A y \in T : y \subseteq t => y = t
  <2>1. PICK x : Smallest(x, T)
    BY <1>1, SmallestIndexes
  <2> QED BY <2>1 DEF Smallest
<1>4. PICK x \in s : t = x..n
  BY <1>3 DEF T
<1>5. ASSUME NEW y \in s PROVE x >= y
  <2>1. SUFFICES ASSUME y > x PROVE FALSE
    OBVIOUS
  <2>2. y..n \in T /\ y..n \subseteq x..n
    BY <2>1 DEF T
  <2>3. y..n = x..n
    BY <1>3, <1>4, <2>2
  <2>4. x \in x..n /\ x \notin y..n
    BY <2>1
  <2> QED BY <2>3, <2>4
<1>6. \E z \in s : \A y \in s : z >= y
  BY <1>5
<1>7. Max(s) \in s /\ \A y \in s : Max(s) >= y
  BY <1>6, Zenon DEF Max
<1> QED BY <1>7

IsFold(F, g, base, U) ==
  F = [s \in SUBSET U |-> IF s = {} THEN base ELSE g[<<F[s \ {Max(s)}], Max(s)>>]]
Fold(g, base, U) == CHOOSE F : IsFold(F, g, base, U)

(* Two folds agree on what both are about.                                  *)
LEMMA FoldAgree ==
  ASSUME NEW n \in Nat, NEW U \in SUBSET (1..n), NEW V \in SUBSET U, NEW F, NEW G, NEW g, NEW base,
         IsFold(F, g, base, U), IsFold(G, g, base, V)
  PROVE  \A s \in SUBSET V : F[s] = G[s]
PROOF
<1> DEFINE T == {s \in SUBSET V : F[s] # G[s]}
<1> SUFFICES ASSUME T # {} PROVE FALSE
  OBVIOUS
<1>0. T \subseteq SUBSET (1..n)
  OBVIOUS
<1> HIDE DEF T
<1>2. PICK s \in T : \A y \in T : y \subseteq s => y = s
  <2>1. PICK x : Smallest(x, T)
    BY <1>0, SmallestIndexes
  <2> QED BY <2>1 DEF Smallest
<1> USE DEF T
<1>3. CASE s = {}
  BY <1>2, <1>3 DEF IsFold
<1>4. CASE s # {}
  <2>1. Max(s) \in s
    <3>1. s \in SUBSET (1..n)
      OBVIOUS
    <3> QED BY <1>4, <3>1, MaxIn
  <2>2. F[s \ {Max(s)}] = G[s \ {Max(s)}]
    BY <1>2, <2>1
  <2>3. F[s] = g[<<F[s \ {Max(s)}], Max(s)>>]
    BY <1>2, <1>4 DEF IsFold
  <2>4. G[s] = g[<<G[s \ {Max(s)}], Max(s)>>]
    BY <1>2, <1>4 DEF IsFold
  <2> QED BY <1>2, <2>1, <2>2, <2>3, <2>4
<1> QED BY <1>3, <1>4

(* Over the indexes of a sequence the recursion has a solution.             *)
LEMMA FoldExists ==
  ASSUME NEW n \in Nat, NEW g, NEW base
  PROVE  IsFold(Fold(g, base, 1..n), g, base, 1..n)
PROOF
<1> DEFINE U == 1..n
           T == {s \in SUBSET U : ~ IsFold(Fold(g, base, s), g, base, s)}
<1> SUFFICES ASSUME T # {} PROVE FALSE
  OBVIOUS
<1>0. T \subseteq SUBSET (1..n)
  OBVIOUS
<1> HIDE DEF T
<1>1. PICK s \in T : \A y \in T : y \subseteq s => y = s
  <2>1. PICK x : Smallest(x, T)
    BY <1>0, SmallestIndexes
  <2> QED BY <2>1 DEF Smallest
<1> USE DEF T
<1>a. ASSUME NEW t \in SUBSET s, t # {} PROVE Max(t) \in t
  <2>1. t \in SUBSET (1..n)
    OBVIOUS
  <2> QED BY <1>a, <2>1, MaxIn
<1> DEFINE H(t) == IF t = {} THEN base ELSE g[<<Fold(g, base, t \ {Max(t)})[t \ {Max(t)}], Max(t)>>]
           G == [t \in SUBSET s |-> H(t)]
<1>2. ASSUME NEW t \in SUBSET s, t # s PROVE Fold(g, base, t)[t] = H(t)
  <2>1. IsFold(Fold(g, base, t), g, base, t)
    BY <1>1, <1>2
  <2>2. CASE t = {}
    BY <2>1, <2>2 DEF IsFold
  <2>3. CASE t # {}
    <3> DEFINE r == t \ {Max(t)}
    <3>1. Max(t) \in t
      BY <1>a, <2>3
    <3>2. r \in SUBSET s /\ r # s /\ r \in SUBSET t
      BY <3>1
    <3>3. IsFold(Fold(g, base, r), g, base, r)
      BY <1>1, <3>2
    <3>4. t \in SUBSET (1..n)
      OBVIOUS
    <3>5. Fold(g, base, t)[r] = Fold(g, base, r)[r]
      <4>1. PICK F : F = Fold(g, base, t)
        OBVIOUS
      <4>2. PICK K : K = Fold(g, base, r)
        OBVIOUS
      <4>3. PICK q : q = r
        OBVIOUS
      <4>4. IsFold(F, g, base, t) /\ IsFold(K, g, base, q) /\ q \in SUBSET t /\ q \in SUBSET q
        BY <2>1, <3>2, <3>3, <4>1, <4>2, <4>3, Zenon
      <4> HIDE DEF r
      <4>5. \A x \in SUBSET q : F[x] = K[x]
        BY <3>4, <4>4, FoldAgree
      <4>6. F[q] = K[q]
        BY <4>4, <4>5, Zenon
      <4> QED BY <4>1, <4>2, <4>3, <4>6, Zenon
    <3>6. Fold(g, base, t)[t] = g[<<Fold(g, base, t)[r], Max(t)>>]
      BY <2>1, <2>3 DEF IsFold
    <3> QED BY <2>3, <3>5, <3>6
  <2> QED BY <2>2, <2>3
<1>3. ASSUME NEW t \in SUBSET s
      PROVE  G[t] = IF t = {} THEN base ELSE g[<<G[t \ {Max(t)}], Max(t)>>]
  <2>1. CASE t = {}
    BY <2>1
  <2>2. CASE t # {}
    <3> DEFINE r == t \ {Max(t)}
    <3>1. Max(t) \in t
      BY <1>a, <2>2
    <3>2. r \in SUBSET s /\ r # s
      BY <3>1
    <3>3. G[r] = H(r) /\ G[t] = H(t)
      BY <3>2
    <3>4. H(t) = g[<<Fold(g, base, r)[r], Max(t)>>]
      BY <2>2
    <3> HIDE DEF H
    <3> QED BY <1>2, <2>2, <3>2, <3>3, <3>4
  <2> QED BY <2>1, <2>2
<1>4. G = [t \in SUBSET s |-> IF t = {} THEN base ELSE g[<<G[t \ {Max(t)}], Max(t)>>]]
  <2>1. G = [t \in SUBSET s |-> G[t]]
    OBVIOUS
  <2> HIDE DEF G
  <2> QED BY <1>3, <2>1
<1>5. IsFold(G, g, base, s)
  BY <1>4 DEF IsFold
<1> HIDE DEF G
<1>6. IsFold(Fold(g, base, s), g, base, s)
  BY <1>5 DEF Fold
<1> QED BY <1>1, <1>6

(* What a fold computes stays in a set that its steps do not leave.         *)
LEMMA FoldTyped ==
  ASSUME NEW n \in Nat, NEW g, NEW base, NEW X, base \in X, \A a \in X, i \in 1..n : g[<<a, i>>] \in X
  PROVE  \A s \in SUBSET (1..n) : Fold(g, base, 1..n)[s] \in X
PROOF
<1> DEFINE F == Fold(g, base, 1..n)
           T == {s \in SUBSET (1..n) : F[s] \notin X}
<1> SUFFICES ASSUME T # {} PROVE FALSE
  OBVIOUS
<1>0. T \subseteq SUBSET (1..n)
  OBVIOUS
<1>1. IsFold(F, g, base, 1..n)
  BY FoldExists
<1> HIDE DEF T, F
<1>2. PICK s \in T : \A y \in T : y \subseteq s => y = s
  <2>1. PICK x : Smallest(x, T)
    BY <1>0, SmallestIndexes
  <2> QED BY <2>1 DEF Smallest
<1>3. s \in SUBSET (1..n) /\ F[s] \notin X
  BY <1>2 DEF T
<1>4. s # {}
  BY <1>1, <1>3 DEF IsFold
<1>5. Max(s) \in s /\ Max(s) \in 1..n
  BY <1>3, <1>4, MaxIn
<1>6. F[s \ {Max(s)}] \in X
  BY <1>2, <1>3, <1>5 DEF T
<1>7. F[s] = g[<<F[s \ {Max(s)}], Max(s)>>]
  BY <1>1, <1>3, <1>4 DEF IsFold
<1> QED BY <1>3, <1>5, <1>6, <1>7

(* The largest of the first indexes.                                        *)
LEMMA MaxOfFirst == ASSUME NEW n \in Nat, NEW k \in 1..n PROVE Max(1..k) = k /\ (1..k) \ {Max(1..k)} = 1..(k - 1)
PROOF
<1>1. 1..k \in SUBSET (1..n) /\ 1..k # {} /\ k \in 1..k
  OBVIOUS
<1>2. Max(1..k) \in 1..k /\ k <= Max(1..k)
  BY <1>1, MaxIn
<1>3. Max(1..k) = k
  BY <1>2
<1> QED BY <1>3
=============================================================================
