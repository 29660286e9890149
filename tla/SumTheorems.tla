---------------------------- MODULE SumTheorems ----------------------------
(***************************************************************************)
(* Sums over finite sets, for the properties that add up ledger rows,      *)
(* spend windows and exposures.  SumFunctionOnSet picks the elements in an *)
(* order of its own; these lemmas say that the order does not matter.      *)
(***************************************************************************)
EXTENDS Integers, Functions, FiniteSetTheorems, TLAPS

(***************************************************************************)
(* A set of finite sets has a smallest member: induction over finite sets  *)
(* in the form of the smallest counterexample.                             *)
(***************************************************************************)
LEMMA SmallestSubset ==
    ASSUME NEW S, IsFiniteSet(S), NEW B, B \subseteq SUBSET S, B # {}
    PROVE  \E T \in B : \A U \in B : U \subseteq T => U = T
<1>1. B \subseteq FiniteSubsetsOf(S)
  BY FS_Subset DEF FiniteSubsetsOf
<1>2. \E T \in B : \A U \in B : <<U, T>> \notin StrictSubsetOrdering(S)
  BY <1>1, FS_StrictSubsetOrderingWellFounded, WFMin
<1> QED
  BY <1>2 DEF StrictSubsetOrdering

-----------------------------------------------------------------------------
(* The function that SumFunctionOnSet folds with. *)

Chosen(s) == CHOOSE x \in s : TRUE

FoldBody(f, g, s) == IF s = {} THEN 0 ELSE f[Chosen(s)] + g[s \ {Chosen(s)}]

IsFold(f, g, S) == g = [s \in SUBSET S |-> FoldBody(f, g, s)]

Fold(f, S) == CHOOSE g : IsFold(f, g, S)

\* SumFunctionOnSet takes the value of the fold at the whole set.
LEMMA SumIsFold ==
    ASSUME NEW f, NEW S
    PROVE  SumFunctionOnSet(f, S) = Fold(f, S)[S]
  BY DEF SumFunctionOnSet, FoldFunctionOnSet, MapThenFoldSet, Fold, IsFold, FoldBody, Chosen

\* What the fold takes first is a member.
LEMMA ChosenIsMember == \A s : s # {} => Chosen(s) \in s
  BY DEF Chosen

\* A set has at most one fold.
LEMMA FoldUnique ==
    ASSUME NEW f, NEW S, IsFiniteSet(S), NEW g, NEW h, IsFold(f, g, S), IsFold(f, h, S)
    PROVE  g = h
<1> DEFINE B == {s \in SUBSET S : g[s] # h[s]}
<1>1. /\ g = [s \in SUBSET S |-> g[s]] /\ h = [s \in SUBSET S |-> h[s]]
      /\ \A s \in SUBSET S : g[s] = FoldBody(f, g, s) /\ h[s] = FoldBody(f, h, s)
  BY DEF IsFold
<1>2. B = {}
  <2> SUFFICES ASSUME B # {} PROVE FALSE
    OBVIOUS
  <2>0. B \subseteq SUBSET S
    OBVIOUS
  <2>1. PICK T \in B : \A U \in B : U \subseteq T => U = T
    <3> HIDE DEF B
    <3> QED
      BY <2>0, SmallestSubset
  <2>2. T \in SUBSET S /\ g[T] # h[T]
    BY <2>1
  <2>3. T # {}
    BY <1>1, <2>2 DEF FoldBody
  <2> DEFINE U == T \ {Chosen(T)}
  <2>4. U \in SUBSET S /\ U \subseteq T /\ U # T
    BY <2>2, <2>3, ChosenIsMember
  <2>5. g[U] = h[U]
    BY <2>1, <2>4
  <2> QED
    BY <1>1, <2>2, <2>3, <2>5 DEF FoldBody
<1> QED
  BY <1>1, <1>2

\* A fold of a set is one of each of its subsets.
LEMMA FoldRestricts ==
    ASSUME NEW f, NEW S, NEW g, IsFold(f, g, S), NEW T \in SUBSET S
    PROVE  IsFold(f, [s \in SUBSET T |-> g[s]], T)
<1> DEFINE h == [s \in SUBSET T |-> g[s]]
<1> SUFFICES ASSUME NEW s \in SUBSET T PROVE h[s] = FoldBody(f, h, s)
  BY DEF IsFold
<1>1. s \in SUBSET S /\ g[s] = FoldBody(f, g, s)
  BY DEF IsFold
<1>2. s \ {Chosen(s)} \in SUBSET T
  OBVIOUS
<1> QED
  BY <1>1, <1>2 DEF FoldBody

\* A finite set has a fold.
LEMMA FoldExists ==
    ASSUME NEW f, NEW S, IsFiniteSet(S)
    PROVE  IsFold(f, Fold(f, S), S)
<1> DEFINE B == {T \in SUBSET S : ~IsFold(f, Fold(f, T), T)}
<1> SUFFICES ASSUME B # {} PROVE FALSE
  OBVIOUS
<1>0. B \subseteq SUBSET S
  OBVIOUS
<1>1. PICK T \in B : \A U \in B : U \subseteq T => U = T
  <2> HIDE DEF B
  <2> QED
    BY <1>0, SmallestSubset
<1>2. T \in SUBSET S /\ IsFiniteSet(T) /\ ~IsFold(f, Fold(f, T), T)
  BY <1>1, FS_Subset
<1>3. \A U \in SUBSET T : U # T => IsFold(f, Fold(f, U), U) /\ IsFiniteSet(U)
  BY <1>1, <1>2, FS_Subset
<1>4. \A U \in SUBSET T : \A V \in SUBSET U : U # T => Fold(f, U)[V] = Fold(f, V)[V]
  <2> SUFFICES ASSUME NEW U \in SUBSET T, NEW V \in SUBSET U, U # T
               PROVE  Fold(f, U)[V] = Fold(f, V)[V]
    OBVIOUS
  <2>1. IsFold(f, Fold(f, U), U) /\ V \in SUBSET T /\ V # T
    BY <1>3
  <2>2. IsFold(f, [s \in SUBSET V |-> Fold(f, U)[s]], V) /\ IsFold(f, Fold(f, V), V) /\ IsFiniteSet(V)
    BY <1>3, <2>1, FoldRestricts
  <2>3. Fold(f, V) = [s \in SUBSET V |-> Fold(f, U)[s]]
    BY <2>2, FoldUnique
  <2> QED
    BY <2>3
<1> DEFINE whole == f[Chosen(T)] + Fold(f, T \ {Chosen(T)})[T \ {Chosen(T)}]
           g == [s \in SUBSET T |-> IF s = T /\ T # {} THEN whole ELSE Fold(f, s)[s]]
<1>5. T # {}
  <2> SUFFICES ASSUME T = {} PROVE FALSE
    OBVIOUS
  <2> DEFINE z == [s \in SUBSET {} |-> 0]
  <2>1. IsFold(f, z, {})
    BY DEF IsFold, FoldBody
  <2>2. IsFold(f, Fold(f, {}), {})
    BY <2>1 DEF Fold
  <2> QED
    BY <1>2, <2>2
<1>6. ASSUME NEW s \in SUBSET T PROVE g[s] = FoldBody(f, g, s)
  <2>1. CASE s = {}
    <3>1. IsFold(f, Fold(f, s), s)
      BY <1>3, <1>5, <2>1
    <3>2. Fold(f, s)[s] = FoldBody(f, Fold(f, s), s)
      BY <3>1 DEF IsFold
    <3> QED
      BY <1>5, <2>1, <3>2 DEF FoldBody
  <2>2. CASE s # {}
    <3> DEFINE r == s \ {Chosen(s)}
    <3>1. r \in SUBSET s /\ r \in SUBSET T /\ r # T
      BY <2>2, ChosenIsMember
    <3>2. g[r] = Fold(f, r)[r]
      BY <3>1
    <3>3. CASE s = T
      BY <1>5, <2>2, <3>2, <3>3 DEF FoldBody
    <3>4. CASE s # T
      <4>1. IsFold(f, Fold(f, s), s)
        BY <1>3, <3>4
      <4>2. Fold(f, s)[s] = FoldBody(f, Fold(f, s), s)
        BY <4>1 DEF IsFold
      <4>3. Fold(f, s)[r] = Fold(f, r)[r]
        BY <1>4, <3>1, <3>4
      <4>4. g[s] = Fold(f, s)[s]
        BY <3>4
      <4> QED
        BY <2>2, <3>2, <4>2, <4>3, <4>4 DEF FoldBody
    <3> QED
      BY <3>3, <3>4
  <2> QED
    BY <2>1, <2>2
<1>7. IsFold(f, g, T)
  <2>1. g = [s \in SUBSET T |-> g[s]]
    OBVIOUS
  <2> HIDE DEF g
  <2> QED
    BY <1>6, <2>1 DEF IsFold
<1> HIDE DEF g
<1>8. IsFold(f, Fold(f, T), T)
  BY <1>7 DEF Fold
<1> QED
  BY <1>2, <1>8

-----------------------------------------------------------------------------
(***************************************************************************)
(* The sum of nothing, and the sum as the fold takes it apart.             *)
(***************************************************************************)
LEMMA SumUnfolds ==
    ASSUME NEW f, NEW S, IsFiniteSet(S)
    PROVE  /\ S = {} => SumFunctionOnSet(f, S) = 0
           /\ S # {} => SumFunctionOnSet(f, S) =
                          f[Chosen(S)] + SumFunctionOnSet(f, S \ {Chosen(S)})
<1>1. IsFold(f, Fold(f, S), S)
  BY FoldExists
<1>2. SumFunctionOnSet(f, S) = FoldBody(f, Fold(f, S), S)
  BY <1>1, SumIsFold DEF IsFold
<1>3. ASSUME S # {}
      PROVE  Fold(f, S)[S \ {Chosen(S)}] = SumFunctionOnSet(f, S \ {Chosen(S)})
  <2> DEFINE T == S \ {Chosen(S)}
  <2>1. T \in SUBSET S /\ IsFiniteSet(T)
    BY FS_Subset
  <2>2. IsFold(f, [s \in SUBSET T |-> Fold(f, S)[s]], T) /\ IsFold(f, Fold(f, T), T)
    BY <1>1, <2>1, FoldRestricts, FoldExists
  <2>3. Fold(f, T) = [s \in SUBSET T |-> Fold(f, S)[s]]
    BY <2>1, <2>2, FoldUnique
  <2>4. Fold(f, T)[T] = Fold(f, S)[T]
    BY <2>3
  <2> QED
    BY <2>4, SumIsFold
<1> QED
  BY <1>2, <1>3 DEF FoldBody

(***************************************************************************)
(* A sum of integers is an integer.                                        *)
(***************************************************************************)
LEMMA SumType ==
    ASSUME NEW f, NEW S, IsFiniteSet(S), \A x \in S : f[x] \in Int
    PROVE  SumFunctionOnSet(f, S) \in Int
<1> DEFINE B == {T \in SUBSET S : SumFunctionOnSet(f, T) \notin Int}
<1> SUFFICES ASSUME B # {} PROVE FALSE
  OBVIOUS
<1>0. B \subseteq SUBSET S
  OBVIOUS
<1>1. PICK T \in B : \A U \in B : U \subseteq T => U = T
  <2> HIDE DEF B
  <2> QED
    BY <1>0, SmallestSubset
<1>2. T \in SUBSET S /\ IsFiniteSet(T) /\ SumFunctionOnSet(f, T) \notin Int
  BY <1>1, FS_Subset
<1>3. T # {}
  <2>1. T = {} => SumFunctionOnSet(f, T) = 0
    BY <1>2, SumUnfolds
  <2> QED
    BY <1>2, <2>1
<1> DEFINE U == T \ {Chosen(T)}
<1>4. U \subseteq T /\ U # T /\ Chosen(T) \in S
  BY <1>2, <1>3, ChosenIsMember
<1>5. SumFunctionOnSet(f, U) \in Int /\ f[Chosen(T)] \in Int
  BY <1>1, <1>2, <1>4
<1>6. SumFunctionOnSet(f, T) = f[Chosen(T)] + SumFunctionOnSet(f, U)
  BY <1>2, <1>3, SumUnfolds
<1> HIDE DEF U
<1> QED
  BY <1>2, <1>5, <1>6

(***************************************************************************)
(* Any element can be taken out of a sum first.                            *)
(***************************************************************************)
LEMMA SumSplits ==
    ASSUME NEW f, NEW S, IsFiniteSet(S), \A y \in S : f[y] \in Int, NEW x \in S
    PROVE  SumFunctionOnSet(f, S) = f[x] + SumFunctionOnSet(f, S \ {x})
<1> DEFINE Splits(T, y) == SumFunctionOnSet(f, T) = f[y] + SumFunctionOnSet(f, T \ {y})
           B == {T \in SUBSET S : \E y \in T : ~Splits(T, y)}
<1> SUFFICES ASSUME B # {} PROVE FALSE
  OBVIOUS
<1>0. B \subseteq SUBSET S
  OBVIOUS
<1>1. PICK T \in B : \A U \in B : U \subseteq T => U = T
  <2> HIDE DEF B
  <2> QED
    BY <1>0, SmallestSubset
<1>2. PICK y \in T : ~Splits(T, y)
  BY <1>1
<1>3. T \in SUBSET S /\ IsFiniteSet(T) /\ T # {}
  BY <1>1, FS_Subset
<1> DEFINE c == Chosen(T)
           D == T \ {c, y}
<1>4. c \in T /\ SumFunctionOnSet(f, T) = f[c] + SumFunctionOnSet(f, T \ {c})
  BY <1>3, ChosenIsMember, SumUnfolds
<1>5. c # y
  BY <1>2, <1>4
<1>6. Splits(T \ {c}, y) /\ Splits(T \ {y}, c)
  <2>1. T \ {c} \in SUBSET S /\ T \ {c} # T /\ y \in T \ {c}
    BY <1>3, <1>4, <1>5
  <2>2. T \ {y} \in SUBSET S /\ T \ {y} # T /\ c \in T \ {y}
    BY <1>3, <1>4, <1>5
  <2> HIDE DEF Splits, c
  <2> QED
    BY <1>1, <2>1, <2>2
<1>7. (T \ {c}) \ {y} = D /\ (T \ {y}) \ {c} = D
  OBVIOUS
<1>8. f[c] \in Int /\ f[y] \in Int /\ SumFunctionOnSet(f, D) \in Int
  <2>1. D \in SUBSET S /\ IsFiniteSet(D)
    BY <1>3, FS_Subset
  <2> QED
    BY <1>3, <1>4, <2>1, SumType
<1>9. /\ SumFunctionOnSet(f, T \ {c}) = f[y] + SumFunctionOnSet(f, D)
      /\ SumFunctionOnSet(f, T \ {y}) = f[c] + SumFunctionOnSet(f, D)
  BY <1>6, <1>7
<1> HIDE DEF c, D
<1>10. SumFunctionOnSet(f, T) = f[y] + SumFunctionOnSet(f, T \ {y})
  BY <1>4, <1>8, <1>9
<1> QED
  BY <1>2, <1>10

(***************************************************************************)
(* A sum depends on the summands only.                                     *)
(***************************************************************************)
LEMMA SumSame ==
    ASSUME NEW f, NEW g, NEW S, IsFiniteSet(S), \A x \in S : f[x] = g[x]
    PROVE  SumFunctionOnSet(f, S) = SumFunctionOnSet(g, S)
<1> DEFINE B == {T \in SUBSET S : SumFunctionOnSet(f, T) # SumFunctionOnSet(g, T)}
<1> SUFFICES ASSUME B # {} PROVE FALSE
  OBVIOUS
<1>0. B \subseteq SUBSET S
  OBVIOUS
<1>1. PICK T \in B : \A U \in B : U \subseteq T => U = T
  <2> HIDE DEF B
  <2> QED
    BY <1>0, SmallestSubset
<1>2. T \in SUBSET S /\ IsFiniteSet(T) /\ SumFunctionOnSet(f, T) # SumFunctionOnSet(g, T)
  BY <1>1, FS_Subset
<1>3. T # {}
  BY <1>2, SumUnfolds
<1> DEFINE U == T \ {Chosen(T)}
<1>4. U \subseteq T /\ U # T /\ Chosen(T) \in S
  BY <1>2, <1>3, ChosenIsMember
<1>5. SumFunctionOnSet(f, U) = SumFunctionOnSet(g, U) /\ f[Chosen(T)] = g[Chosen(T)]
  BY <1>1, <1>2, <1>4
<1>6. /\ SumFunctionOnSet(f, T) = f[Chosen(T)] + SumFunctionOnSet(f, U)
      /\ SumFunctionOnSet(g, T) = g[Chosen(T)] + SumFunctionOnSet(g, U)
  BY <1>2, <1>3, SumUnfolds
<1> HIDE DEF U
<1> QED
  BY <1>2, <1>5, <1>6

(***************************************************************************)
(* One summand changes: the sum changes by as much.                        *)
(***************************************************************************)
LEMMA SumChanges ==
    ASSUME NEW f, NEW g, NEW S, IsFiniteSet(S), NEW x \in S,
           \A y \in S : f[y] \in Int /\ g[y] \in Int,
           \A y \in S \ {x} : f[y] = g[y]
    PROVE  SumFunctionOnSet(g, S) = SumFunctionOnSet(f, S) - f[x] + g[x]
<1> DEFINE T == S \ {x}
<1>1. IsFiniteSet(T)
  BY FS_Subset
<1>2. SumFunctionOnSet(f, T) = SumFunctionOnSet(g, T)
  BY <1>1, SumSame
<1>3. SumFunctionOnSet(f, T) \in Int
  BY <1>1, SumType
<1>4. /\ SumFunctionOnSet(f, S) = f[x] + SumFunctionOnSet(f, T)
      /\ SumFunctionOnSet(g, S) = g[x] + SumFunctionOnSet(g, T)
  BY SumSplits
<1>5. f[x] \in Int /\ g[x] \in Int
  OBVIOUS
<1> HIDE DEF T
<1> QED
  BY <1>2, <1>3, <1>4, <1>5

(***************************************************************************)
(* A set that gains an element gains its value: g agrees with f on the old *)
(* set.                                                                    *)
(***************************************************************************)
LEMMA SumGains ==
    ASSUME NEW f, NEW g, NEW S, IsFiniteSet(S), NEW x, x \notin S,
           \A y \in S \cup {x} : g[y] \in Int,
           \A y \in S : f[y] = g[y]
    PROVE  SumFunctionOnSet(g, S \cup {x}) = SumFunctionOnSet(f, S) + g[x]
<1> DEFINE T == S \cup {x}
<1>1. IsFiniteSet(T) /\ x \in T /\ T \ {x} = S
  BY FS_AddElement
<1>2. SumFunctionOnSet(g, T) = g[x] + SumFunctionOnSet(g, S)
  <2> HIDE DEF T
  <2>1. \A y \in T : g[y] \in Int
    BY DEF T
  <2>2. SumFunctionOnSet(g, T) = g[x] + SumFunctionOnSet(g, T \ {x})
    BY <1>1, <2>1, SumSplits
  <2> QED
    BY <1>1, <2>2
<1>3. SumFunctionOnSet(f, S) = SumFunctionOnSet(g, S)
  BY SumSame
<1>4. SumFunctionOnSet(g, S) \in Int
  BY SumType
<1> QED
  BY <1>2, <1>3, <1>4

(***************************************************************************)
(* Zeros add up to zero.                                                   *)
(***************************************************************************)
LEMMA SumOfZeros ==
    ASSUME NEW f, NEW S, IsFiniteSet(S), \A x \in S : f[x] = 0
    PROVE  SumFunctionOnSet(f, S) = 0
<1> DEFINE B == {T \in SUBSET S : SumFunctionOnSet(f, T) # 0}
<1> SUFFICES ASSUME B # {} PROVE FALSE
  OBVIOUS
<1>0. B \subseteq SUBSET S
  OBVIOUS
<1>1. PICK T \in B : \A U \in B : U \subseteq T => U = T
  <2> HIDE DEF B
  <2> QED
    BY <1>0, SmallestSubset
<1>2. T \in SUBSET S /\ IsFiniteSet(T) /\ SumFunctionOnSet(f, T) # 0
  BY <1>1, FS_Subset
<1>3. T # {}
  BY <1>2, SumUnfolds
<1> DEFINE U == T \ {Chosen(T)}
<1>4. Chosen(T) \in S /\ U \subseteq T /\ U # T /\ U \in SUBSET S
  BY <1>2, <1>3, ChosenIsMember
<1>5. SumFunctionOnSet(f, U) = 0
  BY <1>1, <1>4
<1>6. SumFunctionOnSet(f, T) = f[Chosen(T)] + SumFunctionOnSet(f, U)
  BY <1>2, <1>3, SumUnfolds
<1> QED
  BY <1>2, <1>4, <1>5, <1>6

(***************************************************************************)
(* No summand grows: the sum does not grow.                                *)
(***************************************************************************)
LEMMA SumOrder ==
    ASSUME NEW f, NEW g, NEW S, IsFiniteSet(S),
           \A x \in S : f[x] \in Int /\ g[x] \in Int /\ f[x] <= g[x]
    PROVE  SumFunctionOnSet(f, S) <= SumFunctionOnSet(g, S)
<1> DEFINE B == {T \in SUBSET S : ~(SumFunctionOnSet(f, T) <= SumFunctionOnSet(g, T))}
<1> SUFFICES ASSUME B # {} PROVE FALSE
  OBVIOUS
<1>0. B \subseteq SUBSET S
  OBVIOUS
<1>1. PICK T \in B : \A U \in B : U \subseteq T => U = T
  <2> HIDE DEF B
  <2> QED
    BY <1>0, SmallestSubset
<1>2. T \in SUBSET S /\ IsFiniteSet(T) /\ ~(SumFunctionOnSet(f, T) <= SumFunctionOnSet(g, T))
  BY <1>1, FS_Subset
<1>3. T # {}
  <2>1. SumFunctionOnSet(f, {}) = 0 /\ SumFunctionOnSet(g, {}) = 0
    BY FS_EmptySet, SumUnfolds
  <2> QED
    BY <1>2, <2>1
<1> DEFINE U == T \ {Chosen(T)}
<1>4. U \in SUBSET S /\ U \subseteq T /\ U # T /\ Chosen(T) \in S /\ IsFiniteSet(U)
  BY <1>2, <1>3, ChosenIsMember, FS_Subset
<1>5. SumFunctionOnSet(f, U) <= SumFunctionOnSet(g, U)
  BY <1>1, <1>4
<1>6. /\ SumFunctionOnSet(f, T) = f[Chosen(T)] + SumFunctionOnSet(f, U)
      /\ SumFunctionOnSet(g, T) = g[Chosen(T)] + SumFunctionOnSet(g, U)
  BY <1>2, <1>3, SumUnfolds
<1>7. SumFunctionOnSet(f, U) \in Int /\ SumFunctionOnSet(g, U) \in Int
  BY <1>4, SumType
<1>8. /\ f[Chosen(T)] \in Int /\ g[Chosen(T)] \in Int /\ f[Chosen(T)] <= g[Chosen(T)]
  BY <1>4
<1> HIDE DEF U
<1> QED
  BY <1>2, <1>5, <1>6, <1>7, <1>8

(***************************************************************************)
(* What is summed in two parts is the sum of the parts.                    *)
(***************************************************************************)
LEMMA SumAdds ==
    ASSUME NEW f, NEW g, NEW h, NEW S, IsFiniteSet(S),
           \A x \in S : f[x] \in Int /\ g[x] \in Int /\ h[x] = f[x] + g[x]
    PROVE  SumFunctionOnSet(h, S) = SumFunctionOnSet(f, S) + SumFunctionOnSet(g, S)
<1> DEFINE B == {T \in SUBSET S : SumFunctionOnSet(h, T)
                                   # SumFunctionOnSet(f, T) + SumFunctionOnSet(g, T)}
<1> SUFFICES ASSUME B # {} PROVE FALSE
  OBVIOUS
<1>0. B \subseteq SUBSET S
  OBVIOUS
<1>1. PICK T \in B : \A U \in B : U \subseteq T => U = T
  <2> HIDE DEF B
  <2> QED
    BY <1>0, SmallestSubset
<1>2. /\ T \in SUBSET S /\ IsFiniteSet(T)
      /\ SumFunctionOnSet(h, T) # SumFunctionOnSet(f, T) + SumFunctionOnSet(g, T)
  BY <1>1, FS_Subset
<1>3. T # {}
  <2>1. /\ SumFunctionOnSet(f, {}) = 0 /\ SumFunctionOnSet(g, {}) = 0
        /\ SumFunctionOnSet(h, {}) = 0
    BY FS_EmptySet, SumUnfolds
  <2>2. SumFunctionOnSet(h, {}) = SumFunctionOnSet(f, {}) + SumFunctionOnSet(g, {})
    BY <2>1
  <2> QED
    BY <1>2, <2>2, Zenon
<1> DEFINE U == T \ {Chosen(T)}
<1>4. U \in SUBSET S /\ U \subseteq T /\ U # T /\ Chosen(T) \in S /\ IsFiniteSet(U)
  BY <1>2, <1>3, ChosenIsMember, FS_Subset
<1>5. SumFunctionOnSet(h, U) = SumFunctionOnSet(f, U) + SumFunctionOnSet(g, U)
  BY <1>1, <1>4
<1>6. /\ SumFunctionOnSet(f, T) = f[Chosen(T)] + SumFunctionOnSet(f, U)
      /\ SumFunctionOnSet(g, T) = g[Chosen(T)] + SumFunctionOnSet(g, U)
      /\ SumFunctionOnSet(h, T) = h[Chosen(T)] + SumFunctionOnSet(h, U)
  BY <1>2, <1>3, SumUnfolds
<1>7. SumFunctionOnSet(f, U) \in Int /\ SumFunctionOnSet(g, U) \in Int
  BY <1>4, SumType
<1>8. /\ f[Chosen(T)] \in Int /\ g[Chosen(T)] \in Int
      /\ h[Chosen(T)] = f[Chosen(T)] + g[Chosen(T)]
  BY <1>4
<1> HIDE DEF U
<1> QED
  BY <1>2, <1>5, <1>6, <1>7, <1>8
=============================================================================
