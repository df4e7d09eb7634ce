---------------------------- MODULE CommonLemmas ----------------------------
(* Facts that the proofs of several components need: the order of the      *)
(* texts, for every resolution, induction, and sums.  The induction rules  *)
(* of the library take a predicate; these take the set of what satisfies   *)
(* it.                                                                     *)
EXTENDS Timestamps, Functions, FiniteSetTheorems, TLAPS

(* The text of a time is at most a second out of place. *)
LEMMA RankBounds ==
    ASSUME NEW t \in Int
    PROVE  TextRank(t) \in Int /\ t <= TextRank(t) /\ TextRank(t) <= t + TicksPerSecond
<1>1. TicksPerSecond \in Int /\ TicksPerSecond > 0
    BY TicksAssumption
<1>2. t % TicksPerSecond \in Int
    BY <1>1
<1> DEFINE fraction == t % TicksPerSecond
<1>3. CASE fraction = 0
    BY <1>1, <1>3 DEF TextRank
<1>4. CASE fraction # 0
    BY <1>1, <1>2, <1>4 DEF TextRank
<1> QED BY <1>3, <1>4

(* Without fractions the order of the texts is the order of the times. *)
LEMMA RankWithoutFraction ==
    ASSUME NEW t \in Int, TicksPerSecond = 1
    PROVE  TextRank(t) = t + 1
BY DEF TextRank

(* SQL's comparisons mislead by less than a second. *)
LEMMA TextOrder ==
    ASSUME NEW a \in Int, NEW b \in Int, TextLeq(a, b)
    PROVE  a < b + TicksPerSecond
<1>1. ASSUME NEW n \in 1..10, TicksPerSecond = n PROVE a < b + n
    BY <1>1 DEF TextLeq, TextRank
<1> QED BY <1>1, TicksAssumption

(* The strict comparison is the stronger one. *)
LEMMA TextLessIsLeq ==
    ASSUME NEW a \in Int, NEW b \in Int, TextLess(a, b)
    PROVE  TextLeq(a, b)
BY RankBounds DEF TextLess, TextLeq

-----------------------------------------------------------------------------
(* Induction *)

(* Every set of numbers that is not empty has a least element. *)
LEMMA LeastElement ==
    ASSUME NEW S \in SUBSET Nat, S # {}
    PROVE  \E m \in S : \A k \in S : m <= k
<1>1. IsWellFoundedOn(OpToRel(<, Nat), Nat)
    BY NatLessThanWellFounded
<1>2. PICK m \in S : \A k \in S : ~(<<k, m>> \in OpToRel(<, Nat))
    BY <1>1, WFMin, Zenon
<1>3. \A k \in S : k < m => <<k, m>> \in OpToRel(<, Nat)
    BY DEF OpToRel
<1>4. \A k \in S : ~(k < m)
    BY <1>2, <1>3, Zenon
<1> QED BY <1>4

(* A set with zero and with the successor of each number it has. *)
LEMMA AllNaturals ==
    ASSUME NEW S, 0 \in S, \A n \in Nat : n \in S => n + 1 \in S
    PROVE  Nat \subseteq S
<1> SUFFICES ASSUME NEW n \in Nat, n \notin S PROVE FALSE
    OBVIOUS
<1>1. PICK m \in Nat \ S : \A k \in Nat \ S : m <= k
    <2>1. Nat \ S # {} /\ Nat \ S \in SUBSET Nat
        OBVIOUS
    <2> QED BY <2>1, LeastElement
<1>2. m - 1 \in Nat /\ m - 1 < m
    BY <1>1
<1> QED BY <1>1, <1>2

(* A family that has every set of which it has all that are one smaller:   *)
(* it has every finite set.                                                *)
LEMMA AllFiniteSets ==
    ASSUME NEW S, IsFiniteSet(S), NEW F,
           \A T \in SUBSET S : (\A x \in T : T \ {x} \in F) => T \in F
    PROVE  S \in F
<1> DEFINE N == {n \in Nat : \A T \in SUBSET S : Cardinality(T) = n => T \in F}
<1>1. \A T \in SUBSET S : IsFiniteSet(T) /\ Cardinality(T) \in Nat
    BY FS_Subset, FS_CardinalityType
<1>2. 0 \in N
    BY <1>1, FS_EmptySet
<1>3. ASSUME NEW n \in Nat, n \in N PROVE n + 1 \in N
    <2> SUFFICES ASSUME NEW T \in SUBSET S, Cardinality(T) = n + 1 PROVE T \in F
        OBVIOUS
    <2>1. ASSUME NEW x \in T PROVE T \ {x} \in F
        <3>1. Cardinality(T \ {x}) = Cardinality(T) - 1
            BY <1>1, FS_RemoveElement, Zenon
        <3>2. Cardinality(T \ {x}) = n /\ T \ {x} \in SUBSET S
            BY <3>1
        <3> QED BY <1>3, <3>2
    <2> QED BY <2>1
<1>4. Nat \subseteq N
    <2> HIDE DEF N
    <2> QED BY <1>2, <1>3, AllNaturals
<1> QED BY <1>1, <1>4

-----------------------------------------------------------------------------
(* Sums.  The community module defines the sum of a function over a set by  *)
(* a recursive function that it chooses; the first lemmas show that there   *)
(* is one, and the others what it computes.                                 *)

Chosen(s) == CHOOSE x \in s : TRUE

(* The sum over s, if I has the sums over the sets that are smaller. *)
NextSum(I, f, s) == IF s = {} THEN 0 ELSE f[Chosen(s)] + I[s \ {Chosen(s)}]

(* I is that function: the sums of f over the subsets of S. *)
Sums(I, f, S) == I = [s \in SUBSET S |-> NextSum(I, f, s)]

LEMMA ChosenIsElement == ASSUME NEW s, s # {} PROVE Chosen(s) \in s
BY DEF Chosen

LEMMA SumsUnfold ==
    ASSUME NEW I, NEW f, NEW S, Sums(I, f, S)
    PROVE  /\ I[{}] = 0
           /\ \A s \in SUBSET S : s # {} => I[s] = f[Chosen(s)] + I[s \ {Chosen(s)}]
<1>1. \A s \in SUBSET S : I[s] = NextSum(I, f, s)
    BY Zenon DEF Sums
<1> QED BY <1>1 DEF NextSum

(* The function exists, built up by the size of the subsets. *)
LEMMA SumsExist ==
    ASSUME NEW f, NEW S, IsFiniteSet(S)
    PROVE  \E I : Sums(I, f, S)
<1> DEFINE Small(n) == {s \in SUBSET S : Cardinality(s) <= n}
           N == {n \in Nat : \E I : I = [s \in Small(n) |-> NextSum(I, f, s)]}
<1>1. \A s \in SUBSET S : IsFiniteSet(s) /\ Cardinality(s) \in Nat
    BY FS_Subset, FS_CardinalityType
<1>2. 0 \in N
    <2> DEFINE I == [s \in Small(0) |-> 0]
    <2>1. \A s \in Small(0) : s = {}
        BY <1>1, FS_EmptySet
    <2>2. I = [s \in Small(0) |-> NextSum(I, f, s)]
        BY <2>1 DEF NextSum
    <2> QED BY <2>2
<1>3. ASSUME NEW n \in Nat, n \in N PROVE n + 1 \in N
    <2>1. PICK I : I = [s \in Small(n) |-> NextSum(I, f, s)]
        BY <1>3
    <2> DEFINE J == [s \in Small(n + 1) |-> NextSum(I, f, s)]
    <2>2. Small(n) \subseteq Small(n + 1)
        BY <1>1
    <2>3. \A s \in Small(n) : J[s] = I[s]
        BY <2>1, <2>2, Zenon
    <2>4. ASSUME NEW s \in Small(n + 1), s # {}
          PROVE  s \ {Chosen(s)} \in Small(n)
        <3>1. Chosen(s) \in s
            BY <2>4, ChosenIsElement
        <3>2. Cardinality(s \ {Chosen(s)}) = Cardinality(s) - 1
            BY <1>1, <3>1, FS_RemoveElement, Zenon
        <3> QED BY <1>1, <3>2
    <2>5. \A s \in Small(n + 1) : NextSum(I, f, s) = NextSum(J, f, s)
        BY <2>3, <2>4 DEF NextSum
    <2>6. J = [s \in Small(n + 1) |-> NextSum(J, f, s)]
        BY <2>5
    <2>7. \E K : K = [s \in Small(n + 1) |-> NextSum(K, f, s)]
        <3> HIDE DEF J
        <3> QED BY <2>6
    <2> QED BY <2>7
<1>4. Nat \subseteq N
    <2> HIDE DEF N
    <2> QED BY <1>2, <1>3, AllNaturals
<1>5. Small(Cardinality(S)) = SUBSET S
    BY <1>1, FS_Subset
<1>6. Cardinality(S) \in N
    <2> HIDE DEF N
    <2> QED BY <1>1, <1>4
<1>7. \E I : I = [s \in Small(Cardinality(S)) |-> NextSum(I, f, s)]
    BY <1>6
<1> HIDE DEF Small
<1> QED BY <1>5, <1>7 DEF Sums

(* It depends on nothing but the values of f on the set that is summed. *)
LEMMA SumsAgree ==
    ASSUME NEW I, NEW f, NEW S, Sums(I, f, S),
           NEW J, NEW g, NEW T, Sums(J, g, T),
           NEW U \in SUBSET (S \cap T), IsFiniteSet(U), \A x \in U : f[x] = g[x]
    PROVE  I[U] = J[U]
<1> DEFINE F == {s \in SUBSET U : I[s] = J[s]}
<1>1. ASSUME NEW s \in SUBSET U, \A x \in s : s \ {x} \in F PROVE s \in F
    <2> s \in SUBSET S /\ s \in SUBSET T
        OBVIOUS
    <2>1. CASE s = {}
        BY <2>1, SumsUnfold
    <2>2. CASE s # {}
        <3>1. Chosen(s) \in s
            BY <2>2, ChosenIsElement
        <3>2. I[s] = f[Chosen(s)] + I[s \ {Chosen(s)}]
            BY <2>2, SumsUnfold
        <3>3. J[s] = g[Chosen(s)] + J[s \ {Chosen(s)}]
            BY <2>2, SumsUnfold
        <3> QED BY <1>1, <3>1, <3>2, <3>3
    <2> QED BY <2>1, <2>2
<1>2. U \in F
    <2> HIDE DEF F
    <2> QED BY <1>1, AllFiniteSets
<1> QED BY <1>2

LEMMA SumIsSums ==
    ASSUME NEW f, NEW S, IsFiniteSet(S)
    PROVE  \E I : Sums(I, f, S) /\ SumFunctionOnSet(f, S) = I[S]
<1> DEFINE H == CHOOSE I : Sums(I, f, S)
<1>1. Sums(H, f, S)
    BY SumsExist
<1>2. SumFunctionOnSet(f, S) = H[S]
    BY DEF SumFunctionOnSet, FoldFunctionOnSet, MapThenFoldSet, Sums, NextSum, Chosen
<1> QED BY <1>1, <1>2

LEMMA SumEmpty == ASSUME NEW f PROVE SumFunctionOnSet(f, {}) = 0
BY SumIsSums, SumsUnfold, FS_EmptySet

(* Functions with the same values have the same sum. *)
LEMMA SumEqual ==
    ASSUME NEW f, NEW g, NEW S, IsFiniteSet(S), \A x \in S : f[x] = g[x]
    PROVE  SumFunctionOnSet(f, S) = SumFunctionOnSet(g, S)
BY SumIsSums, SumsAgree

(* One element after the other. *)
LEMMA SumPick ==
    ASSUME NEW f, NEW S, IsFiniteSet(S), S # {}
    PROVE  \E c \in S : SumFunctionOnSet(f, S) = f[c] + SumFunctionOnSet(f, S \ {c})
<1>1. PICK I : Sums(I, f, S) /\ SumFunctionOnSet(f, S) = I[S]
    BY SumIsSums
<1>2. PICK c \in S : I[S] = f[c] + I[S \ {c}]
    BY <1>1, SumsUnfold, ChosenIsElement
<1>3. IsFiniteSet(S \ {c})
    BY FS_Subset
<1>4. PICK J : Sums(J, f, S \ {c}) /\ SumFunctionOnSet(f, S \ {c}) = J[S \ {c}]
    BY <1>3, SumIsSums
<1>5. I[S \ {c}] = J[S \ {c}]
    BY <1>1, <1>3, <1>4, SumsAgree
<1> QED BY <1>1, <1>2, <1>4, <1>5

(* Whatever is added is a number. *)
LEMMA SumType ==
    ASSUME NEW S, IsFiniteSet(S), NEW f, \A x \in S : f[x] \in Nat
    PROVE  SumFunctionOnSet(f, S) \in Nat
<1> DEFINE F == {T \in SUBSET S : SumFunctionOnSet(f, T) \in Nat}
<1>1. ASSUME NEW T \in SUBSET S, \A x \in T : T \ {x} \in F PROVE T \in F
    <2>1. CASE T = {}
        BY <2>1, SumEmpty
    <2>2. CASE T # {}
        <3>1. IsFiniteSet(T)
            BY FS_Subset
        <3>2. PICK c \in T : SumFunctionOnSet(f, T) = f[c] + SumFunctionOnSet(f, T \ {c})
            BY <2>2, <3>1, SumPick
        <3> QED BY <1>1, <3>2
    <2> QED BY <2>1, <2>2
<1>2. S \in F
    <2> HIDE DEF F
    <2> QED BY <1>1, AllFiniteSets
<1> QED BY <1>2

(* Any element can be taken out of a sum. *)
LEMMA SumRemove ==
    ASSUME NEW S, IsFiniteSet(S), NEW f, \A x \in S : f[x] \in Nat, NEW y \in S
    PROVE  SumFunctionOnSet(f, S) = f[y] + SumFunctionOnSet(f, S \ {y})
<1> DEFINE Sum(T) == SumFunctionOnSet(f, T)
           F == {T \in SUBSET S : \A x \in T : Sum(T) = f[x] + Sum(T \ {x})}
<1>1. ASSUME NEW T \in SUBSET S, \A x \in T : T \ {x} \in F PROVE T \in F
    <2> SUFFICES ASSUME NEW x \in T PROVE Sum(T) = f[x] + Sum(T \ {x})
        OBVIOUS
    <2>1. IsFiniteSet(T)
        BY FS_Subset
    <2>2. PICK c \in T : Sum(T) = f[c] + Sum(T \ {c})
        BY <2>1, SumPick
    <2>3. CASE x = c
        BY <2>2, <2>3
    <2>4. CASE x # c
        <3>1. (T \ {c}) \ {x} = (T \ {x}) \ {c}
            OBVIOUS
        <3>2. Sum(T \ {c}) = f[x] + Sum((T \ {c}) \ {x})
            BY <1>1, <2>4
        <3>3. Sum(T \ {x}) = f[c] + Sum((T \ {c}) \ {x})
            BY <1>1, <2>4, <3>1
        <3>4. Sum((T \ {c}) \ {x}) \in Nat
            <4>1. IsFiniteSet((T \ {c}) \ {x})
                BY <2>1, FS_Subset
            <4> QED BY <4>1, SumType
        <3> HIDE DEF Sum
        <3> QED BY <2>2, <3>2, <3>3, <3>4
    <2> QED BY <2>3, <2>4
<1>2. S \in F
    <2> HIDE DEF F
    <2> QED BY <1>1, AllFiniteSets
<1> QED BY <1>2

(* Smaller values have a smaller sum. *)
LEMMA SumMonotone ==
    ASSUME NEW S, IsFiniteSet(S), NEW f, NEW g,
           \A x \in S : f[x] \in Nat /\ g[x] \in Nat /\ f[x] <= g[x]
    PROVE  SumFunctionOnSet(f, S) <= SumFunctionOnSet(g, S)
<1> DEFINE F == {T \in SUBSET S : SumFunctionOnSet(f, T) <= SumFunctionOnSet(g, T)}
<1>1. ASSUME NEW T \in SUBSET S, \A x \in T : T \ {x} \in F PROVE T \in F
    <2>1. CASE T = {}
        BY <2>1, SumEmpty
    <2>2. CASE T # {}
        <3>1. PICK c \in T : TRUE
            BY <2>2
        <3>2. IsFiniteSet(T) /\ IsFiniteSet(T \ {c})
            BY FS_Subset
        <3>3. /\ SumFunctionOnSet(f, T) = f[c] + SumFunctionOnSet(f, T \ {c})
              /\ SumFunctionOnSet(g, T) = g[c] + SumFunctionOnSet(g, T \ {c})
            BY <3>2, SumRemove
        <3>4. /\ SumFunctionOnSet(f, T \ {c}) \in Nat
              /\ SumFunctionOnSet(g, T \ {c}) \in Nat
            BY <3>2, SumType
        <3> QED BY <1>1, <3>3, <3>4
    <2> QED BY <2>1, <2>2
<1>2. S \in F
    <2> HIDE DEF F
    <2> QED BY <1>1, AllFiniteSets
<1> QED BY <1>2

(* A new value for one element. *)
LEMMA SumExcept ==
    ASSUME NEW S, IsFiniteSet(S), NEW f \in [S -> Nat], NEW y \in S, NEW v \in Nat
    PROVE  SumFunction([f EXCEPT ![y] = v]) = SumFunction(f) - f[y] + v
<1> DEFINE g == [f EXCEPT ![y] = v]
<1>1. DOMAIN f = S /\ DOMAIN g = S /\ \A x \in S : f[x] \in Nat /\ g[x] \in Nat
    OBVIOUS
<1>2. IsFiniteSet(S \ {y})
    BY FS_Subset
<1>3. SumFunctionOnSet(f, S) = f[y] + SumFunctionOnSet(f, S \ {y})
    BY <1>1, SumRemove
<1>4. SumFunctionOnSet(g, S) = g[y] + SumFunctionOnSet(g, S \ {y})
    BY <1>1, SumRemove
<1>5. SumFunctionOnSet(f, S \ {y}) = SumFunctionOnSet(g, S \ {y})
    BY <1>2, SumEqual
<1>6. SumFunctionOnSet(f, S \ {y}) \in Nat
    BY <1>1, <1>2, SumType
<1> QED BY <1>1, <1>3, <1>4, <1>5, <1>6 DEF SumFunction

=============================================================================
