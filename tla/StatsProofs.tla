----------------------------- MODULE StatsProofs ------------------------------
(***************************************************************************)
(* Proofs about Stats.  The rounds of a player in the first half are those *)
(* of the match: two things are needed besides the property itself, that   *)
(* the match has no rounds while a complete reset is pending, so that the  *)
(* reset of the statistics makes both counts equal, and that who is not    *)
(* there is noted.  And the shares of a round fit the damage of the side:  *)
(* with the lemmas about sums that take half of the module, the damage of  *)
(* all who have a side, in the game or not, is that of the side.           *)
(***************************************************************************)
EXTENDS Stats, FiniteSetTheorems, WellFoundedInduction, TLAPS

CountsTyped == played \in Nat /\ play \in [Clients -> Nat] /\ here \subseteq Clients
NoRoundsInReset == state = "FIRST_HALF" /\ reset => played = 0
AbsenceNoted == state = "FIRST_HALF" /\ ~reset => Clients \ here \subseteq away
CountsInv == CountsTyped /\ NoRoundsInReset /\ AbsenceNoted /\ FirstHalfCounted

LEMMA CountsInit == Init => CountsInv
    BY DEF Init, CountsInv, CountsTyped, NoRoundsInReset, AbsenceNoted, FirstHalfCounted, Nobody

\* RoundEnd of CStats and of CPugMod agree, outside of the freeze time.
LEMMA DecideKeeps ==
    ASSUME CountsInv, NEW winner, Decide(winner), ~freeze, UNCHANGED <<state, reset, here, away>>
    PROVE  CountsInv'
    <1>1. CASE winner \in Team
        <2>1. /\ played' = played + (IF Counts THEN 1 ELSE 0)
              /\ play' = [c \in Clients |-> play[c] + (IF c \in here THEN 1 ELSE 0)]
            BY <1>1 DEF Decide
        <2>2. CountsTyped'
            BY <2>1 DEF CountsInv, CountsTyped
        <2>3. NoRoundsInReset' /\ AbsenceNoted'
            BY <2>1 DEF CountsInv, CountsTyped, NoRoundsInReset, AbsenceNoted, Counts
        <2>4. FirstHalfCounted'
            <3> SUFFICES ASSUME state = "FIRST_HALF", ~reset, NEW c \in Clients
                         PROVE  play'[c] <= played' /\ (c \notin away => play'[c] = played')
                BY DEF FirstHalfCounted
            <3>1. play[c] <= played /\ (c \notin away => play[c] = played)
                BY DEF CountsInv, FirstHalfCounted
            <3>2. played' = played + 1 /\ play'[c] = play[c] + (IF c \in here THEN 1 ELSE 0)
                BY <2>1 DEF Counts
            <3>3. c \notin away => c \in here
                BY DEF CountsInv, AbsenceNoted
            <3> QED  BY <3>1, <3>2, <3>3 DEF CountsInv, CountsTyped
        <2> QED  BY <2>2, <2>3, <2>4 DEF CountsInv
    <1>2. CASE winner \notin Team
        BY <1>2 DEF Decide, CountsInv, CountsTyped, NoRoundsInReset, AbsenceNoted,
                    FirstHalfCounted
    <1> QED  BY <1>1, <1>2

\* Every step keeps the counts together, if rounds are not decided in their freeze time.
LEMMA CountsNext ==
    ASSUME "EarlyEnd" \notin Events, CountsInv, [Next]_vars
    PROVE  CountsInv'
    <1>1. ASSUME NEW w \in Team \cup {"DRAW"}, RoundEnd(w) PROVE CountsInv'
        BY <1>1, DecideKeeps DEF RoundEnd, playerVars
    <1>2. ASSUME NEW a \in Clients, NEW v \in Clients, NEW units \in 1..Health, Hit(a, v, units)
          PROVE  CountsInv'
        <2>1. /\ ~freeze /\ UNCHANGED <<state, reset, here, away>>
              /\ Decide(seat[a]) \/ UNCHANGED <<play, played>>
            BY <1>2 DEF Hit
        <2>2. CASE Decide(seat[a])
            BY <2>1, <2>2, DecideKeeps
        <2>3. CASE UNCHANGED <<play, played>>
            BY <2>1, <2>3 DEF CountsInv, CountsTyped, NoRoundsInReset, AbsenceNoted,
                              FirstHalfCounted
        <2> QED  BY <2>1, <2>2, <2>3
    <1>3. CASE RestartRound
        <2>1. CASE ResetMatch
            BY <1>3, <2>1 DEF RestartRound, ResetMatch, Nobody, matchVars, CountsInv, CountsTyped,
                              NoRoundsInReset, AbsenceNoted, FirstHalfCounted
        <2>2. CASE ~ResetMatch
            BY <1>3, <2>2 DEF RestartRound, ResetMatch, matchVars, statsVars, CountsInv,
                              CountsTyped, NoRoundsInReset, AbsenceNoted, FirstHalfCounted
        <2> QED  BY <2>1, <2>2
    <1>4. CASE FreezeEnd
        BY <1>4 DEF FreezeEnd, matchVars, playerVars, CountsInv, CountsTyped, NoRoundsInReset,
                    AbsenceNoted, FirstHalfCounted
    <1>5. CASE NextState
        BY <1>5 DEF NextState, statsVars, CountsInv, CountsTyped, NoRoundsInReset, AbsenceNoted,
                    FirstHalfCounted
    <1>6. CASE RestarPeriod
        BY <1>6 DEF RestarPeriod, playerVars, statsVars, CountsInv, CountsTyped, NoRoundsInReset,
                    AbsenceNoted, FirstHalfCounted
    <1>7. ASSUME NEW c \in Clients, Leave(c) PROVE CountsInv'
        BY <1>7 DEF Leave, matchVars, engineVars, statsVars, CountsInv, CountsTyped,
                    NoRoundsInReset, AbsenceNoted, FirstHalfCounted
    <1>8. ASSUME NEW c \in Clients, NEW t \in Team, Return(c, t) PROVE CountsInv'
        BY <1>8 DEF Return, matchVars, engineVars, statsVars, CountsInv, CountsTyped,
                    NoRoundsInReset, AbsenceNoted, FirstHalfCounted
    <1>9. CASE UNCHANGED vars
        BY <1>9 DEF vars, matchVars, engineVars, playerVars, statsVars, CountsInv, CountsTyped,
                    NoRoundsInReset, AbsenceNoted, FirstHalfCounted
    <1> QED  BY <1>1, <1>2, <1>3, <1>4, <1>5, <1>6, <1>7, <1>8, <1>9 DEF Next

\* For any number of players and rounds, with players who leave and come back on either side,
\* restarts at any moment and hits in any order: the rounds that a player has played in the
\* first half are the rounds of the match, if he was there throughout, and never more.
THEOREM FirstHalfIsCounted ==
    ASSUME "EarlyEnd" \notin Events
    PROVE  Spec => []FirstHalfCounted
    <1>1. CountsInv /\ [Next]_vars => CountsInv'
        BY CountsNext
    <1>2. CountsInv => FirstHalfCounted
        BY DEF CountsInv
    <1> QED  BY <1>1, <1>2, CountsInit, PTL DEF Spec

-------------------------------------------------------------------------------
(* Sums over finite sets.  The library's induction theorems take an operator,*)
(* which no prover here instantiates, but a set without a least member is    *)
(* empty, and that is a fact about sets: a claim about all subsets is proved *)
(* by the smallest of those that it fails for.                               *)

\* The well-founded order of the naturals, as a fact about sets of them.
LEMMA LeastNumber ==
    ASSUME NEW T \in SUBSET Nat, T # {}
    PROVE  \E n \in T : \A m \in T : n <= m
    <1> DEFINE less == OpToRel(<, Nat)
    <1>1. \A m, n \in Nat : m < n => <<m, n>> \in less
        BY DEF OpToRel
    <1>2. IsWellFoundedOn(less, Nat)
        BY NatLessThanWellFounded
    <1> HIDE DEF less
    <1>3. PICK n \in T : \A m \in T : <<m, n>> \notin less
        BY <1>2, WFMin
    <1>4. ASSUME NEW m \in T PROVE n <= m
        <2>1. m \in Nat /\ n \in Nat /\ ~(m < n)
            BY <1>1, <1>3
        <2> QED  BY <2>1
    <1> QED  BY <1>4

\* The fold over a set as the library defines it: the chosen element and the rest.
Some(s) == CHOOSE x \in s : TRUE
Folded(f, s, it) == IF s = {} THEN 0 ELSE f[Some(s)] + it[s \ {Some(s)}]
Folds(f, subsets, it) == it = [s \in subsets |-> Folded(f, s, it)]

SumOn(f, S) == FoldFunctionOnSet(+, 0, f, S)

\* FoldFunctionOnSet is the function that the equation defines, applied to the whole set.
LEMMA SumIs ==
    ASSUME NEW f, NEW S
    PROVE  SumOn(f, S) = (CHOOSE it : Folds(f, SUBSET S, it))[S]
    BY DEF SumOn, FoldFunctionOnSet, MapThenFoldSet, Folds, Folded, Some

\* Without its chosen element a set is smaller by one.
LEMMA WithoutSome ==
    ASSUME NEW S, IsFiniteSet(S), NEW s \in SUBSET S, s # {}
    PROVE  /\ Some(s) \in s /\ s \ {Some(s)} \in SUBSET S
           /\ IsFiniteSet(s) /\ Cardinality(s) \in Nat
           /\ Cardinality(s \ {Some(s)}) = Cardinality(s) - 1
    <1>1. Some(s) \in s
        BY DEF Some
    <1> QED  BY <1>1, FS_Subset, FS_CardinalityType, FS_RemoveElement

\* The equation has a solution: there is no least size of subsets for which it has none.
LEMMA FoldExists ==
    ASSUME NEW f, NEW S, IsFiniteSet(S)
    PROVE  \E it : Folds(f, SUBSET S, it)
    <1> DEFINE sub(n) == {s \in SUBSET S : Cardinality(s) <= n}
               Good(n) == \E it : Folds(f, sub(n), it)
               Bad == {n \in Nat : ~Good(n)}
    <1>0. \A s \in SUBSET S :
              IsFiniteSet(s) /\ Cardinality(s) \in Nat /\ Cardinality(s) <= Cardinality(S)
        BY FS_Subset, FS_CardinalityType
    <1>1. Good(0)
        <2>1. \A s \in sub(0) : s = {}
            BY <1>0, FS_EmptySet
        <2> DEFINE it == [s \in sub(0) |-> 0]
        <2>2. Folds(f, sub(0), it)
            BY <2>1 DEF Folds, Folded
        <2> QED  BY <2>2
    <1>2. ASSUME NEW n \in Nat, Good(n) PROVE Good(n + 1)
        <2>1. PICK g : Folds(f, sub(n), g)
            BY <1>2
        <2> DEFINE it == [s \in sub(n + 1) |-> Folded(f, s, g)]
        <2>2. ASSUME NEW s \in sub(n)
              PROVE  s \in sub(n + 1) /\ it[s] = g[s]
            <3>1. s \in sub(n + 1)
                BY <1>0
            <3>2. g[s] = Folded(f, s, g)
                BY <2>1 DEF Folds
            <3> QED  BY <3>1, <3>2
        <2>3. ASSUME NEW s \in sub(n + 1), s # {}
              PROVE  s \ {Some(s)} \in sub(n)
            BY <2>3, <1>0, WithoutSome
        <2>4. ASSUME NEW s \in sub(n + 1)
              PROVE  Folded(f, s, g) = Folded(f, s, it)
            <3> HIDE DEF it, sub
            <3> QED  BY <2>2, <2>3 DEF Folded
        <2>5. Folds(f, sub(n + 1), it)
            BY <2>4 DEF Folds
        <2> QED  BY <2>5
    <1>3. \A n \in Nat : Good(n)
        <2> HIDE DEF Good
        <2> SUFFICES ASSUME Bad # {} PROVE FALSE
            OBVIOUS
        <2>1. PICK n \in Bad : \A m \in Bad : n <= m
            BY LeastNumber
        <2>2. n # 0 /\ n - 1 \in Nat /\ n - 1 \notin Bad /\ (n - 1) + 1 = n
            BY <1>1, <2>1
        <2> QED  BY <1>2, <2>1, <2>2
    <1>4. sub(Cardinality(S)) = SUBSET S /\ Cardinality(S) \in Nat
        BY <1>0
    <1>5. Good(Cardinality(S))
        BY <1>3, <1>4
    <1> QED  BY <1>4, <1>5

\* Solutions for the subsets of two sets agree: there is no least set on which they differ.
LEMMA FoldUnique ==
    ASSUME NEW f, NEW S, IsFiniteSet(S), NEW R \in SUBSET S
    PROVE  \A g, h : Folds(f, SUBSET S, g) /\ Folds(f, SUBSET R, h) => g[R] = h[R]
    <1> SUFFICES ASSUME NEW g, Folds(f, SUBSET S, g), NEW h, Folds(f, SUBSET R, h)
                 PROVE  g[R] = h[R]
        OBVIOUS
    <1> DEFINE Bad == {n \in Nat : \E s \in SUBSET R : Cardinality(s) = n /\ g[s] # h[s]}
    <1>1. IsFiniteSet(R) /\ R \in SUBSET R /\ Cardinality(R) \in Nat
        BY FS_Subset, FS_CardinalityType
    <1>2. ASSUME Bad # {} PROVE FALSE
        <2>1. PICK n \in Bad : \A m \in Bad : n <= m
            BY <1>2, LeastNumber
        <2>2. PICK s \in SUBSET R : Cardinality(s) = n /\ g[s] # h[s]
            BY <2>1
        <2>3. g[s] = Folded(f, s, g)
            BY DEF Folds
        <2>4. h[s] = Folded(f, s, h)
            BY DEF Folds
        <2>5. s # {}
            BY <2>2, <2>3, <2>4 DEF Folded
        <2> DEFINE r == s \ {Some(s)}
        <2>6. r \in SUBSET R /\ Cardinality(r) = n - 1
            BY <1>1, <2>2, <2>5, WithoutSome
        <2>7. IsFiniteSet(r)
            BY <1>1, <2>6, FS_Subset
        <2>8. n \in Nat /\ n - 1 \in Nat
            BY <2>6, <2>7, FS_CardinalityType
        <2>9. n - 1 \notin Bad
            BY <2>1, <2>8
        <2>10. g[r] = h[r]
            BY <2>6, <2>8, <2>9
        <2> QED  BY <2>2, <2>3, <2>4, <2>5, <2>10 DEF Folded
    <1> QED  BY <1>1, <1>2

\* So the sum is what the recursion says.
LEMMA SumEquation ==
    ASSUME NEW f, NEW S, IsFiniteSet(S)
    PROVE  /\ SumOn(f, {}) = 0
           /\ S # {} => SumOn(f, S) = f[Some(S)] + SumOn(f, S \ {Some(S)})
    <1>1. ASSUME NEW T \in SUBSET S
          PROVE  \E g : Folds(f, SUBSET T, g) /\ SumOn(f, T) = g[T]
        <2>1. IsFiniteSet(T)
            BY FS_Subset
        <2> QED  BY <2>1, FoldExists, SumIs
    <1>2. PICK g : Folds(f, SUBSET S, g) /\ SumOn(f, S) = g[S]
        BY <1>1
    <1>3. ASSUME NEW T \in SUBSET S PROVE SumOn(f, T) = g[T]
        <2>1. PICK h : Folds(f, SUBSET T, h) /\ SumOn(f, T) = h[T]
            BY <1>1
        <2> HIDE DEF SumOn
        <2>2. Folds(f, SUBSET S, g) /\ Folds(f, SUBSET T, h)
            BY <1>2, <2>1
        <2>3. \A a, b : Folds(f, SUBSET S, a) /\ Folds(f, SUBSET T, b) => a[T] = b[T]
            <3> HIDE <1>2, <2>1, <2>2
            <3> QED  BY FoldUnique
        <2>4. g[T] = h[T]
            BY <2>2, <2>3
        <2> QED  BY <2>1, <2>4
    <1>4. ASSUME NEW T \in SUBSET S PROVE g[T] = Folded(f, T, g)
        BY <1>2 DEF Folds
    <1>5. SumOn(f, {}) = 0
        BY <1>3, <1>4 DEF Folded
    <1>6. S # {} => SumOn(f, S) = f[Some(S)] + SumOn(f, S \ {Some(S)})
        <2>1. Some(S) \in S => S \ {Some(S)} \in SUBSET S
            OBVIOUS
        <2> QED  BY <1>3, <1>4 DEF Folded
    <1> QED  BY <1>5, <1>6

\* Induction on the subsets of a finite set: a family of them has a smallest member.
LEMMA SmallestMember ==
    ASSUME NEW S, IsFiniteSet(S), NEW E \in SUBSET SUBSET S, E # {}
    PROVE  \E s \in E : \A r \in E : r \subseteq s => r = s
    <1> DEFINE sizes == {n \in Nat : \E s \in E : Cardinality(s) = n}
    <1>1. \A s \in SUBSET S : IsFiniteSet(s) /\ Cardinality(s) \in Nat
        BY FS_Subset, FS_CardinalityType
    <1>2. sizes # {}
        BY <1>1
    <1>3. PICK n \in sizes : \A m \in sizes : n <= m
        BY <1>2, LeastNumber
    <1>4. PICK s \in E : Cardinality(s) = n
        BY <1>3
    <1>5. ASSUME NEW r \in E, r \subseteq s PROVE r = s
        <2>1. Cardinality(r) \in sizes
            BY <1>1
        <2>2. n <= Cardinality(r)
            BY <1>3, <2>1
        <2>3. r # s => Cardinality(r) < Cardinality(s)
            BY <1>1, <1>5, FS_Subset
        <2> QED  BY <1>1, <1>4, <2>2, <2>3
    <1> QED  BY <1>4, <1>5

\* The form in which it is used: E are the sets that a claim fails for.
LEMMA NoSmallest ==
    ASSUME NEW S, IsFiniteSet(S), NEW E \in SUBSET SUBSET S,
           \A s \in E : ~ \A r \in E : r \subseteq s => r = s
    PROVE  E = {}
    BY SmallestMember

\* A sum of naturals is one.
LEMMA SumType ==
    ASSUME NEW S, IsFiniteSet(S), NEW f \in [S -> Nat], NEW T \in SUBSET S
    PROVE  SumOn(f, T) \in Nat
    <1> HIDE DEF SumOn
    <1> DEFINE E == {s \in SUBSET S : SumOn(f, s) \notin Nat}
    <1>1. ASSUME NEW s \in E, \A r \in E : r \subseteq s => r = s PROVE FALSE
        <2>1. IsFiniteSet(s)
            BY FS_Subset
        <2>2. s # {}
            <3>1. SumOn(f, {}) = 0 /\ SumOn(f, s) \notin Nat
                BY <2>1, SumEquation
            <3> QED  BY <3>1
        <2> DEFINE z == Some(s)
        <2>3. z \in s
            BY <2>2 DEF Some
        <2>4. SumOn(f, s \ {z}) \in Nat /\ f[z] \in Nat
            BY <1>1, <2>3
        <2>5. SumOn(f, s) = f[z] + SumOn(f, s \ {z})
            BY <2>1, <2>2, SumEquation
        <2> QED  BY <2>4, <2>5
    <1>2. E \in SUBSET SUBSET S
        OBVIOUS
    <1>3. E = {}
        <2> HIDE DEF E
        <2> QED  BY <1>1, <1>2, NoSmallest
    <1> QED  BY <1>3

\* Any element may be summed first.
LEMMA SumTakeAny ==
    ASSUME NEW S, IsFiniteSet(S), NEW f \in [S -> Nat], NEW T \in SUBSET S, NEW x \in T
    PROVE  SumOn(f, T) = f[x] + SumOn(f, T \ {x})
    <1> HIDE DEF SumOn
    <1> DEFINE Wrong(s) == \E y \in s : SumOn(f, s) # f[y] + SumOn(f, s \ {y})
               E == {s \in SUBSET S : Wrong(s)}
    <1>1. ASSUME NEW s \in E, \A r \in E : r \subseteq s => r = s PROVE FALSE
        <2>1. PICK y \in s : SumOn(f, s) # f[y] + SumOn(f, s \ {y})
            OBVIOUS
        <2> DEFINE z == Some(s)
        <2>2. z \in s
            BY <2>1 DEF Some
        <2>3. IsFiniteSet(s)
            BY FS_Subset
        <2>4. SumOn(f, s) = f[z] + SumOn(f, s \ {z})
            BY <2>1, <2>3, SumEquation
        <2> HIDE DEF z
        <2>5. y # z
            BY <2>1, <2>4
        <2>6. ~Wrong(s \ {z}) /\ ~Wrong(s \ {y})
            BY <1>1, <2>1, <2>2
        <2>7. SumOn(f, s \ {z}) = f[y] + SumOn(f, (s \ {z}) \ {y})
            BY <2>1, <2>5, <2>6
        <2>8. SumOn(f, s \ {y}) = f[z] + SumOn(f, (s \ {y}) \ {z})
            BY <2>2, <2>5, <2>6
        <2>9. (s \ {z}) \ {y} = (s \ {y}) \ {z}
            OBVIOUS
        <2>10. /\ f[y] \in Nat /\ f[z] \in Nat
               /\ (s \ {z}) \ {y} \in SUBSET S
            BY <2>1, <2>2
        <2>11. SumOn(f, (s \ {z}) \ {y}) \in Nat
            BY <2>10, SumType
        <2>12. \A a, b, n \in Nat : a + (b + n) = b + (a + n)
            OBVIOUS
        <2>13. f[z] + SumOn(f, s \ {z}) = f[y] + SumOn(f, s \ {y})
            BY <2>7, <2>8, <2>9, <2>10, <2>11, <2>12
        <2> QED  BY <2>1, <2>4, <2>13
    <1>2. E \in SUBSET SUBSET S
        OBVIOUS
    <1>3. E = {}
        <2> HIDE DEF E
        <2> QED  BY <1>1, <1>2, NoSmallest
    <1> QED  BY <1>3

\* A sum over fewer is no greater.
LEMMA SumOfFewer ==
    ASSUME NEW S, IsFiniteSet(S), NEW f \in [S -> Nat],
           NEW T \in SUBSET S, NEW U \in SUBSET T
    PROVE  SumOn(f, U) <= SumOn(f, T)
    <1> HIDE DEF SumOn
    <1> DEFINE Wrong(s) == U \subseteq s /\ ~(SumOn(f, U) <= SumOn(f, s))
               E == {s \in SUBSET S : Wrong(s)}
    <1>0. \A s \in SUBSET S : SumOn(f, s) \in Nat
        BY SumType
    <1>1. ASSUME NEW s \in E, \A r \in E : r \subseteq s => r = s PROVE FALSE
        <2>1. s # U
            BY <1>0
        <2>2. PICK x \in s : x \notin U
            BY <2>1
        <2>3. ~Wrong(s \ {x})
            BY <1>1, <2>2
        <2>4. SumOn(f, U) <= SumOn(f, s \ {x})
            BY <2>2, <2>3
        <2>5. SumOn(f, s) = f[x] + SumOn(f, s \ {x})
            BY SumTakeAny
        <2> QED  BY <1>0, <2>2, <2>4, <2>5
    <1>2. E \in SUBSET SUBSET S
        OBVIOUS
    <1>3. E = {}
        <2> HIDE DEF E
        <2> QED  BY <1>1, <1>2, NoSmallest
    <1> QED  BY <1>3

\* Two functions that agree on a set have the same sum over it.
LEMMA SumOfEqual ==
    ASSUME NEW S, IsFiniteSet(S), NEW f \in [S -> Nat], NEW g \in [S -> Nat],
           NEW T \in SUBSET S, \A c \in T : f[c] = g[c]
    PROVE  SumOn(f, T) = SumOn(g, T)
    <1> HIDE DEF SumOn
    <1> DEFINE E == {s \in SUBSET T : SumOn(f, s) # SumOn(g, s)}
    <1>0. IsFiniteSet(T)
        BY FS_Subset
    <1>1. ASSUME NEW s \in E, \A r \in E : r \subseteq s => r = s PROVE FALSE
        <2>1. IsFiniteSet(s)
            BY <1>0, FS_Subset
        <2>2. s # {}
            BY <2>1, SumEquation
        <2>3. PICK x \in s : TRUE
            BY <2>2
        <2>4. SumOn(f, s \ {x}) = SumOn(g, s \ {x})
            BY <1>1, <2>3
        <2>5. s \in SUBSET S /\ f[x] = g[x]
            OBVIOUS
        <2>6. SumOn(f, s) = f[x] + SumOn(f, s \ {x})
            BY <2>5, SumTakeAny
        <2>7. SumOn(g, s) = g[x] + SumOn(g, s \ {x})
            BY <2>5, SumTakeAny
        <2> QED  BY <2>4, <2>5, <2>6, <2>7
    <1>2. E \in SUBSET SUBSET T
        OBVIOUS
    <1>3. E = {}
        <2> HIDE DEF E
        <2> QED  BY <1>0, <1>1, <1>2, NoSmallest
    <1> QED  BY <1>3

\* A sum of zeros is zero.
LEMMA SumOfZeros ==
    ASSUME NEW S, IsFiniteSet(S), NEW f \in [S -> Nat],
           NEW T \in SUBSET S, \A c \in T : f[c] = 0
    PROVE  SumOn(f, T) = 0
    <1> HIDE DEF SumOn
    <1> DEFINE E == {s \in SUBSET T : SumOn(f, s) # 0}
    <1>0. IsFiniteSet(T)
        BY FS_Subset
    <1>1. ASSUME NEW s \in E, \A r \in E : r \subseteq s => r = s PROVE FALSE
        <2>1. IsFiniteSet(s)
            BY <1>0, FS_Subset
        <2>2. s # {}
            BY <2>1, SumEquation
        <2>3. PICK x \in s : TRUE
            BY <2>2
        <2>4. SumOn(f, s \ {x}) = 0 /\ f[x] = 0 /\ s \in SUBSET S
            BY <1>1, <2>3
        <2>5. SumOn(f, s) = f[x] + SumOn(f, s \ {x})
            BY <2>4, SumTakeAny
        <2> QED  BY <2>4, <2>5
    <1>2. E \in SUBSET SUBSET T
        OBVIOUS
    <1>3. E = {}
        <2> HIDE DEF E
        <2> QED  BY <1>0, <1>1, <1>2, NoSmallest
    <1> QED  BY <1>3

\* Who is in the set and gets n more adds n to its sum.
LEMMA SumOfMore ==
    ASSUME NEW S, IsFiniteSet(S), NEW f \in [S -> Nat], NEW x \in S, NEW n \in Nat,
           NEW T \in SUBSET S, NEW g \in [S -> Nat],
           g[x] = f[x] + n, \A c \in T \ {x} : f[c] = g[c]
    PROVE  SumOn(g, T) = SumOn(f, T) + IF x \in T THEN n ELSE 0
    <1> HIDE DEF SumOn
    <1>1. SumOn(f, T) \in Nat /\ SumOn(f, T \ {x}) \in Nat /\ f[x] \in Nat
        BY SumType
    <1>2. SumOn(f, T \ {x}) = SumOn(g, T \ {x})
        BY SumOfEqual
    <1>3. CASE x \in T
        <2>1. SumOn(f, T) = f[x] + SumOn(f, T \ {x})
            BY <1>3, SumTakeAny
        <2>2. SumOn(g, T) = g[x] + SumOn(g, T \ {x})
            BY <1>3, SumTakeAny
        <2>3. SumOn(g, T) = SumOn(f, T) + n
            BY <1>1, <1>2, <2>1, <2>2
        <2> QED  BY <1>3, <2>3
    <1>4. CASE x \notin T
        <2>1. T \ {x} = T
            BY <1>4
        <2>2. SumOn(g, T) = SumOn(f, T)
            BY <1>2, <2>1
        <2>3. SumOn(f, T) + 0 = SumOn(f, T)
            BY <1>1
        <2> QED  BY <1>4, <2>2, <2>3
    <1> QED  BY <1>3, <1>4

-------------------------------------------------------------------------------
(* The shares.                                                             *)

\* Whoever has the side t, in the game or not.
Side(t) == {c \in Clients : seat[c] = t}
SumOfSide(t) == SumOn(damage, Side(t))

SharesTyped ==
    /\ here \subseteq Clients /\ seat \in [Clients -> Team]
    /\ damage \in [Clients -> Nat] /\ sideDamage \in [Team -> Nat]

\* In a round of the match the damage of a side is that of its players.
SidesSum == IsLive /\ ~freeze /\ ~reset => \A t \in Team : SumOfSide(t) = sideDamage[t]
SharesInv == SharesTyped /\ SidesSum

LEMMA SharesInit == Init => SharesInv
    BY ClientsAssumption
    DEF Init, SharesInv, SharesTyped, SidesSum, IsLive, Halves, Nobody, NoSideDamage, Team

LEMMA SharesImply == SharesInv => SharesFit
    <1> SUFFICES ASSUME SharesInv, IsLive /\ ~freeze /\ ~reset, NEW t \in Team
                 PROVE  DamageOf(t) <= sideDamage[t]
        BY DEF SharesFit
    <1>1. Members(t) \subseteq Side(t) /\ Side(t) \subseteq Clients
        BY DEF Members, Side, SharesInv, SharesTyped
    <1>2. SumOn(damage, Members(t)) <= SumOn(damage, Side(t))
        BY <1>1, ClientsAssumption, SumOfFewer DEF SharesInv, SharesTyped
    <1>3. DamageOf(t) = SumOn(damage, Members(t))
        BY DEF DamageOf, SumOn
    <1> QED  BY <1>2, <1>3 DEF SharesInv, SidesSum, SumOfSide

\* Steps that touch neither the damage nor, within a round, the sides.
LEMMA SharesStand ==
    ASSUME SharesInv, here' \subseteq Clients, UNCHANGED <<damage, sideDamage>>,
           seat' \in [Clients -> Team],
           IsLive' /\ ~freeze' /\ ~reset' => IsLive /\ ~freeze /\ ~reset /\ seat' = seat
    PROVE  SharesInv'
    <1>1. SharesTyped'
        BY DEF SharesInv, SharesTyped
    <1>2. ASSUME IsLive' /\ ~freeze' /\ ~reset', NEW t \in Team
          PROVE  SumOfSide(t)' = sideDamage'[t]
        <2>1. Side(t)' = Side(t)
            BY <1>2 DEF Side
        <2>2. SumOfSide(t) = sideDamage[t]
            BY <1>2 DEF SharesInv, SidesSum
        <2> QED  BY <2>1, <2>2 DEF SumOfSide
    <1> QED  BY <1>1, <1>2 DEF SharesInv, SidesSum

\* CStats::ResetRound, whatever the sides are.
LEMMA SharesStartEmpty ==
    ASSUME SharesInv, here' = here, seat' = seat, ResetRound
    PROVE  SharesInv'
    <1>1. SharesTyped' /\ damage' = Nobody /\ sideDamage' = NoSideDamage
        BY DEF SharesInv, SharesTyped, ResetRound, Nobody, NoSideDamage
    <1>2. ASSUME NEW t \in Team PROVE SumOn(damage', Side(t)') = 0
        <2>1. \A c \in Side(t)' : damage'[c] = 0
            BY <1>1 DEF Nobody, Side
        <2>2. Side(t)' \subseteq Clients /\ damage' \in [Clients -> Nat]
            BY <1>1 DEF Side, SharesTyped
        <2> QED  BY <2>1, <2>2, ClientsAssumption, SumOfZeros
    <1>3. ASSUME NEW t \in Team PROVE SumOfSide(t)' = sideDamage'[t]
        BY <1>1, <1>2 DEF SumOfSide, NoSideDamage
    <1> QED  BY <1>1, <1>3 DEF SharesInv, SidesSum

\* A hit counts for the attacker and for the side he has.
LEMMA HitKeepsShares ==
    ASSUME SharesInv, NEW a \in Clients, NEW v \in Clients, NEW units \in 1..Health,
           Hit(a, v, units)
    PROVE  SharesInv'
    <1>1. /\ IsLive /\ ~freeze /\ UNCHANGED <<state, freeze, reset, here, seat>>
          /\ damage' = [damage EXCEPT ![a] = @ + units]
          /\ sideDamage' = [sideDamage EXCEPT ![seat[a]] = @ + units]
        BY DEF Hit
    <1>2. units \in Nat /\ seat[a] \in Team
        BY NumbersAssumption DEF SharesInv, SharesTyped
    <1>3. SharesTyped'
        BY <1>1, <1>2 DEF SharesInv, SharesTyped
    <1>4. ASSUME ~reset, NEW t \in Team PROVE SumOfSide(t)' = sideDamage'[t]
        <2>1. SumOn(damage, Side(t)) = sideDamage[t]
            BY <1>1, <1>4 DEF SharesInv, SidesSum, SumOfSide
        <2>2. Side(t)' = Side(t) /\ Side(t) \in SUBSET Clients /\ damage \in [Clients -> Nat]
            BY <1>1 DEF Side, SharesInv, SharesTyped
        <2>3. SumOn(damage', Side(t)) = SumOn(damage, Side(t)) + IF a \in Side(t) THEN units ELSE 0
            <3>1. damage'[a] = damage[a] + units /\ \A c \in Side(t) \ {a} : damage[c] = damage'[c]
                BY <1>1, <2>2
            <3>2. damage' \in [Clients -> Nat]
                BY <1>3 DEF SharesTyped
            <3> HIDE <1>1, <2>1
            <3> QED  BY <1>2, <2>2, <3>1, <3>2, ClientsAssumption, SumOfMore
        <2>4. a \in Side(t) <=> seat[a] = t
            BY DEF Side
        <2>5. sideDamage'[t] = sideDamage[t] + IF seat[a] = t THEN units ELSE 0
            BY <1>1, <1>2 DEF SharesInv, SharesTyped
        <2>6. SumOfSide(t)' = SumOn(damage', Side(t))
            BY <2>2 DEF SumOfSide
        <2> QED  BY <2>1, <2>3, <2>4, <2>5, <2>6
    <1> QED  BY <1>1, <1>3, <1>4 DEF SharesInv, SidesSum

LEMMA SharesNext ==
    ASSUME "Switch" \notin Events, SharesInv, [Next]_vars
    PROVE  SharesInv'
    <1>0. here \subseteq Clients /\ seat \in [Clients -> Team]
        BY DEF SharesInv, SharesTyped
    <1>1. ASSUME NEW w \in Team \cup {"DRAW"}, RoundEnd(w) PROVE SharesInv'
        BY <1>0, <1>1, SharesStand DEF RoundEnd, playerVars, IsLive
    <1>2. ASSUME NEW a \in Clients, NEW v \in Clients, NEW units \in 1..Health, Hit(a, v, units)
          PROVE  SharesInv'
        BY <1>2, HitKeepsShares
    <1>3. CASE RestartRound
        <2>1. freeze' /\ UNCHANGED <<here, seat>>
            BY <1>3 DEF RestartRound
        <2>2. CASE ResetMatch
            BY <1>3, <2>1, <2>2, SharesStartEmpty DEF RestartRound
        <2>3. CASE ~ResetMatch
            BY <1>0, <1>3, <2>1, <2>3, SharesStand DEF RestartRound, statsVars
        <2> QED  BY <2>2, <2>3
    <1>4. CASE FreezeEnd
        <2>1. UNCHANGED <<state, here, seat>>
            BY <1>4 DEF FreezeEnd, matchVars, playerVars
        <2>2. CASE Resets
            BY <1>4, <2>1, <2>2, SharesStartEmpty DEF FreezeEnd
        <2>3. CASE ~Resets
            BY <1>0, <1>4, <2>1, <2>3, SharesStand DEF FreezeEnd, Resets, IsLive
        <2> QED  BY <2>2, <2>3
    <1>5. CASE NextState
        <2>1. UNCHANGED <<here, damage, sideDamage>> /\ (~IsLive' \/ reset')
            BY <1>5 DEF NextState, statsVars, IsLive, Halves
        <2>2. seat' \in [Clients -> Team]
            BY <1>0, <1>5 DEF NextState, Other, Team
        <2> QED  BY <1>0, <2>1, <2>2, SharesStand
    <1>6. CASE RestarPeriod
        BY <1>0, <1>6, SharesStand DEF RestarPeriod, playerVars, statsVars
    <1>7. ASSUME NEW c \in Clients, Leave(c) PROVE SharesInv'
        BY <1>0, <1>7, SharesStand DEF Leave, matchVars, engineVars, statsVars, IsLive
    <1>8. ASSUME NEW c \in Clients, NEW t \in Team, Return(c, t) PROVE SharesInv'
        <2>1. t = seat[c] /\ here' = here \cup {c} /\ seat' = [seat EXCEPT ![c] = t]
            BY <1>8 DEF Return
        <2>2. seat' = seat
            BY <1>0, <2>1
        <2> QED  BY <1>0, <1>8, <2>1, <2>2, SharesStand
                 DEF Return, matchVars, engineVars, statsVars, IsLive
    <1>9. CASE UNCHANGED vars
        BY <1>0, <1>9, SharesStand
        DEF vars, matchVars, engineVars, playerVars, statsVars, IsLive
    <1> QED  BY <1>1, <1>2, <1>3, <1>4, <1>5, <1>6, <1>7, <1>8, <1>9 DEF Next

\* For any number of players, any health and any rounds, and although sides change in the
\* halftime, rounds are restarted and decided at any moment, in their freeze time too, and
\* players leave and come back: the damage of the players a side has is never more than what
\* the side is divided by, if nobody comes back on another side than his own.
THEOREM SharesFitTheSide ==
    ASSUME "Switch" \notin Events
    PROVE  Spec => []SharesFit
    <1>1. SharesInv /\ [Next]_vars => SharesInv'
        BY SharesNext
    <1> QED  BY <1>1, SharesInit, SharesImply, PTL DEF Spec
===============================================================================
