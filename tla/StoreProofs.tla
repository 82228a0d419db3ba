---------------------------- MODULE StoreProofs -----------------------------
(***************************************************************************)
(* Theorems about Season and Store, for every value of their constants:    *)
(* the points of the teams are the scores of their players; a restart      *)
(* brings the last save back, or data that agrees with itself, and never   *)
(* half of the teams.                                                      *)
(***************************************************************************)
EXTENDS LeagueProofs, Store, WellFoundedInduction

-----------------------------------------------------------------------------
(* Sums.  The library's induction takes an operator; that the subsets of a *)
(* finite set are well founded does not, and says as much of a property    *)
(* when applied to the sets that lack it.                                  *)

LEMMA SmallestSet ==
  ASSUME NEW S, IsFiniteSet(S), NEW T, T \subseteq SUBSET S, T # {}
  PROVE  \E x \in T : \A y \in T : y \subseteq x => y = x
<1>1. IsWellFoundedOn(StrictSubsetOrdering(S), FiniteSubsetsOf(S))
  BY FS_StrictSubsetOrderingWellFounded
<1>2. T \subseteq FiniteSubsetsOf(S)
  BY FS_FiniteSubsetsOfFinite
<1>3. PICK x \in T : \A y \in T : ~ (<<y, x>> \in StrictSubsetOrdering(S))
  BY <1>1, <1>2, WFMin
<1>4. \A y \in T : y \subseteq x => y = x
  BY <1>3 DEF StrictSubsetOrdering
<1> QED
  BY <1>4

One(s) == CHOOSE x \in s : TRUE

\* The function MapThenFoldSet builds.
IsSum(g, f, S) ==
  g = [s \in SUBSET S |-> IF s = {} THEN 0 ELSE f[One(s)] + g[s \ {One(s)}]]

SumOver(f, S) == CHOOSE g : IsSum(g, f, S)

LEMMA SumIsSum ==
  ASSUME NEW f, NEW S
  PROVE  Sum(f, S) = SumOver(f, S)[S]
BY Zenon DEF Sum, MapThenSumSet, MapThenFoldSet, SumOver, IsSum, One

LEMMA OneOf ==
  ASSUME NEW s, s # {}
  PROVE  One(s) \in s
BY DEF One

\* Two such functions agree where they are both defined.
LEMMA SumsAgree ==
  ASSUME NEW f, NEW A, NEW B, NEW g, NEW h, IsSum(g, f, A), IsSum(h, f, B),
         IsFiniteSet(A)
  PROVE  \A s \in SUBSET (A \cap B) : g[s] = h[s]
<1> DEFINE T == {s \in SUBSET (A \cap B) : g[s] # h[s]}
<1> SUFFICES ASSUME T # {} PROVE FALSE
  OBVIOUS
<1>1. T \subseteq SUBSET A
  OBVIOUS
<1>2. PICK s \in T : \A y \in T : y \subseteq s => y = s
  <2> HIDE DEF T
  <2> QED
    BY <1>1, SmallestSet
<1>3. s # {}
  <2> SUFFICES ASSUME s = {} PROVE FALSE
    OBVIOUS
  <2>1. g[{}] = 0 /\ h[{}] = 0
    BY DEF IsSum
  <2> QED
    BY <1>2, <2>1
<1> DEFINE r == s \ {One(s)}
<1>4. r \notin T /\ r \in SUBSET (A \cap B)
  BY <1>2, <1>3, OneOf
<1>5. g[s] = f[One(s)] + g[r] /\ h[s] = f[One(s)] + h[r]
  BY <1>2, <1>3 DEF IsSum
<1> QED
  BY <1>2, <1>4, <1>5

LEMMA SumExists ==
  ASSUME NEW f, NEW S, IsFiniteSet(S)
  PROVE  \E g : IsSum(g, f, S)
<1> DEFINE T == {s \in SUBSET S : ~ \E g : IsSum(g, f, s)}
<1> SUFFICES ASSUME T # {} PROVE FALSE
  OBVIOUS
<1>1. PICK u \in T : \A y \in T : y \subseteq u => y = u
  <2>1. T \subseteq SUBSET S
    OBVIOUS
  <2> HIDE DEF T
  <2> QED
    BY <2>1, SmallestSet
<1> DEFINE V(w) == SumOver(f, w)[w]
           g == [s \in SUBSET u |-> IF s = {} THEN 0 ELSE f[One(s)] + V(s \ {One(s)})]
<1>2. ASSUME NEW w \in SUBSET u, w # u
      PROVE  IsSum(SumOver(f, w), f, w) /\ IsFiniteSet(w)
  <2>1. w \in SUBSET S /\ w \notin T
    BY <1>1, <1>2
  <2>2. \E h : IsSum(h, f, w)
    BY <2>1
  <2> QED
    BY <2>1, <2>2, FS_Subset DEF SumOver
<1>3. ASSUME NEW w \in SUBSET u, w # u
      PROVE  V(w) = g[w]
  <2>1. CASE w = {}
    BY <1>2, <1>3, <2>1 DEF IsSum
  <2>2. CASE w # {}
    <3> DEFINE r == w \ {One(w)}
    <3>1. r \subseteq w /\ r # w /\ r \in SUBSET u /\ r # u
      BY <1>3, <2>2, OneOf
    <3>2. IsSum(SumOver(f, w), f, w) /\ IsSum(SumOver(f, r), f, r) /\ IsFiniteSet(w)
      BY <1>2, <1>3, <3>1
    <3>3. r \in SUBSET (w \cap r)
      BY <3>1
    <3>4. SumOver(f, w)[r] = SumOver(f, r)[r]
      BY <3>2, <3>3, SumsAgree
    <3>5. SumOver(f, w)[w] = f[One(w)] + SumOver(f, w)[r]
      BY <2>2, <3>2 DEF IsSum
    <3>6. g[w] = f[One(w)] + V(r)
      BY <2>2
    <3> QED
      BY <3>4, <3>5, <3>6
  <2> QED
    BY <2>1, <2>2
<1>4. \A s \in SUBSET u : s # {} => s \ {One(s)} \in SUBSET u /\ s \ {One(s)} # u
  BY OneOf
<1>5. \A s \in SUBSET u : s # {} => V(s \ {One(s)}) = g[s \ {One(s)}]
  BY <1>3, <1>4
<1>6. \A s \in SUBSET u :
        g[s] = IF s = {} THEN 0 ELSE f[One(s)] + g[s \ {One(s)}]
  BY <1>5
<1>7. g = [s \in SUBSET u |-> g[s]]
  OBVIOUS
<1> HIDE DEF g
<1>8. IsSum(g, f, u)
  BY <1>6, <1>7 DEF IsSum
<1> QED
  BY <1>1, <1>8

LEMMA SumStep ==
  ASSUME NEW f, NEW S, IsFiniteSet(S)
  PROVE  /\ S = {} => Sum(f, S) = 0
         /\ S # {} => Sum(f, S) = f[One(S)] + Sum(f, S \ {One(S)})
<1> DEFINE r == S \ {One(S)}
<1>1. IsFiniteSet(r) /\ r \in SUBSET (S \cap r)
  BY FS_Subset
<1>2. IsSum(SumOver(f, S), f, S) /\ IsSum(SumOver(f, r), f, r)
  BY <1>1, SumExists DEF SumOver
<1>3. SumOver(f, S)[r] = SumOver(f, r)[r]
  BY <1>1, <1>2, SumsAgree
<1>4. SumOver(f, S)[S] = IF S = {} THEN 0 ELSE f[One(S)] + SumOver(f, S)[r]
  BY <1>2 DEF IsSum
<1> QED
  BY <1>3, <1>4, SumIsSum

LEMMA SumType ==
  ASSUME NEW S, IsFiniteSet(S), NEW f, \A x \in S : f[x] \in Int
  PROVE  Sum(f, S) \in Int
<1> DEFINE T == {s \in SUBSET S : Sum(f, s) \notin Int}
<1> SUFFICES ASSUME T # {} PROVE FALSE
  OBVIOUS
<1>1. PICK s \in T : \A y \in T : y \subseteq s => y = s
  <2>1. T \subseteq SUBSET S
    OBVIOUS
  <2> HIDE DEF T
  <2> QED
    BY <2>1, SmallestSet
<1>2. IsFiniteSet(s)
  BY FS_Subset
<1>3. CASE s = {}
  <2>1. Sum(f, s) = 0
    BY <1>2, <1>3, SumStep
  <2> QED
    BY ONLY <1>1, <2>1
<1>4. CASE s # {}
  <2>1. One(s) \in s /\ s \ {One(s)} \in SUBSET S /\ s \ {One(s)} # s
    BY <1>4, OneOf
  <2>2. Sum(f, s \ {One(s)}) \in Int
    BY <1>1, <2>1
  <2>3. Sum(f, s) = f[One(s)] + Sum(f, s \ {One(s)})
    BY <1>2, <1>4, SumStep
  <2> QED
    BY <2>1, <2>2, <2>3
<1> QED
  BY <1>3, <1>4

\* The order of the summands does not matter.
LEMMA SumAny ==
  ASSUME NEW S, IsFiniteSet(S), NEW f, \A x \in S : f[x] \in Int, NEW a \in S
  PROVE  Sum(f, S) = f[a] + Sum(f, S \ {a})
<1> DEFINE Any(s) == \A x \in s : Sum(f, s) = f[x] + Sum(f, s \ {x})
           T == {s \in SUBSET S : ~ Any(s)}
<1> SUFFICES ASSUME T # {} PROVE FALSE
  OBVIOUS
<1>1. PICK s \in T : \A y \in T : y \subseteq s => y = s
  <2>1. T \subseteq SUBSET S
    OBVIOUS
  <2> HIDE DEF T
  <2> QED
    BY <2>1, SmallestSet
<1>2. PICK x \in s : Sum(f, s) # f[x] + Sum(f, s \ {x})
  BY <1>1
<1> DEFINE c == One(s)
<1>3. c \in s /\ IsFiniteSet(s)
  BY <1>2, OneOf, FS_Subset
<1>4. Sum(f, s) = f[c] + Sum(f, s \ {c})
  BY <1>2, <1>3, SumStep
<1> HIDE DEF c
<1>5. x # c
  BY <1>2, <1>4
<1>6. Any(s \ {c}) /\ Any(s \ {x})
  <2>1. s \ {c} \in SUBSET S /\ s \ {c} # s /\ s \ {x} \in SUBSET S /\ s \ {x} # s
    BY <1>3
  <2>2. s \ {c} \notin T /\ s \ {x} \notin T
    BY <1>1, <2>1
  <2> HIDE DEF Any
  <2> QED
    BY <2>1, <2>2
<1>7. Sum(f, s \ {c}) = f[x] + Sum(f, (s \ {c}) \ {x})
  BY <1>5, <1>6
<1>8. Sum(f, s \ {x}) = f[c] + Sum(f, (s \ {x}) \ {c})
  BY <1>3, <1>5, <1>6
<1>9. (s \ {x}) \ {c} = (s \ {c}) \ {x}
  OBVIOUS
<1>10. /\ IsFiniteSet((s \ {c}) \ {x}) /\ \A y \in (s \ {c}) \ {x} : f[y] \in Int
       /\ f[x] \in Int /\ f[c] \in Int
  <2>1. (s \ {c}) \ {x} \subseteq S
    OBVIOUS
  <2> QED
    BY <1>3, <2>1, FS_Subset
<1>11. Sum(f, (s \ {c}) \ {x}) \in Int
  BY <1>10, SumType
<1>12. Sum(f, s \ {x}) = f[c] + Sum(f, (s \ {c}) \ {x})
  BY <1>8, <1>9, Zenon
<1> QED
  BY ONLY <1>2, <1>4, <1>7, <1>10, <1>11, <1>12

LEMMA SumAdd ==
  ASSUME NEW S, IsFiniteSet(S), NEW f, NEW a, a \notin S, \A x \in S \cup {a} : f[x] \in Int
  PROVE  Sum(f, S \cup {a}) = Sum(f, S) + f[a]
<1>1. IsFiniteSet(S \cup {a}) /\ (S \cup {a}) \ {a} = S
  BY FS_AddElement
<1> DEFINE U == S \cup {a}
<1>2. a \in U /\ IsFiniteSet(U) /\ (\A x \in U : f[x] \in Int) /\ U \ {a} = S
  BY <1>1
<1>3. Sum(f, U) = f[a] + Sum(f, U \ {a})
  <2> HIDE DEF U
  <2> QED
    BY <1>2, SumAny
<1>4. Sum(f, S) \in Int /\ f[a] \in Int
  BY SumType
<1>5. Sum(f, U \ {a}) = Sum(f, S)
  BY <1>2, Zenon
<1> QED
  BY ONLY <1>3, <1>4, <1>5

\* Only the values on the set matter.
LEMMA SumSame ==
  ASSUME NEW S, IsFiniteSet(S), NEW f, NEW g, \A x \in S : f[x] = g[x]
  PROVE  Sum(f, S) = Sum(g, S)
<1> DEFINE T == {s \in SUBSET S : Sum(f, s) # Sum(g, s)}
<1> SUFFICES ASSUME T # {} PROVE FALSE
  OBVIOUS
<1>1. PICK s \in T : \A y \in T : y \subseteq s => y = s
  <2>1. T \subseteq SUBSET S
    OBVIOUS
  <2> HIDE DEF T
  <2> QED
    BY <2>1, SmallestSet
<1>2. IsFiniteSet(s)
  BY FS_Subset
<1>3. s # {}
  BY <1>2, SumStep
<1>4. One(s) \in s /\ s \ {One(s)} \in SUBSET S /\ s \ {One(s)} # s
  BY <1>3, OneOf
<1>5. Sum(f, s \ {One(s)}) = Sum(g, s \ {One(s)})
  BY <1>1, <1>4
<1>6. /\ Sum(f, s) = f[One(s)] + Sum(f, s \ {One(s)})
      /\ Sum(g, s) = g[One(s)] + Sum(g, s \ {One(s)})
  BY <1>2, <1>3, SumStep
<1> QED
  BY <1>4, <1>5, <1>6

\* Two sets that share nothing.
LEMMA SumUnion ==
  ASSUME NEW A, NEW B, IsFiniteSet(A), IsFiniteSet(B), A \cap B = {},
         NEW f, \A x \in A \cup B : f[x] \in Int
  PROVE  Sum(f, A \cup B) = Sum(f, A) + Sum(f, B)
<1> DEFINE T == {s \in SUBSET B : Sum(f, A \cup s) # Sum(f, A) + Sum(f, s)}
<1> SUFFICES ASSUME T # {} PROVE FALSE
  OBVIOUS
<1>0. T \subseteq SUBSET B
  OBVIOUS
<1>1. PICK s \in T : \A y \in T : y \subseteq s => y = s
  <2> HIDE DEF T
  <2> QED
    BY <1>0, SmallestSet
<1>2. IsFiniteSet(s) /\ Sum(f, A) \in Int
  BY FS_Subset, SumType
<1>3. CASE s = {}
  <2>1. A \cup s = A /\ Sum(f, s) = 0
    BY <1>2, <1>3, SumStep
  <2>2. Sum(f, A \cup s) = Sum(f, A)
    BY <2>1, Zenon
  <2> QED
    BY ONLY <1>1, <1>2, <2>1, <2>2
<1>4. CASE s # {}
  <2>1. PICK a : a \in s
    BY <1>4
  <2> DEFINE r == s \ {a}
  <2>2. r \in SUBSET B /\ r # s /\ r \subseteq s /\ s = r \cup {a} /\ a \notin r
    BY <2>1
  <2>3. Sum(f, A \cup r) = Sum(f, A) + Sum(f, r)
    BY <1>1, <2>2
  <2>4. IsFiniteSet(r) /\ IsFiniteSet(A \cup r) /\ a \notin A \cup r /\ f[a] \in Int
    BY <2>1, <2>2, FS_Subset, FS_Union
  <2>5. A \cup s = (A \cup r) \cup {a} /\ \A x \in A \cup r : f[x] \in Int
    BY <2>2
  <2> HIDE DEF r
  <2>6. Sum(f, (A \cup r) \cup {a}) = Sum(f, A \cup r) + f[a]
    BY <2>4, <2>5, SumAdd
  <2>7. Sum(f, r \cup {a}) = Sum(f, r) + f[a]
    BY <2>4, <2>5, <2>2, SumAdd
  <2>8. Sum(f, r) \in Int
    BY <2>4, <2>5, SumType
  <2>9. Sum(f, A \cup s) = Sum(f, A \cup r) + f[a] /\ Sum(f, s) = Sum(f, r) + f[a]
    BY <2>2, <2>5, <2>6, <2>7, Zenon
  <2>10. Sum(f, A \cup s) = Sum(f, A) + Sum(f, s)
    BY ONLY <1>2, <2>3, <2>4, <2>8, <2>9
  <2> QED
    BY <1>1, <2>10
<1> QED
  BY <1>3, <1>4

LEMMA SumZero ==
  ASSUME NEW S, IsFiniteSet(S), NEW f, \A x \in S : f[x] = 0
  PROVE  Sum(f, S) = 0
<1> DEFINE T == {s \in SUBSET S : Sum(f, s) # 0}
<1> SUFFICES ASSUME T # {} PROVE FALSE
  OBVIOUS
<1>1. PICK s \in T : \A y \in T : y \subseteq s => y = s
  <2>1. T \subseteq SUBSET S
    OBVIOUS
  <2> HIDE DEF T
  <2> QED
    BY <2>1, SmallestSet
<1>2. IsFiniteSet(s)
  BY FS_Subset
<1>3. s # {}
  BY <1>2, SumStep
<1>4. One(s) \in s /\ s \ {One(s)} \in SUBSET S /\ s \ {One(s)} # s
  BY <1>3, OneOf
<1>5. Sum(f, s \ {One(s)}) = 0 /\ f[One(s)] = 0
  BY <1>1, <1>4
<1>6. Sum(f, s) = f[One(s)] + Sum(f, s \ {One(s)})
  BY <1>2, <1>3, SumStep
<1> QED
  BY <1>1, <1>5, <1>6

\* Summand by summand.
LEMMA SumPlus ==
  ASSUME NEW S, IsFiniteSet(S), NEW f, NEW g, NEW h,
         \A x \in S : f[x] \in Int /\ g[x] \in Int /\ h[x] = f[x] + g[x]
  PROVE  Sum(h, S) = Sum(f, S) + Sum(g, S)
<1> DEFINE T == {s \in SUBSET S : Sum(h, s) # Sum(f, s) + Sum(g, s)}
<1> SUFFICES ASSUME T # {} PROVE FALSE
  OBVIOUS
<1>1. PICK s \in T : \A y \in T : y \subseteq s => y = s
  <2>1. T \subseteq SUBSET S
    OBVIOUS
  <2> HIDE DEF T
  <2> QED
    BY <2>1, SmallestSet
<1>2. IsFiniteSet(s)
  BY FS_Subset
<1>3. s # {}
  <2> SUFFICES ASSUME s = {} PROVE FALSE
    OBVIOUS
  <2>1. Sum(f, s) = 0 /\ Sum(g, s) = 0 /\ Sum(h, s) = 0
    BY <1>2, SumStep
  <2> QED
    BY <1>1, <2>1
<1> DEFINE r == s \ {One(s)}
<1>4. One(s) \in s /\ r \in SUBSET S /\ r \subseteq s /\ r # s
  BY <1>3, OneOf
<1>5. Sum(h, r) = Sum(f, r) + Sum(g, r)
  BY <1>1, <1>4
<1>6. /\ Sum(f, s) = f[One(s)] + Sum(f, r)
      /\ Sum(g, s) = g[One(s)] + Sum(g, r)
      /\ Sum(h, s) = h[One(s)] + Sum(h, r)
  BY <1>2, <1>3, SumStep
<1>7. Sum(f, r) \in Int /\ Sum(g, r) \in Int
  <2>1. IsFiniteSet(r) /\ \A x \in r : f[x] \in Int /\ g[x] \in Int
    BY <1>2, FS_Subset
  <2> HIDE DEF r
  <2> QED
    BY <2>1, SumType
<1>8. /\ f[One(s)] \in Int /\ g[One(s)] \in Int
      /\ h[One(s)] = f[One(s)] + g[One(s)]
  BY <1>4
<1>9. Sum(h, s) = Sum(f, s) + Sum(g, s)
  BY ONLY <1>5, <1>6, <1>7, <1>8
<1> QED
  BY <1>1, <1>9

\* What a match adds to the sum of some scores is the sum of its file over the
\* players it is added for.
LEMMA SumPart ==
  ASSUME NEW S, IsFiniteSet(S), NEW D \in SUBSET S, NEW f, NEW g, NEW h,
         \A x \in S : f[x] \in Int /\ g[x] \in Int,
         \A x \in S : h[x] = IF x \in D THEN g[x] + f[x] ELSE g[x]
  PROVE  Sum(h, S) = Sum(g, S) + Sum(f, D)
<1> DEFINE R == S \ D
<1>1. IsFiniteSet(D) /\ IsFiniteSet(R) /\ D \cap R = {} /\ D \cup R = S
  BY FS_Subset
<1>2. /\ \A x \in D : h[x] = g[x] + f[x]
      /\ \A x \in R : h[x] = g[x]
      /\ \A x \in D \cup R : f[x] \in Int /\ g[x] \in Int /\ h[x] \in Int
  OBVIOUS
<1> HIDE DEF R
<1>3. /\ Sum(h, D \cup R) = Sum(h, D) + Sum(h, R)
      /\ Sum(g, D \cup R) = Sum(g, D) + Sum(g, R)
  BY <1>1, <1>2, SumUnion
<1>4. Sum(h, R) = Sum(g, R)
  BY <1>1, <1>2, SumSame
<1>5. Sum(h, D) = Sum(g, D) + Sum(f, D)
  BY <1>1, <1>2, SumPlus
<1>6. Sum(g, D) \in Int /\ Sum(f, D) \in Int /\ Sum(g, R) \in Int
  BY <1>1, <1>2, SumType
<1>7. Sum(h, S) = Sum(h, D) + Sum(h, R) /\ Sum(g, S) = Sum(g, D) + Sum(g, R)
  BY <1>1, <1>3, Zenon
<1> QED
  BY ONLY <1>4, <1>5, <1>6, <1>7

-----------------------------------------------------------------------------
(* The points of a season.                                                 *)

\* What the teams of a league get for a match is the sum of its file over their
\* players, as no player has two of them.
LEMMA TeamsScore ==
  ASSUME NEW T \in SUBSET TeamIDs, IsFiniteSet(T),
         NEW file \in [PlayerIDs -> Int], NEW before \in [TeamIDs -> Int],
         NEW after, NEW roster \in [TeamIDs -> SUBSET PlayerIDs],
         \A t \in TeamIDs : after[t] = before[t] + Sum(file, roster[t]),
         \A t1, t2 \in T : t1 # t2 => roster[t1] \cap roster[t2] = {}
  PROVE  Sum(after, T) = Sum(before, T) + Sum(file, UNION {roster[t] : t \in T})
<1> DEFINE Of(s) == UNION {roster[t] : t \in s}
           Bad == {s \in SUBSET T : Sum(after, s) # Sum(before, s) + Sum(file, Of(s))}
<1> SUFFICES ASSUME Bad # {} PROVE FALSE
  OBVIOUS
<1>1. PICK s \in Bad : \A y \in Bad : y \subseteq s => y = s
  <2>1. Bad \subseteq SUBSET T
    OBVIOUS
  <2> HIDE DEF Bad
  <2> QED
    BY <2>1, SmallestSet
<1>2. IsFiniteSet(s)
  BY FS_Subset
<1>3. s # {}
  <2> SUFFICES ASSUME s = {} PROVE FALSE
    OBVIOUS
  <2>1. Of(s) = {} /\ IsFiniteSet({})
    BY FS_EmptySet
  <2>2. Sum(after, s) = 0 /\ Sum(before, s) = 0 /\ Sum(file, {}) = 0
    BY <1>2, <2>1, SumStep
  <2>3. Sum(file, Of(s)) = 0
    BY <2>1, <2>2, Zenon
  <2> QED
    BY <1>1, <2>2, <2>3
<1>4. PICK t : t \in s
  BY <1>3
<1> DEFINE r == s \ {t}
<1>5. r \in SUBSET T /\ r \subseteq s /\ r # s /\ s = r \cup {t} /\ t \notin r
  BY <1>4
<1>6. Sum(after, r) = Sum(before, r) + Sum(file, Of(r))
  BY <1>1, <1>5
<1>7. IsFiniteSet(r) /\ IsFiniteSet(Of(r)) /\ IsFiniteSet(roster[t])
  <2>1. Of(r) \subseteq PlayerIDs /\ roster[t] \subseteq PlayerIDs
    BY <1>4
  <2> QED
    BY <1>2, <2>1, PlayerAssumption, FS_Subset
<1>8. /\ Of(s) = Of(r) \cup roster[t]
      /\ Of(r) \cap roster[t] = {}
      /\ \A p \in Of(r) \cup roster[t] : file[p] \in Int
  BY <1>4, <1>5
<1>9. Sum(file, Of(r) \cup roster[t]) = Sum(file, Of(r)) + Sum(file, roster[t])
  <2> DEFINE A == Of(r)
             B == roster[t]
  <2>1. /\ IsFiniteSet(A) /\ IsFiniteSet(B) /\ A \cap B = {}
        /\ \A p \in A \cup B : file[p] \in Int
    BY <1>7, <1>8
  <2> HIDE DEF A, B
  <2>2. Sum(file, A \cup B) = Sum(file, A) + Sum(file, B)
    BY <2>1, SumUnion
  <2> QED
    BY <2>2 DEF A, B
<1> HIDE DEF Of
<1>10. Sum(file, Of(s)) = Sum(file, Of(r)) + Sum(file, roster[t])
  BY <1>8, <1>9, Zenon
<1>11. Sum(file, Of(r)) \in Int /\ Sum(file, roster[t]) \in Int
  BY <1>7, <1>8, SumType
<1>12. /\ after[t] = before[t] + Sum(file, roster[t]) /\ before[t] \in Int
       /\ \A x \in s : before[x] \in Int /\ after[x] \in Int
  <2>1. \A x \in s : IsFiniteSet(roster[x]) /\ \A p \in roster[x] : file[p] \in Int
    BY PlayerAssumption, FS_Subset
  <2>2. \A x \in s : Sum(file, roster[x]) \in Int
    BY <2>1, SumType
  <2> QED
    BY <1>4, <2>2
<1> HIDE DEF r
<1>13. /\ Sum(after, r \cup {t}) = Sum(after, r) + after[t]
       /\ Sum(before, r \cup {t}) = Sum(before, r) + before[t]
  <2>1. t \notin r /\ IsFiniteSet(r)
    BY <1>5, <1>7
  <2>2. \A x \in r \cup {t} : before[x] \in Int /\ after[x] \in Int
    BY <1>5, <1>12
  <2>3. Sum(after, r \cup {t}) = Sum(after, r) + after[t]
    BY ONLY <2>1, <2>2, SumAdd, ZenonT(30)
  <2>4. Sum(before, r \cup {t}) = Sum(before, r) + before[t]
    BY ONLY <2>1, <2>2, SumAdd, ZenonT(30)
  <2> QED
    BY <2>3, <2>4
<1>14. Sum(before, r) \in Int
  BY <1>5, <1>7, <1>12, SumType
<1>15. Sum(after, s) = Sum(after, r) + after[t] /\ Sum(before, s) = Sum(before, r) + before[t]
  BY <1>5, <1>13, Zenon
<1>16. Sum(after, s) = Sum(before, s) + Sum(file, Of(s))
  BY ONLY <1>6, <1>10, <1>11, <1>12, <1>14, <1>15
<1> QED
  BY <1>1, <1>16

\* The sums agree in every league there may be, and a team that is not there
\* has no points to bring.
PointsAgree == \A l \in LeagueIDs : Sum(points, leagueTeams[l]) = Sum(score[l], PlayerIDs)

SeasonInvariant ==
  /\ LeagueInvariant
  /\ points \in [TeamIDs -> Int]
  /\ score \in [LeagueIDs -> [PlayerIDs -> Int]]
  /\ \A t \in TeamIDs \ Teams : points[t] = 0
  /\ PointsAgree

\* Only createLeague and joinLeague give a league a team.
LEMMA TeamsComeOneByOne ==
  ASSUME LeagueInvariant, [Next]_vars
  PROVE  \/ UNCHANGED <<maxTeamID, leagueTeams>>
         \/ \E u \in Users, name \in TeamNames, l \in LeagueIDs : CreateTeam(u, name, l)
<1> USE DEF LeagueInvariant, idVars, leagueVars
<1>1. CASE \E u \in Users, name \in TeamNames, size \in LeagueSizes :
             CreateLeague(u, name, size)
  BY <1>1, NextIDs DEF CreateLeague
<1>2. CASE \E u \in Users, l \in Leagues, name \in TeamNames : JoinLeague(u, l, name)
  BY <1>2, LeaguesAndTeams DEF JoinLeague
<1>3. CASE \E l \in Leagues : DraftDone(l) \/ \E draft \in DraftIDs : ChoosePlayer(l, draft)
  BY <1>3 DEF DraftDone, ChoosePlayer
<1>4. CASE \E u \in Users, from \in Teams, to \in TeamIDs,
              offered \in PlayerIDs, requested \in PlayerIDs :
             RequestTrade(u, from, to, offered, requested)
  BY <1>4 DEF RequestTrade, SwapCrashes
<1>5. CASE \E u \in Users, trade \in trades,
              offered \in PlayerIDs, requested \in PlayerIDs :
             NegotiateTrade(u, trade, offered, requested)
  BY <1>5 DEF NegotiateTrade, SwapCrashes
<1>6. CASE \/ \E u \in Users, trade \in trades : RemoveTrade(u, trade) \/ TradeAccept(u, trade)
           \/ \E u \in Users : FinishNegotiate(u)
           \/ ExpireTrades
  BY <1>6 DEF RemoveTrade, TradeAccept, FinishNegotiate, ExpireTrades
<1>7. CASE UNCHANGED vars
  BY <1>7 DEF vars
<1> QED
  BY <1>1, <1>2, <1>3, <1>4, <1>5, <1>6, <1>7 DEF Next

LEMMA TeamsStay ==
  ASSUME LeagueInvariant, [Next]_vars
  PROVE  /\ Teams \subseteq Teams'
         /\ \A l \in LeagueIDs :
              \/ leagueTeams'[l] = leagueTeams[l]
              \/ /\ maxTeamID \in TeamIDs \ Teams
                 /\ leagueTeams'[l] = leagueTeams[l] \cup {maxTeamID}
<1>1. CASE UNCHANGED <<maxTeamID, leagueTeams>>
  BY <1>1 DEF Teams
<1>2. CASE \E u \in Users, name \in TeamNames, l \in LeagueIDs : CreateTeam(u, name, l)
  BY <1>2, NewTeam DEF LeagueInvariant
<1> QED
  BY <1>1, <1>2, TeamsComeOneByOne

LEMMA HandlerAgrees ==
  ASSUME SeasonInvariant, [Next]_vars, UNCHANGED seasonVars
  PROVE  SeasonInvariant'
<1> USE DEF SeasonInvariant
<1>1. LeagueInvariant'
  BY InvariantStep
<1>2. points' = points /\ score' = score
  BY DEF seasonVars
<1>3. \A t \in TeamIDs \ Teams' : points'[t] = 0
  BY <1>2, TeamsStay
<1>4. ASSUME NEW l \in LeagueIDs
      PROVE  Sum(points', leagueTeams'[l]) = Sum(score'[l], PlayerIDs)
  <2>1. Sum(points, leagueTeams[l]) = Sum(score[l], PlayerIDs)
    BY DEF PointsAgree
  <2>2. CASE leagueTeams'[l] = leagueTeams[l]
    BY <1>2, <2>1, <2>2, Zenon
  <2>3. CASE /\ maxTeamID \in TeamIDs \ Teams
             /\ leagueTeams'[l] = leagueTeams[l] \cup {maxTeamID}
    <3>1. IsFiniteSet(leagueTeams[l]) /\ leagueTeams[l] \subseteq TeamIDs
      BY TeamsFinite DEF LeagueInvariant, TypeOK
    <3>2. maxTeamID \notin leagueTeams[l]
      BY <2>3 DEF LeagueInvariant, LeagueShape
    <3>3. \A t \in leagueTeams[l] \cup {maxTeamID} : points[t] \in Int
      BY <2>3, <3>1
    <3>4. Sum(points, leagueTeams[l] \cup {maxTeamID})
            = Sum(points, leagueTeams[l]) + points[maxTeamID]
      BY <3>1, <3>2, <3>3, SumAdd
    <3>5. Sum(points, leagueTeams[l]) \in Int
      BY <3>1, <3>3, SumType
    <3>6. Sum(points, leagueTeams[l] \cup {maxTeamID}) = Sum(points, leagueTeams[l])
      BY <2>3, <3>4, <3>5
    <3> QED
      BY <1>2, <2>1, <2>3, <3>6, Zenon
  <2> QED
    BY <2>2, <2>3, TeamsStay
<1> QED
  BY <1>1, <1>2, <1>3, <1>4 DEF PointsAgree

\* playMatch gives numbers to numbers.
LEMMA MatchTypes ==
  ASSUME TypeOK, points \in [TeamIDs -> Int], score \in [LeagueIDs -> [PlayerIDs -> Int]],
         NEW file \in MatchFiles, PlayMatch(file)
  PROVE  /\ points' \in [TeamIDs -> Int]
         /\ score' \in [LeagueIDs -> [PlayerIDs -> Int]]
<1>1. file \in [PlayerIDs -> Int]
  BY MatchAssumption
<1>2. \A t \in TeamIDs : IsFiniteSet(players[t]) /\ \A p \in players[t] : file[p] \in Int
  BY <1>1, PlayerAssumption, FS_Subset DEF TypeOK
<1>3. \A t \in TeamIDs : Sum(file, players[t]) \in Int
  BY <1>2, SumType
<1> QED
  BY <1>1, <1>3 DEF PlayMatch

\* A team that is not there gets no points.
LEMMA MatchBlank ==
  ASSUME LeagueInvariant, \A t \in TeamIDs \ Teams : points[t] = 0,
         NEW file \in MatchFiles, PlayMatch(file), NEW t \in TeamIDs \ Teams
  PROVE  points'[t] = 0
<1>1. players[t] = {} /\ IsFiniteSet({})
  BY FS_EmptySet DEF LeagueInvariant, LeagueShape
<1>2. Sum(file, {}) = 0
  BY <1>1, SumStep
<1>3. Sum(file, players[t]) = 0
  BY <1>1, <1>2, Zenon
<1> QED
  BY <1>3 DEF PlayMatch

LEMMA MatchAgrees ==
  ASSUME SeasonInvariant, NEW file \in MatchFiles, PlayMatch(file)
  PROVE  SeasonInvariant'
<1> USE DEF SeasonInvariant
<1>1. file \in [PlayerIDs -> Int]
  BY MatchAssumption
<1>2. UNCHANGED vars
  BY DEF PlayMatch
<1>3. LeagueInvariant'
  BY <1>2, InvariantStep
<1>4. /\ leagueTeams' = leagueTeams /\ Teams' = Teams
      /\ \A t \in TeamIDs : players[t] \in SUBSET PlayerIDs
  BY <1>2 DEF vars, idVars, leagueVars, Teams, LeagueInvariant, TypeOK
<1>6. \A t \in TeamIDs : points'[t] = points[t] + Sum(file, players[t])
  BY DEF PlayMatch
<1>7. /\ points' \in [TeamIDs -> Int]
      /\ score' \in [LeagueIDs -> [PlayerIDs -> Int]]
  BY MatchTypes DEF LeagueInvariant
<1>9. \A t \in TeamIDs \ Teams' : points'[t] = 0
  BY <1>4, MatchBlank
<1>10. ASSUME NEW l \in LeagueIDs
       PROVE  Sum(points', leagueTeams[l]) = Sum(score'[l], PlayerIDs)
  <2> DEFINE T == leagueTeams[l]
             D == UNION {players[t] : t \in T}
  <2>1. T \in SUBSET TeamIDs /\ IsFiniteSet(T)
    BY TeamsFinite DEF LeagueInvariant, TypeOK
  <2>2. \A t1, t2 \in T : t1 # t2 => players[t1] \cap players[t2] = {}
    <3>1. CASE l \in Leagues
      BY <3>1 DEF LeagueInvariant, RosterPartition, Partitioned
    <3>2. CASE l \notin Leagues
      <4>1. T = {}
        BY <2>1, <3>2 DEF LeagueInvariant, LeagueShape
      <4> QED
        BY <4>1
    <3> QED
      BY <3>1, <3>2
  <2>3. D \in SUBSET PlayerIDs
    BY <1>4, <2>1
  <2>4. score[l] \in [PlayerIDs -> Int]
    OBVIOUS
  <2>5. \A p \in PlayerIDs :
          score'[l][p] = IF p \in D THEN score[l][p] + file[p] ELSE score[l][p]
    BY DEF PlayMatch
  <2>6. players \in [TeamIDs -> SUBSET PlayerIDs]
    BY DEF LeagueInvariant, TypeOK
  <2> HIDE DEF T
  <2>7. Sum(points', T) = Sum(points, T) + Sum(file, D)
    <3>1. points \in [TeamIDs -> Int]
      OBVIOUS
    <3> HIDE DEF SeasonInvariant
    <3>2. Sum(points', T) = Sum(points, T) + Sum(file, UNION {players[t] : t \in T})
      BY <1>1, <1>6, <2>1, <2>2, <2>6, <3>1, TeamsScore
    <3> QED
      BY <3>2
  <2> HIDE DEF D
  <2>8. Sum(score'[l], PlayerIDs) = Sum(score[l], PlayerIDs) + Sum(file, D)
    BY <1>1, <2>3, <2>4, <2>5, PlayerAssumption, SumPart
  <2>9. Sum(points, T) = Sum(score[l], PlayerIDs)
    BY DEF PointsAgree, T
  <2> QED
    BY <2>7, <2>8, <2>9 DEF T
<1> QED
  BY <1>3, <1>4, <1>7, <1>9, <1>10 DEF PointsAgree

LEMMA SeasonStep ==
  SeasonInvariant /\ [SeasonNext]_<<vars, seasonVars>> => SeasonInvariant'
<1> SUFFICES ASSUME SeasonInvariant, [SeasonNext]_<<vars, seasonVars>>
             PROVE  SeasonInvariant'
  OBVIOUS
<1>1. CASE [Next]_vars /\ UNCHANGED seasonVars
  BY <1>1, HandlerAgrees
<1>2. CASE \E file \in MatchFiles : PlayMatch(file)
  BY <1>2, MatchAgrees
<1> QED
  BY <1>1, <1>2 DEF SeasonNext

LEMMA SeasonStart == SeasonInit => SeasonInvariant
<1> SUFFICES ASSUME SeasonInit PROVE SeasonInvariant
  OBVIOUS
<1>1. LeagueInvariant
  BY InvariantInit DEF SeasonInit
<1>2. ASSUME NEW l \in LeagueIDs
      PROVE  Sum(points, leagueTeams[l]) = Sum(score[l], PlayerIDs)
  <2>1. leagueTeams[l] = {} /\ IsFiniteSet({})
    BY FS_EmptySet DEF SeasonInit, Init
  <2>2. Sum(points, {}) = 0
    BY <2>1, SumStep
  <2>3. \A p \in PlayerIDs : score[l][p] = 0
    BY DEF SeasonInit
  <2>4. Sum(score[l], PlayerIDs) = 0
    BY <2>3, PlayerAssumption, SumZero
  <2> QED
    BY <2>1, <2>2, <2>4, Zenon
<1> QED
  BY <1>1, <1>2 DEF SeasonInit, SeasonInvariant, PointsAgree

\* No point is lost or counted twice: after any number of matches, drafts, swaps
\* and trades, the points playMatch has given to the teams of a league are the
\* scores it has given to the league's players.
THEOREM PointsAreScores == SeasonSpec => []PointsMatchScores
<1>1. SeasonInvariant => PointsMatchScores
  BY LeaguesAndTeams
  DEF SeasonInvariant, LeagueInvariant, PointsAgree, PointsMatchScores
<1> QED
  BY <1>1, SeasonStart, SeasonStep, PTL DEF SeasonSpec

-----------------------------------------------------------------------------
(* What the data in memory looks like at any time, also after a load of    *)
(* files that an unfinished save has left.                                 *)

\* What does not exist yet is blank, a league has a team, and the teams of the
\* users exist.
Blank ==
  /\ \A t \in TeamIDs \ Teams : teamName[t] = NoName /\ leagueID[t] = NoID
  /\ \A l \in LeagueIDs \ Leagues : maxSize[l] = NoID /\ nonDrafted[l] = {}
  /\ \A l \in Leagues : leagueTeams[l] # {}
  /\ \A u \in Users : userTeams[u] \subseteq Teams

Scores ==
  /\ points \in [TeamIDs -> Int]
  /\ score \in [LeagueIDs -> [PlayerIDs -> Int]]
  /\ \A t \in TeamIDs \ Teams : points[t] = 0

Memory == LeagueInvariant /\ Blank /\ Scores

LEMMA NewTeamBlank ==
  ASSUME LeagueInvariant, Blank,
         NEW u \in Users, NEW name \in TeamNames, NEW l \in LeagueIDs, CreateTeam(u, name, l)
  PROVE  /\ \A t \in TeamIDs \ Teams' : teamName'[t] = NoName /\ leagueID'[t] = NoID
         /\ \A k \in Leagues \cup {l} : leagueTeams'[k] # {}
         /\ \A v \in Users : userTeams'[v] \subseteq Teams'
<1> USE DEF LeagueInvariant
<1>1. /\ maxTeamID \in TeamIDs /\ Teams' = Teams \cup {maxTeamID}
      /\ leagueTeams'[l] = leagueTeams[l] \cup {maxTeamID}
      /\ \A k \in LeagueIDs \ {l} : leagueTeams'[k] = leagueTeams[k]
  BY NewTeam
<1>2. \A t \in TeamIDs \ Teams' : teamName'[t] = NoName /\ leagueID'[t] = NoID
  BY <1>1 DEF CreateTeam, Blank, TypeOK
<1>3. \A k \in Leagues \cup {l} : leagueTeams'[k] # {}
  BY <1>1, LeaguesAndTeams DEF Blank
<1>4. \A v \in Users : userTeams'[v] \subseteq Teams'
  BY <1>1 DEF CreateTeam, Blank, TypeOK
<1> QED
  BY <1>2, <1>3, <1>4

LEMMA SwapBlank ==
  ASSUME LeagueInvariant, Blank, NEW from \in Teams,
         NEW offered \in PlayerIDs, NEW requested \in PlayerIDs,
         SwapFreeAgent(from, offered, requested),
         UNCHANGED <<idVars, leagueVars, teamVars>>
  PROVE  Blank'
<1> USE DEF LeagueInvariant, idVars, leagueVars, teamVars
<1>1. leagueID[from] \in Leagues /\ Leagues \subseteq LeagueIDs
  BY LeaguesAndTeams DEF LeagueShape
<1>2. \A l \in LeagueIDs \ Leagues : nonDrafted'[l] = nonDrafted[l]
  BY <1>1 DEF SwapFreeAgent, TypeOK
<1> QED
  BY <1>2 DEF Blank, Teams, Leagues

LEMMA BlankStep == LeagueInvariant /\ Blank /\ [Next]_vars => Blank'
<1> SUFFICES ASSUME LeagueInvariant, Blank, [Next]_vars PROVE Blank'
  OBVIOUS
<1> USE DEF LeagueInvariant, idVars, leagueVars, teamVars, rosterVars
<1>1. ASSUME NEW u \in Users, NEW name \in TeamNames, NEW size \in LeagueSizes,
             CreateLeague(u, name, size)
      PROVE  Blank'
  <2>1. maxLeagueID \in LeagueIDs /\ maxLeagueID \in Int /\ maxLeagueID >= 0
    BY <1>1, NextIDs DEF CreateLeague, TypeOK
  <2>2. Leagues' = Leagues \cup {maxLeagueID}
    BY <1>1, <2>1 DEF CreateLeague, Leagues
  <2>3. CreateTeam(u, name, maxLeagueID)
    BY <1>1 DEF CreateLeague
  <2>4. \A l \in LeagueIDs \ Leagues' : maxSize'[l] = NoID /\ nonDrafted'[l] = {}
    BY <1>1, <2>1, <2>2 DEF CreateLeague, Blank, TypeOK
  <2> QED
    BY <2>1, <2>2, <2>3, <2>4, NewTeamBlank DEF Blank
<1>2. ASSUME NEW u \in Users, NEW l \in Leagues, NEW name \in TeamNames,
             JoinLeague(u, l, name)
      PROVE  Blank'
  <2>1. CreateTeam(u, name, l) /\ l \in LeagueIDs /\ Leagues' = Leagues
    BY <1>2, LeaguesAndTeams DEF JoinLeague, Leagues
  <2>2. UNCHANGED <<maxSize, nonDrafted>>
    BY <1>2 DEF JoinLeague
  <2> QED
    BY <2>1, <2>2, NewTeamBlank DEF Blank
<1>3. ASSUME UNCHANGED <<maxLeagueID, maxTeamID, leagueVars, teamVars, nonDrafted>>
      PROVE  Blank'
  BY <1>3 DEF Blank, Teams, Leagues
<1>4. ASSUME NEW l \in Leagues, NEW draft \in DraftIDs, ChoosePlayer(l, draft)
      PROVE  Blank'
  <2>1. \A k \in LeagueIDs \ Leagues : nonDrafted'[k] = nonDrafted[k]
    BY <1>4, LeaguesAndTeams DEF ChoosePlayer, GivePlayer, rosterVars, TypeOK
  <2> QED
    BY <1>4, <2>1 DEF ChoosePlayer, Blank, Teams, Leagues
<1>5. ASSUME NEW u \in Users, NEW from \in Teams, NEW to \in TeamIDs,
             NEW offered \in PlayerIDs, NEW requested \in PlayerIDs,
             RequestTrade(u, from, to, offered, requested)
      PROVE  Blank'
  BY <1>3, <1>5, SwapBlank DEF RequestTrade, SwapCrashes
<1>6. ASSUME NEW u \in Users, NEW trade \in trades,
             NEW offered \in PlayerIDs, NEW requested \in PlayerIDs,
             NegotiateTrade(u, trade, offered, requested)
      PROVE  Blank'
  <2>1. trade.teamTo \in Teams
    <3>1. PICK l \in Leagues : trade.teamTo \in leagueTeams[l]
      BY DEF TradesIndexed
    <3> QED
      BY <3>1, LeaguesAndTeams DEF LeagueShape
  <2> QED
    BY <1>3, <1>6, <2>1, SwapBlank DEF NegotiateTrade, SwapCrashes
<1>7. CASE \/ \E l \in Leagues : DraftDone(l)
           \/ \E u \in Users, trade \in trades : RemoveTrade(u, trade) \/ TradeAccept(u, trade)
           \/ \E u \in Users : FinishNegotiate(u)
           \/ ExpireTrades
           \/ UNCHANGED vars
  BY <1>3, <1>7 DEF DraftDone, RemoveTrade, TradeAccept, FinishNegotiate, ExpireTrades, vars
<1> QED
  BY <1>1, <1>2, <1>4, <1>5, <1>6, <1>7 DEF Next

LEMMA MemoryStep == Memory /\ SeasonNext => Memory' /\ up
<1> SUFFICES ASSUME Memory, SeasonNext PROVE Memory' /\ up
  OBVIOUS
<1>1. CASE Next /\ UNCHANGED seasonVars
  <2>1. LeagueInvariant' /\ Blank'
    BY <1>1, InvariantStep, BlankStep DEF Memory
  <2>2. Teams \subseteq Teams'
    BY <1>1, TeamsStay DEF Memory
  <2>3. Scores'
    BY <1>1, <2>2 DEF Memory, Scores, seasonVars
  <2>4. up
    BY <1>1, ZenonT(30) DEF Next, CreateLeague, JoinLeague, DraftDone, ChoosePlayer, RequestTrade, RemoveTrade,
             NegotiateTrade, FinishNegotiate, TradeAccept, ExpireTrades, Idle
  <2> QED
    BY <2>1, <2>3, <2>4 DEF Memory
<1>2. ASSUME NEW file \in MatchFiles, PlayMatch(file)
      PROVE  Memory' /\ up
  <2>1. UNCHANGED vars /\ up
    BY <1>2 DEF PlayMatch
  <2>2. LeagueInvariant' /\ Blank'
    BY <2>1, InvariantStep, BlankStep DEF Memory
  <2>3. Teams' = Teams
    BY <2>1 DEF vars, idVars, Teams
  <2>4. Scores'
    BY <1>2, <2>3, MatchTypes, MatchBlank DEF Memory, Scores, LeagueInvariant
  <2> QED
    BY <2>1, <2>2, <2>4 DEF Memory
<1> QED
  BY <1>1, <1>2 DEF SeasonNext

-----------------------------------------------------------------------------
(* What files can be loaded.                                               *)

Named(teams) == {teams[t].league : t \in DOMAIN teams}

TeamsSane(teams) ==
  /\ \E n \in 0 .. MaxTeams : DOMAIN teams = 0 .. n - 1
  /\ \E m \in 0 .. MaxLeagues : Named(teams) = 0 .. m - 1
  /\ \A t \in DOMAIN teams :
       /\ teams[t].name \in TeamNames \cup {NoName}
       /\ teams[t].points \in Int
       /\ teams[t].players \in SUBSET PlayerIDs
  /\ \A t1, t2 \in DOMAIN teams :
       t1 # t2 /\ teams[t1].league = teams[t2].league
         => teams[t1].players \cap teams[t2].players = {}

TradesSane(teams, file) ==
  /\ file \in SUBSET Trade
  /\ \A trade \in file :
       /\ {trade.teamFrom, trade.teamTo} \subseteq DOMAIN teams
       /\ trade.teamFrom # trade.teamTo
       /\ teams[trade.teamFrom].league = teams[trade.teamTo].league
  /\ \A t1, t2 \in file : t1.tradeID = t2.tradeID => t1 = t2

UsersSane(teams, file) == \A u \in DOMAIN file : file[u] \subseteq DOMAIN teams

LeaguesSane(file) ==
  \A l \in DOMAIN file : /\ file[l].size \in LeagueSizes \cup {NoID}
                         /\ file[l].score \in [PlayerIDs -> Int]

Sane(files) ==
  /\ TeamsSane(files["Teams"])
  /\ TradesSane(files["Teams"], files["Trades"])
  /\ UsersSane(files["Teams"], files["Users"])
  /\ LeaguesSane(files["Leagues"])

\* What the files say.
TeamsRead(teams) == [l \in LeagueIDs |-> {t \in DOMAIN teams : teams[t].league = l}]

PlayersRead(teams) ==
  [t \in TeamIDs |-> IF t \in DOMAIN teams THEN teams[t].players ELSE {}]

FreeRead(teams) ==
  [l \in LeagueIDs |->
     IF l \in Named(teams)
       THEN PlayerIDs \ UNION {teams[t].players : t \in {t \in DOMAIN teams : teams[t].league = l}}
       ELSE {}]

NamesRead(teams) ==
  [t \in TeamIDs |-> IF t \in DOMAIN teams THEN teams[t].name ELSE NoName]

LeagueRead(teams) ==
  [t \in TeamIDs |-> IF t \in DOMAIN teams THEN teams[t].league ELSE NoID]

PointsRead(teams) ==
  [t \in TeamIDs |-> IF t \in DOMAIN teams THEN teams[t].points ELSE 0]

UsersRead(file) == [u \in Users |-> IF u \in DOMAIN file THEN file[u] ELSE {}]

SentRead(file) == [t \in TeamIDs |-> {trade \in file : trade.teamFrom = t}]
IncomingRead(file) == [t \in TeamIDs |-> {trade \in file : trade.teamTo = t}]

SizesRead(file) == [l \in LeagueIDs |-> IF l \in DOMAIN file THEN file[l].size ELSE NoID]

ScoresRead(teams, file) ==
  [l \in LeagueIDs |-> [p \in PlayerIDs |->
     IF l \in DOMAIN file /\ \E t \in TeamsRead(teams)[l] : p \in PlayersRead(teams)[t]
       THEN file[l].score[p] ELSE 0]]

Read(files) ==
  [maxSize |-> SizesRead(files["Leagues"]),
   leagueTeams |-> TeamsRead(files["Teams"]),
   nonDrafted |-> FreeRead(files["Teams"]),
   teamName |-> NamesRead(files["Teams"]),
   leagueID |-> LeagueRead(files["Teams"]),
   players |-> PlayersRead(files["Teams"]),
   userTeams |-> UsersRead(files["Users"]),
   trades |-> files["Trades"],
   sentTrades |-> SentRead(files["Trades"]),
   incomingTrades |-> IncomingRead(files["Trades"]),
   points |-> PointsRead(files["Teams"]),
   score |-> ScoresRead(files["Teams"], files["Leagues"])]

\* The league file has the leagues the teams name, so that no size is garbage.
Whole(files) == Named(files["Teams"]) \subseteq DOMAIN files["Leagues"]

-----------------------------------------------------------------------------
(* The inductive invariant.                                                *)

Brings(teams, data) ==
  TeamsRead(teams) = data.leagueTeams /\ PlayersRead(teams) = data.players

\* Where save is and what it has done to the files.
SaveShape ==
  /\ step \in 0 .. 13
  /\ there \subseteq Files
  /\ disk = [f \in Files |-> disk[f]]
  /\ disk["Leagues"] = [l \in DOMAIN disk["Leagues"] |-> disk["Leagues"][l]]
  /\ ~ up => step = 0 /\ leaving = "no"
  /\ \A f \in Files \ there : disk[f] = Nothing[f]
  /\ step \in 2 .. 5 => "Teams" \notin there
  /\ step >= 6 => "Teams" \in there
  /\ step >= 7 => "Trades" \in there
  /\ step >= 8 => "Users" \in there
  /\ step >= 9 => "Leagues" \in there
  /\ step \in 2 .. 10 => disk["Teams"] = Nothing["Teams"]
  /\ step \in 4 .. 11 => disk["Trades"] = Nothing["Trades"]
  /\ step \in 3 .. 12 => disk["Users"] = Nothing["Users"]
  /\ step \in 5 .. 8  => disk["Leagues"] = Nothing["Leagues"]
  /\ step >= 10 => disk["Leagues"] = Written["Leagues"]
  /\ step >= 11 => disk["Teams"] = Written["Teams"]
  /\ step >= 12 => disk["Trades"] = Written["Trades"]
  /\ step >= 13 => disk["Users"] = Written["Users"]

\* No team, and when load gets as far as reading them no trade and no user: a
\* league the files name makes it give up.
NoTeam(files) ==
  /\ DOMAIN files["Teams"] = {}
  /\ there \in {{}, Files} => \A f \in Files \ {"Leagues"} : files[f] = Nothing[f]

\* What a load of the files would bring.
Loadable ==
  /\ there = Files => Sane(disk)
  /\ up /\ step \in {0, 1} => there = Files /\ Brings(disk["Teams"], saved)
  /\ \/ Brings(disk["Teams"], saved)
     \/ Brings(disk["Teams"], Data)
     \/ NoTeam(disk)
  /\ ~ torn /\ step \in {0, 1} => there = Files /\ saved = Read(disk) /\ Whole(disk)

StoreInvariant == Memory /\ SaveShape /\ Loadable


-----------------------------------------------------------------------------
(* What save writes can be loaded and says what was in memory.             *)

TeamFile ==
  [t \in Teams |-> [name |-> teamName[t], league |-> leagueID[t],
                    points |-> points[t], players |-> players[t]]]

LeagueFile == [l \in Leagues |-> [size |-> maxSize[l], score |-> score[l]]]

\* Every team and every trade is found through the leagues.
LEMMA WrittenFiles ==
  ASSUME Memory
  PROVE  /\ Written["Teams"] = TeamFile
         /\ Written["Trades"] = trades
         /\ Written["Users"] = userTeams
         /\ Written["Leagues"] = LeagueFile
<1> USE DEF Memory, LeagueInvariant
<1>1. SavedTeams = Teams
  BY LeaguesAndTeams DEF SavedTeams, LeagueShape
<1>2. Written["Teams"] = TeamFile /\ Written["Users"] = userTeams /\ Written["Leagues"] = LeagueFile
  BY <1>1 DEF Written, Files, TeamFile, LeagueFile
<1>3. Written["Trades"] = UNION {{[trade EXCEPT !.teamTo = t] : trade \in incomingTrades[t]}
                                   : t \in Teams}
  BY <1>1 DEF Written, Files
<1>4. ASSUME NEW t \in Teams
      PROVE  {[trade EXCEPT !.teamTo = t] : trade \in incomingTrades[t]} = incomingTrades[t]
  <2>1. \A trade \in incomingTrades[t] : trade \in Trade /\ trade.teamTo = t
    BY LeaguesAndTeams DEF TradesIndexed, TypeOK
  <2>2. \A trade \in incomingTrades[t] : [trade EXCEPT !.teamTo = t] = trade
    BY <2>1 DEF Trade
  <2> QED
    BY <2>2
<1>5. \A trade \in trades : trade.teamTo \in Teams /\ trade \in incomingTrades[trade.teamTo]
  BY LeaguesAndTeams DEF TradesIndexed, LeagueShape
<1>6. \A t \in Teams : incomingTrades[t] \subseteq trades
  BY LeaguesAndTeams DEF TradesIndexed
<1>7. UNION {incomingTrades[t] : t \in Teams} = trades
  BY <1>5, <1>6
<1>8. UNION {{[trade EXCEPT !.teamTo = t] : trade \in incomingTrades[t]} : t \in Teams} = trades
  BY <1>4, <1>7
<1> QED
  BY <1>2, <1>3, <1>8

\* A league is named by a team.
LEMMA LeaguesNamed ==
  ASSUME Memory
  PROVE  Named(TeamFile) = Leagues /\ DOMAIN TeamFile = Teams /\ DOMAIN LeagueFile = Leagues
<1> USE DEF Memory, LeagueInvariant
<1>1. \A t \in Teams : TeamFile[t].league = leagueID[t] /\ leagueID[t] \in Leagues
  BY DEF TeamFile, LeagueShape
<1>2. ASSUME NEW l \in Leagues
      PROVE  \E t \in Teams : leagueID[t] = l
  BY LeaguesAndTeams DEF Blank, LeagueShape
<1> QED
  BY <1>1, <1>2 DEF Named, TeamFile, LeagueFile

LEMMA WrittenReads ==
  ASSUME Memory
  PROVE  /\ TeamsRead(TeamFile) = leagueTeams
         /\ PlayersRead(TeamFile) = players
         /\ FreeRead(TeamFile) = nonDrafted
         /\ NamesRead(TeamFile) = teamName
         /\ LeagueRead(TeamFile) = leagueID
         /\ PointsRead(TeamFile) = points
         /\ UsersRead(userTeams) = userTeams
         /\ SentRead(trades) = sentTrades
         /\ IncomingRead(trades) = incomingTrades
         /\ SizesRead(LeagueFile) = maxSize
         /\ ScoresRead(TeamFile, LeagueFile) = Kept
<1> USE DEF Memory, LeagueInvariant
<1>1. Leagues \subseteq LeagueIDs /\ Teams \subseteq TeamIDs
  BY LeaguesAndTeams
<1>2. /\ DOMAIN TeamFile = Teams /\ DOMAIN LeagueFile = Leagues /\ Named(TeamFile) = Leagues
      /\ \A t \in Teams : /\ TeamFile[t].name = teamName[t]
                          /\ TeamFile[t].league = leagueID[t]
                          /\ TeamFile[t].points = points[t]
                          /\ TeamFile[t].players = players[t]
  BY LeaguesNamed DEF TeamFile
<1>3. \A l \in Leagues : LeagueFile[l].size = maxSize[l] /\ LeagueFile[l].score = score[l]
  BY DEF LeagueFile
<1>4. \A l \in LeagueIDs : leagueTeams[l] = {t \in Teams : leagueID[t] = l}
  BY <1>1 DEF LeagueShape
<1>5. TeamsRead(TeamFile) = leagueTeams
  <2>1. ASSUME NEW l \in LeagueIDs
        PROVE  {t \in DOMAIN TeamFile : TeamFile[t].league = l} = leagueTeams[l]
    BY <1>2, <1>4
  <2>2. TeamsRead(TeamFile) = [l \in LeagueIDs |-> leagueTeams[l]]
    BY <2>1 DEF TeamsRead
  <2>3. leagueTeams = [l \in LeagueIDs |-> leagueTeams[l]]
    BY DEF TypeOK
  <2> QED
    BY <2>2, <2>3, Zenon
<1>6. PlayersRead(TeamFile) = players
  BY <1>2 DEF PlayersRead, TypeOK, LeagueShape
<1>7. NamesRead(TeamFile) = teamName
  BY <1>2 DEF NamesRead, TypeOK, Blank
<1>8. LeagueRead(TeamFile) = leagueID
  BY <1>2 DEF LeagueRead, TypeOK, Blank
<1>9. PointsRead(TeamFile) = points
  BY <1>2 DEF PointsRead, Scores
<1>10. SizesRead(LeagueFile) = maxSize
  BY <1>2, <1>3 DEF SizesRead, TypeOK, Blank
<1>11. UsersRead(userTeams) = userTeams
  BY DEF UsersRead, TypeOK
<1>12. SentRead(trades) = sentTrades /\ IncomingRead(trades) = incomingTrades
  BY DEF SentRead, IncomingRead, TypeOK, TradesIndexed
<1>13. FreeRead(TeamFile) = nonDrafted
  <2>1. ASSUME NEW l \in Leagues
        PROVE  nonDrafted[l] = PlayerIDs \ UNION {players[t] : t \in leagueTeams[l]}
    BY <1>1 DEF RosterPartition, Partitioned, TypeOK
  <2>2. ASSUME NEW l \in LeagueIDs
        PROVE  FreeRead(TeamFile)[l] = nonDrafted[l]
    <3>1. CASE l \in Leagues
      <4>1. {t \in DOMAIN TeamFile : TeamFile[t].league = l} = leagueTeams[l]
        BY <1>2, <1>4
      <4>2. {TeamFile[t].players : t \in leagueTeams[l]} = {players[t] : t \in leagueTeams[l]}
        BY <1>2, <1>4
      <4>3. FreeRead(TeamFile)[l] = PlayerIDs \ UNION {TeamFile[t].players : t \in
                  {t \in DOMAIN TeamFile : TeamFile[t].league = l}}
        BY <1>2, <3>1 DEF FreeRead
      <4> QED
        BY <2>1, <3>1, <4>1, <4>2, <4>3, Zenon
    <3>2. CASE l \notin Leagues
      BY <1>2, <3>2 DEF FreeRead, Blank
    <3> QED
      BY <3>1, <3>2
  <2>3. FreeRead(TeamFile) = [l \in LeagueIDs |-> FreeRead(TeamFile)[l]]
    BY DEF FreeRead
  <2> QED
    BY <2>2, <2>3 DEF TypeOK
<1>14. ScoresRead(TeamFile, LeagueFile) = Kept
  <2>1. ASSUME NEW l \in LeagueIDs, NEW p \in PlayerIDs
        PROVE  ScoresRead(TeamFile, LeagueFile)[l][p] = Kept[l][p]
    <3>1. l \notin Leagues => leagueTeams[l] = {}
      BY DEF LeagueShape, TypeOK
    <3> QED
      BY <1>2, <1>3, <1>5, <1>6, <3>1 DEF ScoresRead, Kept
  <2>2. ScoresRead(TeamFile, LeagueFile)
          = [l \in LeagueIDs |-> [p \in PlayerIDs |-> ScoresRead(TeamFile, LeagueFile)[l][p]]]
    BY DEF ScoresRead
  <2>3. Kept = [l \in LeagueIDs |-> [p \in PlayerIDs |-> Kept[l][p]]]
    BY DEF Kept
  <2> QED
    BY <2>1, <2>2, <2>3
<1> QED
  BY <1>5, <1>6, <1>7, <1>8, <1>9, <1>10, <1>11, <1>12, <1>13, <1>14

\* A load of a finished save brings the data that was saved.
LEMMA SaveReadsBack ==
  ASSUME Memory
  PROVE  Data = Read(Written) /\ Whole(Written) /\ Brings(Written["Teams"], Data)
<1>1. /\ Written["Teams"] = TeamFile /\ Written["Trades"] = trades
      /\ Written["Users"] = userTeams /\ Written["Leagues"] = LeagueFile
  BY WrittenFiles
<1>2. Data = Read(Written)
  BY <1>1, WrittenReads, Zenon DEF Data, Read
<1>3. Whole(Written)
  BY <1>1, LeaguesNamed DEF Whole
<1>4. Brings(Written["Teams"], Data)
  BY <1>1, WrittenReads DEF Brings, Data
<1> QED
  BY <1>2, <1>3, <1>4

LEMMA WrittenSane ==
  ASSUME Memory
  PROVE  /\ TeamsSane(TeamFile) /\ TradesSane(TeamFile, trades)
         /\ UsersSane(TeamFile, userTeams) /\ LeaguesSane(LeagueFile)
<1> USE DEF Memory, LeagueInvariant
<1>1. Leagues \subseteq LeagueIDs /\ Teams \subseteq TeamIDs
  BY LeaguesAndTeams
<1>2. /\ DOMAIN TeamFile = Teams /\ DOMAIN LeagueFile = Leagues /\ Named(TeamFile) = Leagues
      /\ \A t \in Teams : /\ TeamFile[t].name = teamName[t]
                          /\ TeamFile[t].league = leagueID[t]
                          /\ TeamFile[t].points = points[t]
                          /\ TeamFile[t].players = players[t]
  BY LeaguesNamed DEF TeamFile
<1>3. TeamsSane(TeamFile)
  <2>1. /\ \E n \in 0 .. MaxTeams : DOMAIN TeamFile = 0 .. n - 1
        /\ \E m \in 0 .. MaxLeagues : Named(TeamFile) = 0 .. m - 1
    BY <1>2 DEF TypeOK, Teams, Leagues
  <2>2. ASSUME NEW t \in Teams
        PROVE  /\ TeamFile[t].name \in TeamNames \cup {NoName}
               /\ TeamFile[t].points \in Int
               /\ TeamFile[t].players \in SUBSET PlayerIDs
    BY <1>1, <1>2 DEF TypeOK, Scores
  <2>3. ASSUME NEW t1 \in Teams, NEW t2 \in Teams, t1 # t2, leagueID[t1] = leagueID[t2]
        PROVE  players[t1] \cap players[t2] = {}
    BY <2>3 DEF LeagueShape, RosterPartition, Partitioned
  <2> QED
    BY <1>2, <2>1, <2>2, <2>3 DEF TeamsSane
<1>4. TradesSane(TeamFile, trades)
  <2>1. ASSUME NEW trade \in trades
        PROVE  /\ {trade.teamFrom, trade.teamTo} \subseteq Teams
               /\ trade.teamFrom # trade.teamTo
               /\ leagueID[trade.teamFrom] = leagueID[trade.teamTo]
    BY <1>1 DEF TradesIndexed, LeagueShape
  <2> QED
    BY <1>2, <2>1 DEF TradesSane, TradesIndexed, TypeOK
<1>5. UsersSane(TeamFile, userTeams)
  BY <1>2 DEF UsersSane, Blank, TypeOK
<1>6. LeaguesSane(LeagueFile)
  BY <1>1, <1>2 DEF LeaguesSane, LeagueFile, TypeOK, Scores
<1> QED
  BY <1>3, <1>4, <1>5, <1>6

-----------------------------------------------------------------------------
(* What load makes of files that can be loaded.                            *)

LEMMA Greatest ==
  ASSUME NEW S, S \subseteq Int, IsFiniteSet(S), S # {}
  PROVE  \E m \in S : \A q \in S : q <= m
<1> DEFINE Above(p) == {q \in S : q > p}
           T == {Above(p) : p \in S}
<1>1. PICK x \in T : \A y \in T : y \subseteq x => y = x
  <2>1. IsFiniteSet(S) /\ T \subseteq SUBSET S /\ T # {}
    OBVIOUS
  <2> HIDE DEF T
  <2> QED
    BY ONLY <2>1, SmallestSet
<1>2. PICK m \in S : x = Above(m)
  BY <1>1
<1>3. ASSUME NEW q \in S, q > m
      PROVE  FALSE
  <2>1. Above(q) \in T
    OBVIOUS
  <2>2. \A y \in S : y > q => y > m
    BY <1>3
  <2>3. Above(q) \subseteq Above(m)
    BY <2>2
  <2>4. q \in Above(m) /\ q \notin Above(q)
    BY <1>3
  <2> HIDE DEF Above
  <2> QED
    BY <1>1, <1>2, <2>1, <2>3, <2>4
<1> QED
  BY <1>3

LEMMA MaxIsGreatest ==
  ASSUME NEW S, S \subseteq Int, IsFiniteSet(S), S # {}
  PROVE  Max(S) \in S /\ \A q \in S : q <= Max(S)
<1>1. PICK m \in S : \A q \in S : m >= q
  BY Greatest
<1> QED
  BY <1>1 DEF Max

\* The next ID is above those read, and no gap below it comes from none.
LEMMA NextIsAbove ==
  ASSUME NEW n \in Nat, NEW ids \in SUBSET (0 .. n - 1)
  PROVE  NextAfter(ids) \in 0 .. n /\ \A i \in ids : i < NextAfter(ids)
<1>1. CASE ids = {}
  BY <1>1 DEF NextAfter
<1>2. CASE ids # {}
  <2>1. IsFiniteSet(0 .. n - 1)
    BY FS_Interval
  <2>2. IsFiniteSet(ids) /\ ids \subseteq Int
    <3>1. ids \subseteq 0 .. n - 1
      OBVIOUS
    <3>2. IsFiniteSet(ids)
      BY ONLY <2>1, <3>1, FS_Subset
    <3> QED
      BY <3>1, <3>2
  <2>3. PICK m \in ids : m = Max(ids) /\ \A q \in ids : q <= m
    BY <1>2, <2>2, MaxIsGreatest
  <2>4. NextAfter(ids) = m + 1
    BY <1>2, <2>3 DEF NextAfter
  <2>5. m \in 0 .. n - 1 /\ \A i \in ids : i \in 0 .. n - 1
    OBVIOUS
  <2>6. m + 1 \in 0 .. n /\ \A i \in ids : i < m + 1
    BY <2>3, <2>5
  <2> QED
    BY <2>4, <2>6, Zenon
<1> QED
  BY <1>1, <1>2

LEMMA NextOfAll ==
  ASSUME NEW n \in Nat
  PROVE  NextAfter(0 .. n - 1) = n
<1>1. CASE n = 0
  BY <1>1 DEF NextAfter
<1>2. CASE n # 0
  <2>1. n - 1 \in 0 .. n - 1 /\ 0 .. n - 1 \in SUBSET (0 .. n - 1)
    BY <1>2
  <2> DEFINE next == NextAfter(0 .. n - 1)
  <2>2. next \in 0 .. n /\ \A i \in 0 .. n - 1 : i < next
    BY <2>1, NextIsAbove
  <2> HIDE DEF next
  <2>3. next = n
    BY <2>1, <2>2
  <2> QED
    BY <2>3 DEF next
<1> QED
  BY <1>1, <1>2

LEMMA NothingSane ==
  /\ Sane(Nothing) /\ Whole(Nothing)
  /\ DOMAIN Nothing["Teams"] = {} /\ DOMAIN Nothing["Leagues"] = {}
  /\ DOMAIN Nothing["Users"] = {} /\ Nothing["Trades"] = {}
<1>1. /\ Nothing["Teams"] = << >> /\ Nothing["Trades"] = {}
      /\ Nothing["Users"] = << >> /\ Nothing["Leagues"] = << >>
  BY DEF Nothing, Files
<1>2. DOMAIN << >> = {}
  OBVIOUS
<1>3. Named(<< >>) = {}
  BY <1>2 DEF Named
<1>4. TeamsSane(<< >>)
  <2>1. 0 .. 0 - 1 = {} /\ 0 \in 0 .. MaxTeams /\ 0 \in 0 .. MaxLeagues
    BY BoundAssumption
  <2> QED
    BY <1>2, <1>3, <2>1 DEF TeamsSane
<1>5. TradesSane(<< >>, {})
  BY DEF TradesSane
<1>6. UsersSane(<< >>, << >>) /\ LeaguesSane(<< >>)
  BY <1>2 DEF UsersSane, LeaguesSane
<1>7. Sane(Nothing)
  BY <1>1, <1>4, <1>5, <1>6, Zenon DEF Sane
<1>8. Whole(Nothing)
  BY <1>1, <1>3 DEF Whole
<1> QED
  BY <1>1, <1>2, <1>7, <1>8

\* The data after load, file by file.
LEMMA LoadBrings ==
  ASSUME Restart
  PROVE  /\ leagueTeams' = TeamsRead(disk["Teams"])
         /\ players' = PlayersRead(disk["Teams"])
         /\ nonDrafted' = FreeRead(disk["Teams"])
         /\ teamName' = NamesRead(disk["Teams"])
         /\ leagueID' = LeagueRead(disk["Teams"])
         /\ points' = PointsRead(disk["Teams"])
         /\ userTeams' = UsersRead(disk["Users"])
         /\ trades' = disk["Trades"]
         /\ sentTrades' = SentRead(disk["Trades"])
         /\ incomingTrades' = IncomingRead(disk["Trades"])
         /\ score' = ScoresRead(disk["Teams"], disk["Leagues"])
         /\ maxTeamID' = NextAfter(DOMAIN disk["Teams"])
         /\ maxLeagueID' = NextAfter(Named(disk["Teams"]))
         /\ maxTradeID' = NextAfter({trade.tradeID : trade \in disk["Trades"]})
<1>1. /\ leagueTeams' = TeamsRead(disk["Teams"])
      /\ players' = PlayersRead(disk["Teams"])
      /\ teamName' = NamesRead(disk["Teams"])
      /\ leagueID' = LeagueRead(disk["Teams"])
      /\ points' = PointsRead(disk["Teams"])
      /\ maxTeamID' = NextAfter(DOMAIN disk["Teams"])
      /\ maxLeagueID' = NextAfter(Named(disk["Teams"]))
  BY Zenon DEF Restart, LoadTeams, TeamsRead, PlayersRead, NamesRead, LeagueRead, PointsRead, Named
<1>2. nonDrafted' = FreeRead(disk["Teams"])
  BY Zenon DEF Restart, LoadTeams, FreeRead, Named
<1>3. userTeams' = UsersRead(disk["Users"])
  BY Zenon DEF Restart, LoadUsers, UsersRead
<1>4. /\ trades' = disk["Trades"]
      /\ sentTrades' = SentRead(disk["Trades"])
      /\ incomingTrades' = IncomingRead(disk["Trades"])
      /\ maxTradeID' = NextAfter({trade.tradeID : trade \in disk["Trades"]})
  BY Zenon DEF Restart, LoadTrades, SentRead, IncomingRead
<1>5. score' = ScoresRead(disk["Teams"], disk["Leagues"])
  <2>1. score' = [l \in LeagueIDs |-> [p \in PlayerIDs |->
           IF l \in DOMAIN disk["Leagues"] /\ \E t \in leagueTeams'[l] : p \in players'[t]
             THEN disk["Leagues"][l].score[p] ELSE 0]]
    BY Zenon DEF Restart, LoadLeagues
  <2> QED
    BY <1>1, <2>1, Zenon DEF ScoresRead
<1> QED
  BY <1>1, <1>2, <1>3, <1>4, <1>5

LEMMA SizesLoaded ==
  ASSUME NEW m \in 0 .. MaxLeagues, LeaguesSane(disk["Leagues"]), Restart,
         maxLeagueID' = m, DOMAIN disk["Leagues"] \subseteq 0 .. m - 1
  PROVE  /\ maxSize' \in [LeagueIDs -> LeagueSizes \cup {NoID}]
         /\ \A l \in LeagueIDs : l \notin 0 .. m - 1 => maxSize'[l] = NoID
         /\ DOMAIN disk["Leagues"] = 0 .. m - 1 => maxSize' = SizesRead(disk["Leagues"])
<1>1. PICK file : file = disk["Leagues"]
  OBVIOUS
<1>2. PICK garbage \in LeagueSizes \cup {NoID} :
        maxSize' = [l \in LeagueIDs |->
          IF l \in DOMAIN file THEN file[l].size
          ELSE IF l < maxLeagueID' THEN garbage ELSE NoID]
  BY <1>1 DEF Restart, LoadLeagues
<1>3. maxSize' = [l \in LeagueIDs |->
          IF l \in DOMAIN file THEN file[l].size ELSE IF l < m THEN garbage ELSE NoID]
  BY <1>2
<1>4. \A l \in DOMAIN file : file[l].size \in LeagueSizes \cup {NoID}
  BY <1>1 DEF LeaguesSane
<1>5. maxSize' \in [LeagueIDs -> LeagueSizes \cup {NoID}]
  BY <1>3, <1>4
<1>6. \A l \in LeagueIDs : l \in Int /\ l >= 0 /\ (l \in 0 .. m - 1 <=> l < m)
  BY BoundAssumption DEF LeagueIDs
<1>7. \A l \in LeagueIDs : l \notin 0 .. m - 1 => maxSize'[l] = NoID
  BY <1>1, <1>3, <1>6
<1>8. ASSUME DOMAIN file = 0 .. m - 1
      PROVE  maxSize' = SizesRead(file)
  <2>1. \A l \in LeagueIDs : l \notin DOMAIN file => ~ (l < m)
    BY <1>6, <1>8
  <2>2. \A l \in LeagueIDs :
          (IF l \in DOMAIN file THEN file[l].size ELSE IF l < m THEN garbage ELSE NoID)
            = (IF l \in DOMAIN file THEN file[l].size ELSE NoID)
    BY <2>1
  <2> QED
    BY <1>3, <2>2 DEF SizesRead
<1> QED
  BY <1>1, <1>5, <1>7, <1>8

\* What is read of teams that can be loaded.
LEMMA TeamsLoaded ==
  ASSUME NEW teams, TeamsSane(teams),
         NEW n \in 0 .. MaxTeams, DOMAIN teams = 0 .. n - 1,
         NEW m \in 0 .. MaxLeagues, Named(teams) = 0 .. m - 1
  PROVE  /\ DOMAIN teams \subseteq TeamIDs /\ Named(teams) \subseteq LeagueIDs
         /\ \A t \in DOMAIN teams : teams[t].league \in Named(teams)
         /\ TeamsRead(teams) \in [LeagueIDs -> SUBSET TeamIDs]
         /\ FreeRead(teams) \in [LeagueIDs -> SUBSET PlayerIDs]
         /\ NamesRead(teams) \in [TeamIDs -> TeamNames \cup {NoName}]
         /\ LeagueRead(teams) \in [TeamIDs -> LeagueIDs \cup {NoID}]
         /\ PlayersRead(teams) \in [TeamIDs -> SUBSET PlayerIDs]
         /\ PointsRead(teams) \in [TeamIDs -> Int]
<1>1. DOMAIN teams \subseteq TeamIDs /\ Named(teams) \subseteq LeagueIDs
  BY BoundAssumption DEF TeamIDs, LeagueIDs
<1>2. \A t \in DOMAIN teams : teams[t].league \in Named(teams)
  BY DEF Named
<1>3. \A t \in DOMAIN teams : /\ teams[t].name \in TeamNames \cup {NoName}
                              /\ teams[t].points \in Int
                              /\ teams[t].players \in SUBSET PlayerIDs
  BY DEF TeamsSane
<1> HIDE DEF Named
<1>4. TeamsRead(teams) \in [LeagueIDs -> SUBSET TeamIDs]
  BY <1>1 DEF TeamsRead
<1>5. FreeRead(teams) \in [LeagueIDs -> SUBSET PlayerIDs]
  <2>1. \A l \in LeagueIDs : FreeRead(teams)[l] \in SUBSET PlayerIDs
    BY DEF FreeRead
  <2>2. FreeRead(teams) = [l \in LeagueIDs |-> FreeRead(teams)[l]]
    BY DEF FreeRead
  <2> QED
    BY <2>1, <2>2
<1>6. NamesRead(teams) \in [TeamIDs -> TeamNames \cup {NoName}]
  BY <1>3 DEF NamesRead
<1>7. LeagueRead(teams) \in [TeamIDs -> LeagueIDs \cup {NoID}]
  BY <1>1, <1>2 DEF LeagueRead
<1>8. PlayersRead(teams) \in [TeamIDs -> SUBSET PlayerIDs]
  BY <1>3 DEF PlayersRead
<1>9. PointsRead(teams) \in [TeamIDs -> Int]
  BY <1>3 DEF PointsRead
<1> QED
  BY <1>1, <1>2, <1>4, <1>5, <1>6, <1>7, <1>8, <1>9

\* ... and of their players: they partition those of the league.
LEMMA PlayersLoaded ==
  ASSUME NEW teams, TeamsSane(teams), DOMAIN teams \subseteq TeamIDs,
         NEW l \in LeagueIDs, l \in Named(teams)
  PROVE  /\ TeamsRead(teams)[l] # {}
         /\ \A t1, t2 \in TeamsRead(teams)[l] :
              t1 # t2 => PlayersRead(teams)[t1] \cap PlayersRead(teams)[t2] = {}
         /\ \A t \in TeamsRead(teams)[l] : PlayersRead(teams)[t] \cap FreeRead(teams)[l] = {}
         /\ \A p \in PlayerIDs \ FreeRead(teams)[l] :
              \E t \in TeamsRead(teams)[l] : p \in PlayersRead(teams)[t]
<1>1. TeamsRead(teams)[l] = {t \in DOMAIN teams : teams[t].league = l}
  BY DEF TeamsRead
<1>2. \A t \in DOMAIN teams : PlayersRead(teams)[t] = teams[t].players
  BY DEF PlayersRead
<1>3. FreeRead(teams)[l] = PlayerIDs \ UNION {teams[t].players : t \in
                              {t \in DOMAIN teams : teams[t].league = l}}
  BY DEF FreeRead
<1>4. \A p : p \in FreeRead(teams)[l] <=>
        /\ p \in PlayerIDs
        /\ ~ \E t \in DOMAIN teams : teams[t].league = l /\ p \in teams[t].players
  BY <1>3
<1>5. TeamsRead(teams)[l] # {}
  BY <1>1 DEF Named
<1>6. ASSUME NEW t1 \in TeamsRead(teams)[l], NEW t2 \in TeamsRead(teams)[l], t1 # t2
      PROVE  PlayersRead(teams)[t1] \cap PlayersRead(teams)[t2] = {}
  BY <1>1, <1>2, <1>6 DEF TeamsSane
<1>7. ASSUME NEW t \in TeamsRead(teams)[l]
      PROVE  PlayersRead(teams)[t] \cap FreeRead(teams)[l] = {}
  BY <1>1, <1>2, <1>4
<1>8. ASSUME NEW p \in PlayerIDs \ FreeRead(teams)[l]
      PROVE  \E t \in TeamsRead(teams)[l] : p \in PlayersRead(teams)[t]
  BY <1>1, <1>2, <1>4
<1> QED
  BY <1>5, <1>6, <1>7, <1>8

LEMMA TradesLoaded ==
  ASSUME NEW teams, NEW file, TradesSane(teams, file), DOMAIN teams \subseteq TeamIDs
  PROVE  /\ NextAfter({trade.tradeID : trade \in file}) \in 0 .. MaxTrades
         /\ \A trade \in file :
              trade.tradeID < NextAfter({trade1.tradeID : trade1 \in file})
         /\ SentRead(file) \in [TeamIDs -> SUBSET Trade]
         /\ IncomingRead(file) \in [TeamIDs -> SUBSET Trade]
<1> DEFINE ids == {trade.tradeID : trade \in file}
<1>1. file \in SUBSET Trade
  BY DEF TradesSane
<1>2. ids \in SUBSET (0 .. MaxTrades - 1) /\ MaxTrades \in Nat
  BY <1>1, BoundAssumption DEF Trade, TradeIDs
<1>3. \A trade \in file : trade.tradeID \in ids
  OBVIOUS
<1> HIDE DEF ids
<1>4. NextAfter(ids) \in 0 .. MaxTrades /\ \A i \in ids : i < NextAfter(ids)
  BY <1>2, NextIsAbove
<1>5. \A trade \in file : trade.tradeID < NextAfter(ids)
  BY <1>3, <1>4
<1>6. SentRead(file) \in [TeamIDs -> SUBSET Trade] /\ IncomingRead(file) \in [TeamIDs -> SUBSET Trade]
  BY <1>1 DEF SentRead, IncomingRead
<1> QED
  BY <1>4, <1>5, <1>6 DEF ids

\* load leaves the data in the shape the handlers need.
LEMMA RestartMemory ==
  ASSUME Sane(disk), Restart
  PROVE  Memory'
<1>1. PICK teams : teams = disk["Teams"]
  OBVIOUS
<1>2. PICK file : file = disk["Trades"]
  OBVIOUS
<1>3. TeamsSane(teams) /\ TradesSane(teams, file)
  BY <1>1, <1>2 DEF Sane
<1>4. PICK n \in 0 .. MaxTeams : DOMAIN teams = 0 .. n - 1
  BY <1>3 DEF TeamsSane
<1>5. PICK m \in 0 .. MaxLeagues : Named(teams) = 0 .. m - 1
  BY <1>3 DEF TeamsSane
<1>6. /\ DOMAIN teams \subseteq TeamIDs /\ Named(teams) \subseteq LeagueIDs
      /\ \A t \in DOMAIN teams : teams[t].league \in Named(teams)
      /\ TeamsRead(teams) \in [LeagueIDs -> SUBSET TeamIDs]
      /\ FreeRead(teams) \in [LeagueIDs -> SUBSET PlayerIDs]
      /\ NamesRead(teams) \in [TeamIDs -> TeamNames \cup {NoName}]
      /\ LeagueRead(teams) \in [TeamIDs -> LeagueIDs \cup {NoID}]
      /\ PlayersRead(teams) \in [TeamIDs -> SUBSET PlayerIDs]
      /\ PointsRead(teams) \in [TeamIDs -> Int]
  BY <1>3, <1>4, <1>5, TeamsLoaded
<1>7. /\ leagueTeams' = TeamsRead(teams)
      /\ players' = PlayersRead(teams)
      /\ nonDrafted' = FreeRead(teams)
      /\ teamName' = NamesRead(teams)
      /\ leagueID' = LeagueRead(teams)
      /\ points' = PointsRead(teams)
      /\ userTeams' = UsersRead(disk["Users"])
      /\ trades' = file
      /\ sentTrades' = SentRead(file)
      /\ incomingTrades' = IncomingRead(file)
      /\ score' = ScoresRead(teams, disk["Leagues"])
      /\ maxTradeID' = NextAfter({trade.tradeID : trade \in file})
  BY <1>1, <1>2, LoadBrings, Zenon
<1>8. maxTeamID' = n /\ Teams' = 0 .. n - 1
  BY <1>1, <1>4, LoadBrings, NextOfAll DEF Teams
<1>9. maxLeagueID' = m /\ Leagues' = 0 .. m - 1
  BY <1>1, <1>5, LoadBrings, NextOfAll DEF Leagues
<1>10. /\ maxSize' \in [LeagueIDs -> LeagueSizes \cup {NoID}]
       /\ \A l \in LeagueIDs : l \notin 0 .. m - 1 => maxSize'[l] = NoID
  <2>1. DOMAIN disk["Leagues"] \subseteq Named(teams)
    BY <1>1 DEF Restart, LoadSucceeds, Named
  <2> QED
    BY <1>5, <1>9, <2>1, SizesLoaded DEF Sane
<1>11. userTeams' \in [Users -> SUBSET TeamIDs] /\ \A u \in Users : userTeams'[u] \subseteq Teams'
  BY <1>1, <1>4, <1>6, <1>7, <1>8 DEF Sane, UsersSane, UsersRead
<1>12. /\ maxTradeID' \in 0 .. MaxTrades
       /\ \A trade \in file : trade.tradeID < maxTradeID'
       /\ sentTrades' \in [TeamIDs -> SUBSET Trade]
       /\ incomingTrades' \in [TeamIDs -> SUBSET Trade]
  BY <1>3, <1>6, <1>7, TradesLoaded, Zenon
<1>13. TypeOK'
  <2>1. /\ picks' \in [LeagueIDs -> SUBSET Pick] /\ handOvers' \in [LeagueIDs -> 0 .. MaxDrafts]
        /\ pendingRemoval' \in [Users -> TradeIDs \cup {NoID}]
    BY BoundAssumption DEF Restart
  <2>2. trades' \in SUBSET Trade /\ up' \in BOOLEAN
    BY <1>3, <1>7 DEF TradesSane, Restart
  <2>3. maxTeamID' \in 0 .. MaxTeams /\ maxLeagueID' \in 0 .. MaxLeagues
    BY <1>8, <1>9
  <2>4. /\ leagueTeams' \in [LeagueIDs -> SUBSET TeamIDs]
        /\ nonDrafted' \in [LeagueIDs -> SUBSET PlayerIDs]
        /\ teamName' \in [TeamIDs -> TeamNames \cup {NoName}]
        /\ leagueID' \in [TeamIDs -> LeagueIDs \cup {NoID}]
        /\ players' \in [TeamIDs -> SUBSET PlayerIDs]
    BY <1>6, <1>7, Zenon
  <2> QED
    BY <1>10, <1>11, <1>12, <2>1, <2>2, <2>3, <2>4, Zenon DEF TypeOK
<1>14. /\ \A l \in LeagueIDs : leagueTeams'[l] = {t \in DOMAIN teams : teams[t].league = l}
       /\ \A t \in DOMAIN teams : leagueID'[t] = teams[t].league
       /\ DOMAIN teams = Teams' /\ Named(teams) = Leagues'
  BY <1>4, <1>5, <1>6, <1>7, <1>8, <1>9 DEF TeamsRead, LeagueRead
<1>15. LeagueShape'
  <2>1. \A l \in LeagueIDs : \A t \in leagueTeams'[l] : t \in Teams' /\ leagueID'[t] = l
    BY <1>14
  <2>2. \A t \in Teams' : leagueID'[t] \in Leagues' /\ t \in leagueTeams'[leagueID'[t]]
    BY <1>6, <1>14
  <2>3. \A t \in TeamIDs \ Teams' : players'[t] = {}
    BY <1>7, <1>14 DEF PlayersRead
  <2>4. \A l \in LeagueIDs : IsFiniteSet(picks'[l]) /\ picks'[l] = {}
    BY FS_EmptySet DEF Restart
  <2> QED
    BY <2>1, <2>2, <2>3, <2>4 DEF LeagueShape
<1>16. TradesIndexed'
  <2>1. \A t \in TeamIDs : /\ sentTrades'[t] = {trade \in trades' : trade.teamFrom = t}
                           /\ incomingTrades'[t] = {trade \in trades' : trade.teamTo = t}
    BY <1>7 DEF SentRead, IncomingRead
  <2>2. ASSUME NEW trade \in file
        PROVE  /\ trade.teamFrom # trade.teamTo
               /\ \E l \in Leagues' : {trade.teamFrom, trade.teamTo} \subseteq leagueTeams'[l]
    <3>1. /\ trade.teamFrom \in DOMAIN teams /\ trade.teamTo \in DOMAIN teams
          /\ trade.teamFrom # trade.teamTo
          /\ teams[trade.teamFrom].league = teams[trade.teamTo].league
      BY <1>3 DEF TradesSane
    <3>2. teams[trade.teamFrom].league \in Leagues' /\ Leagues' \subseteq LeagueIDs
      BY <1>6, <1>14, <3>1
    <3> QED
      BY <1>14, <3>1, <3>2
  <2>3. \A t1, t2 \in file : t1.tradeID = t2.tradeID => t1 = t2
    BY <1>3 DEF TradesSane
  <2> QED
    BY <1>7, <1>12, <2>1, <2>2, <2>3 DEF TradesIndexed
<1>17. RosterPartition' /\ \A l \in Leagues' : leagueTeams'[l] # {}
  <2>1. ASSUME NEW l \in Leagues'
        PROVE  /\ leagueTeams'[l] # {}
               /\ \A t1, t2 \in leagueTeams'[l] : t1 # t2 => players'[t1] \cap players'[t2] = {}
               /\ \A t \in leagueTeams'[l] : players'[t] \cap nonDrafted'[l] = {}
               /\ \A p \in PlayerIDs \ nonDrafted'[l] : \E t \in leagueTeams'[l] : p \in players'[t]
    <3>1. l \in LeagueIDs /\ l \in Named(teams)
      BY <1>6, <1>14
    <3>2. /\ TeamsRead(teams)[l] # {}
          /\ \A t1, t2 \in TeamsRead(teams)[l] :
               t1 # t2 => PlayersRead(teams)[t1] \cap PlayersRead(teams)[t2] = {}
          /\ \A t \in TeamsRead(teams)[l] : PlayersRead(teams)[t] \cap FreeRead(teams)[l] = {}
          /\ \A p \in PlayerIDs \ FreeRead(teams)[l] :
               \E t \in TeamsRead(teams)[l] : p \in PlayersRead(teams)[t]
      BY <1>3, <1>6, <3>1, PlayersLoaded
    <3> QED
      BY <1>7, <3>2, Zenon
  <2> QED
    BY <2>1 DEF RosterPartition, Partitioned
<1>18. Blank'
  <2>1. \A t \in TeamIDs \ Teams' : teamName'[t] = NoName /\ leagueID'[t] = NoID
    BY <1>7, <1>14 DEF NamesRead, LeagueRead
  <2>2. \A l \in LeagueIDs \ Leagues' : maxSize'[l] = NoID /\ nonDrafted'[l] = {}
    BY <1>7, <1>9, <1>10, <1>14 DEF FreeRead
  <2> QED
    BY <1>11, <1>17, <2>1, <2>2 DEF Blank
<1>19. Scores'
  <2>1. points' \in [TeamIDs -> Int] /\ \A t \in TeamIDs \ Teams' : points'[t] = 0
    BY <1>6, <1>7, <1>14 DEF PointsRead
  <2>2. score' \in [LeagueIDs -> [PlayerIDs -> Int]]
    BY <1>7 DEF Sane, LeaguesSane, ScoresRead
  <2> QED
    BY <2>1, <2>2 DEF Scores
<1> QED
  BY <1>13, <1>15, <1>16, <1>17, <1>18, <1>19 DEF Memory, LeagueInvariant

LEMMA RestartData ==
  ASSUME Sane(disk), Restart
  PROVE  /\ Brings(disk["Teams"], Data')
         /\ Whole(disk) => Data' = Read(disk)
<1>1. PICK teams : teams = disk["Teams"]
  OBVIOUS
<1>2. PICK file : file = disk["Leagues"]
  OBVIOUS
<1>3. PICK m \in 0 .. MaxLeagues : Named(teams) = 0 .. m - 1
  BY <1>1 DEF Sane, TeamsSane
<1>4. /\ leagueTeams' = TeamsRead(teams)
      /\ players' = PlayersRead(teams)
      /\ score' = ScoresRead(teams, file)
      /\ maxLeagueID' = m
  <2>1. /\ leagueTeams' = TeamsRead(teams)
        /\ players' = PlayersRead(teams)
        /\ score' = ScoresRead(teams, file)
    BY <1>1, <1>2, LoadBrings, Zenon
  <2>2. maxLeagueID' = NextAfter(0 .. m - 1)
    BY <1>1, <1>3, LoadBrings, Zenon
  <2>3. NextAfter(0 .. m - 1) = m
    <3>1. m \in Nat
      OBVIOUS
    <3> QED
      BY <3>1, NextOfAll, Zenon
  <2> QED
    BY <2>1, <2>2, <2>3, Zenon
<1>5. Data'.leagueTeams = leagueTeams' /\ Data'.players = players'
  BY DEF Data
<1>6. Brings(disk["Teams"], Data')
  BY <1>1, <1>4, <1>5, Zenon DEF Brings
<1>7. ASSUME Whole(disk)
      PROVE  Data' = Read(disk)
  <2>1. DOMAIN file \subseteq Named(teams) /\ Named(teams) \subseteq DOMAIN file
    BY <1>1, <1>2, <1>7 DEF Restart, LoadSucceeds, Named, Whole
  <2>2. maxSize' = SizesRead(disk["Leagues"])
    BY <1>2, <1>3, <1>4, <2>1, SizesLoaded DEF Sane
  <2>3. Kept' = ScoresRead(teams, file)
    <3>1. Kept' = [l \in LeagueIDs |-> [p \in PlayerIDs |->
             IF \E t \in TeamsRead(teams)[l] : p \in PlayersRead(teams)[t]
               THEN ScoresRead(teams, file)[l][p] ELSE 0]]
      BY <1>4, Zenon DEF Kept
    <3>2. ASSUME NEW l \in LeagueIDs, NEW p \in PlayerIDs
          PROVE  ScoresRead(teams, file)[l][p]
                   = IF \E t \in TeamsRead(teams)[l] : p \in PlayersRead(teams)[t]
                       THEN ScoresRead(teams, file)[l][p] ELSE 0
      BY DEF ScoresRead
    <3>3. ScoresRead(teams, file)
            = [l \in LeagueIDs |-> [p \in PlayerIDs |-> ScoresRead(teams, file)[l][p]]]
      BY DEF ScoresRead
    <3> QED
      BY <3>1, <3>2, <3>3
  <2> QED
    BY <1>1, <1>2, <2>2, <2>3, LoadBrings, Zenon DEF Data, Read
<1> QED
  BY <1>6, <1>7

-----------------------------------------------------------------------------
(* Save, step by step.                                                     *)

LEMMA SameMemory ==
  ASSUME UNCHANGED memoryVars
  PROVE  /\ Memory => Memory'
         /\ Data' = Data
         /\ \A f \in Files : Written'[f] = Written[f]
<1>1. /\ UNCHANGED <<maxLeagueID, maxTeamID, maxTradeID, maxSize, leagueTeams, nonDrafted>>
      /\ UNCHANGED <<teamName, leagueID, players, userTeams, trades, sentTrades, incomingTrades>>
      /\ UNCHANGED <<picks, handOvers, pendingRemoval, up, score, points>>
  BY DEF draftVars, memoryVars, vars, idVars, leagueVars, teamVars, rosterVars, tradeVars, seasonVars
<1>2. Leagues' = Leagues /\ Teams' = Teams
  BY <1>1 DEF Leagues, Teams
<1>3. LeagueInvariant => LeagueInvariant'
  BY InvariantStep DEF memoryVars
<1>4. Memory => Memory'
  BY <1>1, <1>2, <1>3, Zenon DEF Memory, Blank, Scores
<1>5. Data' = Data
  BY <1>1, Zenon DEF Data, Kept
<1>6. Written' = Written
  <2>1. SavedTeams' = SavedTeams
    BY <1>1, <1>2, Zenon DEF SavedTeams
  <2> QED
    BY <1>1, <1>2, <2>1 DEF Written
<1> QED
  BY <1>4, <1>5, <1>6

LEMMA Orders ==
  /\ RemoveOrder[1] = "Teams" /\ RemoveOrder[2] = "Users"
  /\ RemoveOrder[3] = "Trades" /\ RemoveOrder[4] = "Leagues"
  /\ OpenOrder[1] = "Teams" /\ OpenOrder[2] = "Trades"
  /\ OpenOrder[3] = "Users" /\ OpenOrder[4] = "Leagues"
  /\ CloseOrder[1] = "Teams" /\ CloseOrder[2] = "Trades"
  /\ CloseOrder[3] = "Users" /\ CloseOrder[4] = "Leagues"
BY DEF RemoveOrder, OpenOrder, CloseOrder

\* The files can be read while save has written no more than Leagues, and once
\* it has closed the first ones.
LEMMA PartSane ==
  ASSUME Memory, NEW files, LeaguesSane(files["Leagues"]),
         \/ /\ files["Teams"] = Nothing["Teams"] /\ files["Trades"] = Nothing["Trades"]
            /\ files["Users"] = Nothing["Users"]
         \/ /\ files["Teams"] = Written["Teams"]
            /\ files["Trades"] \in {Nothing["Trades"], Written["Trades"]}
            /\ files["Users"] \in {Nothing["Users"], Written["Users"]}
  PROVE  Sane(files)
<1>1. CASE /\ files["Teams"] = Nothing["Teams"] /\ files["Trades"] = Nothing["Trades"]
           /\ files["Users"] = Nothing["Users"]
  BY <1>1, NothingSane, Zenon DEF Sane
<1>2. CASE /\ files["Teams"] = Written["Teams"]
           /\ files["Trades"] \in {Nothing["Trades"], Written["Trades"]}
           /\ files["Users"] \in {Nothing["Users"], Written["Users"]}
  <2>1. files["Teams"] = TeamFile
    BY <1>2, WrittenFiles
  <2>2. TradesSane(TeamFile, Nothing["Trades"])
    BY NothingSane DEF TradesSane
  <2>3. UsersSane(TeamFile, Nothing["Users"])
    BY NothingSane DEF UsersSane
  <2>4. TradesSane(TeamFile, files["Trades"])
    BY <1>2, <2>2, WrittenFiles, WrittenSane
  <2>5. UsersSane(TeamFile, files["Users"])
    BY <1>2, <2>3, WrittenFiles, WrittenSane
  <2> QED
    BY <2>1, <2>4, <2>5, WrittenSane DEF Sane
<1> QED
  BY <1>1, <1>2

\* Some of the leagues that save writes, all of them, or none.
LEMMA LeaguesPart ==
  ASSUME Memory
  PROVE  /\ LeaguesSane(Nothing["Leagues"]) /\ LeaguesSane(Written["Leagues"])
         /\ \A written \in SUBSET Leagues :
              LeaguesSane([l \in written |-> Written["Leagues"][l]])
         /\ [l \in Leagues |-> Written["Leagues"][l]] = Written["Leagues"]
<1>1. LeaguesSane(Nothing["Leagues"])
  BY NothingSane DEF Sane
<1>2. Written["Leagues"] = LeagueFile /\ LeaguesSane(LeagueFile)
  BY WrittenFiles, WrittenSane
<1>3. /\ DOMAIN LeagueFile = Leagues
      /\ [l \in Leagues |-> LeagueFile[l]] = LeagueFile
  BY DEF LeagueFile
<1>4. \A written \in SUBSET Leagues : LeaguesSane([l \in written |-> LeagueFile[l]])
  BY <1>2, <1>3 DEF LeaguesSane
<1> QED
  BY <1>1, <1>2, <1>3, <1>4

\* An empty Leagues file is a function without arguments.
LEMMA NothingRead ==
  /\ Nothing["Leagues"] = [l \in DOMAIN Nothing["Leagues"] |-> Nothing["Leagues"][l]]
  /\ \A file : file = [l \in DOMAIN file |-> file[l]] /\ DOMAIN file = {}
                 => file = Nothing["Leagues"]
<1>1. Nothing["Leagues"] = << >>
  BY DEF Nothing, Files
<1>2. << >> = [l \in DOMAIN << >> |-> << >>[l]] /\ DOMAIN << >> = {}
  OBVIOUS
<1> QED
  BY <1>1, <1>2

LEMMA RemoveFileStep ==
  ASSUME StoreInvariant, RemoveFile
  PROVE  StoreInvariant'
<1> USE DEF StoreInvariant
<1>1. UNCHANGED memoryVars /\ UNCHANGED <<up, leaving, saved, torn>> /\ up
  BY DEF RemoveFile, memoryVars, vars
<1>2. Memory' /\ Data' = Data
  BY <1>1, SameMemory
<1>3. step \in {1, 2, 3, 4} /\ step' = step + 1
  BY DEF RemoveFile
<1>4. disk = [f \in Files |-> disk[f]] /\ there \subseteq Files
  BY DEF SaveShape
<1>5. PICK gone \in Files :
        /\ gone = RemoveOrder[step]
        /\ there' = there \ {gone}
        /\ disk' = [f \in Files |-> IF f = gone THEN Nothing[f] ELSE disk[f]]
  <2>1. RemoveOrder[step] \in Files
    BY <1>3, Orders DEF Files
  <2> QED
    BY <1>4, <2>1 DEF RemoveFile
<1>6. /\ step = 1 => gone = "Teams"
      /\ step = 2 => gone = "Users"
      /\ step = 3 => gone = "Trades"
      /\ step = 4 => gone = "Leagues"
  BY <1>5, Orders
<1>7. disk'["Teams"] = Nothing["Teams"] /\ "Teams" \notin there'
  BY <1>3, <1>5, <1>6 DEF SaveShape, Files
<1>8. SaveShape'
  <2>1. step' \in {2, 3, 4, 5}
    BY <1>3
  <2>2. there' \subseteq Files /\ disk' = [f \in Files |-> disk'[f]]
    BY <1>4, <1>5
  <2>3. \A f \in Files \ there' : disk'[f] = Nothing[f]
    BY <1>5 DEF SaveShape
  <2>4. /\ step' \in 3 .. 12 => disk'["Users"] = Nothing["Users"]
        /\ step' \in 4 .. 11 => disk'["Trades"] = Nothing["Trades"]
        /\ step' \in 5 .. 8  => disk'["Leagues"] = Nothing["Leagues"]
    BY <1>3, <1>5, <1>6 DEF SaveShape, Files
  <2>5. disk'["Leagues"] = [l \in DOMAIN disk'["Leagues"] |-> disk'["Leagues"][l]]
    BY <1>5, NothingRead DEF SaveShape, Files
  <2> QED
    BY <1>1, <1>7, <2>1, <2>2, <2>3, <2>4, <2>5 DEF SaveShape
<1>9. Loadable'
  <2>1. there' # Files /\ step' \notin {0, 1}
    BY <1>3, <1>7 DEF Files
  <2>2. NoTeam(disk)'
    BY <1>7, <1>8, <2>1, NothingSane DEF NoTeam, SaveShape
  <2> QED
    BY <2>1, <2>2 DEF Loadable
<1> QED
  BY <1>2, <1>8, <1>9

LEMMA OpenFileStep ==
  ASSUME StoreInvariant, OpenFile
  PROVE  StoreInvariant'
<1> USE DEF StoreInvariant
<1>1. UNCHANGED memoryVars /\ UNCHANGED <<up, disk, leaving, saved, torn>> /\ up
  BY DEF OpenFile, memoryVars, vars
<1>2. Memory' /\ Data' = Data
  BY <1>1, SameMemory
<1>3. step \in {5, 6, 7, 8} /\ step' = step + 1
  BY DEF OpenFile
<1>4. /\ disk["Teams"] = Nothing["Teams"] /\ disk["Trades"] = Nothing["Trades"]
      /\ disk["Users"] = Nothing["Users"] /\ disk["Leagues"] = Nothing["Leagues"]
  BY <1>3 DEF SaveShape
<1>5. there' = there \cup {OpenOrder[step - 4]}
  BY DEF OpenFile
<1>6. /\ step = 5 => OpenOrder[step - 4] = "Teams"
      /\ step = 6 => OpenOrder[step - 4] = "Trades"
      /\ step = 7 => OpenOrder[step - 4] = "Users"
      /\ step = 8 => OpenOrder[step - 4] = "Leagues"
  BY Orders
<1>7. SaveShape'
  <2>1. step' \in {6, 7, 8, 9}
    BY <1>3
  <2>2. there' \subseteq Files /\ there \subseteq there'
    BY <1>3, <1>5, <1>6 DEF SaveShape, Files
  <2>3. /\ "Teams" \in there'
        /\ step' >= 7 => "Trades" \in there'
        /\ step' >= 8 => "Users" \in there'
        /\ step' >= 9 => "Leagues" \in there'
    BY <1>3, <1>5, <1>6 DEF SaveShape
  <2>4. disk' = [f \in Files |-> disk'[f]] /\ \A f \in Files \ there' : disk'[f] = Nothing[f]
    BY <1>1, <2>2 DEF SaveShape
  <2> QED
    BY <1>1, <1>4, <2>1, <2>2, <2>3, <2>4 DEF SaveShape
<1>8. Loadable'
  <2>1. Sane(disk)
    BY <1>4, PartSane, LeaguesPart
  <2>2. NoTeam(disk)'
    BY <1>1, <1>4, NothingSane DEF NoTeam, Files
  <2> QED
    BY <1>1, <1>3, <2>1, <2>2 DEF Loadable
<1> QED
  BY <1>2, <1>7, <1>8

LEMMA WriteLeaguesStep ==
  ASSUME StoreInvariant, WriteLeagues
  PROVE  StoreInvariant'
<1> USE DEF StoreInvariant
<1>1. UNCHANGED memoryVars /\ UNCHANGED <<up, there, leaving, saved, torn>> /\ up
  BY DEF WriteLeagues, memoryVars, vars
<1>2. Memory' /\ Data' = Data /\ Written'["Leagues"] = Written["Leagues"]
  BY <1>1, SameMemory DEF Files
<1>3. step = 9 /\ there = Files /\ disk = [f \in Files |-> disk[f]]
  BY DEF WriteLeagues, SaveShape, Files
<1>4. PICK written \in SUBSET Leagues :
        /\ disk' = [disk EXCEPT !["Leagues"] = [l \in written |-> Written["Leagues"][l]]]
        /\ step' = IF written = Leagues THEN 10 ELSE 9
  BY DEF WriteLeagues
<1>5. /\ disk'["Leagues"] = [l \in written |-> Written["Leagues"][l]]
      /\ disk'["Teams"] = Nothing["Teams"]
      /\ disk'["Trades"] = Nothing["Trades"]
      /\ disk'["Users"] = Nothing["Users"]
      /\ disk' = [f \in Files |-> disk'[f]]
  <2>1. PICK some : some = [l \in written |-> Written["Leagues"][l]]
    OBVIOUS
  <2>2. disk' = [f \in Files |-> IF f = "Leagues" THEN some ELSE disk[f]]
    BY <1>3, <1>4, <2>1
  <2>3. /\ disk["Teams"] = Nothing["Teams"] /\ disk["Trades"] = Nothing["Trades"]
        /\ disk["Users"] = Nothing["Users"]
    BY <1>3 DEF SaveShape
  <2>4. disk'["Leagues"] = some /\ disk' = [f \in Files |-> disk'[f]]
    BY ONLY <2>2 DEF Files
  <2>5. /\ disk'["Teams"] = disk["Teams"] /\ disk'["Trades"] = disk["Trades"]
        /\ disk'["Users"] = disk["Users"]
    BY ONLY <2>2 DEF Files
  <2> QED
    BY <2>1, <2>3, <2>4, <2>5
<1>6. LeaguesSane(disk'["Leagues"]) /\ (step' = 10 => disk'["Leagues"] = Written["Leagues"])
  BY <1>4, <1>5, LeaguesPart
<1>7. SaveShape'
  <2>1. step' \in {9, 10}
    BY <1>4
  <2>2. disk'["Leagues"] = [l \in DOMAIN disk'["Leagues"] |-> disk'["Leagues"][l]]
    BY <1>5
  <2> QED
    BY <1>1, <1>2, <1>3, <1>5, <1>6, <2>1, <2>2 DEF SaveShape, Files
<1>8. Sane(disk')
  <2>1. PICK files : files = disk'
    OBVIOUS
  <2>2. Sane(files)
    BY <1>5, <1>6, <2>1, PartSane
  <2> QED
    BY <2>1, <2>2
<1>9. NoTeam(disk)'
  BY <1>1, <1>5, NothingSane DEF NoTeam, Files
<1>10. Loadable'
  BY <1>4, <1>8, <1>9 DEF Loadable
<1> QED
  BY <1>2, <1>7, <1>10

LEMMA CloseFileStep ==
  ASSUME StoreInvariant, CloseFile
  PROVE  StoreInvariant'
<1> USE DEF StoreInvariant
<1>1. UNCHANGED memoryVars /\ UNCHANGED <<up, there>> /\ up
  BY DEF CloseFile, memoryVars, vars
<1>2. /\ Memory' /\ Data' = Data
      /\ Written'["Teams"] = Written["Teams"] /\ Written'["Trades"] = Written["Trades"]
      /\ Written'["Users"] = Written["Users"] /\ Written'["Leagues"] = Written["Leagues"]
  BY <1>1, SameMemory DEF Files
<1>3. step \in {10, 11, 12, 13}
  BY DEF CloseFile
<1>4. /\ there = Files /\ disk = [f \in Files |-> disk[f]]
      /\ disk["Leagues"] = Written["Leagues"]
  BY <1>3 DEF SaveShape, Files
<1>5. PICK closed \in Files :
        /\ closed = CloseOrder[step - 9]
        /\ disk' = [f \in Files |-> IF f = closed THEN Written[f] ELSE disk[f]]
  <2>1. CloseOrder[step - 9] \in Files
    BY <1>3, Orders DEF Files
  <2> QED
    BY <1>4, <2>1 DEF CloseFile
<1>6. /\ step = 10 => closed = "Teams"
      /\ step = 11 => closed = "Trades"
      /\ step = 12 => closed = "Users"
      /\ step = 13 => closed = "Leagues"
  BY <1>5, Orders
<1>7. /\ disk'["Teams"] = Written["Teams"]
      /\ disk'["Leagues"] = Written["Leagues"]
      /\ step = 10 => disk'["Trades"] = Nothing["Trades"]
      /\ step >= 11 => disk'["Trades"] = Written["Trades"]
      /\ step \in 10 .. 11 => disk'["Users"] = Nothing["Users"]
      /\ step >= 12 => disk'["Users"] = Written["Users"]
  BY <1>3, <1>4, <1>5, <1>6 DEF SaveShape, Files
<1>8. Sane(disk')
  <2>1. PICK files : files = disk'
    OBVIOUS
  <2>2. /\ files["Teams"] = Written["Teams"]
        /\ files["Trades"] \in {Nothing["Trades"], Written["Trades"]}
        /\ files["Users"] \in {Nothing["Users"], Written["Users"]}
        /\ LeaguesSane(files["Leagues"])
    BY <1>3, <1>7, <2>1, LeaguesPart
  <2>3. Sane(files)
    BY <2>2, PartSane
  <2> QED
    BY <2>1, <2>3
<1>9. Brings(disk'["Teams"], Data')
  BY <1>2, <1>7, SaveReadsBack
<1>10. CASE step < 13 /\ step' = step + 1 /\ UNCHANGED <<leaving, saved, torn>>
  <2>1. step' \in {11, 12, 13} /\ step \in {10, 11, 12}
    BY <1>3, <1>10
  <2>2. SaveShape'
    BY <1>1, <1>2, <1>4, <1>5, <1>7, <1>10, <2>1 DEF SaveShape
  <2>3. Loadable'
    BY <1>8, <1>9, <2>1 DEF Loadable
  <2> QED
    BY <1>2, <2>2, <2>3
<1>11. CASE step = 13 /\ step' = 0 /\ saved' = Data /\ torn' = FALSE
  <2>1. SaveShape'
    BY <1>1, <1>4, <1>5, <1>11 DEF SaveShape
  <2>2. /\ disk'["Teams"] = Written["Teams"] /\ disk'["Trades"] = Written["Trades"]
        /\ disk'["Users"] = Written["Users"] /\ disk'["Leagues"] = Written["Leagues"]
    BY <1>7, <1>11
  <2>3. Read(disk') = Read(Written)
    BY <2>2, Zenon DEF Read
  <2>4. Whole(disk')
    BY <2>2, SaveReadsBack, Zenon DEF Whole
  <2>5. saved' = Read(disk') /\ Brings(disk'["Teams"], saved')
    BY <1>2, <1>9, <1>11, <2>3, SaveReadsBack
  <2>6. Loadable'
    BY <1>1, <1>4, <1>8, <2>4, <2>5 DEF Loadable
  <2> QED
    BY <1>2, <2>1, <2>6
<1> QED
  BY <1>10, <1>11 DEF CloseFile

\* The steps that leave the files alone: a save begins, or the process ends.
LEMMA QuietFiles ==
  ASSUME StoreInvariant, StartSave \/ ShutDown \/ SaveFreed \/ Exit \/ Kill
  PROVE  StoreInvariant'
<1> USE DEF StoreInvariant
<1>1. CASE StartSave \/ ShutDown \/ SaveFreed
  <2>1. UNCHANGED memoryVars /\ UNCHANGED <<up, there, disk, saved, torn>>
        /\ up /\ step = 0 /\ step' = 1
    BY <1>1 DEF StartSave, ShutDown, SaveFreed, memoryVars, vars
  <2>2. Memory' /\ Data' = Data
    BY <2>1, SameMemory
  <2>3. SaveShape'
    BY <2>1 DEF SaveShape
  <2>4. Loadable'
    BY <2>1, <2>2 DEF Loadable, NoTeam
  <2> QED
    BY <2>2, <2>3, <2>4
<1>2. CASE Die /\ up
  <2>1. /\ UNCHANGED <<idVars, leagueVars, teamVars, rosterVars, tradeVars, draftVars, pendingRemoval>>
        /\ UNCHANGED <<seasonVars, there, disk, saved>>
        /\ up' = FALSE /\ step' = 0 /\ leaving' = "no" /\ torn' = (torn \/ step # 0)
    BY <1>2 DEF Die
  <2>2. Memory' /\ Data' = Data
    <3>1. /\ UNCHANGED <<maxLeagueID, maxTeamID, maxTradeID, maxSize, leagueTeams, nonDrafted>>
          /\ UNCHANGED <<teamName, leagueID, players, userTeams, trades, sentTrades>>
          /\ UNCHANGED <<incomingTrades, picks, handOvers, pendingRemoval, score, points>>
      BY <2>1 DEF draftVars, idVars, leagueVars, teamVars, rosterVars, tradeVars, seasonVars
    <3>2. Leagues' = Leagues /\ Teams' = Teams
      BY <3>1 DEF Leagues, Teams
    <3>3. TypeOK'
      BY <2>1, <3>1, Zenon DEF TypeOK, Memory, LeagueInvariant
    <3>4. LeagueShape' /\ TradesIndexed' /\ RosterPartition'
      BY <3>1, <3>2
      DEF LeagueShape, TradesIndexed, RosterPartition, Partitioned, Memory, LeagueInvariant
    <3>5. Blank' /\ Scores'
      BY <3>1, <3>2, Zenon DEF Blank, Scores, Memory
    <3>6. Data' = Data
      BY <3>1, Zenon DEF Data, Kept
    <3> QED
      BY <3>3, <3>4, <3>5, <3>6 DEF Memory, LeagueInvariant
  <2>3. SaveShape'
    BY <2>1 DEF SaveShape
  <2>4. Loadable'
    BY <2>1, <2>2 DEF Loadable, NoTeam
  <2> QED
    BY <2>2, <2>3, <2>4
<1> QED
  BY <1>1, <1>2 DEF Exit, Kill

LEMMA PlayStep ==
  ASSUME StoreInvariant, Play
  PROVE  StoreInvariant'
<1> USE DEF StoreInvariant
<1>1. step = 0 /\ leaving = "no" /\ UNCHANGED <<there, disk, step, leaving, saved, torn>>
  BY DEF Play, storeVars
<1>2. Memory' /\ up
  BY MemoryStep DEF Play
<1>3. SaveShape'
  BY <1>1 DEF SaveShape
<1>4. Loadable'
  BY <1>1, <1>2 DEF Loadable
<1> QED
  BY <1>2, <1>3, <1>4

\* A load that succeeds reads files that an ended or an unfinished save left.
LEMMA RestartSane ==
  ASSUME StoreInvariant, Restart
  PROVE  Sane(disk)
<1> USE DEF StoreInvariant
<1>1. CASE there = Files
  BY <1>1 DEF Loadable
<1>2. CASE there = {}
  <2>1. /\ disk["Teams"] = Nothing["Teams"] /\ disk["Trades"] = Nothing["Trades"]
        /\ disk["Users"] = Nothing["Users"] /\ disk["Leagues"] = Nothing["Leagues"]
    BY <1>2 DEF SaveShape, Files
  <2> QED
    BY <2>1, PartSane, LeaguesPart
<1> QED
  BY <1>1, <1>2 DEF Restart, LoadSucceeds

LEMMA RestartStep ==
  ASSUME StoreInvariant, Restart
  PROVE  StoreInvariant' /\ (~ torn => Data' = saved)
<1> USE DEF StoreInvariant
<1>1. Sane(disk) /\ Memory'
  BY RestartSane, RestartMemory
<1>2. /\ there' = Files /\ saved' = Data' /\ up' /\ ~ up
      /\ UNCHANGED <<disk, step, leaving, torn>>
  BY DEF Restart
<1>3. step = 0
  BY <1>2 DEF SaveShape
<1>4. Brings(disk["Teams"], Data') /\ (Whole(disk) => Data' = Read(disk))
  BY <1>1, RestartData
<1>5. ~ torn => saved = Read(disk) /\ Whole(disk)
  BY <1>3 DEF Loadable
<1>6. SaveShape'
  BY <1>2, <1>3 DEF SaveShape
<1>7. Loadable'
  BY <1>1, <1>2, <1>4, <1>5 DEF Loadable
<1> QED
  BY <1>1, <1>4, <1>5, <1>6, <1>7

LEMMA StoreStep ==
  StoreInvariant /\ [StoreNext]_<<memoryVars, storeVars>> => StoreInvariant'
<1> SUFFICES ASSUME StoreInvariant, [StoreNext]_<<memoryVars, storeVars>>
             PROVE  StoreInvariant'
  OBVIOUS
<1>1. CASE UNCHANGED <<memoryVars, storeVars>>
  <2>1. /\ UNCHANGED memoryVars
        /\ UNCHANGED <<up, there, disk, step, leaving, saved, torn>>
    BY <1>1 DEF storeVars, memoryVars, vars
  <2>2. /\ Memory' /\ Data' = Data
        /\ \A f \in Files : Written'[f] = Written[f]
    BY <2>1, SameMemory DEF StoreInvariant
  <2>3. SaveShape'
    BY <2>1, <2>2 DEF StoreInvariant, SaveShape, Files
  <2>4. Loadable'
    BY <2>1, <2>2 DEF StoreInvariant, Loadable, NoTeam
  <2> QED
    BY <2>2, <2>3, <2>4 DEF StoreInvariant
<1>2. CASE StoreNext
  BY <1>2, PlayStep, RemoveFileStep, OpenFileStep, WriteLeaguesStep, CloseFileStep, QuietFiles, RestartStep
  DEF StoreNext
<1> QED
  BY <1>1, <1>2

LEMMA StoreStart == StoreInit => StoreInvariant
<1> SUFFICES ASSUME StoreInit PROVE StoreInvariant
  OBVIOUS
<1>1. SeasonInit /\ Init /\ LeagueInvariant
  BY InvariantInit DEF StoreInit, SeasonInit
<1>2. Leagues = {} /\ Teams = {}
  BY <1>1 DEF Init, Leagues, Teams
<1>3. Memory
  BY <1>1, <1>2 DEF Memory, Blank, Scores, Init, SeasonInit
<1>4. /\ there = Files /\ disk = Nothing /\ step = 0 /\ leaving = "no"
      /\ saved = Data /\ up
  BY <1>1 DEF StoreInit, Init
<1>5. SaveShape
  <2>1. /\ disk = [f \in Files |-> disk[f]]
        /\ disk["Leagues"] = [l \in DOMAIN disk["Leagues"] |-> disk["Leagues"][l]]
    <3>1. Nothing = [f \in Files |-> Nothing[f]]
      BY DEF Nothing
    <3> QED
      BY <1>4, <3>1, NothingRead
  <2> QED
    BY <1>4, <2>1 DEF SaveShape
<1>6. PICK teams : teams = Nothing["Teams"]
  OBVIOUS
<1>7. PICK leagues : leagues = Nothing["Leagues"]
  OBVIOUS
<1>8. PICK users : users = Nothing["Users"]
  OBVIOUS
<1>9. DOMAIN teams = {} /\ DOMAIN leagues = {} /\ DOMAIN users = {} /\ Nothing["Trades"] = {}
  BY <1>6, <1>7, <1>8, NothingSane
<1>10. Named(teams) = {}
  BY <1>9 DEF Named
<1>11. /\ maxSize = SizesRead(leagues)
       /\ leagueTeams = TeamsRead(teams)
       /\ nonDrafted = FreeRead(teams)
       /\ teamName = NamesRead(teams)
       /\ leagueID = LeagueRead(teams)
       /\ players = PlayersRead(teams)
       /\ userTeams = UsersRead(users)
       /\ points = PointsRead(teams)
  BY <1>1, <1>9, <1>10
  DEF Init, SeasonInit, SizesRead, TeamsRead, FreeRead, NamesRead, LeagueRead, PlayersRead,
      UsersRead, PointsRead
<1>12. trades = {} /\ sentTrades = SentRead({}) /\ incomingTrades = IncomingRead({})
  BY <1>1 DEF Init, SentRead, IncomingRead
<1>13. Kept = ScoresRead(teams, leagues)
  <2>1. Kept = [l \in LeagueIDs |-> [p \in PlayerIDs |-> 0]]
    BY <1>1 DEF Kept, SeasonInit
  <2>2. ScoresRead(teams, leagues) = [l \in LeagueIDs |-> [p \in PlayerIDs |-> 0]]
    BY <1>9 DEF ScoresRead
  <2> QED
    BY <2>1, <2>2
<1>14. saved = Read(disk)
  BY <1>4, <1>6, <1>7, <1>8, <1>9, <1>11, <1>12, <1>13, Zenon DEF Data, Read
<1>15. Brings(disk["Teams"], saved)
  BY <1>4, <1>6, <1>11 DEF Brings, Data
<1>16. Loadable
  BY <1>4, <1>14, <1>15, NothingSane DEF Loadable
<1> QED
  BY <1>3, <1>5, <1>16 DEF StoreInvariant

\* The invariant of the whole program: the data in memory, where save is, and
\* what a load of the files would bring.
THEOREM StoreInvariantHolds == StoreSpec => []StoreInvariant
BY StoreStart, StoreStep, PTL DEF StoreSpec

\* Whatever the server has loaded, saved or changed, the data in memory agrees:
\* no player is lost or in two places, the trades are in the map and in both
\* lists, and every team of a user is there.
THEOREM LoadedDataAgrees == StoreSpec => []LoadedAgrees
<1>1. StoreInvariant => LoadedAgrees
  BY DEF StoreInvariant, Memory, LeagueInvariant, Blank, LoadedAgrees
<1> QED
  BY <1>1, StoreInvariantHolds, PTL

\* load brings back what the last save that ended has saved, though it rebuilds
\* leagues and undrafted players from the teams.
THEOREM LastSaveComesBack == StoreSpec => RestartRestores
<1>1. StoreInvariant /\ [StoreNext]_<<memoryVars, storeVars>>
        => [Restart /\ ~ torn => Data' = saved]_<<memoryVars, storeVars>>
  BY RestartStep
<1> QED
  BY <1>1, StoreInvariantHolds, PTL DEF StoreSpec, RestartRestores

\* A save the server died in does not leave some of the teams behind: if the next
\* load succeeds, it brings those of the save before or those it was about to
\* write, and none only from files with nothing in them; a Leagues file that was
\* written before the teams were makes load give up.
THEOREM NoHalfOfTheTeams == StoreSpec => RestartIsWhole
<1>1. ASSUME StoreInvariant, Restart
      PROVE  \/ leagueTeams' = saved.leagueTeams /\ players' = saved.players
             \/ leagueTeams' = leagueTeams /\ players' = players
             \/ torn /\ disk = Nothing
  <2>1. leagueTeams' = TeamsRead(disk["Teams"]) /\ players' = PlayersRead(disk["Teams"])
    BY <1>1, LoadBrings
  <2>2. Data.leagueTeams = leagueTeams /\ Data.players = players
    BY DEF Data
  <2>3. CASE Brings(disk["Teams"], saved)
    BY <2>1, <2>3 DEF Brings
  <2>4. CASE Brings(disk["Teams"], Data)
    BY <2>1, <2>2, <2>4 DEF Brings
  <2>5. CASE ~ torn
    <3>1. Data' = saved
      BY <1>1, <2>5, RestartStep
    <3> QED
      BY <3>1 DEF Data
  <2>6. CASE NoTeam(disk) /\ torn
    <3>1. \A f \in Files \ {"Leagues"} : disk[f] = Nothing[f]
      BY <1>1, <2>6 DEF NoTeam, Restart, LoadSucceeds
    <3>2. DOMAIN disk["Leagues"] = {}
      BY <1>1, <2>6 DEF NoTeam, Restart, LoadSucceeds
    <3>3. disk["Leagues"] = Nothing["Leagues"]
      BY <1>1, <3>2, NothingRead DEF StoreInvariant, SaveShape
    <3>4. disk = [f \in Files |-> disk[f]] /\ Nothing = [f \in Files |-> Nothing[f]]
      BY <1>1 DEF StoreInvariant, SaveShape, Nothing
    <3> QED
      BY <2>6, <3>1, <3>3, <3>4
  <2> QED
    BY <1>1, <2>3, <2>4, <2>5, <2>6 DEF StoreInvariant, Loadable
<1>2. StoreInvariant /\ [StoreNext]_<<memoryVars, storeVars>>
        => [Restart => \/ leagueTeams' = saved.leagueTeams /\ players' = saved.players
                       \/ leagueTeams' = leagueTeams /\ players' = players
                       \/ torn /\ disk = Nothing
           ]_<<memoryVars, storeVars>>
  BY <1>1
<1> QED
  BY <1>2, StoreInvariantHolds, PTL DEF StoreSpec, RestartIsWhole

=============================================================================
