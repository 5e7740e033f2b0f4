--------------------------- MODULE PostingsProofs ---------------------------
(***************************************************************************)
(* The posting arithmetic, for any accounts, assets and amounts: the loops *)
(* of volumeUpdates and resolveUpTo as sums, conservation, what a sweep    *)
(* draws and leaves, and what a reversal undoes.                           *)
(*                                                                         *)
(* A fold is a recursion chosen on the subsets of its domain.  Its         *)
(* existence, and with it the sequence of the loop's intermediate results, *)
(* follows by induction on sets of naturals; each promise is then an       *)
(* induction along that sequence.  The first part is about sums alone.     *)
(***************************************************************************)
EXTENDS Postings, FiniteSetTheorems, SequenceTheorems, NaturalsInduction,
        WellFoundedInduction, TLAPS

\* A set of naturals that holds 0 and every successor holds them all: induction
\* without an operator parameter, which the provers can use.
LEMMA NatSetInduction ==
  ASSUME NEW P \in SUBSET Nat, 0 \in P, \A n \in P : n + 1 \in P
  PROVE  P = Nat
<1> DEFINE R == OpToRel(<, Nat)
<1>1. SUFFICES ASSUME Nat \ P # {} PROVE FALSE
  OBVIOUS
<1>2. IsWellFoundedOn(R, Nat)
  BY NatLessThanWellFounded
<1>3. PICK m \in Nat \ P : \A k \in Nat \ P : ~(<<k, m>> \in R)
  BY <1>1, <1>2, WFMin
<1>4. m \in Nat /\ m \notin P
  OBVIOUS
<1>5. \A k \in Nat : k < m => k \in P
  BY <1>3, <1>4 DEF OpToRel
<1> HIDE DEF R
<1>6. m # 0
  BY <1>4
<1>7. m - 1 \in Nat /\ m - 1 < m /\ (m - 1) + 1 = m
  BY <1>4, <1>6
<1> QED
  BY <1>4, <1>5, <1>7

\* A set that holds {} and grows by one element at a time holds S.
LEMMA FiniteSetInduction ==
  ASSUME NEW S, IsFiniteSet(S), NEW P \in SUBSET SUBSET S, {} \in P,
         \A T \in P : \A x \in S \ T : T \cup {x} \in P
  PROVE  S \in P
<1> DEFINE Q == {n \in Nat : \A T \in SUBSET S : Cardinality(T) = n => T \in P}
<1>1. 0 \in Q
  <2> SUFFICES ASSUME NEW T \in SUBSET S, Cardinality(T) = 0 PROVE T \in P
    OBVIOUS
  <2> QED
    BY FS_EmptySet, FS_Subset
<1>2. ASSUME NEW n \in Q PROVE n + 1 \in Q
  <2> SUFFICES ASSUME NEW T \in SUBSET S, Cardinality(T) = n + 1 PROVE T \in P
    BY <1>2
  <2>1. IsFiniteSet(T)
    BY FS_Subset
  <2>2. n \in Nat /\ n + 1 # 0 /\ (n + 1) - 1 = n
    BY <1>2
  <2> HIDE DEF Q
  <2>3. T # {}
    BY <2>2, FS_EmptySet
  <2>4. PICK x : x \in T
    BY <2>3
  <2>5. Cardinality(T \ {x}) = n
    BY <2>1, <2>2, <2>4, FS_RemoveElement
  <2>6. T \ {x} \in P
    BY <1>2, <2>5 DEF Q
  <2>7. (T \ {x}) \cup {x} \in P
    BY <2>4, <2>6
  <2> QED
    BY <2>4, <2>7, Zenon
<1>3. Q = Nat
  <2> HIDE DEF Q
  <2>1. Q \in SUBSET Nat
    BY DEF Q
  <2> QED
    BY <1>1, <1>2, <2>1, NatSetInduction
<1> QED
  BY <1>3, FS_CardinalityType

\* c picks a member of every subset of S that has one.
Picks(c, S) ==
  /\ c \in [(SUBSET S) \ {{}} -> S]
  /\ \A s \in (SUBSET S) \ {{}} : c[s] \in s

\* it is the fold of step over the subsets of S in D, members taken as c picks them.
Iterates(it, D, V, b, c, step) ==
  /\ it \in [D -> V]
  /\ it[{}] = b
  /\ \A s \in D \ {{}} : it[s] = step[c[s]][it[s \ {c[s]}]]

\* Recursion over the subsets of a finite set.
LEMMA SubsetRecursion ==
  ASSUME NEW S, IsFiniteSet(S), NEW V, NEW b \in V, NEW c, Picks(c, S),
         NEW step \in [S -> [V -> V]]
  PROVE  \E it : Iterates(it, SUBSET S, V, b, c, step)
<1> DEFINE T(n) == {s \in SUBSET S : Cardinality(s) <= n}
           Good(it, n) == Iterates(it, T(n), V, b, c, step)
           Q == {n \in Nat : \E it : Good(it, n)}
<1>0. \A s \in SUBSET S : IsFiniteSet(s) /\ Cardinality(s) \in Nat
  BY FS_Subset, FS_CardinalityType
<1>1. \A s \in SUBSET S : s # {} =>
        /\ c[s] \in S /\ s \ {c[s]} \in SUBSET S /\ Cardinality(s) # 0
        /\ Cardinality(s \ {c[s]}) = Cardinality(s) - 1
  <2> SUFFICES ASSUME NEW s \in SUBSET S, s # {}
               PROVE  /\ c[s] \in S /\ s \ {c[s]} \in SUBSET S /\ Cardinality(s) # 0
                      /\ Cardinality(s \ {c[s]}) = Cardinality(s) - 1
    OBVIOUS
  <2>1. IsFiniteSet(s)
    BY <1>0
  <2>2. c[s] \in s
    BY DEF Picks
  <2>3. Cardinality(s) # 0
    BY <2>1, FS_EmptySet
  <2>4. Cardinality(s \ {c[s]}) = Cardinality(s) - 1
    BY <2>1, <2>2, FS_RemoveElement
  <2> QED
    BY <2>2, <2>3, <2>4
<1>2. 0 \in Q
  <2>1. T(0) = {{}}
    BY <1>0, FS_EmptySet
  <2>2. Good([s \in T(0) |-> b], 0)
    BY <2>1 DEF Iterates
  <2> QED
    BY <2>2
<1>3. ASSUME NEW n \in Q PROVE n + 1 \in Q
  <2>1. n \in Nat
    BY <1>3
  <2>2. PICK it : Good(it, n)
    BY <1>3
  <2> DEFINE new == [s \in T(n + 1) |-> IF Cardinality(s) <= n THEN it[s] ELSE step[c[s]][it[s \ {c[s]}]]]
  <2>3. {} \in T(n) /\ {} \in T(n + 1) /\ Cardinality({}) <= n
    BY <2>1, FS_EmptySet
  <2>4. \A s \in T(n + 1) : s # {} => s \ {c[s]} \in T(n) /\ s \ {c[s]} \in T(n + 1)
    BY <1>0, <1>1, <2>1
  <2>5. \A s \in T(n + 1) : Cardinality(s) <= n => s \in T(n)
    OBVIOUS
  <2>6. \A s \in T(n + 1) : new[s] \in V
    <3> SUFFICES ASSUME NEW s \in T(n + 1) PROVE new[s] \in V
      OBVIOUS
    <3>1. CASE Cardinality(s) <= n
      BY <3>1, <2>2, <2>5 DEF Iterates
    <3>2. CASE ~(Cardinality(s) <= n)
      <4>1. s # {}
        BY <2>3, <3>2
      <4>2. it[s \ {c[s]}] \in V
        BY <4>1, <2>4, <2>2 DEF Iterates
      <4>3. step[c[s]] \in [V -> V]
        BY <4>1, <1>1
      <4> QED
        BY <3>2, <4>2, <4>3
    <3> QED
      BY <3>1, <3>2
  <2>7. new[{}] = b
    BY <2>2, <2>3 DEF Iterates
  <2>8. \A s \in T(n + 1) \ {{}} : new[s] = step[c[s]][new[s \ {c[s]}]]
    <3> SUFFICES ASSUME NEW s \in T(n + 1) \ {{}} PROVE new[s] = step[c[s]][new[s \ {c[s]}]]
      OBVIOUS
    <3>1. new[s \ {c[s]}] = it[s \ {c[s]}]
      BY <2>4
    <3> QED
      BY <3>1, <2>2, <2>5 DEF Iterates
  <2>9. Good(new, n + 1)
    <3> HIDE DEF T
    <3>1. new \in [T(n + 1) -> V]
      <4>1. new = [s \in T(n + 1) |-> new[s]]
        OBVIOUS
      <4> HIDE DEF new
      <4> QED
        BY <4>1, <2>6
    <3> HIDE DEF new
    <3> QED
      BY <3>1, <2>7, <2>8 DEF Iterates
  <2> HIDE DEF new
  <2>10. n + 1 \in Nat
    BY <2>1
  <2> QED
    BY <2>9, <2>10
<1>4. Q = Nat
  <2>1. Q \in SUBSET Nat
    OBVIOUS
  <2> HIDE DEF Q
  <2> QED
    BY <1>2, <1>3, <2>1, NatSetInduction
<1>5. Cardinality(S) \in Q
  BY <1>4, FS_CardinalityType
<1>6. PICK it : Good(it, Cardinality(S))
  BY <1>5
<1>7. T(Cardinality(S)) = SUBSET S
  BY FS_Subset
<1> QED
  BY <1>6, <1>7

SumStep(it, w, S) ==
  it = [s \in SUBSET S |-> IF s = {} THEN 0
                           ELSE LET x == CHOOSE x \in s : TRUE IN w[x] + it[s \ {x}]]

\* SumOver unfolded to the fold of the community module.
LEMMA SumIs ==
  ASSUME NEW S, NEW w
  PROVE  SumOver(w, S) = (CHOOSE it : SumStep(it, w, S))[S]
BY DEF SumOver, MapThenSumSet, MapThenFoldSet, SumStep

\* The recursion that the fold chooses exists on the subsets of a finite set.
LEMMA SumIterates ==
  ASSUME NEW S, IsFiniteSet(S), NEW w, \A x \in S : w[x] \in Int
  PROVE  \E it \in [SUBSET S -> Int] : SumStep(it, w, S)
<1> DEFINE c == [s \in (SUBSET S) \ {{}} |-> CHOOSE x \in s : TRUE]
           step == [x \in S |-> [v \in Int |-> w[x] + v]]
<1>1. \A s \in (SUBSET S) \ {{}} : c[s] \in s
  OBVIOUS
<1>2. c \in [(SUBSET S) \ {{}} -> S]
  BY <1>1
<1>3. step \in [S -> [Int -> Int]]
  OBVIOUS
<1>4. PICK it : Iterates(it, SUBSET S, Int, 0, c, step)
  <2>1. Picks(c, S)
    BY <1>1, <1>2 DEF Picks
  <2>2. 0 \in Int
    OBVIOUS
  <2> HIDE DEF c, step
  <2> QED
    BY <2>1, <2>2, <1>3, SubsetRecursion
<1>5. \A s \in SUBSET S : s # {} => it[s] = w[CHOOSE x \in s : TRUE] + it[s \ {CHOOSE x \in s : TRUE}]
  <2> SUFFICES ASSUME NEW s \in SUBSET S, s # {}
               PROVE it[s] = w[c[s]] + it[s \ {c[s]}]
    OBVIOUS
  <2>1. c[s] \in S /\ it[s \ {c[s]}] \in Int
    BY <1>1, <1>4 DEF Iterates
  <2> QED
    BY <1>4, <2>1 DEF Iterates
<1>6. SumStep(it, w, S)
  <2> HIDE DEF c, step
  <2> QED
  BY <1>4, <1>5 DEF SumStep, Iterates
<1> QED
  BY <1>4, <1>6 DEF Iterates
\* One step of that recursion takes off the element it chooses, the rest recursively.
LEMMA SumStepIs ==
  ASSUME NEW S, NEW w, NEW it, SumStep(it, w, S), NEW T \in SUBSET S
  PROVE  /\ T = {} => it[T] = 0
         /\ T # {} => it[T] = w[CHOOSE x \in T : TRUE] + it[T \ {CHOOSE x \in T : TRUE}]
<1> DEFINE c == CHOOSE x \in T : TRUE
<1>1. it[T] = IF T = {} THEN 0 ELSE w[c] + it[T \ {c}]
  BY DEF SumStep
<1> HIDE DEF c
<1>2. T # {} => it[T] = w[c] + it[T \ {c}]
  BY <1>1
<1> QED
  BY <1>1, <1>2 DEF c

\* The sums of a set do not depend on the set they are taken inside.
LEMMA SumsAgree ==
  ASSUME NEW S, NEW U, NEW w, NEW it, NEW jt, SumStep(it, w, S), SumStep(jt, w, U),
         IsFiniteSet(S), U \in SUBSET S
  PROVE  it[U] = jt[U]
<1> DEFINE Q == {n \in Nat : \A T \in SUBSET U : Cardinality(T) = n => it[T] = jt[T]}
<1>0. \A T \in SUBSET U : T \in SUBSET S /\ IsFiniteSet(T) /\ Cardinality(T) \in Nat
  BY FS_Subset, FS_CardinalityType
<1>1. 0 \in Q
  <2> SUFFICES ASSUME NEW T \in SUBSET U, Cardinality(T) = 0 PROVE it[T] = jt[T]
    OBVIOUS
  <2>0. T \in SUBSET S /\ IsFiniteSet(T)
    BY <1>0
  <2>1. T = {}
    BY <2>0, FS_EmptySet
  <2>2. it[T] = 0
    BY <2>0, <2>1, SumStepIs
  <2>3. jt[T] = 0
    BY <2>1, SumStepIs
  <2> QED
    BY <2>2, <2>3
<1>2. ASSUME NEW n \in Q PROVE n + 1 \in Q
  <2>1. n \in Nat /\ n + 1 \in Nat /\ n + 1 # 0 /\ (n + 1) - 1 = n
    BY <1>2
  <2> SUFFICES ASSUME NEW T \in SUBSET U, Cardinality(T) = n + 1 PROVE it[T] = jt[T]
    BY <2>1
  <2>2. T # {}
    <3>1. Cardinality(T) # 0
      BY <2>1
    <3> QED
      BY <3>1, FS_EmptySet
  <2> DEFINE c == CHOOSE x \in T : TRUE
  <2>3. c \in T
    BY <2>2
  <2>4. it[T] = w[c] + it[T \ {c}] /\ jt[T] = w[c] + jt[T \ {c}]
    <3>1. T \in SUBSET S
      BY <1>0
    <3>2. it[T] = IF T = {} THEN 0 ELSE w[c] + it[T \ {c}]
      BY <3>1 DEF SumStep
    <3>3. jt[T] = IF T = {} THEN 0 ELSE w[c] + jt[T \ {c}]
      BY DEF SumStep
    <3> HIDE DEF c
    <3> QED
      BY <2>2, <3>2, <3>3
  <2> HIDE DEF c
  <2>5. Cardinality(T \ {c}) = n
    BY <2>1, <2>3, <1>0, FS_RemoveElement
  <2>6. it[T \ {c}] = jt[T \ {c}]
    BY <1>2, <2>5
  <2> QED
    BY <2>4, <2>6
<1>3. Q = Nat
  <2>1. Q \in SUBSET Nat
    OBVIOUS
  <2> HIDE DEF Q
  <2> QED
    BY <1>1, <1>2, <2>1, NatSetInduction
<1> QED
  BY <1>3, <1>0

\* The sum of a finite set is what any such recursion gives it.
LEMMA SumIter ==
  ASSUME NEW S, IsFiniteSet(S), NEW w, \A x \in S : w[x] \in Int
  PROVE  \E it \in [SUBSET S -> Int] : SumStep(it, w, S) /\ SumOver(w, S) = it[S]
<1>1. PICK jt \in [SUBSET S -> Int] : SumStep(jt, w, S)
  BY SumIterates
<1> DEFINE it == CHOOSE f : SumStep(f, w, S)
<1>2. SumStep(it, w, S)
  BY <1>1
<1>3. SumOver(w, S) = it[S]
  BY SumIs
<1> HIDE DEF it
<1>5. \A T \in SUBSET S : it[T] = jt[T]
  <2> SUFFICES ASSUME NEW T \in SUBSET S PROVE it[T] = jt[T]
    OBVIOUS
  <2>1. IsFiniteSet(T) /\ \A x \in T : w[x] \in Int
    BY FS_Subset
  <2>2. PICK kt : SumStep(kt, w, T)
    BY <2>1, SumIterates
  <2>3. it[T] = kt[T] /\ jt[T] = kt[T]
    BY <1>1, <1>2, <2>2, SumsAgree
  <2> QED
    BY <2>3
<1>6. it = jt
  BY <1>5, <1>2, <1>1 DEF SumStep
<1> QED
  BY <1>1, <1>2, <1>3, <1>6

\* An empty sum.
LEMMA SumEmpty == \A w : SumOver(w, {}) = 0
<1> TAKE w
<1>1. PICK it : SumStep(it, w, {}) /\ SumOver(w, {}) = it[{}]
  BY SumIter, FS_EmptySet
<1> QED
  BY <1>1, SumStepIs

\* A sum of integers is an integer.
LEMMA SumType ==
  ASSUME NEW S, IsFiniteSet(S), NEW w, \A x \in S : w[x] \in Int
  PROVE  SumOver(w, S) \in Int
<1>1. PICK it \in [SUBSET S -> Int] : SumOver(w, S) = it[S]
  BY SumIter
<1>2. S \in SUBSET S
  OBVIOUS
<1> QED
  BY <1>1, <1>2

\* The element that the fold takes first.
LEMMA SumChosen ==
  ASSUME NEW S, IsFiniteSet(S), S # {}, NEW w, \A x \in S : w[x] \in Int
  PROVE  \E x \in S : SumOver(w, S) = w[x] + SumOver(w, S \ {x})
<1> DEFINE c == CHOOSE x \in S : TRUE
<1>1. PICK it : SumStep(it, w, S) /\ SumOver(w, S) = it[S]
  BY SumIter
<1>2. c \in S
  OBVIOUS
<1>3. it[S] = w[c] + it[S \ {c}]
  BY <1>1, SumStepIs
<1> HIDE DEF c
<1>4. IsFiniteSet(S \ {c}) /\ \A x \in S \ {c} : w[x] \in Int
  BY FS_Subset
<1>5. PICK jt : SumStep(jt, w, S \ {c}) /\ SumOver(w, S \ {c}) = jt[S \ {c}]
  BY <1>4, SumIter
<1>6. it[S \ {c}] = jt[S \ {c}]
  BY <1>1, <1>5, SumsAgree
<1> QED
  BY <1>1, <1>2, <1>3, <1>5, <1>6

\* Any element may be taken first.
LEMMA SumRemove ==
  ASSUME NEW S, IsFiniteSet(S), NEW w, \A x \in S : w[x] \in Int, NEW y \in S
  PROVE  SumOver(w, S) = w[y] + SumOver(w, S \ {y})
<1> DEFINE Q == {n \in Nat : \A T \in SUBSET S : Cardinality(T) = n =>
                    \A z \in T : SumOver(w, T) = w[z] + SumOver(w, T \ {z})}
<1>0. \A T \in SUBSET S : /\ IsFiniteSet(T) /\ Cardinality(T) \in Nat
                          /\ \A x \in T : w[x] \in Int
                          /\ SumOver(w, T) \in Int
  BY FS_Subset, FS_CardinalityType, SumType
<1>1. 0 \in Q
  BY <1>0, FS_EmptySet
<1>2. ASSUME NEW n \in Q PROVE n + 1 \in Q
  <2>1. n \in Nat /\ n + 1 \in Nat /\ (n + 1) - 1 = n
    BY <1>2
  <2> SUFFICES ASSUME NEW T \in SUBSET S, Cardinality(T) = n + 1, NEW z \in T
               PROVE  SumOver(w, T) = w[z] + SumOver(w, T \ {z})
    BY <2>1
  <2>2. PICK x \in T : SumOver(w, T) = w[x] + SumOver(w, T \ {x})
    BY <1>0, SumChosen
  <2>3. CASE x = z
    BY <2>2, <2>3
  <2>4. CASE x # z
    <3>1. Cardinality(T \ {x}) = n /\ Cardinality(T \ {z}) = n
      BY <2>1, <1>0, FS_RemoveElement
    <3>2. /\ T \ {x} \in SUBSET S /\ z \in T \ {x}
          /\ T \ {z} \in SUBSET S /\ x \in T \ {z}
      BY <2>4
    <3>3. SumOver(w, T \ {x}) = w[z] + SumOver(w, (T \ {x}) \ {z})
      BY <1>2, <3>1, <3>2
    <3>4. SumOver(w, T \ {z}) = w[x] + SumOver(w, (T \ {z}) \ {x})
      BY <1>2, <3>1, <3>2
    <3>5. (T \ {x}) \ {z} = (T \ {z}) \ {x}
      OBVIOUS
    <3>6. /\ SumOver(w, (T \ {z}) \ {x}) \in Int /\ w[x] \in Int /\ w[z] \in Int
      <4>1. (T \ {z}) \ {x} \in SUBSET S
        OBVIOUS
      <4> QED
        BY <1>0, <4>1
    <3> DEFINE rest == SumOver(w, (T \ {z}) \ {x})
    <3>7. rest \in Int /\ SumOver(w, T \ {z}) = w[x] + rest
      BY <3>4, <3>6
    <3>8. SumOver(w, T) = w[x] + (w[z] + rest)
      BY <2>2, <3>3, <3>5
    <3> HIDE DEF Q, rest
    <3> QED
      BY <3>6, <3>7, <3>8
  <2> QED
    BY <2>3, <2>4
<1>3. Q = Nat
  <2>1. Q \in SUBSET Nat
    OBVIOUS
  <2> HIDE DEF Q
  <2> QED
    BY <1>1, <1>2, <2>1, NatSetInduction
<1> QED
  BY <1>3, <1>0

\* A new element.
LEMMA SumAdd ==
  ASSUME NEW S, IsFiniteSet(S), NEW w, NEW y, y \notin S,
         \A x \in S \cup {y} : w[x] \in Int
  PROVE  SumOver(w, S \cup {y}) = w[y] + SumOver(w, S)
<1>1. IsFiniteSet(S \cup {y}) /\ (S \cup {y}) \ {y} = S
  BY FS_AddElement
<1> QED
  BY <1>1, SumRemove

\* Only what w gives the members matters.
LEMMA SumSame ==
  ASSUME NEW S, IsFiniteSet(S), NEW v, NEW w,
         \A x \in S : v[x] = w[x] /\ w[x] \in Int
  PROVE  SumOver(v, S) = SumOver(w, S)
<1> DEFINE P == {T \in SUBSET S : SumOver(v, T) = SumOver(w, T)}
<1>1. {} \in P
  BY SumEmpty
<1>2. ASSUME NEW T \in P, NEW x \in S \ T PROVE T \cup {x} \in P
  <2>1. IsFiniteSet(T) /\ T \cup {x} \in SUBSET S
    BY FS_Subset
  <2>2. SumOver(v, T \cup {x}) = v[x] + SumOver(v, T)
    BY <2>1, SumAdd
  <2>3. SumOver(w, T \cup {x}) = w[x] + SumOver(w, T)
    BY <2>1, SumAdd
  <2> QED
    BY <1>2, <2>1, <2>2, <2>3
<1>3. S \in P
  <2>1. P \in SUBSET SUBSET S
    OBVIOUS
  <2> HIDE DEF P
  <2> QED
    BY <1>1, <1>2, <2>1, FiniteSetInduction
<1> QED
  BY <1>3

\* A sum of naturals is one.
LEMMA SumNat ==
  ASSUME NEW S, IsFiniteSet(S), NEW w, \A x \in S : w[x] \in Nat
  PROVE  SumOver(w, S) \in Nat
<1> DEFINE P == {T \in SUBSET S : SumOver(w, T) \in Nat}
<1>1. {} \in P
  BY SumEmpty
<1>2. ASSUME NEW T \in P, NEW x \in S \ T PROVE T \cup {x} \in P
  <2>1. IsFiniteSet(T) /\ T \cup {x} \in SUBSET S
    BY FS_Subset
  <2>2. \A z \in T \cup {x} : w[z] \in Int
    BY <2>1
  <2>3. SumOver(w, T \cup {x}) = w[x] + SumOver(w, T)
    BY <2>1, <2>2, SumAdd
  <2> QED
    BY <1>2, <2>1, <2>3
<1>3. S \in P
  <2>1. P \in SUBSET SUBSET S
    OBVIOUS
  <2> HIDE DEF P
  <2> QED
    BY <1>1, <1>2, <2>1, FiniteSetInduction
<1> QED
  BY <1>3

\* Sums of two functions add up.
LEMMA SumPlus ==
  ASSUME NEW S, IsFiniteSet(S), NEW u, NEW v, NEW w,
         \A x \in S : v[x] \in Int /\ w[x] \in Int /\ u[x] = v[x] + w[x]
  PROVE  SumOver(u, S) = SumOver(v, S) + SumOver(w, S)
<1> DEFINE P == {T \in SUBSET S : SumOver(u, T) = SumOver(v, T) + SumOver(w, T)}
<1>1. {} \in P
  BY SumEmpty
<1>2. ASSUME NEW T \in P, NEW x \in S \ T PROVE T \cup {x} \in P
  <2>1. IsFiniteSet(T) /\ T \cup {x} \in SUBSET S
    BY FS_Subset
  <2>2. SumOver(v, T \cup {x}) = v[x] + SumOver(v, T)
    BY <2>1, SumAdd
  <2>3. SumOver(w, T \cup {x}) = w[x] + SumOver(w, T)
    BY <2>1, SumAdd
  <2>4. SumOver(u, T \cup {x}) = u[x] + SumOver(u, T)
    <3>1. \A z \in T \cup {x} : u[z] \in Int
      BY <2>1
    <3> QED
      BY <2>1, <3>1, SumAdd
  <2>5. SumOver(v, T) \in Int /\ SumOver(w, T) \in Int
    BY <2>1, SumType
  <2>6. u[x] = v[x] + w[x] /\ v[x] \in Int /\ w[x] \in Int
    OBVIOUS
  <2>7. SumOver(u, T) = SumOver(v, T) + SumOver(w, T)
    BY <1>2
  <2>8. SumOver(u, T \cup {x}) = SumOver(v, T \cup {x}) + SumOver(w, T \cup {x})
    <3> HIDE DEF P
    <3> QED
      BY <2>2, <2>3, <2>4, <2>5, <2>6, <2>7
  <2> QED
    BY <2>1, <2>8
<1>3. S \in P
  <2>1. P \in SUBSET SUBSET S
    OBVIOUS
  <2> HIDE DEF P
  <2> QED
    BY <1>1, <1>2, <2>1, FiniteSetInduction
<1> QED
  BY <1>3

\* Zeros add up to zero.
LEMMA SumZero ==
  ASSUME NEW S, IsFiniteSet(S), NEW w, \A x \in S : w[x] = 0
  PROVE  SumOver(w, S) = 0
<1> DEFINE P == {T \in SUBSET S : SumOver(w, T) = 0}
<1>1. {} \in P
  BY SumEmpty
<1>2. ASSUME NEW T \in P, NEW x \in S \ T PROVE T \cup {x} \in P
  <2>1. IsFiniteSet(T) /\ T \cup {x} \in SUBSET S
    BY FS_Subset
  <2>2. \A z \in T \cup {x} : w[z] \in Int
    BY <2>1
  <2>3. SumOver(w, T \cup {x}) = w[x] + SumOver(w, T)
    BY <2>1, <2>2, SumAdd
  <2> QED
    BY <1>2, <2>1, <2>3
<1>3. S \in P
  <2>1. P \in SUBSET SUBSET S
    OBVIOUS
  <2> HIDE DEF P
  <2> QED
    BY <1>1, <1>2, <2>1, FiniteSetInduction
<1> QED
  BY <1>3

\* One element changes.
LEMMA SumChange ==
  ASSUME NEW S, IsFiniteSet(S), NEW v, NEW w, NEW y \in S, NEW d \in Int,
         \A x \in S : v[x] \in Int,
         \A x \in S \ {y} : w[x] = v[x], w[y] = v[y] + d
  PROVE  SumOver(w, S) = SumOver(v, S) + d
<1>1. IsFiniteSet(S \ {y})
  BY FS_Subset
<1>2. \A x \in S : w[x] \in Int
  OBVIOUS
<1>3. SumOver(v, S) = v[y] + SumOver(v, S \ {y})
  BY SumRemove
<1>4. SumOver(w, S) = w[y] + SumOver(w, S \ {y})
  BY <1>2, SumRemove
<1>5. SumOver(w, S \ {y}) = SumOver(v, S \ {y})
  BY <1>1, SumSame
<1>6. SumOver(v, S \ {y}) \in Int /\ v[y] \in Int
  BY <1>1, SumType
<1> QED
  BY <1>3, <1>4, <1>5, <1>6

\* Members that count for nothing may be left out.
LEMMA SumPart ==
  ASSUME NEW S, IsFiniteSet(S), NEW w, NEW T \in SUBSET S,
         \A x \in S : w[x] \in Int, \A x \in S \ T : w[x] = 0
  PROVE  SumOver(w, S) = SumOver(w, T)
<1> DEFINE P == {U \in SUBSET (S \ T) : SumOver(w, T \cup U) = SumOver(w, T)}
<1>0. IsFiniteSet(S \ T) /\ SumOver(w, T) \in Int
  <2>1. IsFiniteSet(T)
    BY FS_Subset
  <2> QED
    BY <2>1, FS_Subset, SumType
<1>1. {} \in P
  <2>1. T \cup {} = T
    OBVIOUS
  <2> QED
    BY <2>1
<1>2. ASSUME NEW U \in P, NEW x \in (S \ T) \ U PROVE U \cup {x} \in P
  <2>1. IsFiniteSet(T \cup U) /\ U \cup {x} \in SUBSET (S \ T) /\ x \notin T \cup U
    <3>1. T \cup U \in SUBSET S
      OBVIOUS
    <3> QED
      BY <3>1, FS_Subset
  <2>2. \A z \in (T \cup U) \cup {x} : w[z] \in Int
    OBVIOUS
  <2>3. SumOver(w, (T \cup U) \cup {x}) = w[x] + SumOver(w, T \cup U)
    BY <2>1, <2>2, SumAdd
  <2>4. (T \cup U) \cup {x} = T \cup (U \cup {x}) /\ w[x] = 0
    OBVIOUS
  <2>5. SumOver(w, T \cup U) = SumOver(w, T)
    BY <1>2
  <2>6. SumOver(w, T \cup (U \cup {x})) = SumOver(w, T)
    <3>1. SumOver(w, T \cup (U \cup {x})) = w[x] + SumOver(w, T \cup U)
      BY <2>3, <2>4, Zenon
    <3> HIDE DEF P
    <3> QED
      BY <1>0, <2>4, <2>5, <3>1
  <2> QED
    BY <2>1, <2>6
<1>3. S \ T \in P
  <2>1. P \in SUBSET SUBSET (S \ T)
    OBVIOUS
  <2> HIDE DEF P
  <2> QED
    BY <1>0, <1>1, <1>2, <2>1, FiniteSetInduction
<1>4. T \cup (S \ T) = S
  OBVIOUS
<1> QED
  BY <1>3, <1>4

\* Two sets with nothing in common.
LEMMA SumUnion ==
  ASSUME NEW S, IsFiniteSet(S), NEW U, IsFiniteSet(U), S \cap U = {}, NEW w,
         \A x \in S \cup U : w[x] \in Int
  PROVE  SumOver(w, S \cup U) = SumOver(w, S) + SumOver(w, U)
<1> DEFINE P == {T \in SUBSET U : SumOver(w, S \cup T) = SumOver(w, S) + SumOver(w, T)}
<1>1. SumOver(w, S) \in Int
  BY SumType
<1>2. {} \in P
  <2>1. S \cup {} = S /\ SumOver(w, {}) = 0
    BY SumEmpty
  <2> QED
    BY <1>1, <2>1
<1>3. ASSUME NEW T \in P, NEW x \in U \ T PROVE T \cup {x} \in P
  <2>1. IsFiniteSet(T) /\ IsFiniteSet(S \cup T)
    <3>1. IsFiniteSet(T)
      BY FS_Subset
    <3> QED
      BY <3>1, FS_Union
  <2>2. x \notin S \cup T /\ x \notin T /\ (S \cup T) \cup {x} = S \cup (T \cup {x})
    OBVIOUS
  <2>3. /\ \A z \in T \cup {x} : w[z] \in Int
        /\ \A z \in (S \cup T) \cup {x} : w[z] \in Int
    OBVIOUS
  <2>4. SumOver(w, (S \cup T) \cup {x}) = w[x] + SumOver(w, S \cup T)
    BY <2>1, <2>2, <2>3, SumAdd
  <2>5. SumOver(w, T \cup {x}) = w[x] + SumOver(w, T)
    BY <2>1, <2>2, <2>3, SumAdd
  <2>6. SumOver(w, T) \in Int
    BY <2>1, <2>3, SumType
  <2>7. w[x] \in Int /\ SumOver(w, S \cup T) = SumOver(w, S) + SumOver(w, T)
    BY <2>3
  <2>8. SumOver(w, S \cup (T \cup {x})) = SumOver(w, S) + SumOver(w, T \cup {x})
    <3>1. SumOver(w, S \cup (T \cup {x})) = w[x] + SumOver(w, S \cup T)
      BY <2>2, <2>4, Zenon
    <3> HIDE DEF P
    <3> QED
      BY <1>1, <2>5, <2>6, <2>7, <3>1
  <2> QED
    BY <2>8
<1>4. P \in SUBSET SUBSET U
  OBVIOUS
<1>5. U \in P
  <2> HIDE DEF P
  <2> QED
    BY <1>2, <1>3, <1>4, FiniteSetInduction
<1> QED
  BY <1>5

\* Renaming the members changes nothing.
LEMMA SumImage ==
  ASSUME NEW S, IsFiniteSet(S), NEW h, NEW v, NEW w,
         \A x, y \in S : h[x] = h[y] => x = y,
         \A x \in S : v[x] \in Int /\ w[h[x]] = v[x]
  PROVE  SumOver(w, {h[x] : x \in S}) = SumOver(v, S)
<1> DEFINE img(T) == {h[x] : x \in T}
           P == {T \in SUBSET S : IsFiniteSet(img(T)) /\ SumOver(w, img(T)) = SumOver(v, T)}
<1>1. {} \in P
  <2>1. img({}) = {} /\ IsFiniteSet({})
    BY FS_EmptySet
  <2> QED
    BY <2>1, SumEmpty
<1>2. ASSUME NEW T \in P, NEW x \in S \ T PROVE T \cup {x} \in P
  <2>1. IsFiniteSet(T) /\ IsFiniteSet(img(T))
    BY FS_Subset
  <2>2. img(T \cup {x}) = img(T) \cup {h[x]} /\ h[x] \notin img(T)
    OBVIOUS
  <2>3. /\ \A z \in img(T) \cup {h[x]} : w[z] \in Int
        /\ \A z \in T \cup {x} : v[z] \in Int
        /\ w[h[x]] = v[x] /\ SumOver(w, img(T)) = SumOver(v, T)
    OBVIOUS
  <2> HIDE DEF img
  <2>4. IsFiniteSet(img(T) \cup {h[x]})
    BY <2>1, FS_AddElement
  <2>5. SumOver(w, img(T) \cup {h[x]}) = w[h[x]] + SumOver(w, img(T))
    BY <2>1, <2>2, <2>3, SumAdd
  <2>6. SumOver(v, T \cup {x}) = v[x] + SumOver(v, T)
    BY <2>1, <2>3, SumAdd
  <2> QED
    BY <2>2, <2>3, <2>4, <2>5, <2>6
<1>3. P \in SUBSET SUBSET S
  OBVIOUS
<1>4. S \in P
  <2> HIDE DEF P
  <2> QED
    BY <1>1, <1>2, <1>3, FiniteSetInduction
<1> QED
  BY <1>4

-----------------------------------------------------------------------------
(* Left folds over a list: the fold takes the greatest index last.         *)

\* A finite set of naturals that is not empty has a greatest element.
LEMMA MaxOfFinite ==
  ASSUME NEW S \in SUBSET Int, IsFiniteSet(S), S # {}
  PROVE  Max(S) \in S /\ \A x \in S : x <= Max(S)
<1> DEFINE P == {T \in SUBSET S : T = {} \/ \E x \in T : \A y \in T : x >= y}
<1>1. {} \in P
  OBVIOUS
<1>2. ASSUME NEW T \in P, NEW x \in S \ T PROVE T \cup {x} \in P
  <2>1. T \cup {x} \in SUBSET S
    OBVIOUS
  <2>2. CASE T = {}
    BY <2>1, <2>2
  <2>3. CASE T # {}
    <3>1. PICK z \in T : \A y \in T : z >= y
      BY <2>3
    <3>2. z \in Int /\ x \in Int /\ \A y \in T : y \in Int
      OBVIOUS
    <3>3. CASE z >= x
      BY <2>1, <3>1, <3>2, <3>3
    <3>4. CASE ~(z >= x)
      <4>1. \A y \in T \cup {x} : x >= y
        BY <3>1, <3>2, <3>4
      <4> QED
        BY <2>1, <4>1
    <3> QED
      BY <3>3, <3>4
  <2> QED
    BY <2>2, <2>3
<1>3. S \in P
  <2>1. P \in SUBSET SUBSET S
    OBVIOUS
  <2> HIDE DEF P
  <2> QED
    BY <1>1, <1>2, <2>1, FiniteSetInduction
<1>4. \E x \in S : \A y \in S : x >= y
  BY <1>3
<1>5. Max(S) \in S /\ \A y \in S : Max(S) >= y
  BY <1>4 DEF Max
<1> QED
  BY <1>5

\* The places up to n are finite.
LEMMA PrefixFinite ==
  ASSUME NEW n \in Nat
  PROVE  IsFiniteSet(1..n) /\ 1..n \in SUBSET Int
<1>1. 1 \in Int /\ n \in Int
  OBVIOUS
<1>2. IsFiniteSet(1..n)
  BY <1>1, FS_Interval
<1> QED
  BY <1>2

\* A place of a list of n, and the places up to it.
LEMMA PrefixFacts ==
  ASSUME NEW n \in Nat, NEW k \in 1..n
  PROVE  k \in Nat /\ k # 0 /\ k \in 0..n /\ k - 1 \in 0..n /\ 1..k \in SUBSET (1..n) /\ 1..k # {}
<1>1. k \in Nat /\ k # 0 /\ k \in 0..n /\ k - 1 \in 0..n
  OBVIOUS
<1>2. 1..k \in SUBSET (1..n) /\ k \in 1..k
  OBVIOUS
<1> QED
  BY <1>1, <1>2

\* The last of the places up to n is n.
LEMMA MaxOfPrefix ==
  ASSUME NEW k \in Nat, k # 0
  PROVE  Max(1..k) = k /\ (1..k) \ {k} = 1..(k - 1)
<1>1. IsFiniteSet(1..k) /\ 1..k # {} /\ 1..k \in SUBSET Int /\ k \in 1..k
  BY PrefixFinite
<1>2. Max(1..k) \in 1..k /\ k <= Max(1..k)
  BY <1>1, MaxOfFinite
<1> QED
  BY <1>2

MaxPick(n) == [s \in (SUBSET (1..n)) \ {{}} |-> Max(s)]

\* Max names an element of every set of places that is not empty.
LEMMA MaxPicks ==
  ASSUME NEW n \in Nat
  PROVE  Picks(MaxPick(n), 1..n)
<1>1. \A s \in (SUBSET (1..n)) \ {{}} : Max(s) \in s
  <2> SUFFICES ASSUME NEW s \in SUBSET (1..n), s # {} PROVE Max(s) \in s
    OBVIOUS
  <2>1. IsFiniteSet(1..n) /\ 1..n \in SUBSET Int
    BY PrefixFinite
  <2>2. IsFiniteSet(s) /\ s \in SUBSET Int
    BY <2>1, FS_Subset
  <2> QED
    BY <2>2, MaxOfFinite
<1> QED
  BY <1>1 DEF Picks, MaxPick

-----------------------------------------------------------------------------
(* VolumeUpdates.                                                          *)

\* A list of postings that move known amounts.
Movable(ps) ==
  /\ Len(ps) \in Nat /\ DOMAIN ps = 1..Len(ps)
  /\ \A i \in DOMAIN ps : DeltaAmount(ps[i]) \in Nat

Delta == [input : Nat, output : Nat]
Deltas(ps) == [RowsOf(ps) -> Delta]
NoDeltas(ps) == [r \in RowsOf(ps) |-> NoDelta]

UpdatesStep(it, ps) ==
  it = [s \in SUBSET (DOMAIN ps) |->
          IF s = {} THEN NoDeltas(ps)
          ELSE LET x == Max(s) IN AccumulatePosting(it[s \ {x}], ps[x])]

\* VolumeUpdates unfolded: a fold over the places of the list.
LEMMA UpdatesIs ==
  \A ps : VolumeUpdates(ps) = (CHOOSE it : UpdatesStep(it, ps))[DOMAIN ps]
BY DEF VolumeUpdates, FoldLeft, MapThenFoldSet, UpdatesStep, NoDeltas

\* AccumulatePosting keeps an account of each row, and adds only to the two rows of
\* its posting.
LEMMA AccumulateFacts ==
  ASSUME NEW D, NEW d \in [D -> Delta], NEW p, SourceRow(p) \in D, DestinationRow(p) \in D,
         DeltaAmount(p) \in Nat
  PROVE  /\ AccumulatePosting(d, p) \in [D -> Delta]
         /\ \A r \in D :
              /\ AccumulatePosting(d, p)[r].input =
                   d[r].input + (IF r = DestinationRow(p) THEN DeltaAmount(p) ELSE 0)
              /\ AccumulatePosting(d, p)[r].output =
                   d[r].output + (IF r = SourceRow(p) THEN DeltaAmount(p) ELSE 0)
<1> DEFINE amt == DeltaAmount(p)
           src == SourceRow(p)
           dst == DestinationRow(p)
           out == [d EXCEPT ![src].output = @ + amt]
           done == [out EXCEPT ![dst].input = @ + amt]
<1>1. AccumulatePosting(d, p) = done
  BY DEF AccumulatePosting
<1>2. amt \in Nat /\ src \in D /\ dst \in D
  OBVIOUS
<1> HIDE DEF amt, src, dst
<1>3. /\ out \in [D -> Delta]
      /\ \A r \in D : /\ out[r].input = d[r].input
                      /\ out[r].output = d[r].output + (IF r = src THEN amt ELSE 0)
  BY <1>2 DEF Delta
<1> HIDE DEF out
<1>4. /\ done \in [D -> Delta]
      /\ \A r \in D : /\ done[r].input = out[r].input + (IF r = dst THEN amt ELSE 0)
                      /\ done[r].output = out[r].output
  BY <1>2, <1>3 DEF Delta
<1> HIDE DEF done
<1> QED
  BY <1>1, <1>3, <1>4 DEF amt, src, dst

\* f is the deltas after each posting in turn.
UpdatesRun(f, ps) ==
  /\ f \in [0..Len(ps) -> Deltas(ps)]
  /\ f[0] = NoDeltas(ps)
  /\ \A k \in 1..Len(ps) : f[k] = AccumulatePosting(f[k - 1], ps[k])
  /\ VolumeUpdates(ps) = f[Len(ps)]

\* The rows of each posting are rows of the list.
LEMMA RowsOfPosting ==
  ASSUME NEW ps, NEW i \in DOMAIN ps
  PROVE  SourceRow(ps[i]) \in RowsOf(ps) /\ DestinationRow(ps[i]) \in RowsOf(ps)
BY DEF RowsOf

\* The loop of volumeUpdates as the sequence of its intermediate results: start with
\* nothing, take one posting at a time, end with VolumeUpdates.
LEMMA UpdatesRunExists ==
  ASSUME NEW ps, Movable(ps)
  PROVE  \E f : UpdatesRun(f, ps)
<1> DEFINE n == Len(ps)
           V == Deltas(ps)
           step == [i \in 1..n |-> [d \in V |-> AccumulatePosting(d, ps[i])]]
           c == MaxPick(n)
<1>1. n \in Nat /\ DOMAIN ps = 1..n
  BY DEF Movable
<1>2. \A i \in 1..n : \A d \in V : AccumulatePosting(d, ps[i]) \in V
  <2> SUFFICES ASSUME NEW i \in 1..n, NEW d \in V PROVE AccumulatePosting(d, ps[i]) \in V
    OBVIOUS
  <2>1. SourceRow(ps[i]) \in RowsOf(ps) /\ DestinationRow(ps[i]) \in RowsOf(ps)
    BY <1>1, RowsOfPosting
  <2>2. DeltaAmount(ps[i]) \in Nat
    BY <1>1 DEF Movable
  <2> QED
    BY <2>1, <2>2, AccumulateFacts DEF Deltas
<1>3. step \in [1..n -> [V -> V]]
  BY <1>2
<1>4. NoDeltas(ps) \in V
  BY DEF NoDeltas, NoDelta, Deltas, Delta
<1>5. PICK it : Iterates(it, SUBSET (1..n), V, NoDeltas(ps), c, step)
  <2>1. IsFiniteSet(1..n) /\ Picks(c, 1..n)
    BY <1>1, FS_Interval, MaxPicks
  <2> HIDE DEF n, V, step, c
  <2> QED
    BY <1>3, <1>4, <2>1, SubsetRecursion
<1>6. \A s \in SUBSET (1..n) : s # {} => it[s] = AccumulatePosting(it[s \ {Max(s)}], ps[Max(s)])
  <2> SUFFICES ASSUME NEW s \in SUBSET (1..n), s # {}
               PROVE  it[s] = AccumulatePosting(it[s \ {Max(s)}], ps[Max(s)])
    OBVIOUS
  <2>1. c[s] = Max(s) /\ c[s] \in s
    BY <1>1, MaxPicks DEF MaxPick, Picks
  <2>2. it[s \ {c[s]}] \in V /\ it[s] = step[c[s]][it[s \ {c[s]}]]
    BY <1>5 DEF Iterates
  <2>3. step[c[s]][it[s \ {c[s]}]] = AccumulatePosting(it[s \ {c[s]}], ps[c[s]])
    BY <2>1, <2>2
  <2> QED
    BY <2>1, <2>2, <2>3
<1>7. UpdatesStep(it, ps)
  <2> HIDE DEF n, V, step, c
  <2> QED
    BY <1>1, <1>5, <1>6 DEF UpdatesStep, Iterates
<1> DEFINE g == CHOOSE h : UpdatesStep(h, ps)
<1>8. UpdatesStep(g, ps) /\ VolumeUpdates(ps) = g[1..n]
  BY <1>1, <1>7, UpdatesIs
<1> DEFINE f == [k \in 0..n |-> g[1..k]]
<1> HIDE DEF g, n, V
<1>9. f[0] = NoDeltas(ps)
  <2>1. 1..0 = {} /\ {} \in SUBSET (1..n) /\ 0 \in 0..n
    BY <1>1
  <2>2. g[{}] = NoDeltas(ps)
    BY <1>1, <1>8 DEF UpdatesStep
  <2> QED
    BY <2>1, <2>2
<1>10. \A k \in 1..n : f[k] = AccumulatePosting(f[k - 1], ps[k])
  <2> SUFFICES ASSUME NEW k \in 1..n PROVE f[k] = AccumulatePosting(f[k - 1], ps[k])
    OBVIOUS
  <2>1. k \in Nat /\ k # 0 /\ k \in 0..n /\ k - 1 \in 0..n /\ 1..k \in SUBSET (1..n) /\ 1..k # {}
    BY <1>1, PrefixFacts
  <2>2. Max(1..k) = k /\ (1..k) \ {k} = 1..(k - 1)
    BY <2>1, MaxOfPrefix
  <2>3. g[1..k] = AccumulatePosting(g[(1..k) \ {Max(1..k)}], ps[Max(1..k)])
    BY <1>1, <1>8, <2>1 DEF UpdatesStep
  <2> QED
    BY <2>1, <2>2, <2>3
<1>11. \A k \in 0..n : f[k] \in V
  <2> DEFINE P == {k \in Nat : k <= n => f[k] \in V}
  <2> HIDE DEF f
  <2>1. 0 \in P
    BY <1>4, <1>9
  <2>2. ASSUME NEW k \in P PROVE k + 1 \in P
    <3>1. CASE k + 1 <= n
      <4>1. k \in Nat /\ k + 1 \in 1..n /\ (k + 1) - 1 = k /\ k <= n
        BY <1>1, <2>2, <3>1
      <4>2. f[k] \in V
        BY <2>2, <4>1
      <4>3. f[k + 1] = AccumulatePosting(f[k], ps[k + 1])
        BY <1>10, <4>1
      <4> QED
        BY <1>2, <4>1, <4>2, <4>3
    <3>2. CASE ~(k + 1 <= n)
      BY <2>2, <3>2
    <3> QED
      BY <3>1, <3>2
  <2>3. P = Nat
    <3>1. P \in SUBSET Nat
      OBVIOUS
    <3> HIDE DEF P
    <3> QED
      BY <2>1, <2>2, <3>1, NatSetInduction
  <2> QED
    BY <1>1, <2>3
<1>12. f \in [0..n -> V] /\ VolumeUpdates(ps) = f[n]
  BY <1>1, <1>8, <1>11
<1> HIDE DEF f
<1> QED
  BY <1>9, <1>10, <1>12 DEF UpdatesRun, n, V

\* volumeUpdates returns an account of each row of the list.
LEMMA UpdatesType ==
  ASSUME NEW ps, Movable(ps)
  PROVE  VolumeUpdates(ps) \in [RowsOf(ps) -> Delta]
<1>1. PICK f : UpdatesRun(f, ps)
  BY UpdatesRunExists
<1>2. Len(ps) \in 0..Len(ps)
  BY DEF Movable
<1> QED
  BY <1>1, <1>2 DEF UpdatesRun, Deltas

\* A list touches finitely many rows.
LEMMA RowsOfFinite ==
  ASSUME NEW ps, Len(ps) \in Nat, DOMAIN ps = 1..Len(ps)
  PROVE  IsFiniteSet(RowsOf(ps))
<1> DEFINE src == [i \in DOMAIN ps |-> SourceRow(ps[i])]
           dst == [i \in DOMAIN ps |-> DestinationRow(ps[i])]
           A == {SourceRow(ps[i]) : i \in DOMAIN ps}
           B == {DestinationRow(ps[i]) : i \in DOMAIN ps}
<1>1. IsFiniteSet(DOMAIN ps)
  BY PrefixFinite
<1>2. src \in Surjection(DOMAIN ps, A) /\ dst \in Surjection(DOMAIN ps, B)
  BY DEF Surjection
<1>3. IsFiniteSet(A) /\ IsFiniteSet(B)
  <2> HIDE DEF src, dst, A, B
  <2> QED
    BY <1>1, <1>2, FS_Surjection
<1> QED
  BY <1>3, FS_Union DEF RowsOf

\* The amounts of a list, and the places that pay into and draw on a row.
DeltaAmounts(ps) == [i \in DOMAIN ps |-> DeltaAmount(ps[i])]
PaysInto(ps, r, k) == {i \in 1..k : DestinationRow(ps[i]) = r}
DrawsOn(ps, r, k) == {i \in 1..k : SourceRow(ps[i]) = r}

\* One more place.
LEMMA PlacesGrow ==
  ASSUME NEW ps, NEW r, NEW k \in Nat, k # 0
  PROVE  /\ PaysInto(ps, r, k) = PaysInto(ps, r, k - 1)
                                  \cup (IF r = DestinationRow(ps[k]) THEN {k} ELSE {})
         /\ DrawsOn(ps, r, k) = DrawsOn(ps, r, k - 1)
                                  \cup (IF r = SourceRow(ps[k]) THEN {k} ELSE {})
         /\ k \notin PaysInto(ps, r, k - 1) /\ k \notin DrawsOn(ps, r, k - 1)
<1>1. \A i : i \in 1..k <=> (i \in 1..(k - 1) \/ i = k)
  OBVIOUS
<1>2. k \notin 1..(k - 1)
  OBVIOUS
<1> QED
  BY <1>1, <1>2 DEF PaysInto, DrawsOn

\* Any choice of places of a list is finite.
LEMMA PlacesFinite ==
  ASSUME NEW ps, NEW r, NEW k \in Nat
  PROVE  /\ IsFiniteSet(PaysInto(ps, r, k)) /\ PaysInto(ps, r, k) \subseteq 1..k
         /\ IsFiniteSet(DrawsOn(ps, r, k)) /\ DrawsOn(ps, r, k) \subseteq 1..k
<1>1. PaysInto(ps, r, k) \subseteq 1..k /\ DrawsOn(ps, r, k) \subseteq 1..k
  BY DEF PaysInto, DrawsOn
<1> QED
  BY <1>1, PrefixFinite, FS_Subset

\* After k postings a row's deltas are the sums of the amounts of the places that
\* name it.
LEMMA RunIsSums ==
  ASSUME NEW ps, Movable(ps), NEW f, UpdatesRun(f, ps), NEW r \in RowsOf(ps),
         NEW n \in 0..Len(ps)
  PROVE  /\ f[n][r].input = SumOver(DeltaAmounts(ps), PaysInto(ps, r, n))
         /\ f[n][r].output = SumOver(DeltaAmounts(ps), DrawsOn(ps, r, n))
<1> DEFINE w == DeltaAmounts(ps)
           in(k) == f[k][r].input = SumOver(w, PaysInto(ps, r, k))
           out(k) == f[k][r].output = SumOver(w, DrawsOn(ps, r, k))
           P == {k \in Nat : k <= Len(ps) => in(k) /\ out(k)}
<1>0. Len(ps) \in Nat /\ DOMAIN ps = 1..Len(ps)
  BY DEF Movable
<1>1. \A i \in 1..Len(ps) : w[i] = DeltaAmount(ps[i]) /\ w[i] \in Nat
  BY <1>0 DEF Movable, DeltaAmounts
<1> HIDE DEF w
<1>2. 0 \in P
  <2>1. PaysInto(ps, r, 0) = {} /\ DrawsOn(ps, r, 0) = {}
    BY DEF PaysInto, DrawsOn
  <2>2. f[0][r].input = 0 /\ f[0][r].output = 0
    BY DEF UpdatesRun, NoDeltas, NoDelta
  <2> QED
    BY <2>1, <2>2, SumEmpty
<1>3. ASSUME NEW k \in P PROVE k + 1 \in P
  <2>0. k \in Nat /\ k + 1 \in Nat /\ k + 1 # 0 /\ (k + 1) - 1 = k
    BY <1>3
  <2> SUFFICES ASSUME k + 1 <= Len(ps) PROVE in(k + 1) /\ out(k + 1)
    BY <2>0
  <2>1. k + 1 \in 1..Len(ps) /\ k \in 0..Len(ps)
    BY <1>0, <2>0
  <2>2. in(k) /\ out(k)
    BY <1>0, <1>3, <2>0, <2>1
  <2> HIDE DEF P
  <2> DEFINE p == ps[k + 1]
  <2>3. f[k] \in [RowsOf(ps) -> Delta] /\ f[k + 1] = AccumulatePosting(f[k], p)
    BY <2>0, <2>1 DEF UpdatesRun, Deltas
  <2>4. SourceRow(p) \in RowsOf(ps) /\ DestinationRow(p) \in RowsOf(ps)
    BY <1>0, <2>1, RowsOfPosting
  <2>5. DeltaAmount(p) \in Nat /\ w[k + 1] = DeltaAmount(p)
    BY <1>1, <2>1
  <2>6. /\ f[k + 1][r].input = f[k][r].input + (IF r = DestinationRow(p) THEN w[k + 1] ELSE 0)
        /\ f[k + 1][r].output = f[k][r].output + (IF r = SourceRow(p) THEN w[k + 1] ELSE 0)
    BY <2>3, <2>4, <2>5, AccumulateFacts
  <2>7. f[k][r].input \in Nat /\ f[k][r].output \in Nat
    BY <2>3 DEF Delta
  <2>8. \A i \in 1..(k + 1) : w[i] \in Int
    BY <1>0, <1>1, <2>0, <2>1
  <2>9. in(k + 1)
    <3> DEFINE S == PaysInto(ps, r, k)
    <3>1. IsFiniteSet(S) /\ S \subseteq 1..k /\ k + 1 \notin S
      <4>1. k + 1 \notin 1..k
        BY <2>0
      <4>2. IsFiniteSet(S) /\ S \subseteq 1..k
        BY <2>0, PlacesFinite
      <4> QED
        BY <4>1, <4>2
    <3>2. PaysInto(ps, r, k + 1) = S \cup (IF r = DestinationRow(p) THEN {k + 1} ELSE {})
      BY <2>0, PlacesGrow
    <3>3. \A i \in S \cup {k + 1} : w[i] \in Int
      BY <2>0, <2>8, <3>1
    <3>4. CASE r = DestinationRow(p)
      <4>1. SumOver(w, S \cup {k + 1}) = w[k + 1] + SumOver(w, S)
        BY <3>1, <3>3, SumAdd
      <4>2. PaysInto(ps, r, k + 1) = S \cup {k + 1}
        BY <3>2, <3>4
      <4>3. SumOver(w, PaysInto(ps, r, k + 1)) = w[k + 1] + f[k][r].input
        BY <2>2, <4>1, <4>2
      <4> QED
        BY <2>5, <2>6, <2>7, <3>4, <4>3
    <3>5. CASE r # DestinationRow(p)
      <4>1. PaysInto(ps, r, k + 1) = S
        BY <3>2, <3>5
      <4> QED
        BY <2>2, <2>6, <2>7, <3>5, <4>1
    <3> QED
      BY <3>4, <3>5
  <2>10. out(k + 1)
    <3> DEFINE S == DrawsOn(ps, r, k)
    <3>1. IsFiniteSet(S) /\ S \subseteq 1..k /\ k + 1 \notin S
      <4>1. k + 1 \notin 1..k
        BY <2>0
      <4>2. IsFiniteSet(S) /\ S \subseteq 1..k
        BY <2>0, PlacesFinite
      <4> QED
        BY <4>1, <4>2
    <3>2. DrawsOn(ps, r, k + 1) = S \cup (IF r = SourceRow(p) THEN {k + 1} ELSE {})
      BY <2>0, PlacesGrow
    <3>3. \A i \in S \cup {k + 1} : w[i] \in Int
      BY <2>0, <2>8, <3>1
    <3>4. CASE r = SourceRow(p)
      <4>1. SumOver(w, S \cup {k + 1}) = w[k + 1] + SumOver(w, S)
        BY <3>1, <3>3, SumAdd
      <4>2. DrawsOn(ps, r, k + 1) = S \cup {k + 1}
        BY <3>2, <3>4
      <4>3. SumOver(w, DrawsOn(ps, r, k + 1)) = w[k + 1] + f[k][r].output
        BY <2>2, <4>1, <4>2
      <4> QED
        BY <2>5, <2>6, <2>7, <3>4, <4>3
    <3>5. CASE r # SourceRow(p)
      <4>1. DrawsOn(ps, r, k + 1) = S
        BY <3>2, <3>5
      <4> QED
        BY <2>2, <2>6, <2>7, <3>5, <4>1
    <3> QED
      BY <3>4, <3>5
  <2> QED
    BY <2>9, <2>10
<1>4. P = Nat
  <2>1. P \in SUBSET Nat
    OBVIOUS
  <2> HIDE DEF P
  <2> QED
    BY <1>2, <1>3, <2>1, NatSetInduction
<1>5. in(n) /\ out(n)
  BY <1>0, <1>4
<1> QED
  BY <1>5 DEF w

\* One posting takes as much from its asset as it adds.
LEMMA PostingConserves ==
  ASSUME NEW D, IsFiniteSet(D), NEW d \in [D -> Delta], NEW p, NEW x,
         SourceRow(p) \in D, DestinationRow(p) \in D, DeltaAmount(p) \in Nat
  PROVE  LET S == AssetRows(x, D)
         IN  SumOver(Balances(AccumulatePosting(d, p), S), S) = SumOver(Balances(d, S), S)
<1> DEFINE S == AssetRows(x, D)
           amt == DeltaAmount(p)
           src == SourceRow(p)
           dst == DestinationRow(p)
           e == AccumulatePosting(d, p)
           v == Balances(d, S)
           w == Balances(e, S)
           mid == [r \in S |-> IF r = src THEN v[r] - amt ELSE v[r]]
<1>1. IsFiniteSet(S) /\ S \subseteq D
  BY FS_Subset DEF AssetRows
<1>2. /\ e \in [D -> Delta]
      /\ \A r \in D : /\ e[r].input = d[r].input + (IF r = dst THEN amt ELSE 0)
                      /\ e[r].output = d[r].output + (IF r = src THEN amt ELSE 0)
  BY AccumulateFacts
<1>3. src[2] = p.asset /\ dst[2] = p.asset
  BY DEF SourceRow, DestinationRow
<1>4. (src \in S <=> p.asset = x) /\ (dst \in S <=> p.asset = x)
  BY <1>3 DEF AssetRows
<1>5. amt \in Int
  OBVIOUS
<1> HIDE DEF amt, src, dst, e, S
<1>6. \A r \in D : /\ d[r].input \in Int /\ d[r].output \in Int
  BY DEF Delta
<1>7. \A r \in S : /\ v[r] \in Int
                  /\ w[r] = v[r] + (IF r = dst THEN amt ELSE 0) - (IF r = src THEN amt ELSE 0)
  BY <1>1, <1>2, <1>5, <1>6 DEF Balances, Balance
<1> HIDE DEF v, w
<1>8. CASE p.asset # x
  <2>1. \A r \in S : w[r] = v[r] /\ v[r] \in Int
    BY <1>4, <1>7, <1>8
  <2>2. SumOver(w, S) = SumOver(v, S)
    BY <1>1, <2>1, SumSame
  <2> QED
    BY <2>2 DEF v, w, e, S
<1>9. CASE p.asset = x
  <2>1. src \in S /\ dst \in S
    BY <1>4, <1>9
  <2>2. /\ \A r \in S : mid[r] \in Int
        /\ \A r \in S \ {src} : mid[r] = v[r]
        /\ mid[src] = v[src] + (-amt)
        /\ -amt \in Int
    BY <1>5, <1>7, <2>1
  <2>3. /\ \A r \in S \ {dst} : w[r] = mid[r]
        /\ w[dst] = mid[dst] + amt
    BY <1>5, <1>7, <2>1
  <2> HIDE DEF mid
  <2>4. SumOver(mid, S) = SumOver(v, S) + (-amt)
    BY <1>1, <1>7, <2>1, <2>2, SumChange
  <2>5. SumOver(w, S) = SumOver(mid, S) + amt
    BY <1>1, <1>5, <2>1, <2>2, <2>3, SumChange
  <2>6. SumOver(v, S) \in Int
    BY <1>1, <1>7, SumType
  <2>7. SumOver(w, S) = SumOver(v, S)
    BY <1>5, <2>4, <2>5, <2>6
  <2> QED
    BY <2>7 DEF v, w, e, S
<1> QED
  BY <1>8, <1>9

\* A transaction's deltas add up to nothing, asset by asset.
LEMMA UpdatesConserve ==
  ASSUME NEW ps, Movable(ps), NEW x
  PROVE  LET S == AssetRows(x, RowsOf(ps))
         IN  SumOver(Balances(VolumeUpdates(ps), S), S) = 0
<1> DEFINE S == AssetRows(x, RowsOf(ps))
           n == Len(ps)
<1>1. PICK f : UpdatesRun(f, ps)
  BY UpdatesRunExists
<1>0. n \in Nat /\ DOMAIN ps = 1..n
  BY DEF Movable
<1>2. IsFiniteSet(RowsOf(ps)) /\ IsFiniteSet(S)
  BY <1>0, RowsOfFinite, FS_Subset DEF AssetRows
<1> DEFINE P == {k \in Nat : k <= n => SumOver(Balances(f[k], S), S) = 0}
<1>3. 0 \in P
  <2>1. \A r \in S : Balances(f[0], S)[r] = 0
    BY <1>1 DEF UpdatesRun, NoDeltas, NoDelta, Balances, Balance, AssetRows
  <2> QED
    BY <1>2, <2>1, SumZero
<1>4. ASSUME NEW k \in P PROVE k + 1 \in P
  <2>0. k \in Nat /\ k + 1 \in Nat /\ (k + 1) - 1 = k
    BY <1>4
  <2> SUFFICES ASSUME k + 1 <= n PROVE SumOver(Balances(f[k + 1], S), S) = 0
    BY <2>0
  <2>1. k + 1 \in 1..n /\ k \in 0..n
    BY <1>0, <2>0
  <2>2. SumOver(Balances(f[k], S), S) = 0
    BY <1>0, <1>4, <2>0, <2>1
  <2> HIDE DEF P
  <2>3. f[k] \in [RowsOf(ps) -> Delta] /\ f[k + 1] = AccumulatePosting(f[k], ps[k + 1])
    BY <1>1, <2>0, <2>1 DEF UpdatesRun, Deltas
  <2>4. SourceRow(ps[k + 1]) \in RowsOf(ps) /\ DestinationRow(ps[k + 1]) \in RowsOf(ps)
    BY <1>0, <2>1, RowsOfPosting
  <2>5. DeltaAmount(ps[k + 1]) \in Nat
    BY <1>0, <2>1 DEF Movable
  <2>6. SumOver(Balances(f[k + 1], S), S) = SumOver(Balances(f[k], S), S)
    BY <1>2, <2>3, <2>4, <2>5, PostingConserves
  <2> QED
    BY <2>2, <2>6
<1>5. P = Nat
  <2>1. P \in SUBSET Nat
    OBVIOUS
  <2> HIDE DEF P
  <2> QED
    BY <1>3, <1>4, <2>1, NatSetInduction
<1>6. SumOver(Balances(f[n], S), S) = 0
  BY <1>0, <1>5
<1> QED
  BY <1>1, <1>6 DEF UpdatesRun

-----------------------------------------------------------------------------
(* ResolveUpTo.                                                            *)

\* A validated list: an amount, or a sweep of whatever is there.
Valid(ps) ==
  /\ Len(ps) \in Nat /\ DOMAIN ps = 1..Len(ps)
  /\ \A i \in DOMAIN ps : \/ ps[i].amount \in Nat
                          \/ ps[i].amount = NoAmount /\ ps[i].upTo

\* A resolved one: plain amounts.
Plain(ps) ==
  /\ Len(ps) \in Nat /\ DOMAIN ps = 1..Len(ps)
  /\ \A i \in DOMAIN ps : ps[i].amount \in Nat /\ ~ps[i].upTo

\* The moves of a list whose amounts are numbers are numbers.
LEMMA PlainMoves ==
  ASSUME NEW ps, Plain(ps)
  PROVE  Movable(ps) /\ Valid(ps)
BY DEF Plain, Movable, Valid, DeltaAmount

Resolving(ps) == [running : [RowsOf(ps) -> Int], amounts : Seq(Nat)]

ResolveStart(ps, before) ==
  [running |-> [r \in RowsOf(ps) |-> Balance(before[r])], amounts |-> <<>>]

ResolveStep(it, ps, before) ==
  it = [s \in SUBSET (DOMAIN ps) |->
          IF s = {} THEN ResolveStart(ps, before)
          ELSE LET x == Max(s) IN ResolvePosting(it[s \ {x}], ps[x])]

\* ResolvedAmounts unfolded: a fold over the places of the list.
LEMMA ResolvedIs ==
  \A ps, before :
    ResolvedAmounts(ps, before) =
      (CHOOSE it : ResolveStep(it, ps, before))[DOMAIN ps].amounts
BY DEF ResolvedAmounts, FoldLeft, MapThenFoldSet, ResolveStep, ResolveStart

\* The amount one posting resolves to is a natural.
LEMMA ResolvedAmountType ==
  ASSUME NEW p, NEW running, running[SourceRow(p)] \in Int,
         p.amount \in Nat \/ (p.amount = NoAmount /\ p.upTo)
  PROVE  ResolvedAmount(p, running) \in Nat
BY DEF ResolvedAmount

\* One step of resolveUpTo: the amount it appends and the balances it carries on.
LEMMA ResolveFacts ==
  ASSUME NEW ps, Valid(ps), NEW i \in DOMAIN ps, NEW acc \in Resolving(ps)
  PROVE  LET amount == ResolvedAmount(ps[i], acc.running)
             next == ResolvePosting(acc, ps[i])
         IN  /\ amount \in Nat
             /\ next \in Resolving(ps)
             /\ next.amounts = Append(acc.amounts, amount)
             /\ \A r \in RowsOf(ps) : next.running[r] =
                  acc.running[r] + (IF r = DestinationRow(ps[i]) THEN amount ELSE 0)
                                 - (IF r = SourceRow(ps[i]) THEN amount ELSE 0)
<1> DEFINE p == ps[i]
           amount == ResolvedAmount(p, acc.running)
           src == SourceRow(p)
           dst == DestinationRow(p)
           drawn == [acc.running EXCEPT ![src] = @ - amount]
           paid == [drawn EXCEPT ![dst] = @ + amount]
<1>1. src \in RowsOf(ps) /\ dst \in RowsOf(ps)
  BY RowsOfPosting
<1>2. acc.running \in [RowsOf(ps) -> Int] /\ acc.amounts \in Seq(Nat)
  BY DEF Resolving
<1>3. acc.running[src] \in Int
  BY <1>1, <1>2
<1>4. p.amount \in Nat \/ (p.amount = NoAmount /\ p.upTo)
  BY DEF Valid
<1>5. amount \in Nat
  BY <1>3, <1>4, ResolvedAmountType
<1>6. ResolvePosting(acc, p) = [running |-> paid, amounts |-> Append(acc.amounts, amount)]
  BY DEF ResolvePosting
<1> HIDE DEF amount, src, dst
<1>7. /\ drawn \in [RowsOf(ps) -> Int]
      /\ \A r \in RowsOf(ps) : drawn[r] = acc.running[r] - (IF r = src THEN amount ELSE 0)
  BY <1>1, <1>2, <1>5
<1> HIDE DEF drawn
<1>8. /\ paid \in [RowsOf(ps) -> Int]
      /\ \A r \in RowsOf(ps) : paid[r] = drawn[r] + (IF r = dst THEN amount ELSE 0)
  BY <1>1, <1>5, <1>7
<1> HIDE DEF paid
<1>9. Append(acc.amounts, amount) \in Seq(Nat)
  BY <1>2, <1>5
<1>10. ResolvePosting(acc, p) \in Resolving(ps)
  BY <1>6, <1>8, <1>9 DEF Resolving
<1>11. \A r \in RowsOf(ps) : paid[r] = acc.running[r] + (IF r = dst THEN amount ELSE 0)
                                                     - (IF r = src THEN amount ELSE 0)
  BY <1>2, <1>5, <1>7, <1>8
<1> QED
  BY <1>5, <1>6, <1>10, <1>11 DEF amount, src, dst

\* f is the running balances and the amounts after each posting in turn.
ResolveRun(f, ps, before) ==
  /\ f \in [0..Len(ps) -> Resolving(ps)]
  /\ f[0] = ResolveStart(ps, before)
  /\ \A k \in 1..Len(ps) : f[k] = ResolvePosting(f[k - 1], ps[k])
  /\ ResolvedAmounts(ps, before) = f[Len(ps)].amounts

\* The loop of resolveUpTo as the sequence of its intermediate results.
LEMMA ResolveRunExists ==
  ASSUME NEW ps, Valid(ps), NEW before, \A r \in RowsOf(ps) : Balance(before[r]) \in Int
  PROVE  \E f : ResolveRun(f, ps, before)
<1> DEFINE n == Len(ps)
           V == Resolving(ps)
           b == ResolveStart(ps, before)
           step == [i \in 1..n |-> [d \in V |-> ResolvePosting(d, ps[i])]]
           c == MaxPick(n)
<1>1. n \in Nat /\ DOMAIN ps = 1..n
  BY DEF Valid
<1>2. \A i \in 1..n : \A d \in V : ResolvePosting(d, ps[i]) \in V
  BY <1>1, ResolveFacts
<1>3. step \in [1..n -> [V -> V]]
  BY <1>2
<1>4. b \in V
  BY DEF ResolveStart, Resolving
<1>5. PICK it : Iterates(it, SUBSET (1..n), V, b, c, step)
  <2>1. IsFiniteSet(1..n) /\ Picks(c, 1..n)
    BY <1>1, PrefixFinite, MaxPicks
  <2> HIDE DEF n, V, step, c, b
  <2> QED
    BY <1>3, <1>4, <2>1, SubsetRecursion
<1>6. \A s \in SUBSET (1..n) : s # {} => it[s] = ResolvePosting(it[s \ {Max(s)}], ps[Max(s)])
  <2> SUFFICES ASSUME NEW s \in SUBSET (1..n), s # {}
               PROVE  it[s] = ResolvePosting(it[s \ {Max(s)}], ps[Max(s)])
    OBVIOUS
  <2>1. c[s] = Max(s) /\ c[s] \in s
    BY <1>1, MaxPicks DEF MaxPick, Picks
  <2>2. it[s \ {c[s]}] \in V /\ it[s] = step[c[s]][it[s \ {c[s]}]]
    BY <1>5 DEF Iterates
  <2>3. step[c[s]][it[s \ {c[s]}]] = ResolvePosting(it[s \ {c[s]}], ps[c[s]])
    BY <2>1, <2>2
  <2> QED
    BY <2>1, <2>2, <2>3
<1>7. ResolveStep(it, ps, before)
  <2> HIDE DEF n, V, step, c
  <2> QED
    BY <1>1, <1>5, <1>6 DEF ResolveStep, Iterates
<1> DEFINE g == CHOOSE h : ResolveStep(h, ps, before)
<1>8. ResolveStep(g, ps, before) /\ ResolvedAmounts(ps, before) = g[1..n].amounts
  BY <1>1, <1>7, ResolvedIs
<1> DEFINE f == [k \in 0..n |-> g[1..k]]
<1> HIDE DEF g, n, V
<1>9. f[0] = b
  <2>1. 1..0 = {} /\ {} \in SUBSET (1..n) /\ 0 \in 0..n
    BY <1>1
  <2>2. g[{}] = b
    BY <1>1, <1>8 DEF ResolveStep
  <2> QED
    BY <2>1, <2>2
<1>10. \A k \in 1..n : f[k] = ResolvePosting(f[k - 1], ps[k])
  <2> SUFFICES ASSUME NEW k \in 1..n PROVE f[k] = ResolvePosting(f[k - 1], ps[k])
    OBVIOUS
  <2>1. k \in Nat /\ k # 0 /\ k \in 0..n /\ k - 1 \in 0..n /\ 1..k \in SUBSET (1..n) /\ 1..k # {}
    BY <1>1, PrefixFacts
  <2>2. Max(1..k) = k /\ (1..k) \ {k} = 1..(k - 1)
    BY <2>1, MaxOfPrefix
  <2>3. g[1..k] = ResolvePosting(g[(1..k) \ {Max(1..k)}], ps[Max(1..k)])
    BY <1>1, <1>8, <2>1 DEF ResolveStep
  <2> QED
    BY <2>1, <2>2, <2>3
<1>11. \A k \in 0..n : f[k] \in V
  <2> DEFINE P == {k \in Nat : k <= n => f[k] \in V}
  <2> HIDE DEF f
  <2>1. 0 \in P
    BY <1>4, <1>9
  <2>2. ASSUME NEW k \in P PROVE k + 1 \in P
    <3>1. CASE k + 1 <= n
      <4>1. k \in Nat /\ k + 1 \in 1..n /\ (k + 1) - 1 = k /\ k <= n
        BY <1>1, <2>2, <3>1
      <4>2. f[k] \in V
        BY <2>2, <4>1
      <4>3. f[k + 1] = ResolvePosting(f[k], ps[k + 1])
        BY <1>10, <4>1
      <4> QED
        BY <1>2, <4>1, <4>2, <4>3
    <3>2. CASE ~(k + 1 <= n)
      BY <2>2, <3>2
    <3> QED
      BY <3>1, <3>2
  <2>3. P = Nat
    <3>1. P \in SUBSET Nat
      OBVIOUS
    <3> HIDE DEF P
    <3> QED
      BY <2>1, <2>2, <3>1, NatSetInduction
  <2> QED
    BY <1>1, <2>3
<1>12. f \in [0..n -> V] /\ ResolvedAmounts(ps, before) = f[n].amounts
  BY <1>1, <1>8, <1>11
<1> HIDE DEF f
<1> QED
  BY <1>9, <1>10, <1>12 DEF ResolveRun, n, V

\* The amount decided for a posting is the one its running balances allow.
LEMMA RunIsResolved ==
  ASSUME NEW ps, Valid(ps), NEW before, NEW f, ResolveRun(f, ps, before)
  PROVE  LET amounts == ResolvedAmounts(ps, before)
         IN  /\ amounts \in Seq(Nat) /\ Len(amounts) = Len(ps)
             /\ \A i \in 1..Len(ps) : amounts[i] = ResolvedAmount(ps[i], f[i - 1].running)
<1> DEFINE n == Len(ps)
           decided(i) == ResolvedAmount(ps[i], f[i - 1].running)
           Good(k) == /\ Len(f[k].amounts) = k
                      /\ \A i \in 1..k : f[k].amounts[i] = decided(i)
           P == {k \in Nat : k <= n => Good(k)}
<1>0. n \in Nat /\ DOMAIN ps = 1..n
  BY DEF Valid
<1>1. \A k \in 0..n : f[k].amounts \in Seq(Nat)
  BY DEF ResolveRun, Resolving
<1>2. 0 \in P
  BY DEF ResolveRun, ResolveStart
<1>3. ASSUME NEW k \in P PROVE k + 1 \in P
  <2>0. k \in Nat /\ k + 1 \in Nat /\ (k + 1) - 1 = k
    BY <1>3
  <2> SUFFICES ASSUME k + 1 <= n PROVE Good(k + 1)
    BY <2>0
  <2>1. k + 1 \in 1..n /\ k \in 0..n
    BY <1>0, <2>0
  <2>2. Good(k)
    BY <1>0, <1>3, <2>0, <2>1
  <2> HIDE DEF P
  <2> DEFINE amount == ResolvedAmount(ps[k + 1], f[k].running)
  <2>3. f[k + 1] = ResolvePosting(f[k], ps[k + 1]) /\ f[k] \in Resolving(ps)
    BY <2>0, <2>1 DEF ResolveRun
  <2>4. f[k + 1].amounts = Append(f[k].amounts, amount)
    BY <1>0, <2>1, <2>3, ResolveFacts
  <2>5. amount = decided(k + 1)
    BY <2>0
  <2>6. f[k].amounts \in Seq(Nat) /\ Len(f[k].amounts) = k
    BY <1>1, <2>1, <2>2
  <2> HIDE DEF amount
  <2>7. /\ Len(f[k + 1].amounts) = k + 1
        /\ \A i \in 1..k : f[k + 1].amounts[i] = f[k].amounts[i]
        /\ f[k + 1].amounts[k + 1] = amount
    BY <2>0, <2>4, <2>6
  <2>8. \A i \in 1..(k + 1) : i \in 1..k \/ i = k + 1
    BY <2>0
  <2> QED
    BY <2>2, <2>5, <2>7, <2>8
<1>4. P = Nat
  <2>1. P \in SUBSET Nat
    OBVIOUS
  <2> HIDE DEF P
  <2> QED
    BY <1>2, <1>3, <2>1, NatSetInduction
<1>5. Good(n) /\ ResolvedAmounts(ps, before) = f[n].amounts
  BY <1>0, <1>4 DEF ResolveRun
<1> QED
  BY <1>0, <1>1, <1>5

\* A resolved list names the rows it named, and moves plain amounts.
LEMMA ResolveIsPlain ==
  ASSUME NEW ps, Valid(ps), NEW before, \A r \in RowsOf(ps) : Balance(before[r]) \in Int
  PROVE  LET qs == ResolveUpTo(ps, before)
         IN  /\ Plain(qs) /\ RowsOf(qs) = RowsOf(ps) /\ Len(qs) = Len(ps)
             /\ \A i \in DOMAIN ps : /\ SourceRow(qs[i]) = SourceRow(ps[i])
                                     /\ DestinationRow(qs[i]) = DestinationRow(ps[i])
<1> DEFINE qs == ResolveUpTo(ps, before)
           amounts == ResolvedAmounts(ps, before)
<1>0. Len(ps) \in Nat /\ DOMAIN ps = 1..Len(ps)
  BY DEF Valid
<1>1. CASE ~HasUpTo(ps)
  <2>1. qs = ps
    BY <1>1 DEF ResolveUpTo
  <2>2. Plain(ps)
    BY <1>1 DEF Plain, Valid, HasUpTo
  <2> QED
    BY <2>1, <2>2
<1>2. CASE HasUpTo(ps)
  <2>1. amounts \in Seq(Nat) /\ Len(amounts) = Len(ps)
    BY ResolveRunExists, RunIsResolved
  <2>2. qs = [i \in 1..Len(ps) |->
                [source |-> ps[i].source, destination |-> ps[i].destination,
                 asset |-> ps[i].asset, amount |-> amounts[i], upTo |-> FALSE]]
    BY <1>2 DEF ResolveUpTo
  <2> HIDE DEF amounts, qs
  <2>3. DOMAIN qs = 1..Len(ps) /\ Len(qs) = Len(ps)
    BY <1>0, <2>2
  <2>4. \A i \in 1..Len(ps) : /\ qs[i].amount \in Nat /\ ~qs[i].upTo
                              /\ SourceRow(qs[i]) = SourceRow(ps[i])
                              /\ DestinationRow(qs[i]) = DestinationRow(ps[i])
    BY <2>1, <2>2 DEF SourceRow, DestinationRow
  <2>5. RowsOf(qs) = RowsOf(ps)
    BY <1>0, <2>3, <2>4 DEF RowsOf
  <2>6. Plain(qs)
    BY <1>0, <2>3, <2>4 DEF Plain
  <2> QED
    BY <1>0, <2>3, <2>4, <2>5, <2>6 DEF qs
<1> QED
  BY <1>1, <1>2
-----------------------------------------------------------------------------
(* What a resolved list puts into a row and takes out of it.               *)

\* A list of plain amounts moves the amounts it names.
LEMMA PlainAmounts ==
  ASSUME NEW qs, Plain(qs)
  PROVE  /\ DeltaAmounts(qs) = Amounts(qs)
         /\ \A i \in 1..Len(qs) : Amounts(qs)[i] = qs[i].amount /\ Amounts(qs)[i] \in Nat
<1>1. \A i \in DOMAIN qs : qs[i].amount \in Nat
  BY DEF Plain
<1>2. \A i \in DOMAIN qs : DeltaAmount(qs[i]) = qs[i].amount
  BY <1>1, NilIsNoNumber DEF DeltaAmount
<1> QED
  BY <1>1, <1>2 DEF DeltaAmounts, Amounts, Plain

\* What the first k places put into a row and take out of it.
InBy(qs, r, k) == SumOver(Amounts(qs), PaysInto(qs, r, k))
OutBy(qs, r, k) == SumOver(Amounts(qs), DrawsOn(qs, r, k))

\* They are natural numbers.
LEMMA ByType ==
  ASSUME NEW qs, Plain(qs), NEW r, NEW k \in 0..Len(qs)
  PROVE  InBy(qs, r, k) \in Nat /\ OutBy(qs, r, k) \in Nat
<1>1. Len(qs) \in Nat /\ k \in Nat
  BY DEF Plain
<1>2. \A i \in 1..k : Amounts(qs)[i] \in Nat
  BY <1>1, PlainAmounts
<1>3. /\ IsFiniteSet(PaysInto(qs, r, k)) /\ PaysInto(qs, r, k) \subseteq 1..k
      /\ IsFiniteSet(DrawsOn(qs, r, k)) /\ DrawsOn(qs, r, k) \subseteq 1..k
  BY <1>1, PlacesFinite
<1> QED
  BY <1>2, <1>3, SumNat DEF InBy, OutBy

\* One more place.
LEMMA ByGrows ==
  ASSUME NEW qs, Plain(qs), NEW r, NEW k \in 1..Len(qs)
  PROVE  /\ InBy(qs, r, k) = InBy(qs, r, k - 1)
                               + (IF r = DestinationRow(qs[k]) THEN qs[k].amount ELSE 0)
         /\ OutBy(qs, r, k) = OutBy(qs, r, k - 1)
                               + (IF r = SourceRow(qs[k]) THEN qs[k].amount ELSE 0)
<1> DEFINE w == Amounts(qs)
           A == PaysInto(qs, r, k - 1)
           B == DrawsOn(qs, r, k - 1)
<1>1. Len(qs) \in Nat /\ k \in Nat /\ k # 0 /\ k - 1 \in Nat /\ k - 1 \in 0..Len(qs)
  BY DEF Plain
<1>2. /\ \A i \in 1..Len(qs) : w[i] \in Int
      /\ w[k] = qs[k].amount /\ w[k] \in Nat
  BY PlainAmounts
<1>3. /\ PaysInto(qs, r, k) = A \cup (IF r = DestinationRow(qs[k]) THEN {k} ELSE {})
      /\ DrawsOn(qs, r, k) = B \cup (IF r = SourceRow(qs[k]) THEN {k} ELSE {})
      /\ k \notin A /\ k \notin B
  BY <1>1, PlacesGrow
<1>4. /\ IsFiniteSet(A) /\ A \subseteq 1..(k - 1)
      /\ IsFiniteSet(B) /\ B \subseteq 1..(k - 1)
  BY <1>1, PlacesFinite
<1>5. InBy(qs, r, k - 1) \in Nat /\ OutBy(qs, r, k - 1) \in Nat
  BY <1>1, ByType
<1>6. InBy(qs, r, k - 1) = SumOver(w, A) /\ OutBy(qs, r, k - 1) = SumOver(w, B)
  BY DEF InBy, OutBy
<1> HIDE DEF w, A, B
<1>7. /\ \A i \in A \cup {k} : w[i] \in Int
      /\ \A i \in B \cup {k} : w[i] \in Int
  BY <1>1, <1>2, <1>4
<1>8. /\ SumOver(w, A \cup {k}) = w[k] + SumOver(w, A)
      /\ SumOver(w, B \cup {k}) = w[k] + SumOver(w, B)
  BY <1>2, <1>3, <1>4, <1>7, SumAdd
<1>9. InBy(qs, r, k) = SumOver(w, PaysInto(qs, r, k)) /\ OutBy(qs, r, k) = SumOver(w, DrawsOn(qs, r, k))
  BY DEF InBy, OutBy, w
<1>10. A \cup {} = A /\ B \cup {} = B
  OBVIOUS
<1>11. InBy(qs, r, k) = InBy(qs, r, k - 1)
                          + (IF r = DestinationRow(qs[k]) THEN qs[k].amount ELSE 0)
  <2> DEFINE row == DestinationRow(qs[k])
             amount == qs[k].amount
  <2>1. amount \in Nat /\ amount = w[k]
    BY <1>2
  <2> HIDE DEF row, amount
  <2>2. CASE r = row
    <3>1. PaysInto(qs, r, k) = A \cup {k}
      BY <1>3, <2>2 DEF row
    <3> QED
      BY <1>5, <1>6, <1>8, <1>9, <2>1, <2>2, <3>1 DEF row, amount
  <2>3. CASE r # row
    BY <1>3, <1>5, <1>6, <1>9, <1>10, <2>3 DEF row
  <2> QED
    BY <2>2, <2>3 DEF row, amount
<1>12. OutBy(qs, r, k) = OutBy(qs, r, k - 1)
                          + (IF r = SourceRow(qs[k]) THEN qs[k].amount ELSE 0)
  <2> DEFINE row == SourceRow(qs[k])
             amount == qs[k].amount
  <2>1. amount \in Nat /\ amount = w[k]
    BY <1>2
  <2> HIDE DEF row, amount
  <2>2. CASE r = row
    <3>1. DrawsOn(qs, r, k) = B \cup {k}
      BY <1>3, <2>2 DEF row
    <3> QED
      BY <1>5, <1>6, <1>8, <1>9, <2>1, <2>2, <3>1 DEF row, amount
  <2>3. CASE r # row
    BY <1>3, <1>5, <1>6, <1>9, <1>10, <2>3 DEF row
  <2> QED
    BY <2>2, <2>3 DEF row, amount
<1> QED
  BY <1>11, <1>12

\* The whole list, and a prefix of it.
LEMMA IntoIs ==
  ASSUME NEW qs, Plain(qs), NEW r
  PROVE  Into(qs, r) = InBy(qs, r, Len(qs)) /\ OutOf(qs, r) = OutBy(qs, r, Len(qs))
BY DEF Into, OutOf, InBy, OutBy, PaysInto, DrawsOn, Plain

\* What the first n postings bring into a row is the sum over the places up to n.
LEMMA PrefixIntoIs ==
  ASSUME NEW X, NEW qs \in Seq(X), Plain(qs), NEW r, NEW k \in 0..Len(qs)
  PROVE  /\ Into(SubSeq(qs, 1, k), r) = InBy(qs, r, k)
         /\ OutOf(SubSeq(qs, 1, k), r) = OutBy(qs, r, k)
<1> DEFINE s == SubSeq(qs, 1, k)
<1>1. Len(qs) \in Nat /\ k \in Nat /\ DOMAIN qs = 1..Len(qs)
  BY DEF Plain
<1>3. DOMAIN s = 1..k /\ \A i \in 1..k : s[i] = qs[i] /\ i \in DOMAIN qs
  BY <1>1
<1> HIDE DEF s
<1>4. /\ {i \in DOMAIN s : DestinationRow(s[i]) = r} = PaysInto(qs, r, k)
      /\ {i \in DOMAIN s : SourceRow(s[i]) = r} = DrawsOn(qs, r, k)
  BY <1>3 DEF PaysInto, DrawsOn
<1>5. \A i \in 1..k : Amounts(s)[i] = Amounts(qs)[i] /\ Amounts(qs)[i] \in Int
  <2>1. \A i \in 1..k : Amounts(s)[i] = Amounts(qs)[i]
    BY <1>3 DEF Amounts
  <2>2. \A i \in 1..k : Amounts(qs)[i] \in Nat
    BY <1>1, PlainAmounts
  <2> QED
    BY <2>1, <2>2
<1>6. /\ IsFiniteSet(PaysInto(qs, r, k)) /\ PaysInto(qs, r, k) \subseteq 1..k
      /\ IsFiniteSet(DrawsOn(qs, r, k)) /\ DrawsOn(qs, r, k) \subseteq 1..k
  BY <1>1, PlacesFinite
<1>7. /\ SumOver(Amounts(s), PaysInto(qs, r, k)) = SumOver(Amounts(qs), PaysInto(qs, r, k))
      /\ SumOver(Amounts(s), DrawsOn(qs, r, k)) = SumOver(Amounts(qs), DrawsOn(qs, r, k))
  <2>1. \A i \in PaysInto(qs, r, k) : Amounts(s)[i] = Amounts(qs)[i] /\ Amounts(qs)[i] \in Int
    BY <1>5, <1>6
  <2>2. \A i \in DrawsOn(qs, r, k) : Amounts(s)[i] = Amounts(qs)[i] /\ Amounts(qs)[i] \in Int
    BY <1>5, <1>6
  <2> QED
    BY <1>6, <2>1, <2>2, SumSame
<1> QED
  BY <1>4, <1>7 DEF Into, OutOf, InBy, OutBy, s

\* The deltas of a list of plain amounts are its sums.
LEMMA PlainUpdates ==
  ASSUME NEW qs, Plain(qs)
  PROVE  /\ VolumeUpdates(qs) \in [RowsOf(qs) -> Delta]
         /\ \A r \in RowsOf(qs) :
              VolumeUpdates(qs)[r] = [input |-> Into(qs, r), output |-> OutOf(qs, r)]
<1>1. Movable(qs) /\ Len(qs) \in Nat
  BY PlainMoves DEF Plain
<1>2. PICK f : UpdatesRun(f, qs)
  BY <1>1, UpdatesRunExists
<1>3. VolumeUpdates(qs) \in [RowsOf(qs) -> Delta] /\ VolumeUpdates(qs) = f[Len(qs)]
  BY <1>1, <1>2, UpdatesType DEF UpdatesRun
<1>4. ASSUME NEW r \in RowsOf(qs)
      PROVE  VolumeUpdates(qs)[r] = [input |-> Into(qs, r), output |-> OutOf(qs, r)]
  <2> DEFINE d == VolumeUpdates(qs)[r]
  <2>1. Len(qs) \in 0..Len(qs)
    BY <1>1
  <2>2. d.input = Into(qs, r) /\ d.output = OutOf(qs, r)
    BY <1>1, <1>2, <1>3, <2>1, RunIsSums, PlainAmounts, IntoIs DEF InBy, OutBy
  <2>3. d \in Delta
    BY <1>3
  <2> HIDE DEF d
  <2>4. d = [input |-> d.input, output |-> d.output]
    BY <2>3 DEF Delta
  <2> QED
    BY <2>2, <2>4 DEF d
<1> QED
  BY <1>3, <1>4

\* Rows that hold counters have balances.
LEMMA RowBalances ==
  ASSUME NEW D, NEW before, \A r \in D : before[r] \in RowValue
  PROVE  \A r \in D : Balance(before[r]) \in Int
BY DEF RowValue, Balance

\* The amount of a resolved posting is the one its running balances allow.
LEMMA SweptAmounts ==
  ASSUME NEW ps, Valid(ps), HasUpTo(ps), NEW before, NEW f, ResolveRun(f, ps, before)
  PROVE  \A i \in 1..Len(ps) :
           ResolveUpTo(ps, before)[i].amount = ResolvedAmount(ps[i], f[i - 1].running)
<1> DEFINE amounts == ResolvedAmounts(ps, before)
<1>1. \A i \in 1..Len(ps) : amounts[i] = ResolvedAmount(ps[i], f[i - 1].running)
  BY RunIsResolved
<1>2. ResolveUpTo(ps, before) =
        [i \in 1..Len(ps) |->
           [source |-> ps[i].source, destination |-> ps[i].destination,
            asset |-> ps[i].asset, amount |-> amounts[i], upTo |-> FALSE]]
  BY DEF ResolveUpTo
<1> HIDE DEF amounts
<1> QED
  BY <1>1, <1>2

\* The running balances are what the rows held, and what the list moved so far.
LEMMA RunningIs ==
  ASSUME NEW ps, Valid(ps), HasUpTo(ps),
         NEW before, \A r \in RowsOf(ps) : Balance(before[r]) \in Int,
         NEW f, ResolveRun(f, ps, before),
         NEW r \in RowsOf(ps), NEW k \in 0..Len(ps)
  PROVE  f[k].running[r] = Balance(before[r]) + InBy(ResolveUpTo(ps, before), r, k)
                                             - OutBy(ResolveUpTo(ps, before), r, k)
<1> DEFINE qs == ResolveUpTo(ps, before)
           n == Len(ps)
           b == Balance(before[r])
           is(j) == f[j].running[r] = b + InBy(qs, r, j) - OutBy(qs, r, j)
           P == {j \in Nat : j <= n => is(j)}
<1>0. n \in Nat /\ DOMAIN ps = 1..n /\ b \in Int
  BY DEF Valid
<1>1. /\ Plain(qs) /\ Len(qs) = n
      /\ \A i \in 1..n : /\ SourceRow(qs[i]) = SourceRow(ps[i])
                         /\ DestinationRow(qs[i]) = DestinationRow(ps[i])
  BY <1>0, ResolveIsPlain
<1>2. \A i \in 1..n : qs[i].amount = ResolvedAmount(ps[i], f[i - 1].running)
  BY SweptAmounts
<1>3. /\ \A i \in 0..n : f[i] \in Resolving(ps)
      /\ f[0] = ResolveStart(ps, before)
      /\ \A i \in 1..n : f[i] = ResolvePosting(f[i - 1], ps[i])
  BY DEF ResolveRun
<1>3a. f[0].running[r] = b
  BY <1>3 DEF ResolveStart
<1> HIDE DEF qs, b, n
<1>4. 0 \in P
  <2>1. PaysInto(qs, r, 0) = {} /\ DrawsOn(qs, r, 0) = {}
    BY DEF PaysInto, DrawsOn
  <2>2. InBy(qs, r, 0) = 0 /\ OutBy(qs, r, 0) = 0
    BY <2>1, SumEmpty DEF InBy, OutBy
  <2> QED
    BY <1>0, <1>3a, <2>2
<1>5. ASSUME NEW j \in P PROVE j + 1 \in P
  <2>0. j \in Nat /\ j + 1 \in Nat /\ (j + 1) - 1 = j
    BY <1>5
  <2> SUFFICES ASSUME j + 1 <= n PROVE is(j + 1)
    BY <2>0
  <2>1. j + 1 \in 1..n /\ j \in 0..n /\ j + 1 \in DOMAIN ps
    BY <1>0, <2>0
  <2>2. is(j)
    BY <1>0, <1>5, <2>0, <2>1
  <2> HIDE DEF P
  <2> DEFINE amount == ResolvedAmount(ps[j + 1], f[j].running)
             src == SourceRow(ps[j + 1])
             dst == DestinationRow(ps[j + 1])
  <2>3. f[j + 1] = ResolvePosting(f[j], ps[j + 1]) /\ f[j] \in Resolving(ps)
    BY <1>3, <2>0, <2>1
  <2>4. /\ amount \in Nat
        /\ f[j + 1].running[r] = f[j].running[r] + (IF r = dst THEN amount ELSE 0)
                                                 - (IF r = src THEN amount ELSE 0)
    BY <2>1, <2>3, ResolveFacts
  <2>5. qs[j + 1].amount = amount
    BY <1>2, <2>0, <2>1
  <2>6. SourceRow(qs[j + 1]) = src /\ DestinationRow(qs[j + 1]) = dst
    BY <1>1, <2>1
  <2>7. /\ InBy(qs, r, j + 1) = InBy(qs, r, j)
             + (IF r = DestinationRow(qs[j + 1]) THEN qs[j + 1].amount ELSE 0)
        /\ OutBy(qs, r, j + 1) = OutBy(qs, r, j)
             + (IF r = SourceRow(qs[j + 1]) THEN qs[j + 1].amount ELSE 0)
    BY <1>1, <2>0, <2>1, ByGrows
  <2>8. InBy(qs, r, j) \in Nat /\ OutBy(qs, r, j) \in Nat
    BY <1>1, <2>1, ByType
  <2> HIDE DEF amount, src, dst
  <2>9. /\ InBy(qs, r, j + 1) = InBy(qs, r, j) + (IF r = dst THEN amount ELSE 0)
        /\ OutBy(qs, r, j + 1) = OutBy(qs, r, j) + (IF r = src THEN amount ELSE 0)
    BY <2>5, <2>6, <2>7
  <2> DEFINE gain == IF r = dst THEN amount ELSE 0
             loss == IF r = src THEN amount ELSE 0
             in == InBy(qs, r, j)
             out == OutBy(qs, r, j)
  <2>10. gain \in Nat /\ loss \in Nat /\ in \in Nat /\ out \in Nat /\ b \in Int
    BY <1>0, <2>4, <2>8
  <2>11. f[j].running[r] = b + in - out
    BY <2>2
  <2>12. f[j + 1].running[r] = f[j].running[r] + gain - loss
    BY <2>4
  <2>13. InBy(qs, r, j + 1) = in + gain /\ OutBy(qs, r, j + 1) = out + loss
    BY <2>9
  <2> HIDE DEF gain, loss, in, out
  <2>14. b + in - out + gain - loss = b + (in + gain) - (out + loss)
    BY <2>10
  <2> QED
    BY <2>11, <2>12, <2>13, <2>14
<1>6. P = Nat
  <2>1. P \in SUBSET Nat
    OBVIOUS
  <2> HIDE DEF P
  <2> QED
    BY <1>4, <1>5, <2>1, NatSetInduction
<1>7. is(k)
  BY <1>0, <1>6 DEF n
<1> QED
  BY <1>7 DEF qs, b

\* They are the balances a prefix, and the whole list, would leave.
LEMMA RunningBalances ==
  ASSUME NEW ps, Valid(ps), HasUpTo(ps),
         NEW before, \A r \in RowsOf(ps) : before[r] \in RowValue,
         NEW f, ResolveRun(f, ps, before), NEW r \in RowsOf(ps)
  PROVE  LET qs == ResolveUpTo(ps, before)
         IN  /\ \A k \in 0..Len(ps) :
                  BalanceAfter(before, SubSeq(qs, 1, k), r) = f[k].running[r]
             /\ BalanceAfter(before, qs, r) = f[Len(ps)].running[r]
<1> DEFINE qs == ResolveUpTo(ps, before)
<1>1. Valid(ps) /\ Len(ps) \in Nat
  BY DEF Valid
<1>2. \A s \in RowsOf(ps) : Balance(before[s]) \in Int
  BY RowBalances
<1>3. Plain(qs) /\ Len(qs) = Len(ps)
  BY <1>1, <1>2, ResolveIsPlain
<1> DEFINE X == {qs[i] : i \in 1..Len(ps)}
<1>4. qs \in Seq(X)
  <2>1. qs = [i \in 1..Len(ps) |-> qs[i]]
    BY DEF ResolveUpTo
  <2> HIDE DEF qs
  <2>2. qs \in [1..Len(ps) -> X]
    BY <2>1
  <2> HIDE DEF X
  <2> QED
    BY <1>1, <2>2
<1>5. \A k \in 0..Len(ps) : f[k].running[r] = Balance(before[r]) + InBy(qs, r, k) - OutBy(qs, r, k)
  BY <1>1, <1>2, RunningIs
<1> HIDE DEF qs, X
<1>6. \A k \in 0..Len(ps) : BalanceAfter(before, SubSeq(qs, 1, k), r) = f[k].running[r]
  BY <1>3, <1>4, <1>5, PrefixIntoIs DEF BalanceAfter
<1>7. BalanceAfter(before, qs, r) = f[Len(ps)].running[r]
  BY <1>1, <1>3, <1>5, IntoIs DEF BalanceAfter
<1> QED
  BY <1>6, <1>7 DEF qs

-----------------------------------------------------------------------------
(* What the arithmetic promises, for every list and every set of rows.     *)

\* VolumeUpdates of what resolveUpTo leaves: the rows the caller named, and
\* for each of them the sums of the amounts the transaction records.
THEOREM UpdatesSumTheAmounts ==
  ASSUME NEW ps, Valid(ps),
         NEW before, \A r \in RowsOf(ps) : before[r] \in RowValue
  PROVE  AppliesTheSums(ps, before)
<1> DEFINE qs == ResolveUpTo(ps, before)
<1>1. Plain(qs) /\ RowsOf(qs) = RowsOf(ps)
  BY RowBalances, ResolveIsPlain
<1>2. /\ VolumeUpdates(qs) \in [RowsOf(ps) -> Delta]
      /\ \A r \in RowsOf(ps) :
           VolumeUpdates(qs)[r] = [input |-> Into(qs, r), output |-> OutOf(qs, r)]
  BY <1>1, PlainUpdates
<1> QED
  BY <1>2 DEF AppliesTheSums, Delta

\* A transaction's deltas add up to nothing in every asset: value is moved,
\* never made.
THEOREM TransactionsConserve ==
  ASSUME NEW ps, Valid(ps),
         NEW before, \A r \in RowsOf(ps) : before[r] \in RowValue,
         NEW x \in Asset
  PROVE  LET updates == VolumeUpdates(ResolveUpTo(ps, before))
             S == AssetRows(x, RowsOf(ps))
         IN  SumOver(Balances(updates, S), S) = 0
<1> DEFINE qs == ResolveUpTo(ps, before)
<1>1. Plain(qs) /\ RowsOf(qs) = RowsOf(ps)
  BY RowBalances, ResolveIsPlain
<1>2. Movable(qs)
  BY <1>1, PlainMoves
<1> QED
  BY <1>1, <1>2, UpdatesConserve

\* A sweep of a source that holds b moves at most b, and nothing when b < 0;
\* without a ceiling it moves all of it.
LEMMA SweepDraws ==
  ASSUME NEW p, p.upTo, NEW running, running[SourceRow(p)] \in Int,
         p.amount \in Nat \/ p.amount = NoAmount
  PROVE  LET held == running[SourceRow(p)]
             available == IF held < 0 THEN 0 ELSE held
         IN  /\ ResolvedAmount(p, running) <= available
             /\ p.amount = NoAmount => ResolvedAmount(p, running) = available
BY DEF ResolvedAmount

\* A source that only sweeps draw on never falls below zero on the way.
LEMMA SweptStaysAbove ==
  ASSUME NEW ps, Valid(ps), NEW before, NEW f, ResolveRun(f, ps, before),
         NEW src \in RowsOf(ps), f[0].running[src] >= 0,
         \A j \in DOMAIN ps : SourceRow(ps[j]) = src => ps[j].upTo,
         NEW k \in 0..Len(ps)
  PROVE  f[k].running[src] >= 0
<1> DEFINE n == Len(ps)
           P == {j \in Nat : j <= n => f[j].running[src] >= 0}
<1>0. n \in Nat /\ DOMAIN ps = 1..n
  BY DEF Valid
<1>1. 0 \in P
  OBVIOUS
<1>2. ASSUME NEW j \in P PROVE j + 1 \in P
  <2>0. j \in Nat /\ j + 1 \in Nat /\ (j + 1) - 1 = j
    BY <1>2
  <2> SUFFICES ASSUME j + 1 <= n PROVE f[j + 1].running[src] >= 0
    BY <2>0
  <2>1. j + 1 \in 1..n /\ j \in 0..n /\ j + 1 \in DOMAIN ps
    BY <1>0, <2>0
  <2> DEFINE p == ps[j + 1]
             amount == ResolvedAmount(p, f[j].running)
             held == f[j].running[src]
  <2>2. held >= 0
    BY <1>0, <1>2, <2>0, <2>1
  <2> HIDE DEF P
  <2>3. f[j + 1] = ResolvePosting(f[j], p) /\ f[j] \in Resolving(ps)
    BY <2>0, <2>1 DEF ResolveRun
  <2>4. /\ amount \in Nat
        /\ f[j + 1].running[src] = held + (IF src = DestinationRow(p) THEN amount ELSE 0)
                                        - (IF src = SourceRow(p) THEN amount ELSE 0)
    BY <2>1, <2>3, ResolveFacts
  <2>5. held \in Int
    BY <2>3 DEF Resolving
  <2>6. SourceRow(p) = src => amount <= held
    <3> SUFFICES ASSUME SourceRow(p) = src PROVE amount <= held
      OBVIOUS
    <3>1. p.upTo /\ (p.amount \in Nat \/ p.amount = NoAmount)
      BY <2>1 DEF Valid
    <3>2. f[j].running[SourceRow(p)] \in Int
      BY <2>5
    <3>3. amount <= (IF held < 0 THEN 0 ELSE held)
      BY <3>1, <3>2, SweepDraws
    <3> QED
      BY <2>2, <2>5, <3>3
  <2> HIDE DEF amount, held
  <2> QED
    BY <2>2, <2>4, <2>5, <2>6
<1>3. P = Nat
  <2>1. P \in SUBSET Nat
    OBVIOUS
  <2> HIDE DEF P
  <2> QED
    BY <1>1, <1>2, <2>1, NatSetInduction
<1> QED
  BY <1>0, <1>3

\* resolveUpTo's running balances: each sweep draws on what the postings before
\* it left, so however many sweeps name one source it is not overdrawn.
THEOREM SweepsNeverOverdraw ==
  ASSUME NEW ps, Valid(ps),
         NEW before, \A r \in RowsOf(ps) : before[r] \in RowValue /\ InBounds(before[r]),
         ~UnboundedSweep(ps, before)
  PROVE  SweepsWhatIsThere(ps, before)
<1> DEFINE qs == ResolveUpTo(ps, before)
<1>1. Valid(ps) /\ Len(ps) \in Nat /\ DOMAIN ps = 1..Len(ps)
  BY DEF Valid
<1>2. \A r \in RowsOf(ps) : Balance(before[r]) \in Int
  BY RowBalances
<1>3. PICK f : ResolveRun(f, ps, before)
  BY <1>1, <1>2, ResolveRunExists
<1> DEFINE src(i) == SourceRow(ps[i])
           held(i) == BalanceAfter(before, SubSeq(qs, 1, i - 1), src(i))
<1>4. SUFFICES ASSUME NEW i \in DOMAIN ps, ps[i].upTo
               PROVE  /\ qs[i].amount <= (IF held(i) < 0 THEN 0 ELSE held(i))
                      /\ (\A j \in DOMAIN ps : SourceRow(ps[j]) = src(i) => ps[j].upTo)
                           => BalanceAfter(before, qs, src(i)) >= 0
  BY DEF SweepsWhatIsThere
<1>5. HasUpTo(ps) /\ src(i) \in RowsOf(ps)
  BY <1>4, RowsOfPosting DEF HasUpTo
<1>6. i \in 1..Len(ps) /\ i - 1 \in 0..Len(ps) /\ Len(ps) \in 0..Len(ps)
  BY <1>1
<1>7. held(i) = f[i - 1].running[src(i)] /\ BalanceAfter(before, qs, src(i)) = f[Len(ps)].running[src(i)]
  BY <1>3, <1>5, <1>6, RunningBalances
<1>8. f[i - 1].running[src(i)] \in Int
  BY <1>3, <1>5, <1>6 DEF ResolveRun, Resolving
<1>9. qs[i].amount <= (IF held(i) < 0 THEN 0 ELSE held(i))
  <2>1. qs[i].amount = ResolvedAmount(ps[i], f[i - 1].running)
    BY <1>1, <1>3, <1>5, <1>6, SweptAmounts
  <2>2. ps[i].amount \in Nat \/ ps[i].amount = NoAmount
    BY <1>1 DEF Valid
  <2> HIDE DEF held, qs
  <2> QED
    BY <1>4, <1>7, <1>8, <2>1, <2>2, SweepDraws
<1>10. ASSUME \A j \in DOMAIN ps : SourceRow(ps[j]) = src(i) => ps[j].upTo
       PROVE  BalanceAfter(before, qs, src(i)) >= 0
  <2>1. before[src(i)] \in RowValue /\ InBounds(before[src(i)]) /\ ~before[src(i)].allowNegative
    BY <1>4, <1>5 DEF UnboundedSweep
  <2>2. Balance(before[src(i)]) >= 0
    BY <2>1 DEF InBounds, RowValue, Balance
  <2>3. f[0].running[src(i)] >= 0
    BY <1>3, <1>5, <2>2 DEF ResolveRun, ResolveStart
  <2> HIDE DEF qs, src, held
  <2>4. f[Len(ps)].running[src(i)] >= 0
    BY <1>1, <1>3, <1>5, <1>6, <1>10, <2>3, SweptStaysAbove
  <2> QED
    BY <1>7, <2>4
<1> QED
  BY <1>9, <1>10

\* From a sweep without a ceiling on, a source nothing is paid into holds nothing.
LEMMA SweptStaysEmpty ==
  ASSUME NEW ps, Valid(ps), NEW before, NEW f, ResolveRun(f, ps, before),
         NEW i \in 1..Len(ps), ps[i].upTo, ps[i].amount = NoAmount,
         \A j \in i..Len(ps) : DestinationRow(ps[j]) # SourceRow(ps[i]),
         NEW k \in i..Len(ps)
  PROVE  f[k].running[SourceRow(ps[i])] <= 0
<1> DEFINE n == Len(ps)
           src == SourceRow(ps[i])
           P == {j \in Nat : i <= j /\ j <= n => f[j].running[src] <= 0}
<1>0. n \in Nat /\ DOMAIN ps = 1..n /\ i \in Nat /\ i # 0
  BY DEF Valid
<1>1. src \in RowsOf(ps)
  BY <1>0, RowsOfPosting
<1>2. \A j \in i..n : DestinationRow(ps[j]) # src
  OBVIOUS
<1>3. 0 \in P
  BY <1>0
<1>4. ASSUME NEW j \in P PROVE j + 1 \in P
  <2>0. j \in Nat /\ j + 1 \in Nat /\ (j + 1) - 1 = j
    BY <1>4
  <2> SUFFICES ASSUME i <= j + 1, j + 1 <= n PROVE f[j + 1].running[src] <= 0
    BY <2>0
  <2>1. j + 1 \in 1..n /\ j + 1 \in i..n /\ j \in 0..n /\ j + 1 \in DOMAIN ps
    BY <1>0, <2>0
  <2> DEFINE p == ps[j + 1]
             amount == ResolvedAmount(p, f[j].running)
             held == f[j].running[src]
  <2>2. i <= j => held <= 0
    BY <1>0, <1>4, <2>0, <2>1
  <2> HIDE DEF P
  <2>3. f[j + 1] = ResolvePosting(f[j], p) /\ f[j] \in Resolving(ps)
    BY <2>0, <2>1 DEF ResolveRun
  <2>4. /\ amount \in Nat
        /\ f[j + 1].running[src] = held + (IF src = DestinationRow(p) THEN amount ELSE 0)
                                        - (IF src = SourceRow(p) THEN amount ELSE 0)
    BY <1>1, <2>1, <2>3, ResolveFacts
  <2>5. held \in Int
    BY <1>1, <2>3 DEF Resolving
  <2>6. src # DestinationRow(p)
    BY <1>2, <2>1
  <2>7. i = j + 1 => src = SourceRow(p) /\ amount = (IF held < 0 THEN 0 ELSE held)
    BY <2>5, SweepDraws
  <2> HIDE DEF p, amount, held, src
  <2>8. i <= j \/ i = j + 1
    BY <1>0, <2>0
  <2> QED
    BY <2>2, <2>4, <2>5, <2>6, <2>7, <2>8
<1>5. P = Nat
  <2>1. P \in SUBSET Nat
    OBVIOUS
  <2> HIDE DEF P
  <2> QED
    BY <1>3, <1>4, <2>1, NatSetInduction
<1> QED
  BY <1>0, <1>5

\* "Move whatever is there" moves all of it, whatever came before it in the
\* list.
THEOREM SweepsLeaveNothing ==
  ASSUME NEW ps, Valid(ps),
         NEW before, \A r \in RowsOf(ps) : before[r] \in RowValue
  PROVE  SweepsAllOfIt(ps, before)
<1> DEFINE qs == ResolveUpTo(ps, before)
<1>1. Valid(ps) /\ Len(ps) \in Nat /\ DOMAIN ps = 1..Len(ps)
  BY DEF Valid
<1>2. \A r \in RowsOf(ps) : Balance(before[r]) \in Int
  BY RowBalances
<1>3. PICK f : ResolveRun(f, ps, before)
  BY <1>1, <1>2, ResolveRunExists
<1>4. SUFFICES ASSUME NEW i \in DOMAIN ps, ps[i].upTo, ps[i].amount = NoAmount,
                      \A j \in i..Len(ps) : DestinationRow(ps[j]) # SourceRow(ps[i])
               PROVE  BalanceAfter(before, qs, SourceRow(ps[i])) <= 0
  BY DEF SweepsAllOfIt
<1>5. HasUpTo(ps) /\ SourceRow(ps[i]) \in RowsOf(ps)
  BY <1>4, RowsOfPosting DEF HasUpTo
<1>6. BalanceAfter(before, qs, SourceRow(ps[i])) = f[Len(ps)].running[SourceRow(ps[i])]
  BY <1>3, <1>5, RunningBalances
<1>7. i \in 1..Len(ps) /\ Len(ps) \in i..Len(ps)
  BY <1>1
<1>8. f[Len(ps)].running[SourceRow(ps[i])] <= 0
  BY <1>1, <1>3, <1>4, <1>7, SweptStaysEmpty
<1> QED
  BY <1>6, <1>8

\* Reverse of plain amounts: plain amounts, the same rows, and each row's two
\* sums exchanged.
LEMMA ReverseSwaps ==
  ASSUME NEW qs, Plain(qs)
  PROVE  LET rs == ReversePostings(qs)
         IN  /\ Plain(rs) /\ RowsOf(rs) = RowsOf(qs)
             /\ \A r : Into(rs, r) = OutOf(qs, r) /\ OutOf(rs, r) = Into(qs, r)
<1> DEFINE rs == ReversePostings(qs)
           n == Len(qs)
           h == [i \in 1..n |-> n + 1 - i]
<1>0. n \in Nat /\ DOMAIN qs = 1..n /\ \A i \in 1..n : qs[i].amount \in Nat
  BY DEF Plain
<1>1. /\ \A i \in 1..n : h[i] \in 1..n /\ h[h[i]] = i
      /\ \A i, j \in 1..n : h[i] = h[j] => i = j
  BY <1>0
<1>2. rs = [i \in 1..n |->
              [source |-> qs[h[i]].destination, destination |-> qs[h[i]].source,
               asset |-> qs[h[i]].asset, amount |-> qs[h[i]].amount, upTo |-> FALSE]]
  BY DEF ReversePostings
<1> HIDE DEF rs, h
<1>3. Len(rs) = n /\ DOMAIN rs = 1..n
  BY <1>0, <1>2
<1>4. \A i \in 1..n : /\ SourceRow(rs[i]) = DestinationRow(qs[h[i]])
                      /\ DestinationRow(rs[i]) = SourceRow(qs[h[i]])
                      /\ rs[i].amount = qs[h[i]].amount /\ ~rs[i].upTo
  BY <1>2 DEF SourceRow, DestinationRow
<1> HIDE DEF n
<1>5. Plain(rs)
  BY <1>0, <1>1, <1>3, <1>4 DEF Plain
<1>6. RowsOf(rs) = RowsOf(qs)
  <2>1. {SourceRow(rs[i]) : i \in 1..n} = {DestinationRow(qs[i]) : i \in 1..n}
    BY <1>1, <1>4
  <2>2. {DestinationRow(rs[i]) : i \in 1..n} = {SourceRow(qs[i]) : i \in 1..n}
    BY <1>1, <1>4
  <2> QED
    BY <1>0, <1>3, <2>1, <2>2 DEF RowsOf
<1>7. ASSUME NEW r PROVE Into(rs, r) = OutOf(qs, r) /\ OutOf(rs, r) = Into(qs, r)
  <2> DEFINE D == {i \in 1..n : SourceRow(qs[i]) = r}
             C == {i \in 1..n : DestinationRow(qs[i]) = r}
             v == Amounts(qs)
             w == Amounts(rs)
  <2>1. IsFiniteSet(D) /\ IsFiniteSet(C) /\ D \subseteq 1..n /\ C \subseteq 1..n
    BY <1>0, PrefixFinite, FS_Subset
  <2>2. {i \in 1..n : DestinationRow(rs[i]) = r} = {h[i] : i \in D}
    BY <1>1, <1>4
  <2>3. {i \in 1..n : SourceRow(rs[i]) = r} = {h[i] : i \in C}
    BY <1>1, <1>4
  <2>4. \A i \in 1..n : v[i] \in Int /\ w[h[i]] = v[i]
    BY <1>0, <1>1, <1>3, <1>4 DEF Amounts
  <2>5. /\ Into(rs, r) = SumOver(w, {h[i] : i \in D}) /\ OutOf(qs, r) = SumOver(v, D)
        /\ OutOf(rs, r) = SumOver(w, {h[i] : i \in C}) /\ Into(qs, r) = SumOver(v, C)
    BY <1>0, <1>3, <2>2, <2>3 DEF Into, OutOf
  <2> HIDE DEF D, C, v, w
  <2>6. SumOver(w, {h[i] : i \in D}) = SumOver(v, D)
    <3>1. /\ \A x, y \in D : h[x] = h[y] => x = y
          /\ \A x \in D : v[x] \in Int /\ w[h[x]] = v[x]
      BY <1>1, <2>1, <2>4
    <3>2. IsFiniteSet(D)
      BY <2>1
    <3>3. SumOver(w, {h[x] : x \in D}) = SumOver(v, D)
      BY <3>1, <3>2, SumImage
    <3> QED
      BY <3>3
  <2>7. SumOver(w, {h[i] : i \in C}) = SumOver(v, C)
    <3>1. /\ \A x, y \in C : h[x] = h[y] => x = y
          /\ \A x \in C : v[x] \in Int /\ w[h[x]] = v[x]
      BY <1>1, <2>1, <2>4
    <3>2. IsFiniteSet(C)
      BY <2>1
    <3>3. SumOver(w, {h[x] : x \in C}) = SumOver(v, C)
      BY <3>1, <3>2, SumImage
    <3> QED
      BY <3>3
  <2> QED
    BY <2>5, <2>6, <2>7
<1> QED
  BY <1>5, <1>6, <1>7 DEF rs

\* A delta changes the counters of a row and nothing else.
LEMMA DeltaAdds ==
  ASSUME NEW v \in RowValue, NEW a \in Nat, NEW b \in Nat
  PROVE  LET w == AddDelta(v, [input |-> a, output |-> b])
         IN  /\ w \in RowValue
             /\ w.input = v.input + a /\ w.output = v.output + b
             /\ w.allowNegative = v.allowNegative /\ w.allowPositive = v.allowPositive
<1> DEFINE d == [input |-> a, output |-> b]
           w == AddDelta(v, d)
<1>1. d.input = a /\ d.output = b
  OBVIOUS
<1> HIDE DEF d
<1>2. v.input \in Nat /\ v.output \in Nat
  BY DEF RowValue
<1>3. w.input = v.input + a /\ w.output = v.output + b
  BY <1>1, <1>2 DEF AddDelta, RowValue
<1>4. w.allowNegative = v.allowNegative /\ w.allowPositive = v.allowPositive
  BY DEF AddDelta, RowValue
<1>5. w \in RowValue
  <2>1. v.input + d.input \in Nat /\ v.output + d.output \in Nat
    BY <1>1, <1>2
  <2> QED
    BY <2>1 DEF AddDelta, RowValue
<1> QED
  BY <1>3, <1>4, <1>5 DEF d

\* What goes in and what goes out of a row and back leaves its balance and its
\* permissions as they were.
LEMMA ThereAndBack ==
  ASSUME NEW v \in RowValue, NEW a \in Nat, NEW b \in Nat
  PROVE  LET back == AddDelta(AddDelta(v, [input |-> a, output |-> b]),
                              [input |-> b, output |-> a])
         IN  /\ Balance(back) = Balance(v)
             /\ InBounds(v) => InBounds(back)
<1> DEFINE there == AddDelta(v, [input |-> a, output |-> b])
           back == AddDelta(there, [input |-> b, output |-> a])
<1>1. v.input \in Nat /\ v.output \in Nat
  BY DEF RowValue
<1>2. /\ there \in RowValue
      /\ there.input = v.input + a /\ there.output = v.output + b
      /\ there.allowNegative = v.allowNegative /\ there.allowPositive = v.allowPositive
  BY DeltaAdds
<1> HIDE DEF there
<1>3. /\ back.input = v.input + a + b /\ back.output = v.output + b + a
      /\ back.allowNegative = v.allowNegative /\ back.allowPositive = v.allowPositive
  BY <1>1, <1>2, DeltaAdds
<1> HIDE DEF back
<1>4. Balance(back) = Balance(v)
  BY <1>1, <1>3 DEF Balance
<1>5. (back.input < back.output <=> v.input < v.output)
      /\ (back.input > back.output <=> v.input > v.output)
  BY <1>1, <1>3
<1>6. InBounds(v) => InBounds(back)
  BY <1>3, <1>5 DEF InBounds
<1> QED
  BY <1>4, <1>6 DEF back, there

\* RevertTransaction straight after its original: every row the original touched
\* ends with the balance it had, so a row that was in bounds passes the check.
THEOREM ReversalsRestore ==
  ASSUME NEW ps, Valid(ps),
         NEW before, \A r \in RowsOf(ps) : before[r] \in RowValue /\ InBounds(before[r])
  PROVE  ReversalUndoes(ps, before)
<1> DEFINE qs == ResolveUpTo(ps, before)
           updates == VolumeUpdates(qs)
           undo == VolumeUpdates(ReversePostings(qs))
           after == [r \in RowsOf(ps) |-> AddDelta(before[r], updates[r])]
<1>1. Plain(qs) /\ RowsOf(qs) = RowsOf(ps)
  BY RowBalances, ResolveIsPlain
<1>2. /\ Plain(ReversePostings(qs)) /\ RowsOf(ReversePostings(qs)) = RowsOf(ps)
      /\ \A r : /\ Into(ReversePostings(qs), r) = OutOf(qs, r)
                /\ OutOf(ReversePostings(qs), r) = Into(qs, r)
  BY <1>1, ReverseSwaps
<1>3. \A r \in RowsOf(ps) : updates[r] = [input |-> Into(qs, r), output |-> OutOf(qs, r)]
  BY <1>1, PlainUpdates
<1>4. /\ DOMAIN undo = RowsOf(ps)
      /\ \A r \in RowsOf(ps) : undo[r] = [input |-> OutOf(qs, r), output |-> Into(qs, r)]
  BY <1>2, PlainUpdates
<1>5. \A r \in RowsOf(ps) : Into(qs, r) \in Nat /\ OutOf(qs, r) \in Nat
  <2>1. Len(qs) \in 0..Len(qs)
    BY <1>1 DEF Plain
  <2> QED
    BY <1>1, <2>1, IntoIs, ByType
<1> HIDE DEF qs, updates, undo
<1>6. \A r \in RowsOf(ps) : /\ Balance(AddDelta(after[r], undo[r])) = Balance(before[r])
                            /\ InBounds(AddDelta(after[r], undo[r]))
  <2> TAKE r \in RowsOf(ps)
  <2>1. AddDelta(after[r], undo[r]) =
          AddDelta(AddDelta(before[r], [input |-> Into(qs, r), output |-> OutOf(qs, r)]),
                   [input |-> OutOf(qs, r), output |-> Into(qs, r)])
    BY <1>3, <1>4
  <2> HIDE DEF after
  <2> QED
    BY <1>5, <2>1, ThereAndBack
<1>7. CheckBalances(after, undo)
  BY <1>4, <1>6 DEF CheckBalances
<1> QED
  BY <1>6, <1>7 DEF ReversalUndoes, qs, updates, undo, after

=============================================================================
