---------------------------- MODULE ReconProofs ----------------------------
(***************************************************************************)
(* Proofs about module Recon, for any lines, movements, sources and any    *)
(* number of overlapping passes: the matcher does what module Pairing      *)
(* promises, and the evidence of every line that keeps its references      *)
(* while it is being paired is whole.                                      *)
(*                                                                         *)
(* A statement decides on one snapshot and writes on another.  What saves  *)
(* it is that two statements which both pair a line share a movement,      *)
(* unless one of them has already lost a movement of its own: as long as   *)
(* no reference is replaced, the candidates of a line only shrink by what  *)
(* its source takes.  So the unique index, which looks at movements and    *)
(* never at lines, also keeps a line from being paired twice.  A           *)
(* replaced reference voids the argument for the lines in withdrawn, and   *)
(* for them only.                                                          *)
(***************************************************************************)
EXTENDS Recon, TLAPS, FiniteSetTheorems, FunctionTheorems

-----------------------------------------------------------------------------
(* The inductive invariant.                                                *)

Evidence == [line : Line, move : Move, variance : Int, size : Nat]

TypeOK ==
  /\ pc \in [Matcher -> {"idle", "exact", "matched", "consolidated"}]
  /\ plan \in [Matcher -> SUBSET Evidence]
  /\ matches \in SUBSET Evidence
  /\ count \in [Line -> Nat]
  /\ tag = [t \in Tx |-> tag[t]]

Rows(X, l) == {x \in X : x.line = l}

Moves(X, l) == {x.move : x \in Rows(X, l)}

Whole(l, S, v) == {Match(l, m, v, Cardinality(S)) : m \in S}

Balanced(l, S, v) ==
  /\ Total(S) + v = LineOf[l].amount
  /\ Cardinality(S) > 1 => v = 0 /\ AddsUp(l, S)

\* The rows of a line are one set of movements that accounts for it.
Explained(X, l) ==
  \E v \in {x.variance : x \in Rows(X, l)} :
    /\ Balanced(l, Moves(X, l), v)
    /\ Rows(X, l) = Whole(l, Moves(X, l), v)

MatchedOK(l) ==
  /\ Rows(matches, l) = {} => count[l] = 0
  /\ Rows(matches, l) # {} => Explained(matches, l) /\ count[l] = Cardinality(Moves(matches, l))

UniqueOK ==
  \A x, y \in matches :
    x.move = y.move /\ LineOf[x.line].source = LineOf[y.line].source => x = y

\* Statement w will fail at the index over line l.
Blocked(w, l) == \E m \in Moves(plan[w], l) : Taken(LineOf[l].source, m)

PlanOK(w, l) ==
  /\ pc[w] \notin {"exact", "consolidated"} => plan[w] = {}
  /\ Rows(plan[w], l) # {} =>
       /\ l \in staged
       /\ Explained(plan[w], l)
       /\ l \notin withdrawn /\ count[l] = 0 => \A m \in Moves(plan[w], l) : Names(l, m)
       /\ l \notin withdrawn /\ count[l] # 0 => Blocked(w, l)

\* Two statements that both pair a line get in each other's way.
RivalsOK(v, w, l) ==
  l \notin withdrawn /\ v # w /\ Rows(plan[v], l) # {} /\ Rows(plan[w], l) # {} =>
    \/ Blocked(v, l) \/ Blocked(w, l)
    \/ Moves(plan[v], l) \cap Moves(plan[w], l) # {}

IInv ==
  /\ TypeOK
  /\ UniqueOK
  /\ \A l \in Line : l \notin withdrawn => MatchedOK(l)
  /\ \A w \in Matcher, l \in Line : PlanOK(w, l)
  /\ \A v, w \in Matcher, l \in Line : RivalsOK(v, w, l)

-----------------------------------------------------------------------------
(* Sums and sizes.                                                         *)

\* The sum over one movement is its amount.
LEMMA TotalOne ==
  ASSUME NEW m \in Move
  PROVE  Total({m}) = MoveOf[m].amount
<1> DEFINE D == SUBSET {m}
           E(f) == [s \in D |-> IF s = {} THEN 0
                                ELSE MoveOf[CHOOSE x \in s : TRUE].amount
                                     + f[s \ {CHOOSE x \in s : TRUE}]]
           g == CHOOSE f : f = E(f)
<1>1. Total({m}) = g[{m}]
  BY DEF Total, MapThenSumSet, MapThenFoldSet
<1>2. MoveOf[m].amount \in Nat
  BY ReconAssumption
<1>3. \E f : f = E(f)
  <2> DEFINE h == [s \in D |-> IF s = {} THEN 0 ELSE MoveOf[m].amount]
  <2>1. h[{}] = 0
    OBVIOUS
  <2>2. ASSUME NEW s \in D, s # {}
        PROVE  (CHOOSE x \in s : TRUE) = m /\ s \ {m} = {}
    <3>1. s = {m}
      BY <2>2
    <3>2. QED
      BY <3>1
  <2>3. h = E(h)
    <3>1. ASSUME NEW s \in D
          PROVE  h[s] = E(h)[s]
      BY <1>2, <2>1, <2>2
    <3>2. h = [s \in D |-> h[s]] /\ E(h) = [s \in D |-> E(h)[s]]
      OBVIOUS
    <3> HIDE DEF h, E
    <3>3. QED
      BY <3>1, <3>2
  <2>4. QED
    BY <2>3
<1>4. g = E(g)
  BY <1>3
<1>5. g[{}] = 0
  <2>1. E(g)[{}] = 0
    OBVIOUS
  <2>2. QED
    BY <1>4, <2>1
<1>6. g[{m}] = MoveOf[m].amount + 0
  <2>1. (CHOOSE x \in {m} : TRUE) = m
    OBVIOUS
  <2>2. {m} \ {m} = {}
    OBVIOUS
  <2>3. E(g)[{m}] = MoveOf[m].amount + g[{}]
    <3> HIDE DEF g
    <3>1. QED
      BY <2>1, <2>2
  <2>4. QED
    BY <1>4, <1>5, <2>3
<1>7. QED
  BY <1>1, <1>2, <1>6

\* A set of movements has as many rows as movements.
LEMMA WholeSize ==
  ASSUME NEW l, NEW S \in SUBSET Move, NEW v
  PROVE  /\ IsFiniteSet(Whole(l, S, v))
         /\ Cardinality(Whole(l, S, v)) = Cardinality(S)
<1> DEFINE f == [m \in S |-> Match(l, m, v, Cardinality(S))]
           W == Whole(l, S, v)
<1>1. IsFiniteSet(S)
  BY ReconAssumption, FS_Subset
<1>2. f \in [S -> W]
  BY DEF Whole
<1>3. \A a, b \in S : f[a] = f[b] => a = b
  BY DEF Match
<1>4. \A x \in W : \E m \in S : f[m] = x
  BY DEF Whole
<1> HIDE DEF f, W
<1>5. f \in Bijection(S, W)
  BY <1>2, <1>3, <1>4, Fun_IsBij
<1>6. ExistsBijection(S, W)
  BY <1>5 DEF ExistsBijection
<1>7. IsFiniteSet(W) /\ Cardinality(W) = Cardinality(S)
  BY <1>1, <1>6, FS_Bijection
<1>8. QED
  BY <1>7 DEF W

\* The evidence of an explained line, read off any of its rows.
LEMMA ExplainedRows ==
  ASSUME NEW X \in SUBSET Evidence, NEW l \in Line, Explained(X, l)
  PROVE  /\ Moves(X, l) \in SUBSET Move
         /\ Cardinality(Rows(X, l)) = Cardinality(Moves(X, l))
         /\ Cardinality(Moves(X, l)) \in Nat \ {0}
         /\ \A x \in Rows(X, l) : x.size = Cardinality(Moves(X, l))
<1>1. Moves(X, l) \in SUBSET Move
  BY DEF Moves, Rows, Evidence
<1>2. PICK v \in {x.variance : x \in Rows(X, l)} : Rows(X, l) = Whole(l, Moves(X, l), v)
  BY DEF Explained
<1>3. Cardinality(Rows(X, l)) = Cardinality(Moves(X, l))
  BY <1>1, <1>2, WholeSize
<1>4. \A x \in Rows(X, l) : x.size = Cardinality(Moves(X, l))
  BY <1>2 DEF Whole, Match
<1>5. Moves(X, l) # {}
  BY <1>2 DEF Moves
<1>6. IsFiniteSet(Moves(X, l))
  BY <1>1, ReconAssumption, FS_Subset
<1>7. Cardinality(Moves(X, l)) \in Nat \ {0}
  BY <1>5, <1>6, FS_CardinalityType, FS_EmptySet
<1>8. QED
  BY <1>1, <1>3, <1>4, <1>7

-----------------------------------------------------------------------------
(* What a statement plans.                                                 *)

\* Every line a plan pairs is paired with all of its candidates.
PlannedFrom(rows, cand) ==
  /\ rows \in SUBSET Evidence
  /\ \A l \in Line : Rows(rows, l) # {} => Explained(rows, l) /\ Moves(rows, l) = cand[l]

LEMMA PicksPlan ==
  ASSUME NEW cand \in [Line -> SUBSET Move], NEW picks \in Picks(cand)
  PROVE  PlannedFrom(Exact(picks), cand)
<1> DEFINE rows == Exact(picks)
           Row(l, m) == Match(l, m, LineOf[l].amount - MoveOf[m].amount, 1)
<1>1. /\ \A x : x \in rows <=> \E y \in picks : x = Row(y[1], y[2])
      /\ picks \subseteq Lone(cand)
  BY DEF Picks, Exact
<1>2. ASSUME NEW y \in picks
      PROVE  /\ y[1] \in Line /\ cand[y[1]] = {y[2]} /\ y[2] \in Move
             /\ Row(y[1], y[2]) \in Evidence
             /\ MoveOf[y[2]].amount \in Nat /\ LineOf[y[1]].amount \in Nat
  <2>1. PICK l \in Line : Cardinality(cand[l]) = 1 /\ y \in {l} \X cand[l]
    BY <1>1 DEF Lone
  <2>2. y[1] = l /\ y[2] \in cand[l] /\ cand[l] \in SUBSET Move
    BY <2>1
  <2>3. IsFiniteSet(cand[l])
    BY <2>2, ReconAssumption, FS_Subset
  <2>4. cand[l] = {y[2]}
    BY <2>1, <2>2, <2>3, FS_Singleton
  <2>5. MoveOf[y[2]].amount \in Nat /\ LineOf[y[1]].amount \in Nat
    BY <2>2, ReconAssumption
  <2>6. QED
    BY <2>2, <2>4, <2>5 DEF Evidence, Match
<1>3. rows \in SUBSET Evidence
  BY <1>1, <1>2
<1> HIDE DEF rows
<1>4. ASSUME NEW l \in Line, Rows(rows, l) # {}
      PROVE  Explained(rows, l) /\ Moves(rows, l) = cand[l]
  <2>1. PICK y \in picks : y[1] = l
    BY <1>1, <1>4 DEF Rows, Match
  <2> DEFINE m == y[2]
  <2>1a. cand[l] = {m} /\ m \in Move
    BY <1>2, <2>1
  <2>1b. <<l, m>> = <<y[1], y[2]>>
    BY <2>1
  <2> HIDE DEF m
  <2>2. cand[l] = {m} /\ \A z \in picks : z[1] = l => z[2] = m
    <3>1. ASSUME NEW z \in picks, z[1] = l PROVE z[2] = m
      <4>1. cand[l] = {z[2]}
        BY <1>2, <3>1
      <4>2. QED
        BY <2>1a, <4>1
    <3>2. QED
      BY <2>1a, <3>1
  <2>3. Rows(rows, l) = {Row(l, m)}
    <3>1. Row(l, m) \in Rows(rows, l)
      BY <1>1, <2>1, <2>1b DEF Rows, Match
    <3>2. ASSUME NEW x \in Rows(rows, l)
          PROVE  x = Row(l, m)
      <4>1. PICK z \in picks : x = Row(z[1], z[2])
        BY <1>1 DEF Rows
      <4>2. z[1] = l
        BY <4>1 DEF Rows, Match
      <4>3. QED
        BY <2>2, <4>1, <4>2
    <3> HIDE DEF Row
    <3>3. QED
      BY <3>1, <3>2
  <2>4. Moves(rows, l) = {m}
    BY <2>3 DEF Moves, Match
  <2> DEFINE v == LineOf[l].amount - MoveOf[m].amount
  <2>5. Cardinality({m}) = 1
    BY FS_Singleton
  <2>6. Rows(rows, l) = Whole(l, {m}, v)
    BY <2>3, <2>5 DEF Whole
  <2>7. Balanced(l, {m}, v)
    <3>1. m \in Move /\ MoveOf[m].amount \in Nat /\ LineOf[l].amount \in Nat
      BY <2>1a, ReconAssumption
    <3>2. Total({m}) + v = LineOf[l].amount
      BY <3>1, TotalOne
    <3>3. QED
      BY <2>5, <3>2 DEF Balanced
  <2>8. v \in {x.variance : x \in Rows(rows, l)}
    BY <2>3 DEF Match
  <2> HIDE DEF v
  <2>9. QED
    BY <2>2, <2>4, <2>6, <2>7, <2>8 DEF Explained
<1>5. QED
  BY <1>3, <1>4 DEF PlannedFrom, rows

LEMMA SetsPlan ==
  ASSUME NEW cand \in [Line -> SUBSET Move]
  PROVE  PlannedFrom(Sets(cand), cand)
<1> DEFINE rows == Sets(cand)
           Several(k) == k \in Line /\ Cardinality(cand[k]) > 1 /\ AddsUp(k, cand[k])
<1>1. \A x : x \in rows <=>
        \E k \in Line : Several(k) /\ \E m \in cand[k] : x = Match(k, m, 0, Cardinality(cand[k]))
  BY DEF Sets
<1>2. ASSUME NEW l \in Line
      PROVE  Cardinality(cand[l]) \in Nat
  <2>1. cand[l] \in SUBSET Move
    OBVIOUS
  <2>2. IsFiniteSet(cand[l])
    BY <2>1, ReconAssumption, FS_Subset
  <2>3. QED
    BY <2>2, FS_CardinalityType
<1>3. rows \in SUBSET Evidence
  BY <1>1, <1>2 DEF Evidence, Match
<1>4. ASSUME NEW l \in Line, Rows(rows, l) # {}
      PROVE  Explained(rows, l) /\ Moves(rows, l) = cand[l]
  <2>1. Several(l)
    BY <1>1, <1>4 DEF Rows, Match
  <2>2. Rows(rows, l) = Whole(l, cand[l], 0)
    <3>1. ASSUME NEW x \in Rows(rows, l)
          PROVE  x \in Whole(l, cand[l], 0)
      <4>1. PICK k \in Line : \E m \in cand[k] : x = Match(k, m, 0, Cardinality(cand[k]))
        BY <1>1 DEF Rows
      <4>2. k = l
        BY <4>1 DEF Rows, Match
      <4>3. QED
        BY <4>1, <4>2 DEF Whole
    <3>2. ASSUME NEW m \in cand[l]
          PROVE  Match(l, m, 0, Cardinality(cand[l])) \in Rows(rows, l)
      BY <1>1, <2>1 DEF Rows, Match
    <3>3. QED
      BY <3>1, <3>2 DEF Whole
  <2>3. Moves(rows, l) = cand[l]
    <3>1. ASSUME NEW m \in cand[l]
          PROVE  \E x \in Whole(l, cand[l], 0) : x.move = m
      <4>1. Match(l, m, 0, Cardinality(cand[l])) \in Whole(l, cand[l], 0)
        BY DEF Whole
      <4>2. Match(l, m, 0, Cardinality(cand[l])).move = m
        BY DEF Match
      <4>3. QED
        BY <4>1, <4>2
    <3>2. \A x \in Whole(l, cand[l], 0) : x.move \in cand[l]
      BY DEF Whole, Match
    <3> HIDE DEF rows
    <3>3. QED
      BY <2>2, <3>1, <3>2 DEF Moves
  <2>4. 0 \in {x.variance : x \in Rows(rows, l)}
    BY <1>4, <2>2 DEF Whole, Match
  <2>5. Total(cand[l]) = LineOf[l].amount /\ LineOf[l].amount \in Nat
    BY <2>1, ReconAssumption DEF AddsUp
  <2>6. Balanced(l, cand[l], 0)
    BY <2>5 DEF Balanced, AddsUp
  <2> HIDE DEF rows
  <2>7. QED
    BY <2>2, <2>3, <2>4, <2>6 DEF Explained
<1>5. QED
  BY <1>3, <1>4 DEF PlannedFrom

-----------------------------------------------------------------------------
(* One step per action.                                                    *)

LEMMA InitOK == Init => IInv
<1> SUFFICES ASSUME Init PROVE IInv
  OBVIOUS
<1>1. TypeOK
  BY DEF Init, TypeOK
<1>2. \A l \in Line : MatchedOK(l)
  BY DEF Init, MatchedOK, Rows
<1>3. \A w \in Matcher, l \in Line : plan[w] = {} /\ Rows(plan[w], l) = {}
  BY DEF Init, Rows
<1>4. \A w \in Matcher, l \in Line : PlanOK(w, l)
  BY <1>3 DEF PlanOK
<1>5. \A v, w \in Matcher, l \in Line : RivalsOK(v, w, l)
  BY <1>3 DEF RivalsOK
<1>6. UniqueOK
  BY DEF Init, UniqueOK
<1>7. QED
  BY <1>1, <1>2, <1>4, <1>5, <1>6 DEF IInv

\* What is written stays as it is.
LEMMA MatchesKeep ==
  ASSUME IInv, UNCHANGED <<count, matches>>, withdrawn \subseteq withdrawn'
  PROVE  UniqueOK' /\ \A l \in Line : l \notin withdrawn' => MatchedOK(l)'
<1>1. UniqueOK'
  BY DEF IInv, UniqueOK
<1>2. ASSUME NEW l \in Line, l \notin withdrawn'
      PROVE  MatchedOK(l)'
  <2>1. Rows(matches, l)' = Rows(matches, l) /\ Moves(matches, l)' = Moves(matches, l)
    BY DEF Rows, Moves
  <2>2. Explained(matches, l)' <=> Explained(matches, l)
    BY <2>1 DEF Explained, Balanced, AddsUp, Whole
  <2>3. MatchedOK(l)
    BY <1>2 DEF IInv
  <2>4. QED
    BY <2>1, <2>2, <2>3 DEF MatchedOK
<1>3. QED
  BY <1>1, <1>2

\* Steps outside the passes: lines arrive, and what an open statement was
\* told of a transaction stays true of the lines that are not withdrawn.
LEMMA EvidenceMoves ==
  ASSUME IInv, UNCHANGED <<count, matches, pc, plan>>, staged \subseteq staged',
         withdrawn \subseteq withdrawn', tag' = [t \in Tx |-> tag'[t]],
         \A w \in Matcher, l \in Line : \A m \in Moves(plan[w], l) :
           l \notin withdrawn' /\ count[l] = 0 /\ Names(l, m) => Names(l, m)'
  PROVE  IInv'
<1>1. TypeOK'
  BY DEF IInv, TypeOK
<1>2. UniqueOK' /\ \A l \in Line : l \notin withdrawn' => MatchedOK(l)'
  BY MatchesKeep
<1>3. ASSUME NEW w \in Matcher, NEW l \in Line
      PROVE  PlanOK(w, l)'
  <2>1. PlanOK(w, l)
    BY DEF IInv
  <2>2. Explained(plan[w], l)' <=> Explained(plan[w], l)
    BY DEF Explained, Balanced, AddsUp, Whole, Moves, Rows
  <2>3. Blocked(w, l)' <=> Blocked(w, l)
    BY DEF Blocked, Taken, Moves, Rows
  <2>4. Rows(plan[w], l)' = Rows(plan[w], l) /\ Moves(plan[w], l)' = Moves(plan[w], l)
    BY DEF Rows, Moves
  <2>5. QED
    BY <2>1, <2>2, <2>3, <2>4 DEF PlanOK
<1>4. ASSUME NEW v \in Matcher, NEW w \in Matcher, NEW l \in Line
      PROVE  RivalsOK(v, w, l)'
  <2>1. RivalsOK(v, w, l)
    BY DEF IInv
  <2>2. \A x \in Matcher :
          /\ Rows(plan[x], l)' = Rows(plan[x], l)
          /\ Moves(plan[x], l)' = Moves(plan[x], l)
    BY DEF Rows, Moves
  <2>3. \A x \in Matcher : Blocked(x, l)' <=> Blocked(x, l)
    BY <2>2 DEF Blocked, Taken
  <2>4. QED
    BY <2>1, <2>2, <2>3 DEF RivalsOK
<1>5. QED
  BY <1>1, <1>2, <1>3, <1>4 DEF IInv

LEMMA IntakeKeeps ==
  ASSUME IInv, UNCHANGED <<evidence, book, passes>>, staged \subseteq staged'
  PROVE  IInv'
<1>1. UNCHANGED <<count, matches, pc, plan, booked, tag, withdrawn>>
  BY DEF evidence, book, passes
<1>2. tag' = [t \in Tx |-> tag'[t]] /\ withdrawn \subseteq withdrawn'
  BY <1>1 DEF IInv, TypeOK
<1>3. ASSUME NEW l, NEW m PROVE Names(l, m)' <=> Names(l, m)
  BY <1>1 DEF Names, UnderReference
<1>4. QED
  BY <1>1, <1>2, <1>3, EvidenceMoves

\* What an open statement is about to pair.
LEMMA PlannedMoves ==
  ASSUME IInv, NEW w \in Matcher, NEW l \in Line, NEW m \in Moves(plan[w], l)
  PROVE  m \in Move /\ MoveOf[m].tx \in Tx
<1>1. m \in Move
  BY DEF Moves, Rows, IInv, TypeOK, Evidence
<1>2. QED
  BY <1>1, ReconAssumption

LEMMA BookKeeps ==
  ASSUME IInv, NEW t \in Tx, NEW r, Book(t, r)
  PROVE  IInv'
<1>1. /\ UNCHANGED <<count, matches, pc, plan, staged, withdrawn>>
      /\ booked' = booked \cup {t} /\ t \notin booked /\ tag' = [tag EXCEPT ![t] = r]
  BY DEF Book, evidence, passes, intake
<1>2. tag = [u \in Tx |-> tag[u]]
  BY DEF IInv, TypeOK
<1>3. tag' = [u \in Tx |-> tag'[u]] /\ \A u \in Tx : u # t => tag'[u] = tag[u]
  BY <1>1, <1>2
<1>4. ASSUME NEW w \in Matcher, NEW l \in Line, NEW m \in Moves(plan[w], l), Names(l, m)
      PROVE  Names(l, m)'
  BY <1>1, <1>3, <1>4, PlannedMoves DEF Names, UnderReference
<1>5. QED
  BY <1>1, <1>3, <1>4, EvidenceMoves

\* A tag that is replaced takes nothing from a line that is not withdrawn, as
\* far as open statements rely on it.
LEMMA TagKeeps ==
  ASSUME IInv, NEW t \in Tx, NEW r, Tag(t, r)
  PROVE  IInv'
<1>1. /\ UNCHANGED <<count, matches, pc, plan, staged, booked>>
      /\ tag' = [tag EXCEPT ![t] = r]
      /\ withdrawn' = withdrawn \cup {x.line : x \in {y \in Undermined(t, r) : count[y.line] = 0}}
  BY DEF Tag, evidence, passes, intake
<1>2. tag = [u \in Tx |-> tag[u]]
  BY DEF IInv, TypeOK
<1>3. tag' = [u \in Tx |-> tag'[u]] /\ \A u \in Tx : u # t => tag'[u] = tag[u]
  BY <1>1, <1>2
<1>4. tag'[t] = r
  BY <1>1, <1>2
<1>5. ASSUME NEW w \in Matcher, NEW l \in Line, NEW m \in Moves(plan[w], l),
             l \notin withdrawn', count[l] = 0, Names(l, m)
      PROVE  Names(l, m)'
  <2>1. MoveOf[m].tx \in Tx
    BY PlannedMoves
  <2>2. CASE MoveOf[m].tx # t
    BY <1>1, <1>3, <1>5, <2>1, <2>2 DEF Names, UnderReference
  <2>3. CASE MoveOf[m].tx = t
    <3>1. PICK x \in plan[w] : x.line = l /\ x.move = m
      BY DEF Moves, Rows
    <3>2. x \notin Undermined(t, r)
      BY <1>1, <1>5, <3>1
    <3>3. LineOf[l].reference = tag[t] => LineOf[l].reference \in {TxRef[t], r}
      BY <2>3, <3>1, <3>2 DEF Undermined
    <3>4. QED
      BY <1>1, <1>4, <1>5, <2>3, <3>3 DEF Names, UnderReference
  <2>4. QED
    BY <2>2, <2>3
<1>6. withdrawn \subseteq withdrawn'
  BY <1>1
<1>7. QED
  BY <1>1, <1>3, <1>5, <1>6, EvidenceMoves

LEMMA CandidatesType == Candidates \in [Line -> SUBSET Move]
  BY DEF Candidates

\* A statement begins: whoever is already at one of its lines either has lost
\* a movement to the index or shares all of its movements with it.
LEMMA BeginKeeps ==
  ASSUME IInv, NEW w \in Matcher, NEW rows, PlannedFrom(rows, Candidates),
         NEW where \in {"exact", "consolidated"},
         plan' = [plan EXCEPT ![w] = rows], pc' = [pc EXCEPT ![w] = where],
         UNCHANGED <<count, matches, staged, booked, tag, withdrawn>>
  PROVE  IInv'
<1>1. TypeOK'
  BY DEF IInv, TypeOK, PlannedFrom
<1>2. UniqueOK' /\ \A l \in Line : l \notin withdrawn' => MatchedOK(l)'
  BY MatchesKeep
<1>3. plan'[w] = rows /\ pc'[w] = where
  BY DEF IInv, TypeOK
<1>4. \A v \in Matcher : v # w => plan'[v] = plan[v] /\ pc'[v] = pc[v]
  BY DEF IInv, TypeOK
<1>5. \A l, m : Names(l, m)' <=> Names(l, m)
  BY DEF Names, UnderReference
<1>6. \A s, m : Taken(s, m)' <=> Taken(s, m)
  BY DEF Taken
<1>7. ASSUME NEW l \in Line, Rows(rows, l) # {}
      PROVE  /\ l \in staged /\ count[l] = 0 /\ Explained(rows, l)
             /\ Moves(rows, l) = {m \in Move : Names(l, m) /\ ~Taken(LineOf[l].source, m)}
  <2>1. Explained(rows, l) /\ Moves(rows, l) = Candidates[l] /\ Candidates[l] # {}
    BY <1>7 DEF PlannedFrom, Moves
  <2>2. QED
    BY <2>1 DEF Candidates
<1>8. ASSUME NEW v \in Matcher, NEW l \in Line
      PROVE  PlanOK(v, l)'
  <2>1. CASE v = w
    <3>1. Rows(plan[w], l)' = Rows(rows, l) /\ Moves(plan[w], l)' = Moves(rows, l)
      BY <1>3 DEF Rows, Moves
    <3>2. Explained(rows, l) => Explained(plan[w], l)'
      BY <3>1 DEF Explained, Balanced, AddsUp, Whole
    <3>3. QED
      BY <1>3, <1>5, <1>7, <2>1, <3>1, <3>2 DEF PlanOK
  <2>2. CASE v # w
    <3>1. PlanOK(v, l)
      BY DEF IInv
    <3>2. Explained(plan[v], l)' <=> Explained(plan[v], l)
      BY <1>4, <2>2 DEF Explained, Balanced, AddsUp, Whole, Moves, Rows
    <3>3. Rows(plan[v], l)' = Rows(plan[v], l) /\ Moves(plan[v], l)' = Moves(plan[v], l)
      BY <1>4, <2>2 DEF Rows, Moves
    <3>4. Blocked(v, l)' <=> Blocked(v, l)
      BY <1>6, <3>3 DEF Blocked
    <3>5. QED
      BY <1>4, <1>5, <2>2, <3>1, <3>2, <3>3, <3>4 DEF PlanOK
  <2>3. QED
    BY <2>1, <2>2
\* w against somebody who is already there.
<1>9. ASSUME NEW v \in Matcher, NEW l \in Line, v # w, Rows(plan[v], l) # {},
             Rows(rows, l) # {}, l \notin withdrawn
      PROVE  Blocked(v, l)' \/ Moves(plan[v], l) \cap Moves(rows, l) # {}
  <2>1. PICK m \in Moves(plan[v], l) : TRUE
    BY <1>9 DEF Moves
  <2>2. m \in Move /\ Names(l, m)
    <3>1. PlanOK(v, l) /\ count[l] = 0
      BY <1>7, <1>9 DEF IInv
    <3>2. QED
      BY <1>9, <2>1, <3>1, PlannedMoves DEF PlanOK
  <2>3. CASE Taken(LineOf[l].source, m)
    <3>1. Moves(plan[v], l)' = Moves(plan[v], l)
      BY <1>4, <1>9 DEF Rows, Moves
    <3>2. QED
      BY <1>6, <2>1, <2>3, <3>1 DEF Blocked
  <2>4. CASE ~Taken(LineOf[l].source, m)
    BY <1>7, <1>9, <2>1, <2>2, <2>4
  <2>5. QED
    BY <2>3, <2>4
<1>10. ASSUME NEW u \in Matcher, NEW v \in Matcher, NEW l \in Line
       PROVE  RivalsOK(u, v, l)'
  <2>1. \A x \in Matcher : x # w =>
          /\ Rows(plan[x], l)' = Rows(plan[x], l)
          /\ Moves(plan[x], l)' = Moves(plan[x], l)
    BY <1>4 DEF Rows, Moves
  <2>2. Rows(plan[w], l)' = Rows(rows, l) /\ Moves(plan[w], l)' = Moves(rows, l)
    BY <1>3 DEF Rows, Moves
  <2>3. CASE u # w /\ v # w
    <3>1. RivalsOK(u, v, l)
      BY DEF IInv
    <3>2. (Blocked(u, l)' <=> Blocked(u, l)) /\ (Blocked(v, l)' <=> Blocked(v, l))
      BY <1>6, <2>1, <2>3 DEF Blocked
    <3>3. QED
      BY <2>1, <2>3, <3>1, <3>2 DEF RivalsOK
  <2>4. CASE u = w /\ v # w
    BY <1>9, <2>1, <2>2, <2>4 DEF RivalsOK
  <2>5. CASE u # w /\ v = w
    BY <1>9, <2>1, <2>2, <2>5 DEF RivalsOK
  <2>6. CASE u = w /\ v = w
    BY <2>6 DEF RivalsOK
  <2>7. QED
    BY <2>3, <2>4, <2>5, <2>6
<1>11. QED
  BY <1>1, <1>2, <1>8, <1>10 DEF IInv

\* What the insert of a statement makes of the lines.
Inserted(w) ==
  \A l \in Line :
    /\ Rows(plan[w], l) = {} =>
         /\ Rows(matches, l)' = Rows(matches, l) /\ Moves(matches, l)' = Moves(matches, l)
         /\ count'[l] = count[l]
    /\ Rows(plan[w], l) # {} => count'[l] = Cardinality(Moves(plan[w], l)) /\ count'[l] \in Nat \ {0}
    /\ Rows(plan[w], l) # {} /\ l \notin withdrawn =>
         /\ Rows(matches, l) = {} /\ count[l] = 0
         /\ Rows(matches, l)' = Rows(plan[w], l)
         /\ Moves(matches, l)' = Moves(plan[w], l)

\* Without a violation every planned line was free, if it is not withdrawn.
LEMMA InsertPairsFreeLines ==
  ASSUME IInv, NEW w \in Matcher, EndStatement(w), ~Conflicts(plan[w])
  PROVE  Inserted(w)
<1>1. plan[w] \in SUBSET Evidence
  BY DEF IInv, TypeOK
<1>2. /\ matches' = matches \cup plan[w]
      /\ count' = [l \in Line |-> IF \E x \in plan[w] : x.line = l
                                    THEN (CHOOSE x \in plan[w] : x.line = l).size
                                    ELSE count[l]]
  BY DEF EndStatement
<1>3. ASSUME NEW l \in Line, Rows(plan[w], l) = {}
      PROVE  /\ Rows(matches, l)' = Rows(matches, l) /\ Moves(matches, l)' = Moves(matches, l)
             /\ count'[l] = count[l]
  <2>1. ~\E x \in plan[w] : x.line = l
    BY <1>3 DEF Rows
  <2>2. Rows(matches, l)' = Rows(matches, l)
    BY <1>2, <2>1 DEF Rows
  <2>3. Moves(matches, l)' = Moves(matches, l)
    BY <2>2 DEF Moves
  <2>4. QED
    BY <1>2, <2>1, <2>2, <2>3
<1>4. ASSUME NEW l \in Line, Rows(plan[w], l) # {}
      PROVE  count'[l] = Cardinality(Moves(plan[w], l)) /\ count'[l] \in Nat \ {0}
  <2>1. Explained(plan[w], l)
    BY <1>4 DEF IInv, PlanOK
  <2>2. \E x \in plan[w] : x.line = l
    BY <1>4 DEF Rows
  <2>3. (CHOOSE x \in plan[w] : x.line = l) \in Rows(plan[w], l)
    BY <2>2 DEF Rows
  <2>4. QED
    BY <1>1, <1>2, <2>1, <2>2, <2>3, ExplainedRows
<1>5. ASSUME NEW l \in Line, Rows(plan[w], l) # {}, l \notin withdrawn
      PROVE  /\ Rows(matches, l) = {} /\ count[l] = 0
             /\ Rows(matches, l)' = Rows(plan[w], l)
             /\ Moves(matches, l)' = Moves(plan[w], l)
  <2>1. PlanOK(w, l) /\ MatchedOK(l)
    BY <1>5 DEF IInv
  <2>2. ~Blocked(w, l)
    BY <1>1 DEF Blocked, Conflicts, Moves, Rows
  <2>3. count[l] = 0
    BY <1>5, <2>1, <2>2 DEF PlanOK
  <2>4. Rows(matches, l) = {}
    <3>1. Rows(matches, l) # {} => Cardinality(Moves(matches, l)) \in Nat \ {0}
      BY <2>1, ExplainedRows DEF MatchedOK, IInv, TypeOK
    <3>2. QED
      BY <2>1, <2>3, <3>1 DEF MatchedOK
  <2>5. Rows(matches, l)' = Rows(plan[w], l)
    BY <1>2, <2>4 DEF Rows
  <2>6. Moves(matches, l)' = Moves(plan[w], l)
    BY <2>5 DEF Moves
  <2>7. QED
    BY <2>3, <2>4, <2>5, <2>6
<1>6. QED
  BY <1>3, <1>4, <1>5 DEF Inserted

\* The end of w's statement leaves the plans of the others alone.
LEMMA EndPlans ==
  ASSUME IInv, NEW w \in Matcher, EndStatement(w)
  PROVE  /\ plan'[w] = {} /\ plan' \in [Matcher -> SUBSET Evidence]
         /\ pc' \in [Matcher -> {"idle", "exact", "matched", "consolidated"}]
         /\ pc'[w] \in {"idle", "matched"}
         /\ \A v \in Matcher : v # w => plan'[v] = plan[v] /\ pc'[v] = pc[v]
<1>1. plan' = [plan EXCEPT ![w] = {}] /\ TypeOK /\ pc[w] \in {"exact", "consolidated"}
  BY DEF EndStatement, IInv
<1>2. \E x \in {"idle", "matched"} : pc' = [pc EXCEPT ![w] = x]
  BY DEF EndStatement
<1>3. QED
  BY <1>1, <1>2 DEF TypeOK

LEMMA EndKeeps ==
  ASSUME IInv, NEW w \in Matcher, EndStatement(w)
  PROVE  IInv'
<1>1. /\ plan'[w] = {} /\ plan' \in [Matcher -> SUBSET Evidence]
      /\ pc' \in [Matcher -> {"idle", "exact", "matched", "consolidated"}]
      /\ pc'[w] \in {"idle", "matched"}
      /\ \A v \in Matcher : v # w => plan'[v] = plan[v] /\ pc'[v] = pc[v]
  BY EndPlans
<1>2. staged' = staged /\ booked' = booked /\ tag' = tag /\ withdrawn' = withdrawn
  BY DEF EndStatement, intake, book
<1>3. \A l, m : Names(l, m)' <=> Names(l, m)
  BY <1>2 DEF Names, UnderReference
<1>4. /\ TypeOK'
      /\ UniqueOK' /\ \A l \in Line : l \notin withdrawn => MatchedOK(l)'
      /\ \A s, m : Taken(s, m) => Taken(s, m)'
      /\ \A l \in Line : count'[l] = 0 => count[l] = 0
      /\ \A v \in Matcher, l \in Line :
           l \notin withdrawn /\ v # w /\ Rows(plan[v], l) # {} /\ count'[l] # 0 =>
             \E m \in Moves(plan[v], l) : Taken(LineOf[l].source, m)'
  <2>1. CASE Conflicts(plan[w])
    <3>1. count' = count /\ matches' = matches
      BY <2>1 DEF EndStatement, evidence
    <3>2. TypeOK'
      BY <1>1, <1>2, <3>1 DEF IInv, TypeOK
    <3>3. UniqueOK' /\ \A l \in Line : l \notin withdrawn => MatchedOK(l)'
      BY <1>2, <3>1, MatchesKeep
    <3>4. \A s, m : Taken(s, m) => Taken(s, m)'
      BY <3>1 DEF Taken
    <3>5. QED
      BY <3>1, <3>2, <3>3, <3>4 DEF IInv, PlanOK, Blocked
  <2>2. CASE ~Conflicts(plan[w])
    <3>1. Inserted(w) /\ matches' = matches \cup plan[w]
      BY <2>2, InsertPairsFreeLines DEF EndStatement
    <3>2. plan[w] \in SUBSET Evidence /\ matches \in SUBSET Evidence
      BY DEF IInv, TypeOK
    <3>3. TypeOK'
      <4>1. count' = [l \in Line |-> count'[l]]
        BY <2>2 DEF EndStatement
      <4>2. ASSUME NEW l \in Line
            PROVE  count'[l] \in Nat
        <5>1. CASE Rows(plan[w], l) = {}
          BY <3>1, <5>1 DEF Inserted, IInv, TypeOK
        <5>2. CASE Rows(plan[w], l) # {}
          BY <3>1, <5>2 DEF Inserted
        <5>3. QED
          BY <5>1, <5>2
      <4>3. count' \in [Line -> Nat]
        BY <4>1, <4>2
      <4>4. QED
        BY <1>1, <1>2, <3>1, <3>2, <4>3 DEF IInv, TypeOK
    <3>4. UniqueOK'
      <4>1. UniqueOK
        BY DEF IInv
      <4>2. QED
        BY <2>2, <3>1, <4>1 DEF UniqueOK, Conflicts, Taken
    <3>5. ASSUME NEW l \in Line, l \notin withdrawn
          PROVE  MatchedOK(l)'
      <4>1. CASE Rows(plan[w], l) = {}
        <5>1. MatchedOK(l)
          BY <3>5 DEF IInv
        <5>2. /\ Rows(matches, l)' = Rows(matches, l) /\ Moves(matches, l)' = Moves(matches, l)
              /\ count'[l] = count[l]
          BY <3>1, <4>1 DEF Inserted
        <5>3. Explained(matches, l)' <=> Explained(matches, l)
          BY <5>2 DEF Explained, Balanced, AddsUp, Whole
        <5>4. QED
          BY <5>1, <5>2, <5>3 DEF MatchedOK
      <4>2. CASE Rows(plan[w], l) # {}
        <5>1. Explained(plan[w], l)
          BY <4>2 DEF IInv, PlanOK
        <5>2. /\ Rows(matches, l)' = Rows(plan[w], l)
              /\ Moves(matches, l)' = Moves(plan[w], l)
              /\ count'[l] = Cardinality(Moves(plan[w], l))
          BY <3>1, <3>5, <4>2 DEF Inserted
        <5>3. Explained(matches, l)'
          BY <5>1, <5>2 DEF Explained, Balanced, AddsUp, Whole
        <5>4. QED
          BY <4>2, <5>2, <5>3 DEF MatchedOK
      <4>3. QED
        BY <4>1, <4>2
    <3>6. \A s, m : Taken(s, m) => Taken(s, m)'
      BY <3>1 DEF Taken
    <3>7. ASSUME NEW v \in Matcher, NEW l \in Line, v # w, Rows(plan[v], l) # {},
                 count'[l] # 0, l \notin withdrawn
          PROVE  \E m \in Moves(plan[v], l) : Taken(LineOf[l].source, m)'
      <4>1. CASE Rows(plan[w], l) = {}
        <5>1. count[l] # 0
          BY <3>1, <3>7, <4>1 DEF Inserted
        <5>2. Blocked(v, l)
          BY <3>7, <5>1 DEF IInv, PlanOK
        <5>3. QED
          BY <3>6, <5>2 DEF Blocked
      <4>2. CASE Rows(plan[w], l) # {}
        <5>1. ~Blocked(w, l)
          BY <2>2, <3>2 DEF Blocked, Conflicts, Moves, Rows
        <5>2. Blocked(v, l) \/ Moves(plan[v], l) \cap Moves(plan[w], l) # {}
          BY <3>7, <4>2, <5>1 DEF IInv, RivalsOK
        <5>3. CASE Blocked(v, l)
          BY <3>6, <5>3 DEF Blocked
        <5>4. CASE Moves(plan[v], l) \cap Moves(plan[w], l) # {}
          <6>1. PICK m \in Moves(plan[v], l) : m \in Moves(plan[w], l)
            BY <5>4
          <6>2. PICK x \in plan[w] : x.line = l /\ x.move = m
            BY <6>1 DEF Moves, Rows
          <6>3. Taken(LineOf[l].source, m)'
            BY <3>1, <6>2 DEF Taken
          <6>4. QED
            BY <6>1, <6>3
        <5>5. QED
          BY <5>2, <5>3, <5>4
      <4>3. QED
        BY <4>1, <4>2
    <3>8. \A l \in Line : count'[l] = 0 => count[l] = 0
      BY <3>1 DEF Inserted
    <3>9. QED
      BY <3>3, <3>4, <3>5, <3>6, <3>7, <3>8
  <2>3. QED
    BY <2>1, <2>2
<1>5. \A v \in Matcher, l \in Line : v # w =>
        /\ Rows(plan[v], l)' = Rows(plan[v], l)
        /\ Moves(plan[v], l)' = Moves(plan[v], l)
  BY <1>1 DEF Rows, Moves
<1>6. \A l \in Line : Rows(plan[w], l)' = {}
  BY <1>1 DEF Rows
<1>7. \A v \in Matcher, l \in Line : v # w /\ Blocked(v, l) => Blocked(v, l)'
  BY <1>4, <1>5 DEF Blocked
<1>8. ASSUME NEW v \in Matcher, NEW l \in Line
      PROVE  PlanOK(v, l)'
  <2>1. CASE v = w
    BY <1>1, <1>6, <2>1 DEF PlanOK
  <2>2. CASE v # w
    <3>1. PlanOK(v, l)
      BY DEF IInv
    <3>2. Explained(plan[v], l)' <=> Explained(plan[v], l)
      BY <1>5, <2>2 DEF Explained, Balanced, AddsUp, Whole
    <3>3. l \notin withdrawn /\ Rows(plan[v], l) # {} /\ count'[l] # 0 => Blocked(v, l)'
      BY <1>4, <1>5, <2>2 DEF Blocked
    <3>4. QED
      BY <1>1, <1>2, <1>3, <1>4, <1>5, <2>2, <3>1, <3>2, <3>3 DEF PlanOK
  <2>3. QED
    BY <2>1, <2>2
<1>9. ASSUME NEW u \in Matcher, NEW v \in Matcher, NEW l \in Line
      PROVE  RivalsOK(u, v, l)'
  <2>1. CASE u = w \/ v = w
    BY <1>6, <2>1 DEF RivalsOK
  <2>2. CASE u # w /\ v # w
    <3>1. RivalsOK(u, v, l)
      BY DEF IInv
    <3>2. QED
      BY <1>2, <1>5, <1>7, <2>2, <3>1 DEF RivalsOK
  <2>3. QED
    BY <2>1, <2>2
<1>10. QED
  BY <1>2, <1>4, <1>8, <1>9 DEF IInv

LEMMA NextKeeps == IInv /\ [Next]_vars => IInv'
<1> SUFFICES ASSUME IInv, [Next]_vars PROVE IInv'
  OBVIOUS
<1>1. ASSUME NEW s \in Source, Register(s) \/ Pull(s) \/ Stage(s) \/ IngestFails(s)
      PROVE  IInv'
  <2>1. UNCHANGED <<evidence, book, passes>> /\ staged \subseteq staged'
    BY <1>1 DEF Register, Pull, Stage, IngestFails
  <2>2. QED
    BY <2>1, IntakeKeeps
<1>2. ASSUME NEW a \in Asset, RegisterAsset(a)
      PROVE  IInv'
  BY <1>2, IntakeKeeps DEF RegisterAsset
<1>3. ASSUME NEW t \in Tx, NEW r \in TagsOf[t] \cup {NoRef}, Book(t, r)
      PROVE  IInv'
  BY <1>3, BookKeeps
<1>4. ASSUME NEW t \in Tx, NEW r \in TagsOf[t], Tag(t, r)
      PROVE  IInv'
  BY <1>4, TagKeeps
<1>5. ASSUME NEW w \in Matcher, BeginExact(w)
      PROVE  IInv'
  <2>1. PICK picks \in Picks(Candidates) : plan' = [plan EXCEPT ![w] = Exact(picks)]
    BY <1>5 DEF BeginExact
  <2>2. PlannedFrom(Exact(picks), Candidates)
    BY <2>1, CandidatesType, PicksPlan
  <2>3. /\ pc' = [pc EXCEPT ![w] = "exact"]
        /\ UNCHANGED <<count, matches, staged, booked, tag, withdrawn>>
    BY <1>5 DEF BeginExact, evidence, intake, book
  <2>4. QED
    BY <2>1, <2>2, <2>3, BeginKeeps
<1>6. ASSUME NEW w \in Matcher, BeginConsolidated(w)
      PROVE  IInv'
  <2>1. PlannedFrom(Sets(Candidates), Candidates)
    BY CandidatesType, SetsPlan
  <2>2. /\ plan' = [plan EXCEPT ![w] = Sets(Candidates)]
        /\ pc' = [pc EXCEPT ![w] = "consolidated"]
        /\ UNCHANGED <<count, matches, staged, booked, tag, withdrawn>>
    BY <1>6 DEF BeginConsolidated, evidence, intake, book
  <2>3. QED
    BY <2>1, <2>2, BeginKeeps
<1>7. ASSUME NEW w \in Matcher, EndStatement(w)
      PROVE  IInv'
  BY <1>7, EndKeeps
<1>8. CASE UNCHANGED vars
  <2>1. UNCHANGED <<evidence, book, passes>> /\ staged \subseteq staged'
    BY <1>8 DEF vars, evidence, book, passes
  <2>2. QED
    BY <2>1, IntakeKeeps
<1>9. QED
  BY <1>1, <1>2, <1>3, <1>4, <1>5, <1>6, <1>7, <1>8 DEF Next, MatchStep

LEMMA AlwaysIInv == Spec => []IInv
  BY InitOK, NextKeeps, PTL DEF Spec

-----------------------------------------------------------------------------
(* The theorems.                                                           *)

\* The evidence of a line always explains itself, unless a reference was
\* replaced under a statement that was pairing it: matched_count and set_size
\* count its rows, and the recorded variance is what separates the line from
\* the movements it is paired with (matchExact, matchConsolidated).
THEOREM EvidenceAlwaysWhole == Spec => []MatchesAreWhole
<1>1. IInv => MatchesAreWhole
  <2> SUFFICES ASSUME IInv, NEW l \in Line, l \notin withdrawn
               PROVE  /\ count[l] = Cardinality(Rows(matches, l))
                      /\ \A x \in Rows(matches, l) : x.size = count[l]
                      /\ Rows(matches, l) # {} =>
                           \E v \in {x.variance : x \in Rows(matches, l)} :
                             /\ \A x \in Rows(matches, l) : x.variance = v
                             /\ Total(PairsOf(l)) + v = LineOf[l].amount
                             /\ Cardinality(Rows(matches, l)) > 1 => v = 0
    BY DEF MatchesAreWhole, WholeEvidence, Rows
  <2>1. MatchedOK(l) /\ matches \in SUBSET Evidence
    BY DEF IInv, TypeOK
  <2>2. CASE Rows(matches, l) = {}
    BY <2>1, <2>2, FS_EmptySet DEF MatchedOK
  <2>3. CASE Rows(matches, l) # {}
    <3>1. Explained(matches, l) /\ count[l] = Cardinality(Moves(matches, l))
      BY <2>1, <2>3 DEF MatchedOK
    <3>2. /\ Cardinality(Rows(matches, l)) = Cardinality(Moves(matches, l))
          /\ \A x \in Rows(matches, l) : x.size = Cardinality(Moves(matches, l))
      BY <2>1, <3>1, ExplainedRows
    <3>3. PICK v \in {x.variance : x \in Rows(matches, l)} :
            /\ Balanced(l, Moves(matches, l), v)
            /\ Rows(matches, l) = Whole(l, Moves(matches, l), v)
      BY <3>1 DEF Explained
    <3>4. \A x \in Rows(matches, l) : x.variance = v
      BY <3>3 DEF Whole, Match
    <3>5. PairsOf(l) = Moves(matches, l)
      BY DEF PairsOf, Moves, Rows
    <3>6. QED
      BY <3>1, <3>2, <3>3, <3>4, <3>5 DEF Balanced
  <2>4. QED
    BY <2>2, <2>3
<1>2. QED
  BY <1>1, AlwaysIInv, PTL

LEMMA PairsAreMoves == \A l : PairsOf(l) = Moves(matches, l)
  BY DEF PairsOf, Moves, Rows

\* A statement that passes the index pairs as the abstract matcher does.
LEMMA InsertIsAPair ==
  ASSUME IInv, NEW w \in Matcher, EndStatement(w), ~Conflicts(plan[w])
  PROVE  [Promised!Next]_(Promised!vars)
<1>1. Inserted(w) /\ UniqueOK' /\ TypeOK'
  BY InsertPairsFreeLines, EndKeeps DEF IInv
<1>2. /\ staged' = staged /\ booked' = booked /\ tag' = tag /\ withdrawn' = withdrawn
      /\ matches' = matches \cup plan[w]
  BY DEF EndStatement, intake, book
<1> DEFINE named == [l \in Line |-> IF l \in staged THEN {m \in Move : Names(l, m)} ELSE {}]
           pairs == [l \in Line |-> PairsOf(l)]
<1>3. named' = named
  BY <1>2 DEF Names, UnderReference
<1>4. ASSUME NEW l \in Line
      PROVE  /\ pairs[l] = Moves(matches, l)
             /\ pairs'[l] = Moves(matches, l)'
  BY PairsAreMoves DEF PairsOf, Moves, Rows
<1>5. ASSUME NEW l \in Line \ withdrawn, pairs'[l] # pairs[l]
      PROVE  /\ pairs[l] = {}
             /\ pairs'[l] \subseteq named[l]
             /\ (\E m, n \in pairs'[l] : m # n) => Total(pairs'[l]) = LineOf[l].amount
  <2>1. Rows(plan[w], l) # {}
    BY <1>1, <1>4, <1>5 DEF Inserted
  <2>2. Rows(matches, l) = {} /\ count[l] = 0 /\ Moves(matches, l)' = Moves(plan[w], l)
    BY <1>1, <2>1 DEF Inserted
  <2>3. /\ l \in staged /\ Explained(plan[w], l)
        /\ \A m \in Moves(plan[w], l) : Names(l, m)
    BY <2>1, <2>2 DEF IInv, PlanOK
  <2>4. Moves(plan[w], l) \in SUBSET Move
    BY DEF IInv, TypeOK, Moves, Rows, Evidence
  <2>5. PICK v : Balanced(l, Moves(plan[w], l), v)
    BY <2>3 DEF Explained
  <2>6. Cardinality(Moves(plan[w], l)) > 1 => Total(Moves(plan[w], l)) = LineOf[l].amount
    BY <2>5 DEF Balanced, AddsUp
  <2>7. (\E m, n \in Moves(plan[w], l) : m # n) => Cardinality(Moves(plan[w], l)) > 1
    <3>1. IsFiniteSet(Moves(plan[w], l))
      BY <2>4, ReconAssumption, FS_Subset
    <3>2. Cardinality(Moves(plan[w], l)) \in Nat \ {0}
      BY <2>3, ExplainedRows DEF IInv, TypeOK
    <3>3. Cardinality(Moves(plan[w], l)) = 1 => \E m : Moves(plan[w], l) = {m}
      BY <3>1, FS_Singleton
    <3>4. QED
      BY <3>2, <3>3
  <2>8. QED
    BY <1>4, <2>2, <2>3, <2>4, <2>6, <2>7 DEF Moves
<1>6. ASSUME NEW k \in Line, NEW l \in Line, k # l, LineOf[k].source = LineOf[l].source
      PROVE  pairs'[k] \cap pairs'[l] = {}
  <2>1. SUFFICES ASSUME NEW m, m \in Moves(matches, k)', m \in Moves(matches, l)'
                 PROVE  FALSE
    BY <1>4
  <2>2. PICK x \in matches' : x.line = k /\ x.move = m
    BY <2>1 DEF Moves, Rows
  <2>3. PICK y \in matches' : y.line = l /\ y.move = m
    BY <2>1 DEF Moves, Rows
  <2>4. x = y
    BY <1>1, <1>6, <2>2, <2>3 DEF UniqueOK
  <2>5. QED
    BY <1>6, <2>2, <2>3, <2>4
<1>7. CASE pairs' = pairs
  BY <1>2, <1>3, <1>7 DEF Promised!vars
<1>8. CASE pairs' # pairs
  <2>1. Promised!Pair
    <3>1. \A l \in Line \ withdrawn :
            pairs'[l] # pairs[l] => pairs[l] = {} /\ Promised!Pays(l, pairs'[l])
      <4>1. ASSUME NEW l \in Line
            PROVE  [k \in Line |-> LineOf[k].amount][l] = LineOf[l].amount
        OBVIOUS
      <4> HIDE DEF pairs
      <4>2. QED
        BY <1>5, <4>1 DEF Promised!Pays
    <3>2. \A k, l \in Line :
            k # l /\ [x \in Line |-> LineOf[x].source][k] = [x \in Line |-> LineOf[x].source][l]
              => pairs'[k] \cap pairs'[l] = {}
      <4> HIDE DEF pairs
      <4>1. QED
        BY <1>6
    <3>3. \A l \in Line : pairs[l] \subseteq pairs'[l]
      <4>1. ASSUME NEW l \in Line
            PROVE  Moves(matches, l) \subseteq Moves(matches, l)'
        BY <1>2 DEF Moves, Rows
      <4> HIDE DEF pairs
      <4>2. QED
        BY <1>4, <4>1
    <3>4. QED
      BY <1>2, <1>3, <1>8, <3>1, <3>2, <3>3 DEF Promised!Pair
  <2>2. QED
    BY <2>1 DEF Promised!Next
<1>9. QED
  BY <1>7, <1>8

\* Nothing else writes evidence, and evidence is withdrawn from unpaired
\* lines by a movement they no longer name.
LEMMA QuietIsPromised ==
  ASSUME matches' = matches, withdrawn \subseteq withdrawn',
         \A l \in withdrawn' \ withdrawn :
           /\ l \in Line /\ l \in staged /\ PairsOf(l) = {}
           /\ \E m \in Move : Names(l, m) /\ ~Names(l, m)'
  PROVE  [Promised!Next]_(Promised!vars)
<1> DEFINE named == [l \in Line |-> IF l \in staged THEN {m \in Move : Names(l, m)} ELSE {}]
           pairs == [l \in Line |-> PairsOf(l)]
<1>1. pairs' = pairs
  BY DEF PairsOf
<1>2. ASSUME NEW l \in withdrawn' \ withdrawn
      PROVE  l \in Line /\ pairs[l] = {} /\ named[l] \ named'[l] # {}
  <2>1. PICK m \in Move : Names(l, m) /\ ~Names(l, m)'
    OBVIOUS
  <2>2. l \in Line /\ l \in staged /\ PairsOf(l) = {}
    OBVIOUS
  <2>3. m \in named[l] /\ m \notin named'[l]
    BY <2>1, <2>2
  <2>4. QED
    BY <2>2, <2>3
<1>3. CASE named' = named
  <2>1. withdrawn' = withdrawn
    <3> HIDE DEF named, pairs
    <3>1. QED
      BY <1>2, <1>3
  <2>2. QED
    BY <1>1, <1>3, <2>1 DEF Promised!vars
<1>4. CASE named' # named
  <2>1. Promised!EvidenceChanges
    BY <1>1, <1>2, <1>4 DEF Promised!EvidenceChanges
  <2>2. QED
    BY <2>1 DEF Promised!Next
<1>5. QED
  BY <1>3, <1>4

\* The lines a replaced tag withdraws were unpaired and lose a movement.
LEMMA TagIsPromised ==
  ASSUME IInv, NEW t \in Tx, NEW r, Tag(t, r)
  PROVE  [Promised!Next]_(Promised!vars)
<1>1. /\ matches' = matches /\ tag' = [tag EXCEPT ![t] = r]
      /\ withdrawn' = withdrawn \cup {x.line : x \in {y \in Undermined(t, r) : count[y.line] = 0}}
  BY DEF Tag, evidence
<1>2. tag'[t] = r
  <2>1. tag = [u \in Tx |-> tag[u]]
    BY DEF IInv, TypeOK
  <2>2. QED
    BY <1>1, <2>1
<1>3. ASSUME NEW l \in withdrawn' \ withdrawn
      PROVE  /\ l \in Line /\ l \in staged /\ PairsOf(l) = {}
             /\ \E m \in Move : Names(l, m) /\ ~Names(l, m)'
  <2>1. PICK x \in Undermined(t, r) : count[x.line] = 0 /\ x.line = l
    BY <1>1
  <2>2. PICK w \in Matcher : x \in plan[w]
    BY DEF Undermined
  <2>3. x \in Evidence /\ l \in Line /\ x.move \in Move
    BY <2>1, <2>2 DEF IInv, TypeOK, Evidence
  <2>4. x.move \in Moves(plan[w], l) /\ Rows(plan[w], l) # {}
    BY <2>1, <2>2 DEF Moves, Rows
  <2>5. l \in staged /\ Names(l, x.move)
    BY <2>1, <2>3, <2>4 DEF IInv, PlanOK
  <2>6. Rows(matches, l) = {}
    <3>1. MatchedOK(l)
      BY <2>3 DEF IInv
    <3>2. Rows(matches, l) # {} => Cardinality(Moves(matches, l)) \in Nat \ {0}
      BY <2>3, <3>1, ExplainedRows DEF MatchedOK, IInv, TypeOK
    <3>3. QED
      BY <2>1, <3>1, <3>2 DEF MatchedOK
  <2>7. ~Names(l, x.move)'
    BY <1>2, <2>1 DEF Undermined, Names, UnderReference
  <2>8. PairsOf(l) = {}
    BY <2>6 DEF PairsOf, Rows
  <2>9. QED
    BY <2>3, <2>5, <2>7, <2>8
<1>4. withdrawn \subseteq withdrawn'
  BY <1>1
<1>5. QED
  BY <1>1, <1>3, <1>4, QuietIsPromised

\* Overlapping passes over a book that grows and is tagged at any time pair
\* lines as the abstract matcher does, for any lines, movements and sources;
\* of a line whose reference is replaced while a statement pairs it only what
\* the unique index keeps is promised (matchExact, matchConsolidated,
\* recon_matches_one_per_source).
THEOREM ReconImplementsPairing == Spec => PairsAsPromised
<1>1. Init => Promised!Init
  BY DEF Init, Promised!Init, PairsOf
<1>2. IInv /\ [Next]_vars => [Promised!Next]_(Promised!vars)
  <2> SUFFICES ASSUME IInv, [Next]_vars
               PROVE  [Promised!Next]_(Promised!vars)
    OBVIOUS
  <2>1. ASSUME NEW w \in Matcher, EndStatement(w)
        PROVE  [Promised!Next]_(Promised!vars)
    <3>1. CASE Conflicts(plan[w])
      BY <2>1, <3>1, QuietIsPromised DEF EndStatement, evidence, book
    <3>2. CASE ~Conflicts(plan[w])
      BY <2>1, <3>2, InsertIsAPair
    <3>3. QED
      BY <3>1, <3>2
  <2>2. ASSUME NEW t \in Tx, NEW r, Tag(t, r)
        PROVE  [Promised!Next]_(Promised!vars)
    BY <2>2, TagIsPromised
  <2>3. CASE (\A w \in Matcher : ~EndStatement(w)) /\ \A t \in Tx : \A r \in TagsOf[t] : ~Tag(t, r)
    <3>1. matches' = matches /\ withdrawn' = withdrawn
      BY <2>3 DEF Next, MatchStep, vars, evidence, book, Register, Pull, Stage, IngestFails,
                  RegisterAsset, Book, BeginExact, BeginConsolidated
    <3>2. QED
      BY <3>1, QuietIsPromised
  <2>4. QED
    BY <2>1, <2>2, <2>3
<1>3. QED
  BY <1>1, <1>2, AlwaysIInv, PTL DEF Spec, PairsAsPromised, Promised!Spec
=============================================================================
