------------------------------ MODULE Pairing ------------------------------
(***************************************************************************)
(* What matching promises, without its statements, rules and counters.     *)
(*                                                                         *)
(* A statement line is paired once and for good, with movements that its   *)
(* own evidence names at that moment (reference, asset, direction), that   *)
(* no other line of its source is paired with, and that add up to it when  *)
(* there are several: "an unmatched line costs somebody five minutes, a    *)
(* falsely matched one costs a restatement".  Of a line whose evidence was *)
(* withdrawn before it was paired the matcher promises less: what it was   *)
(* paired with stays, and no other line of its source has it.              *)
(***************************************************************************)
CONSTANTS Line,
          SourceOf,     \* SourceOf[l]: the statement line l is from
          LineAmount,   \* LineAmount[l]: what l says moved
          Total(_)      \* Total(S): what the book says the movements in S moved

VARIABLES named,      \* named[l]: movements the evidence for l names now
          pairs,      \* pairs[l]: movements l is paired with
          withdrawn   \* lines that lost evidence while they were being paired

vars == <<named, pairs, withdrawn>>

Init ==
  /\ named = [l \in Line |-> {}]
  /\ pairs = [l \in Line |-> {}]
  /\ withdrawn = {}

\* A set of movements a line can be paired with.
Pays(l, S) ==
  /\ S \subseteq named[l]
  /\ (\E m, n \in S : m # n) => Total(S) = LineAmount[l]

\* Some unpaired lines are paired in one step, others are left as they are.
Pair ==
  /\ pairs' # pairs
  /\ \A l \in Line : pairs[l] \subseteq pairs'[l]
  /\ \A l \in Line \ withdrawn :
       pairs'[l] # pairs[l] => pairs[l] = {} /\ Pays(l, pairs'[l])
  /\ \A k, l \in Line :
       k # l /\ SourceOf[k] = SourceOf[l] => pairs'[k] \cap pairs'[l] = {}
  /\ UNCHANGED <<named, withdrawn>>

\* Lines arrive, movements are booked, transactions are tagged.  Evidence is
\* withdrawn only from unpaired lines, by taking a movement from them.
EvidenceChanges ==
  /\ named' # named
  /\ pairs' = pairs
  /\ withdrawn \subseteq withdrawn'
  /\ \A l \in withdrawn' \ withdrawn : pairs[l] = {} /\ named[l] \ named'[l] # {}

Next == Pair \/ EvidenceChanges

Spec == Init /\ [][Next]_vars
=============================================================================
