------------------------------- MODULE Recon -------------------------------
(***************************************************************************)
(* recon/: statement lines are staged source by source and paired with     *)
(* movements of the book.                                                  *)
(*                                                                         *)
(* Ingest validates a file and then stages it line by line, each in a      *)
(* transaction of its own.  Match is three statements: exact,              *)
(* consolidated, classify.  A statement of a pass reads one snapshot when  *)
(* it begins and writes when it ends, so two passes overlap; the unique    *)
(* index on (source, move) is all that stands between them.  Meanwhile     *)
(* the ledger books transactions and their metadata is tagged.             *)
(***************************************************************************)
EXTENDS Naturals, Integers, Sequences, FiniteSets, FiniteSetsExt, SequencesExt

CONSTANTS
  Line,        \* staged lines, by identity
  LineOf,      \* LineOf[l]: source, record id, reference, asset, direction,
               \*   amount and whether Record.validate accepts it
  Move,        \* moves of the book, by sequence number
  MoveOf,      \* MoveOf[m]: transaction, asset, side, boundary, amount
  Tx, TxRef,   \* transactions and their own reference
  TagsOf,      \* TagsOf[t]: values t's external reference may be set to
  Feed,        \* Feed[s]: what Source.Fetch returns for source s, in order
  Asset, NoRef,
  Matcher,     \* processes that may be inside Match
  MaxFailures, \* bound: statements the database refuses
  MaxTags      \* bound: changes of giro/external.ref

Source == DOMAIN Feed

ASSUME ReconAssumption ==
  /\ LineOf \in [Line -> [source : Source, record : Nat, reference : STRING \cup {NoRef},
                          asset : Asset, direction : {"in", "out", "unknown"},
                          amount : Nat \ {0}, valid : BOOLEAN]]
  /\ MoveOf \in [Move -> [tx : Tx, asset : Asset, isSource : BOOLEAN,
                          boundary : BOOLEAN, amount : Nat \ {0}]]
  /\ IsFiniteSet(Move)
  /\ MaxFailures \in Nat /\ MaxTags \in Nat

VARIABLES
  sources,   \* recon_sources
  assets,    \* the asset registry
  staged,    \* recon_records: the lines that are in it
  count,     \* matched_count of each line
  matches,   \* recon_matches
  booked,    \* transactions committed to the ledger
  tag,       \* metadata giro/external.ref of each transaction
  feed,      \* feed[s]: what Ingest has left of the file; <<>> outside it
  pc,        \* pc[w]: where pass w is
  plan,      \* plan[w]: rows its open statement is about to insert
  withdrawn, \* history: unpaired lines that lost a movement an open statement
             \*   is about to pair them with
  failures, tags

vars == <<sources, assets, staged, count, matches, booked, tag, feed, pc, plan,
          withdrawn, failures, tags>>

book == <<booked, tag, tags, withdrawn>>
intake == <<sources, assets, staged, feed>>
evidence == <<count, matches>>
passes == <<pc, plan>>

Init ==
  /\ sources = {} /\ assets = {} /\ staged = {}
  /\ count = [l \in Line |-> 0]
  /\ matches = {}
  /\ booked = {}
  /\ tag = [t \in Tx |-> NoRef]
  /\ feed = [s \in Source |-> <<>>]
  /\ pc = [w \in Matcher |-> "idle"]
  /\ plan = [w \in Matcher |-> {}]
  /\ withdrawn = {}
  /\ failures = 0 /\ tags = 0

-----------------------------------------------------------------------------
(* Staging.                                                                *)

Register(s) ==
  /\ s \notin sources
  /\ sources' = sources \cup {s}
  /\ UNCHANGED <<assets, staged, feed, failures>>
  /\ UNCHANGED <<evidence, book, passes>>

RegisterAsset(a) ==
  /\ a \notin assets
  /\ assets' = assets \cup {a}
  /\ UNCHANGED <<sources, staged, feed, failures>>
  /\ UNCHANGED <<evidence, book, passes>>

Valid(file) == \A i \in DOMAIN file : LineOf[file[i]].valid

\* Pull: fetch, then Ingest looks at every line before it stages any.
Pull(s) ==
  /\ feed[s] = <<>>
  /\ Valid(Feed[s])
  /\ feed' = [feed EXCEPT ![s] = Feed[s]]
  /\ UNCHANGED <<sources, assets, staged, failures>>
  /\ UNCHANGED <<evidence, book, passes>>

\* The foreign keys of recon_records.
Known(l) == LineOf[l].source \in sources /\ LineOf[l].asset \in assets

\* Mutant: an insert without "on conflict do nothing".
StageableOnce(l) == Known(l) /\ l \notin staged

\* An insert succeeds on a line that is there already, and changes nothing.
Stageable(l) == Known(l)

\* One line of Ingest: staged, or an error that ends it and leaves what came
\* before it staged.
Stage(s) ==
  /\ feed[s] # <<>>
  /\ LET l == Head(feed[s])
     IN  IF Stageable(l)
           THEN /\ staged' = staged \cup {l}
                /\ feed' = [feed EXCEPT ![s] = Tail(@)]
           ELSE feed' = [feed EXCEPT ![s] = <<>>] /\ staged' = staged
  /\ UNCHANGED <<sources, assets, failures>>
  /\ UNCHANGED <<evidence, book, passes>>

\* The connection, the process or the caller's patience ends in the middle.
IngestFails(s) ==
  /\ feed[s] # <<>>
  /\ failures < MaxFailures
  /\ failures' = failures + 1
  /\ feed' = [feed EXCEPT ![s] = <<>>]
  /\ UNCHANGED <<sources, assets, staged>>
  /\ UNCHANGED <<evidence, book, passes>>

-----------------------------------------------------------------------------
(* The book, as far as matching reads it.                                  *)

\* A transaction commits, with or without the external reference in the
\* metadata it is created with.
Book(t, r) ==
  /\ t \notin booked
  /\ booked' = booked \cup {t}
  /\ tag' = [tag EXCEPT ![t] = r]
  /\ UNCHANGED <<tags, withdrawn, failures>>
  /\ UNCHANGED <<intake, evidence, passes>>

-----------------------------------------------------------------------------
(* Matching.                                                               *)

\* The direction check: money arriving debits the boundary account.
DirectionAgrees(l, m) ==
  \/ LineOf[l].direction = "unknown"
  \/ LineOf[l].direction = "in" /\ MoveOf[m].isSource
  \/ LineOf[l].direction = "out" /\ ~MoveOf[m].isSource

UnderReference(r, m) ==
  /\ r # NoRef
  /\ MoveOf[m].tx \in booked
  /\ TxRef[MoveOf[m].tx] = r \/ tag[MoveOf[m].tx] = r

\* What the evidence of a line names, matched or not.
Names(l, m) ==
  /\ MoveOf[m].boundary
  /\ UnderReference(LineOf[l].reference, m)
  /\ MoveOf[m].asset = LineOf[l].asset
  /\ DirectionAgrees(l, m)

\* Rows of open statements on a transaction whose tag goes from what is read
\* now to r, and that no longer follow from the line's evidence.
Undermined(t, r) ==
  {x \in UNION {plan[w] : w \in Matcher} :
     /\ MoveOf[x.move].tx = t
     /\ LineOf[x.line].reference = tag[t]
     /\ LineOf[x.line].reference \notin {TxRef[t], r}}

\* SetTransactionMetadata and DeleteTransactionMetadataKey on the external
\* reference.  They lock the transaction's row, which matching only reads.
Tag(t, r) ==
  /\ t \in booked
  /\ tags < MaxTags
  /\ tags' = tags + 1
  /\ tag[t] # r
  /\ tag' = [tag EXCEPT ![t] = r]
  /\ withdrawn' = withdrawn \cup {x.line : x \in {y \in Undermined(t, r) : count[y.line] = 0}}
  /\ UNCHANGED <<booked, failures>>
  /\ UNCHANGED <<intake, evidence, passes>>

\* The unique index recon_matches_one_per_source.
Taken(s, m) == \E x \in matches : LineOf[x.line].source = s /\ x.move = m

\* The candidates join: for each line in the work queue, the movements it
\* could be paired with.
Candidates ==
  [l \in Line |->
     IF l \in staged /\ count[l] = 0
       THEN {m \in Move : Names(l, m) /\ ~Taken(LineOf[l].source, m)}
       ELSE {}]

Total(S) == LET amount(m) == MoveOf[m].amount IN MapThenSumSet(amount, S)

Match(l, m, variance, size) ==
  [line |-> l, move |-> m, variance |-> variance, size |-> size]

\* The lines with one candidate, each with it.
Lone(cand) == UNION {{l} \X cand[l] : l \in {k \in Line : Cardinality(cand[k]) = 1}}

\* distinct on (move_seq) ... order by move_seq, record_id: of the lines that
\* want a movement the first, whatever its source; record ids of two sources
\* may tie.
Picks(cand) ==
  {D \in SUBSET Lone(cand) :
     /\ \A x, y \in D : x[2] = y[2] => x = y
     /\ \A x \in Lone(cand) :
          \E y \in D : x[2] = y[2] /\ LineOf[y[1]].record <= LineOf[x[1]].record}

Exact(picks) ==
  {Match(x[1], x[2], LineOf[x[1]].amount - MoveOf[x[2]].amount, 1) : x \in picks}

\* Mutant: any set of several movements will do.
AddsUpAlways(l, S) == TRUE

\* The equality that tells a consolidated payment from a shared string.
AddsUp(l, S) == Total(S) = LineOf[l].amount

Sets(cand) ==
  UNION {{Match(l, m, 0, Cardinality(cand[l])) : m \in cand[l]} :
           l \in {k \in Line : Cardinality(cand[k]) > 1 /\ AddsUp(k, cand[k])}}

\* Mutant: no unique index, so overlapping statements both insert.
NeverConflicts(rows) == FALSE

\* Mutant: an index on (ledger, move_seq) without the source.
ConflictsAcrossSources(rows) ==
  \E x \in rows, y \in rows \cup matches : x # y /\ x.move = y.move

\* Two rows of one source on one movement.
Conflicts(rows) ==
  \/ \E x \in rows : Taken(LineOf[x.line].source, x.move)
  \/ \E x, y \in rows : /\ x # y
                        /\ x.move = y.move
                        /\ LineOf[x.line].source = LineOf[y.line].source

BeginExact(w) ==
  /\ pc[w] = "idle"
  /\ pc' = [pc EXCEPT ![w] = "exact"]
  /\ \E picks \in Picks(Candidates) : plan' = [plan EXCEPT ![w] = Exact(picks)]
  /\ UNCHANGED failures
  /\ UNCHANGED <<intake, evidence, book>>

BeginConsolidated(w) ==
  /\ pc[w] = "matched"
  /\ pc' = [pc EXCEPT ![w] = "consolidated"]
  /\ plan' = [plan EXCEPT ![w] = Sets(Candidates)]
  /\ UNCHANGED failures
  /\ UNCHANGED <<intake, evidence, book>>

\* The inserts and the update of matched_count, or the unique violation that
\* undoes the statement and ends the pass with an error.  What follows the
\* second statement, classify, only reads.
EndStatement(w) ==
  /\ pc[w] \in {"exact", "consolidated"}
  /\ plan' = [plan EXCEPT ![w] = {}]
  /\ IF Conflicts(plan[w])
       THEN UNCHANGED evidence /\ pc' = [pc EXCEPT ![w] = "idle"]
       ELSE /\ matches' = matches \cup plan[w]
            /\ count' = [l \in Line |->
                           IF \E x \in plan[w] : x.line = l
                             THEN (CHOOSE x \in plan[w] : x.line = l).size
                             ELSE count[l]]
            /\ pc' = [pc EXCEPT ![w] = IF @ = "exact" THEN "matched" ELSE "idle"]
  /\ UNCHANGED failures
  /\ UNCHANGED <<intake, book>>

MatchStep(w) == BeginExact(w) \/ BeginConsolidated(w) \/ EndStatement(w)

Next ==
  \/ \E s \in Source : Register(s) \/ Pull(s) \/ Stage(s) \/ IngestFails(s)
  \/ \E a \in Asset : RegisterAsset(a)
  \/ \E t \in Tx : \E r \in TagsOf[t] \cup {NoRef} : Book(t, r)
  \/ \E t \in Tx : \E r \in TagsOf[t] : Tag(t, r)
  \/ \E w \in Matcher : MatchStep(w)

\* Ingest and Match are run on a schedule, so a pull or a pass that ended is
\* made again; that sources, assets or transactions ever appear is not
\* promised.
Fairness ==
  /\ \A s \in Source : WF_vars(Pull(s) \/ Stage(s))
  /\ \A w \in Matcher : WF_vars(MatchStep(w))

Spec == Init /\ [][Next]_vars /\ Fairness

-----------------------------------------------------------------------------
(* Properties.                                                             *)

PairsOf(l) == {x.move : x \in {y \in matches : y.line = l}}

Promised ==
  INSTANCE Pairing WITH
    SourceOf <- [l \in Line |-> LineOf[l].source],
    LineAmount <- [l \in Line |-> LineOf[l].amount],
    named <- [l \in Line |-> IF l \in staged THEN {m \in Move : Names(l, m)} ELSE {}],
    pairs <- [l \in Line |-> PairsOf(l)]

\* Overlapping passes over a book and a statement that are still changing
\* pair lines as the abstract matcher does: never twice for a source, and a
\* line that keeps its evidence while it is being paired once, for good, on
\* evidence that holds when the pairing is written (matchExact,
\* matchConsolidated, the unique index).
PairsAsPromised == Promised!Spec

\* matched_count and set_size are the number of rows there are, the recorded
\* variance is what separates the two sides, a set of several has none, and
\* a line in the work queue has no row.
WholeEvidence(l) ==
  LET rows == {x \in matches : x.line = l}
  IN  /\ count[l] = Cardinality(rows)
      /\ \A x \in rows : x.size = count[l]
      /\ rows # {} =>
           \E v \in {x.variance : x \in rows} :
             /\ \A x \in rows : x.variance = v
             /\ Total(PairsOf(l)) + v = LineOf[l].amount
             /\ Cardinality(rows) > 1 => v = 0

\* The evidence of a line explains itself from any of its rows, however many
\* passes overlap, unless a reference it was being paired on was replaced
\* under an open statement (matchExact, matchConsolidated).
MatchesAreWhole == \A l \in Line \ withdrawn : WholeEvidence(l)

\* What the migration says of every line: matched_count counts the rows there
\* are, so that "a partial one is visible from any of them".  A reference
\* replaced between the snapshot and the insert of a pass breaks it.
EveryMatchIsWhole == \A l \in Line : WholeEvidence(l)

\* A line whose evidence singles out one movement does not wait for ever: it
\* is paired, or the movement goes to another line of its source, or a second
\* movement turns up, although other sources' lines go first and overlapping
\* passes fail at the index (matchExact run again, Match on a schedule).
LoneCandidateIsSettled ==
  \A l \in Line : (Cardinality(Candidates[l]) = 1) ~> (Cardinality(Candidates[l]) # 1)

\* A well-formed file is staged in full once its source and assets are
\* registered, whichever of its lines earlier attempts left behind (Ingest
\* retried, "safe to retry after a timeout that may or may not have landed").
FileArrives ==
  \A s \in Source :
    (Valid(Feed[s]) /\ \A i \in DOMAIN Feed[s] : Known(Feed[s][i]))
      ~> (Range(Feed[s]) \subseteq staged)
=============================================================================
