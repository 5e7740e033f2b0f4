------------------------------- MODULE Moves --------------------------------
(***************************************************************************)
(* The two histories of an account: storage/moves.go, storage/effective.go *)
(* and storage/statement.go.                                               *)
(*                                                                         *)
(* Every posting leaves two moves.  A move carries the account's volumes    *)
(* after it in insertion order (pcv, frozen) and in effective date order    *)
(* (pcev, rewritten when a transaction is backdated behind it).            *)
(*                                                                         *)
(* A session is one database transaction of the commit path, here only as  *)
(* far as the moves need it: the volume rows are locked in one step (Commit *)
(* takes them one by one), the effective volumes are read, the ledgers row  *)
(* is locked by the allocation, and the moves are inserted and shifted.    *)
(* Checks that refuse a transaction are a rollback.                        *)
(***************************************************************************)
EXTENDS Postings

CONSTANTS Session, NoSession,
          Date,          \* effective dates
          Request,       \* transactions to commit: sequences of items, resolved
          MaxRequests,   \* bound: transactions begun
          Statement,     \* the account whose statement is read
          Limit          \* the page size

Item == [postings : Seq(PlainPosting), date : Date]

ASSUME SessionAssumption == NoSession \notin Session
ASSUME DateAssumption == Date \subseteq Nat
ASSUME BoundAssumption == MaxRequests \in Nat /\ Limit \in Nat \ {0}
ASSUME RequestAssumption == \A q \in Request : q \in Seq(Item) /\ q # <<>>

VARIABLES
  moves,       \* the committed moves
  volumes,     \* accounts_volumes, committed
  nextSeq,     \* moves.seq, a bigserial: a rollback leaves a gap
  rowLock,     \* row -> the session that holds it
  chainLock,   \* the holder of the ledgers row
  pc, items,   \* session -> its next statement, and the items left to do
  ours,        \* session -> the moves it has inserted or shifted
  held,        \* session -> the volumes of its rows as it sees them
  effective,   \* session -> what effectiveVolumesAt returned
  walk,        \* a reader's statement: what it has been shown, whether all, and
               \* the moves that were there when it read the first page
  begun

vars == <<moves, volumes, nextSeq, rowLock, chainLock, pc, items, ours, held,
          effective, walk, begun>>
reader == <<walk>>

Volumes == [input : Nat, output : Nat]
NoVolumes == [input |-> 0, output |-> 0]
NoneHeld == [r \in Row |-> NoVolumes]

-----------------------------------------------------------------------------
\* The moves as session s sees them: its own versions over the committed ones.
Seen(s) == {m \in moves : \A n \in ours[s] : n.seq # m.seq} \cup ours[s]

\* Effective order: by date, and by arrival within a date.
Before(m, n) == m.date < n.date \/ (m.date = n.date /\ m.seq < n.seq)

\* Mutant: a move of the same date is taken to come after.
EffectiveVolumesStrict(ms, r, at) ==
  LET earlier == {m \in ms : m.row = r /\ m.date < at}
  IN  IF earlier = {} THEN NoVolumes
      ELSE (CHOOSE m \in earlier : \A n \in earlier \ {m} : Before(n, m)).pcev

\* effectiveVolumesAt, and GetBalancesAt: the snapshot on the latest move at or
\* before a date.
EffectiveVolumesAt(ms, r, at) ==
  LET earlier == {m \in ms : m.row = r /\ m.date <= at}
  IN  IF earlier = {} THEN NoVolumes
      ELSE (CHOOSE m \in earlier : \A n \in earlier \ {m} : Before(n, m)).pcev

\* The two sides of each posting, source first.
Sides(ps) ==
  [k \in 1..2 * Len(ps) |->
     LET p == ps[(k + 1) \div 2]
     IN  [row |-> IF k % 2 = 1 THEN SourceRow(p) ELSE DestinationRow(p),
          amount |-> p.amount, source |-> k % 2 = 1]]

\* apply
AddSide(v, side) ==
  IF side.source THEN [v EXCEPT !.output = @ + side.amount]
  ELSE [v EXCEPT !.input = @ + side.amount]

\* Mutant: the frozen snapshot is taken before the move.
QueueMoveEarly(acc, side) ==
  LET effectiveNow == [acc.effective EXCEPT ![side.row] = AddSide(@, side)]
  IN  [running |-> [acc.running EXCEPT ![side.row] = AddSide(@, side)],
       effective |-> effectiveNow,
       queued |-> Append(acc.queued,
                         [pcv |-> acc.running[side.row], pcev |-> effectiveNow[side.row]])]

\* One move: both running volumes take it, and it records both.
QueueMove(acc, side) ==
  LET running == [acc.running EXCEPT ![side.row] = AddSide(@, side)]
      effectiveNow == [acc.effective EXCEPT ![side.row] = AddSide(@, side)]
  IN  [running |-> running, effective |-> effectiveNow,
       queued |-> Append(acc.queued,
                         [pcv |-> running[side.row], pcev |-> effectiveNow[side.row]])]

\* queueMoves: the moves of one transaction, numbered as they are inserted.
QueueMoves(ps, at, before, effectiveBefore) ==
  LET sides == Sides(ps)
      done == FoldLeft(QueueMove,
                       [running |-> before, effective |-> effectiveBefore, queued |-> <<>>],
                       sides)
  IN  {[seq |-> nextSeq + k, row |-> sides[k].row, amount |-> sides[k].amount,
        source |-> sides[k].source, date |-> at,
        pcv |-> done.queued[k].pcv, pcev |-> done.queued[k].pcev]
         : k \in DOMAIN sides}

\* Mutant: a frozen snapshot is rewritten with the effective one.
ShiftedBoth(m, updates) ==
  [m EXCEPT !.pcv = AddDelta(@, updates[m.row]), !.pcev = AddDelta(@, updates[m.row])]

\* queueLaterEffectiveShift on one later move.
Shifted(m, updates) == [m EXCEPT !.pcev = AddDelta(@, updates[m.row])]

\* The moves a transaction lands behind.
Later(ms, ps, at) == {m \in ms : m.row \in RowsOf(ps) /\ m.date > at}

-----------------------------------------------------------------------------
Init ==
  /\ moves = {}
  /\ volumes = NoneHeld
  /\ nextSeq = 0
  /\ rowLock = [r \in Row |-> NoSession]
  /\ chainLock = NoSession
  /\ pc = [s \in Session |-> "idle"]
  /\ items = [s \in Session |-> <<>>]
  /\ ours = [s \in Session |-> {}]
  /\ held = [s \in Session |-> NoneHeld]
  /\ effective = [s \in Session |-> NoneHeld]
  /\ walk = [shown |-> <<>>, done |-> FALSE, opened |-> {}]
  /\ begun = 0

\* The rows of every item of a call.
RowsOfAll(q) == UNION {RowsOf(q[i].postings) : i \in DOMAIN q}

\* lockVolumes or lockBatch: every row the transaction touches.
Lock(s, q) ==
  /\ pc[s] = "idle"
  /\ begun < MaxRequests
  /\ \A r \in RowsOfAll(q) : rowLock[r] = NoSession
  /\ begun' = begun + 1
  /\ rowLock' = [r \in Row |-> IF r \in RowsOfAll(q) THEN s ELSE rowLock[r]]
  /\ held' = [held EXCEPT ![s] = volumes]
  /\ items' = [items EXCEPT ![s] = q]
  /\ pc' = [pc EXCEPT ![s] = "read"]
  /\ UNCHANGED <<moves, volumes, nextSeq, chainLock, ours, effective, reader>>

\* effectiveVolumesAt, before the ledgers row is locked.
ReadEffective(s) ==
  /\ pc[s] = "read"
  /\ LET it == Head(items[s])
     IN  effective' = [effective EXCEPT ![s] =
           [r \in Row |-> IF r \in RowsOf(it.postings)
                          THEN EffectiveVolumesAt(Seen(s), r, it.date) ELSE NoVolumes]]
  /\ pc' = [pc EXCEPT ![s] = "allocate"]
  /\ UNCHANGED <<moves, volumes, nextSeq, rowLock, chainLock, items, ours, held,
                 reader, begun>>

\* Mutant: ids are taken from a sequence, which locks nothing.
AllocateUnlocked(s) ==
  /\ pc[s] = "allocate"
  /\ pc' = [pc EXCEPT ![s] = "write"]
  /\ UNCHANGED <<moves, volumes, nextSeq, rowLock, chainLock, items, ours, held,
                 effective, reader, begun>>

\* allocate: the ledgers row, held until the end.
Allocate(s) ==
  /\ pc[s] = "allocate"
  /\ chainLock \in {NoSession, s}
  /\ chainLock' = s
  /\ pc' = [pc EXCEPT ![s] = "write"]
  /\ UNCHANGED <<moves, volumes, nextSeq, rowLock, items, ours, held, effective,
                 reader, begun>>

\* The moves of the item and the shift of the later ones, in one pipelined
\* batch; then the next item of the call, or COMMIT.
Write(s) ==
  /\ pc[s] = "write"
  /\ LET it == Head(items[s])
         updates == VolumeUpdates(it.postings)
         inserted == QueueMoves(it.postings, it.date, held[s], effective[s])
         shifted == {Shifted(m, updates) : m \in Later(Seen(s), it.postings, it.date)}
         untouched == {m \in ours[s] : \A n \in shifted : n.seq # m.seq}
     IN  /\ ours' = [ours EXCEPT ![s] = untouched \cup shifted \cup inserted]
         /\ held' = [held EXCEPT ![s] =
              [r \in Row |-> IF r \in RowsOf(it.postings) THEN AddDelta(@[r], updates[r])
                             ELSE @[r]]]
         /\ nextSeq' = nextSeq + 2 * Len(it.postings)
  /\ items' = [items EXCEPT ![s] = Tail(@)]
  /\ pc' = [pc EXCEPT ![s] = IF Len(items[s]) = 1 THEN "commit" ELSE "read"]
  /\ UNCHANGED <<moves, volumes, rowLock, chainLock, effective, reader, begun>>

Release(s) ==
  /\ rowLock' = [r \in Row |-> IF rowLock[r] = s THEN NoSession ELSE rowLock[r]]
  /\ chainLock' = IF chainLock = s THEN NoSession ELSE chainLock
  /\ ours' = [ours EXCEPT ![s] = {}]
  /\ held' = [held EXCEPT ![s] = NoneHeld]
  /\ effective' = [effective EXCEPT ![s] = NoneHeld]
  /\ items' = [items EXCEPT ![s] = <<>>]
  /\ pc' = [pc EXCEPT ![s] = "idle"]

CommitTx(s) ==
  /\ pc[s] = "commit"
  /\ moves' = Seen(s)
  /\ volumes' = [r \in Row |-> IF rowLock[r] = s THEN held[s][r] ELSE volumes[r]]
  /\ Release(s)
  /\ UNCHANGED <<nextSeq, reader, begun>>

\* A refusal, a failure or a crash.
Rollback(s) ==
  /\ pc[s] # "idle"
  /\ Release(s)
  /\ UNCHANGED <<moves, volumes, nextSeq, reader, begun>>

-----------------------------------------------------------------------------
\* The position after which the next page starts: (effective_date, seq).
PastCursor(m) == walk.shown = <<>> \/ Before(Last(walk.shown), m)

\* The moves of a set in effective order.
InOrder(ms) ==
  [k \in 1..Cardinality(ms) |->
     CHOOSE m \in ms : Cardinality({n \in ms : Before(n, m)}) = k - 1]

\* ListMoves: one page of the statement, oldest first in effective order.  A
\* page that is not full is the last.
ListMoves ==
  /\ ~walk.done
  /\ LET rest == {m \in moves : m.row[1] = Statement /\ PastCursor(m)}
         sorted == InOrder(rest)
         page == SubSeq(sorted, 1, IF Len(sorted) < Limit THEN Len(sorted) ELSE Limit)
     IN  walk' = [shown |-> walk.shown \o page, done |-> Len(sorted) <= Limit,
                  opened |-> IF walk.shown = <<>> THEN {m.seq : m \in rest}
                             ELSE walk.opened]
  /\ UNCHANGED <<moves, volumes, nextSeq, rowLock, chainLock, pc, items, ours, held,
                 effective, begun>>

Next ==
  \/ \E s \in Session : \/ \E q \in Request : Lock(s, q)
                        \/ ReadEffective(s) \/ Allocate(s) \/ Write(s)
                        \/ CommitTx(s) \/ Rollback(s)
  \/ ListMoves

Spec == Init /\ [][Next]_vars

-----------------------------------------------------------------------------
(* Properties.                                                             *)

TypeOK ==
  /\ volumes \in [Row -> Volumes]
  /\ nextSeq \in Nat
  /\ \A m \in moves : m.row \in Row /\ m.pcv \in Volumes /\ m.pcev \in Volumes
  /\ \A m, n \in moves : m.seq = n.seq => m = n
  /\ rowLock \in [Row -> Session \cup {NoSession}]
  /\ chainLock \in Session \cup {NoSession}
  /\ pc \in [Session -> {"idle", "read", "allocate", "write", "commit"}]

\* What a set of moves on one row adds up to.
Total(ms) ==
  LET amount == [m \in ms |-> m.amount]
  IN  [input |-> SumOver(amount, {m \in ms : ~m.source}),
       output |-> SumOver(amount, {m \in ms : m.source})]

OnRow(r) == {m \in moves : m.row = r}

\* What VerifyEffectiveVolumes looks for: every stored effective snapshot is the
\* replay of the row's moves up to it in effective order, whatever was backdated
\* behind it, by whom, in whatever order the transactions committed.
EffectiveIsReplay ==
  \A m \in moves :
    m.pcev = Total({n \in OnRow(m.row) : n = m \/ Before(n, m)})

\* The frozen snapshot is the replay in order of arrival, and the last of them
\* is the row of accounts_volumes.
FrozenIsReplay ==
  /\ \A m \in moves : m.pcv = Total({n \in OnRow(m.row) : n.seq <= m.seq})
  /\ \A r \in Row : volumes[r] = Total(OnRow(r))

\* What a move recorded never changes, and its effective snapshot changes only
\* when a move of an earlier date arrives on its row.
HistoryIsFrozen ==
  [][\A m \in moves :
       \E n \in moves' :
         /\ n = [m EXCEPT !.pcev = n.pcev]
         /\ n.pcev # m.pcev =>
              \E k \in moves' \ moves : k.row = m.row /\ k.date < m.date
                                        /\ \A j \in moves : j.seq # k.seq]_vars

\* A statement read page by page, while transactions commit between the pages,
\* shows no move twice and loses only moves that were backdated behind what it
\* had already shown: never one that was there when the walk began, and never one
\* that ties on the date, because sequence numbers become visible in order (the
\* ledgers row is locked when they are drawn).
StatementIsComplete ==
  /\ \A i, j \in DOMAIN walk.shown : i < j => Before(walk.shown[i], walk.shown[j])
  /\ walk.shown # <<>> =>
       \A m \in moves :
         /\ m.row[1] = Statement /\ Before(m, Last(walk.shown))
         /\ \A i \in DOMAIN walk.shown : walk.shown[i].seq # m.seq
         => m.date < Last(walk.shown).date /\ m.seq \notin walk.opened
  /\ walk.done => walk.opened \subseteq {walk.shown[i].seq : i \in DOMAIN walk.shown}
=============================================================================
