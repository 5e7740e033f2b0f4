---------------------------- MODULE MovesProofs ----------------------------
(***************************************************************************)
(* For any sessions, transactions and dates: what a move recorded never    *)
(* changes except for its effective snapshot, and a statement read page by *)
(* page loses nothing it should show.                                      *)
(*                                                                         *)
(* Both rest on the ledgers row.  Who inserts or shifts moves holds it, so *)
(* the committed moves stand still under it, its own moves are numbered    *)
(* past all of them, and numbers become visible in order.                  *)
(*                                                                         *)
(* The snapshots: each is the replay of the moves before it, in the order  *)
(* of insertion for the frozen one and of dates for the effective one.     *)
(* Queueing carries both on, and shifting the later moves by the delta of  *)
(* what went in before them is the replay with it.                         *)
(***************************************************************************)
EXTENDS Moves, PostingsProofs

\* A move is a record with these fields, numbered up to top.
MoveOK(m, top) ==
  /\ m = [seq |-> m.seq, row |-> m.row, amount |-> m.amount, source |-> m.source,
          date |-> m.date, pcv |-> m.pcv, pcev |-> m.pcev]
  /\ m.seq \in 1..top
  /\ m.date \in Nat

Numbered(ms) == \A m, n \in ms : m.seq = n.seq => m = n

\* A move that comes after all the committed ones.
Fresh(n) == \A m \in moves : m.seq < n.seq

\* A version of the committed move m: only its effective snapshot differs, and
\* only if ms holds a new move of an earlier date on its row.
Rewrites(n, m, ms) ==
  /\ n = [m EXCEPT !.pcev = n.pcev]
  /\ n.pcev # m.pcev =>
       \E k \in ms : Fresh(k) /\ k.row = m.row /\ k.date < m.date

\* What a session has inserted or shifted.
OursOK(ms) ==
  /\ \A n \in ms : MoveOK(n, nextSeq)
  /\ Numbered(ms)
  /\ \A n \in ms : Fresh(n) \/ \E m \in moves : n.seq = m.seq /\ Rewrites(n, m, ms)

\* Who writes holds the ledgers row, and has items left until COMMIT.
SessionOK(s) ==
  /\ OursOK(ours[s])
  /\ ours[s] # {} \/ pc[s] \in {"write", "commit"} => chainLock = s
  /\ pc[s] \in {"read", "allocate", "write"} => items[s] \in Seq(Item) /\ items[s] # <<>>
  /\ pc[s] = "idle" => ours[s] = {}

MovesOK ==
  /\ nextSeq \in Nat
  /\ DOMAIN pc = Session /\ DOMAIN ours = Session /\ DOMAIN items = Session
  /\ \A m \in moves : MoveOK(m, nextSeq)
  /\ Numbered(moves)
  /\ \A s \in Session : SessionOK(s)

-----------------------------------------------------------------------------
(* The moves of a transaction.                                             *)

\* Every row a transaction names gets a move, numbered past the last one drawn.
QueuedOK(new, ps, at) ==
  LET top == nextSeq + 2 * Len(ps)
  IN  /\ top \in Nat /\ nextSeq <= top
      /\ \A m \in new : MoveOK(m, top) /\ m.seq > nextSeq /\ m.date = at
      /\ Numbered(new)
      /\ \A r \in RowsOf(ps) : \E m \in new : m.row = r

\* The moves a transaction queues are numbered and well formed.
LEMMA QueuedMoves ==
  ASSUME nextSeq \in Nat, NEW ps \in Seq(PlainPosting), NEW at \in Date, NEW b, NEW e
  PROVE  QueuedOK(QueueMoves(ps, at, b, e), ps, at)
<1> DEFINE sides == Sides(ps)
           new == QueueMoves(ps, at, b, e)
           top == nextSeq + 2 * Len(ps)
<1>1. Len(ps) \in Nat /\ DOMAIN ps = 1..Len(ps)
  BY LenProperties
<1>2. DOMAIN sides = 1..2 * Len(ps)
  BY DEF Sides
<1>3. top \in Nat /\ nextSeq <= top
  BY <1>1
<1>4. PICK pcv, pcev :
        new = {[seq |-> nextSeq + k, row |-> sides[k].row, amount |-> sides[k].amount,
                source |-> sides[k].source, date |-> at, pcv |-> pcv[k], pcev |-> pcev[k]]
                 : k \in 1..2 * Len(ps)}
  <2> DEFINE done == FoldLeft(QueueMove,
                       [running |-> b, effective |-> e, queued |-> <<>>], sides)
             pcv == [k \in 1..2 * Len(ps) |-> done.queued[k].pcv]
             pcev == [k \in 1..2 * Len(ps) |-> done.queued[k].pcev]
  <2>1. new = {[seq |-> nextSeq + k, row |-> sides[k].row, amount |-> sides[k].amount,
                source |-> sides[k].source, date |-> at,
                pcv |-> done.queued[k].pcv, pcev |-> done.queued[k].pcev]
                 : k \in DOMAIN sides}
    BY DEF QueueMoves
  <2> HIDE DEF done, sides, new
  <2>2. new = {[seq |-> nextSeq + k, row |-> sides[k].row, amount |-> sides[k].amount,
                source |-> sides[k].source, date |-> at, pcv |-> pcv[k], pcev |-> pcev[k]]
                 : k \in 1..2 * Len(ps)}
    BY <1>2, <2>1
  <2> QED
    BY <2>2
<1> DEFINE mv(k) == [seq |-> nextSeq + k, row |-> sides[k].row, amount |-> sides[k].amount,
                     source |-> sides[k].source, date |-> at, pcv |-> pcv[k], pcev |-> pcev[k]]
<1>5. at \in Nat
  BY DateAssumption
<1>6. ASSUME NEW k \in 1..2 * Len(ps)
      PROVE  MoveOK(mv(k), top) /\ mv(k).seq > nextSeq /\ mv(k).date = at
  <2>1. nextSeq + k \in 1..top /\ nextSeq + k > nextSeq
    BY <1>1
  <2> HIDE DEF sides
  <2> QED
    BY <1>5, <2>1 DEF MoveOK
<1>7. ASSUME NEW r \in RowsOf(ps) PROVE \E k \in 1..2 * Len(ps) : sides[k].row = r
  <2>1. PICK i \in 1..Len(ps) : r = SourceRow(ps[i]) \/ r = DestinationRow(ps[i])
    BY <1>1 DEF RowsOf
  <2>2. CASE r = SourceRow(ps[i])
    <3>1. 2 * i - 1 \in 1..2 * Len(ps) /\ (2 * i - 1) % 2 = 1 /\ ((2 * i - 1) + 1) \div 2 = i
      BY <1>1
    <3>2. sides[2 * i - 1].row = SourceRow(ps[i])
      BY <3>1 DEF Sides
    <3> QED
      BY <2>2, <3>1, <3>2
  <2>3. CASE r = DestinationRow(ps[i])
    <3>1. 2 * i \in 1..2 * Len(ps) /\ (2 * i) % 2 # 1 /\ (2 * i + 1) \div 2 = i
      BY <1>1
    <3>2. sides[2 * i].row = DestinationRow(ps[i])
      BY <3>1 DEF Sides
    <3> QED
      BY <2>3, <3>1, <3>2
  <2> QED
    BY <2>1, <2>2, <2>3
<1> HIDE DEF sides
<1>8. \A k \in 1..2 * Len(ps) : mv(k).row = sides[k].row /\ mv(k).seq = nextSeq + k
  OBVIOUS
<1> HIDE DEF mv
<1>9. new = {mv(k) : k \in 1..2 * Len(ps)}
  BY <1>4 DEF mv
<1> HIDE DEF new, top
<1>10. \A m \in new : MoveOK(m, top) /\ m.seq > nextSeq /\ m.date = at
  BY <1>6, <1>9
<1>11. Numbered(new)
  BY <1>1, <1>8, <1>9 DEF Numbered
<1>12. \A r \in RowsOf(ps) : \E m \in new : m.row = r
  BY <1>7, <1>8, <1>9
<1> QED
  BY <1>3, <1>10, <1>11, <1>12 DEF new, top, QueuedOK

-----------------------------------------------------------------------------
(* What a session sees.                                                    *)

\* One version of each move.
LEMMA SeenNumbered ==
  ASSUME MovesOK, NEW s \in Session
  PROVE  /\ \A m \in Seen(s) : MoveOK(m, nextSeq)
         /\ Numbered(Seen(s))
BY DEF MovesOK, SessionOK, OursOK, Seen, Numbered

\* A shift changes the effective snapshot and nothing else.
LEMMA ShiftedFields ==
  ASSUME NEW m, NEW top, MoveOK(m, top), NEW updates
  PROVE  LET x == Shifted(m, updates)
         IN  /\ x = [m EXCEPT !.pcev = x.pcev]
             /\ x.seq = m.seq /\ x.row = m.row /\ x.date = m.date
             /\ MoveOK(x, top)
BY DEF Shifted, MoveOK

\* The moves of an item and the shift of the later ones.
LEMMA WriteKeepsOurs ==
  ASSUME MovesOK, NEW s \in Session, Write(s)
  PROVE  OursOK(ours[s])' /\ nextSeq' \in Nat /\ nextSeq' >= nextSeq
<1> DEFINE it == Head(items[s])
           updates == VolumeUpdates(it.postings)
           inserted == QueueMoves(it.postings, it.date, held[s], effective[s])
           later == Later(Seen(s), it.postings, it.date)
           shifted == {Shifted(m, updates) : m \in later}
           untouched == {m \in ours[s] : \A n \in shifted : n.seq # m.seq}
           new == untouched \cup shifted \cup inserted
<1>1. /\ ours'[s] = new /\ nextSeq' = nextSeq + 2 * Len(it.postings) /\ moves' = moves
      /\ pc[s] = "write" /\ nextSeq \in Nat
  BY DEF Write, MovesOK
<1>2. it.postings \in Seq(PlainPosting) /\ it.date \in Date
  <2>1. items[s] \in Seq(Item) /\ items[s] # <<>>
    BY <1>1 DEF MovesOK, SessionOK
  <2>2. it \in Item
    BY <2>1, HeadTailProperties
  <2> QED
    BY <2>2 DEF Item
<1>3. /\ nextSeq' \in Nat /\ nextSeq <= nextSeq'
      /\ \A m \in inserted : MoveOK(m, nextSeq') /\ m.seq > nextSeq /\ m.date = it.date
      /\ Numbered(inserted)
      /\ \A r \in RowsOf(it.postings) : \E m \in inserted : m.row = r
  <2>1. QueuedOK(inserted, it.postings, it.date)
    BY <1>1, <1>2, QueuedMoves
  <2> HIDE DEF it, inserted
  <2> QED
    BY <1>1, <2>1 DEF QueuedOK
<1>4. \A m \in later : /\ m \in Seen(s) /\ MoveOK(m, nextSeq)
                       /\ m.row \in RowsOf(it.postings) /\ m.date > it.date
  BY SeenNumbered DEF Later
<1>5. \A m \in later : LET x == Shifted(m, updates)
                       IN  /\ x = [m EXCEPT !.pcev = x.pcev]
                           /\ x.seq = m.seq /\ x.row = m.row /\ x.date = m.date
                           /\ MoveOK(x, nextSeq)
  BY <1>4, ShiftedFields
<1>6. \A m \in ours[s] : MoveOK(m, nextSeq)
  BY DEF MovesOK, SessionOK, OursOK
<1>7. \A m : MoveOK(m, nextSeq) => MoveOK(m, nextSeq') /\ m.seq <= nextSeq /\ m.seq \in Nat
  BY <1>1, <1>3 DEF MoveOK
<1>8. Numbered(shifted)
  <2> SUFFICES ASSUME NEW m \in later, NEW n \in later,
                      Shifted(m, updates).seq = Shifted(n, updates).seq
               PROVE  m = n
    BY DEF Numbered
  <2>1. m.seq = n.seq
    BY <1>5
  <2> QED
    BY <1>4, <2>1, SeenNumbered DEF Numbered
<1>9. Numbered(ours[s]) /\ \A n \in ours[s] :
        Fresh(n) \/ \E m \in moves : n.seq = m.seq /\ Rewrites(n, m, ours[s])
  BY DEF MovesOK, SessionOK, OursOK
<1>10. \A m \in moves : m.seq \in Nat /\ m.seq <= nextSeq
  BY <1>7 DEF MovesOK
<1>11. \A n \in inserted : Fresh(n)
  <2> SUFFICES ASSUME NEW n \in inserted, NEW m \in moves PROVE m.seq < n.seq
    BY DEF Fresh
  <2>1. n.seq \in Nat /\ n.seq > nextSeq
    BY <1>3 DEF MoveOK
  <2> QED
    BY <1>1, <1>10, <2>1
<1>12. \A m \in later : \E k \in new : Fresh(k) /\ k.row = m.row /\ k.date < m.date
  <2> SUFFICES ASSUME NEW m \in later
               PROVE  \E k \in new : Fresh(k) /\ k.row = m.row /\ k.date < m.date
    OBVIOUS
  <2>1. PICK k \in inserted : k.row = m.row
    BY <1>3, <1>4
  <2>2. k.date = it.date /\ m.date > it.date /\ m.date \in Nat /\ it.date \in Nat
    BY <1>2, <1>3, <1>4, DateAssumption DEF MoveOK
  <2> QED
    BY <1>11, <2>1, <2>2
<1> HIDE DEF it, updates, inserted, later
<1>13. \A m \in ours[s] : m \in untouched \/ \E x \in shifted : x.seq = m.seq
  OBVIOUS
<1>14. \A m, x : m \in ours[s] /\ x \in shifted /\ x.seq = m.seq =>
                   x.row = m.row /\ x.date = m.date
  <2> SUFFICES ASSUME NEW m \in ours[s], NEW n \in later, n.seq = m.seq
               PROVE  n.row = m.row /\ n.date = m.date
    BY <1>5
  <2>1. m \in Seen(s)
    BY DEF Seen
  <2> QED
    BY <1>4, <2>1, SeenNumbered DEF Numbered
<1>15. \A k \in ours[s] : Fresh(k) =>
         \E j \in new : Fresh(j) /\ j.row = k.row /\ j.date = k.date
  BY <1>13, <1>14 DEF Fresh
<1>16. Numbered(new)
  <2>1. \A m \in untouched \cup shifted : m.seq \in Nat /\ m.seq <= nextSeq
    BY <1>5, <1>6, <1>7
  <2>2. \A m \in inserted : m.seq \in Nat /\ m.seq > nextSeq
    BY <1>3 DEF MoveOK
  <2>3. Numbered(untouched \cup shifted)
    BY <1>8, <1>9 DEF Numbered
  <2> HIDE DEF untouched, shifted
  <2>4. \A m \in untouched \cup shifted, n \in inserted : m.seq # n.seq
    BY <1>1, <2>1, <2>2
  <2> QED
    BY <1>3, <2>3, <2>4 DEF Numbered
<1>17. \A m \in new : MoveOK(m, nextSeq')
  BY <1>3, <1>5, <1>6, <1>7
<1>18. ASSUME NEW x \in new
       PROVE  Fresh(x) \/ \E m \in moves : x.seq = m.seq /\ Rewrites(x, m, new)
  <2>1. CASE x \in inserted
    BY <1>11, <2>1
  <2>2. CASE x \in untouched
    <3>1. CASE Fresh(x)
      BY <3>1
    <3>2. CASE ~Fresh(x)
      <4>1. PICK m \in moves : x.seq = m.seq /\ Rewrites(x, m, ours[s])
        BY <1>9, <2>2, <3>2
      <4>2. x.pcev # m.pcev => \E k \in new : Fresh(k) /\ k.row = m.row /\ k.date < m.date
        BY <1>15, <4>1 DEF Rewrites
      <4> QED
        BY <4>1, <4>2 DEF Rewrites
    <3> QED
      BY <3>1, <3>2
  <2>3. CASE x \in shifted
    <3>1. PICK n \in later : x = Shifted(n, updates)
      BY <2>3
    <3>2. /\ x = [n EXCEPT !.pcev = x.pcev] /\ x.seq = n.seq /\ x.row = n.row
          /\ n \in Seen(s) /\ MoveOK(n, nextSeq)
      BY <1>4, <1>5, <3>1
    <3>3. \E k \in new : Fresh(k) /\ k.row = n.row /\ k.date < n.date
      BY <1>12
    <3>4. CASE n \in moves
      BY <3>2, <3>3, <3>4 DEF Rewrites
    <3>5. CASE n \in ours[s] /\ Fresh(n)
      BY <3>2, <3>5 DEF Fresh
    <3>6. CASE n \in ours[s] /\ ~Fresh(n)
      <4>1. PICK m \in moves : n.seq = m.seq /\ Rewrites(n, m, ours[s])
        BY <1>9, <3>6
      <4>2. MoveOK(m, nextSeq)
        BY DEF MovesOK
      <4>3. n = [m EXCEPT !.pcev = n.pcev]
        BY <4>1 DEF Rewrites
      <4>4. x = [m EXCEPT !.pcev = x.pcev] /\ n.row = m.row /\ n.date = m.date
        BY <3>2, <4>2, <4>3 DEF MoveOK
      <4> QED
        BY <3>2, <3>3, <4>1, <4>4 DEF Rewrites
    <3> QED
      BY <3>2, <3>4, <3>5, <3>6 DEF Seen
  <2> QED
    BY <2>1, <2>2, <2>3
<1> HIDE DEF untouched, shifted, new
<1>19. \A x : Fresh(x)' <=> Fresh(x)
  BY <1>1 DEF Fresh
<1>20. \A x \in ours'[s] : Fresh(x)' \/ \E m \in moves' : x.seq = m.seq /\ Rewrites(x, m, ours[s])'
  BY <1>1, <1>18, <1>19 DEF Rewrites
<1>21. OursOK(ours[s])'
  BY <1>1, <1>16, <1>17, <1>20 DEF OursOK, Numbered
<1> QED
  BY <1>1, <1>3, <1>21

-----------------------------------------------------------------------------
(* Every step keeps MovesOK.                                               *)

\* A move stays what it is when more numbers are drawn.
LEMMA MoveStaysOK ==
  ASSUME NEW m, NEW top \in Nat, NEW higher \in Nat, top <= higher, MoveOK(m, top)
  PROVE  MoveOK(m, higher)
BY DEF MoveOK

\* The sessions that do not step.
LEMMA SameSession ==
  ASSUME NEW u \in Session, SessionOK(u),
         pc'[u] = pc[u], ours'[u] = ours[u], items'[u] = items[u],
         chainLock = u => chainLock' = u,
         nextSeq \in Nat, nextSeq' \in Nat, nextSeq <= nextSeq',
         moves' = moves \/ ours[u] = {}
  PROVE  SessionOK(u)'
<1>1. CASE ours[u] = {}
  <2>1. OursOK(ours[u])'
    BY <1>1 DEF OursOK, Numbered
  <2> QED
    BY <2>1, <1>1 DEF SessionOK
<1>2. CASE moves' = moves
  <2>1. \A x : Fresh(x)' <=> Fresh(x)
    BY <1>2 DEF Fresh
  <2>2. \A x, m : Rewrites(x, m, ours[u]) => Rewrites(x, m, ours[u])'
    BY <2>1 DEF Rewrites
  <2>3. \A n \in ours[u] : MoveOK(n, nextSeq')
    BY MoveStaysOK DEF SessionOK, OursOK
  <2>4. Numbered(ours'[u])
    BY DEF SessionOK, OursOK
  <2>5. \A n \in ours'[u] : Fresh(n)' \/ \E m \in moves' : n.seq = m.seq /\ Rewrites(n, m, ours[u])'
    BY <1>2, <2>1, <2>2 DEF SessionOK, OursOK
  <2>6. OursOK(ours[u])'
    BY <2>3, <2>4, <2>5 DEF OursOK, Numbered
  <2> QED
    BY <2>6 DEF SessionOK
<1> QED
  BY <1>1, <1>2

\* A step that leaves moves, numbers and the moves of the sessions alone.
LEMMA QuietStepKeepsMoves ==
  ASSUME MovesOK, NEW s \in Session, UNCHANGED <<moves, nextSeq, ours>>,
         DOMAIN pc' = Session, DOMAIN items' = Session,
         \A u \in Session \ {s} : /\ pc'[u] = pc[u] /\ items'[u] = items[u]
                                  /\ chainLock = u => chainLock' = u,
         ours[s] # {} \/ pc'[s] \in {"write", "commit"} => chainLock' = s,
         pc'[s] \in {"read", "allocate", "write"} => items'[s] \in Seq(Item) /\ items'[s] # <<>>,
         pc'[s] # "idle"
  PROVE  MovesOK'
<1>1. nextSeq \in Nat /\ \A u \in Session : SessionOK(u)
  BY DEF MovesOK
<1>2. ASSUME NEW u \in Session PROVE SessionOK(u)'
  <2>1. CASE u # s
    BY <1>1, <2>1, SameSession
  <2>2. CASE u = s
    <3>1. OursOK(ours[s])'
      <4>1. OursOK(ours[s])
        BY <1>1 DEF SessionOK
      <4> QED
        BY <4>1 DEF OursOK, Fresh, Rewrites
    <3> QED
      BY <2>2, <3>1 DEF SessionOK
  <2> QED
    BY <2>1, <2>2
<1> QED
  BY <1>2 DEF MovesOK

\* Locking the rows of a call changes no move.
LEMMA LockKeepsMoves ==
  ASSUME MovesOK, NEW s \in Session, NEW q \in Request, Lock(s, q)
  PROVE  MovesOK'
<1>1. q \in Seq(Item) /\ q # <<>>
  BY RequestAssumption
<1>2. ours[s] = {} /\ DOMAIN pc = Session /\ DOMAIN items = Session
  BY DEF MovesOK, SessionOK, Lock
<1>3. /\ pc' = [pc EXCEPT ![s] = "read"] /\ items' = [items EXCEPT ![s] = q]
      /\ UNCHANGED <<moves, nextSeq, ours, chainLock>>
  BY DEF Lock
<1> QED
  BY <1>1, <1>2, <1>3, QuietStepKeepsMoves

\* Reading a page changes no move.
LEMMA ReadKeepsMoves ==
  ASSUME MovesOK, NEW s \in Session, ReadEffective(s)
  PROVE  MovesOK'
<1>1. /\ DOMAIN pc = Session /\ DOMAIN items = Session
      /\ ours[s] # {} => chainLock = s
      /\ pc[s] = "read" /\ items[s] \in Seq(Item) /\ items[s] # <<>>
  BY DEF MovesOK, SessionOK, ReadEffective
<1>2. /\ pc' = [pc EXCEPT ![s] = "allocate"]
      /\ UNCHANGED <<moves, nextSeq, ours, chainLock, items>>
  BY DEF ReadEffective
<1> QED
  BY <1>1, <1>2, QuietStepKeepsMoves

\* Taking the chain changes no move.
LEMMA AllocateKeepsMoves ==
  ASSUME MovesOK, NEW s \in Session, Allocate(s)
  PROVE  MovesOK'
<1>1. /\ DOMAIN pc = Session /\ DOMAIN items = Session
      /\ items[s] \in Seq(Item) /\ items[s] # <<>>
  BY DEF MovesOK, SessionOK, Allocate
<1>2. /\ pc' = [pc EXCEPT ![s] = "write"] /\ chainLock' = s
      /\ chainLock \in {NoSession, s}
      /\ UNCHANGED <<moves, nextSeq, ours, items>>
  BY DEF Allocate
<1>3. \A u \in Session \ {s} : chainLock # u
  BY <1>2, SessionAssumption
<1> QED
  BY <1>1, <1>2, <1>3, QuietStepKeepsMoves

\* Inserting a transaction's moves and shifting the later ones keeps them well formed.
LEMMA WriteKeepsMoves ==
  ASSUME MovesOK, NEW s \in Session, Write(s)
  PROVE  MovesOK'
<1>1. OursOK(ours[s])' /\ nextSeq' \in Nat /\ nextSeq <= nextSeq'
  BY WriteKeepsOurs DEF MovesOK
<1>2. /\ nextSeq \in Nat /\ DOMAIN pc = Session /\ DOMAIN items = Session
      /\ DOMAIN ours = Session
      /\ pc[s] = "write" /\ chainLock = s /\ items[s] \in Seq(Item) /\ items[s] # <<>>
      /\ \A u \in Session : SessionOK(u)
  BY DEF MovesOK, SessionOK, Write
<1>3. /\ pc' = [pc EXCEPT ![s] = IF Len(items[s]) = 1 THEN "commit" ELSE "read"]
      /\ items' = [items EXCEPT ![s] = Tail(@)]
      /\ DOMAIN ours' = DOMAIN ours /\ \A u \in Session \ {s} : ours'[u] = ours[u]
      /\ UNCHANGED <<moves, chainLock>>
  BY <1>2 DEF Write
<1>4. Len(items[s]) # 1 => Tail(items[s]) \in Seq(Item) /\ Tail(items[s]) # <<>>
  <2> DEFINE rest == Tail(items[s])
  <2>1. rest \in Seq(Item) /\ Len(rest) = Len(items[s]) - 1 /\ Len(items[s]) \in Nat
    BY <1>2, HeadTailProperties, LenProperties
  <2> HIDE DEF rest
  <2>2. rest = <<>> => Len(rest) = 0
    BY <2>1, EmptySeq
  <2> USE DEF rest
  <2> QED
    BY <2>1, <2>2
<1>5. ASSUME NEW u \in Session PROVE SessionOK(u)'
  <2>1. CASE u # s
    BY <1>1, <1>2, <1>3, <2>1, SameSession
  <2>2. CASE u = s
    BY <1>1, <1>2, <1>3, <1>4, <2>2 DEF SessionOK
  <2> QED
    BY <2>1, <2>2
<1>6. \A m \in moves' : MoveOK(m, nextSeq')
  BY <1>1, <1>2, <1>3, MoveStaysOK DEF MovesOK
<1>7. Numbered(moves')
  BY <1>3 DEF MovesOK
<1>8. DOMAIN pc' = Session /\ DOMAIN ours' = Session /\ DOMAIN items' = Session
  BY <1>2, <1>3
<1> QED
  BY <1>1, <1>5, <1>6, <1>7, <1>8 DEF MovesOK, Numbered

\* The end of a transaction, with or without its moves.
LEMMA EndKeepsMoves ==
  ASSUME MovesOK, NEW s \in Session, Release(s), nextSeq' = nextSeq,
         moves' = moves \/ (moves' = Seen(s) /\ chainLock = s)
  PROVE  MovesOK'
<1>1. /\ nextSeq \in Nat /\ DOMAIN pc = Session /\ DOMAIN items = Session
      /\ DOMAIN ours = Session /\ \A u \in Session : SessionOK(u)
  BY DEF MovesOK
<1>2. \A u \in Session \ {s} : /\ pc'[u] = pc[u] /\ items'[u] = items[u] /\ ours'[u] = ours[u]
                               /\ chainLock = u => chainLock' = u
  BY <1>1 DEF Release
<1>3. pc'[s] = "idle" /\ ours'[s] = {}
  BY <1>1 DEF Release
<1>4. ASSUME NEW u \in Session PROVE SessionOK(u)'
  <2>1. CASE u # s
    <3>1. moves' = moves \/ ours[u] = {}
      BY <1>1, <2>1 DEF SessionOK
    <3> QED
      BY <1>1, <1>2, <2>1, <3>1, SameSession
  <2>2. CASE u = s
    BY <1>3, <2>2 DEF SessionOK, OursOK, Numbered
  <2> QED
    BY <2>1, <2>2
<1>5. \A m \in moves' : MoveOK(m, nextSeq)
  BY SeenNumbered DEF MovesOK
<1>6. Numbered(moves')
  BY SeenNumbered DEF MovesOK
<1>7. DOMAIN pc' = Session /\ DOMAIN ours' = Session /\ DOMAIN items' = Session
  BY <1>1 DEF Release
<1> QED
  BY <1>1, <1>4, <1>5, <1>6, <1>7 DEF MovesOK, Numbered

\* There are no moves at the start.
LEMMA MovesOKInit ==
  ASSUME Init
  PROVE  MovesOK
BY DEF Init, MovesOK, SessionOK, OursOK, Numbered

\* Who commits holds the ledgers row.
LEMMA CommitHoldsChain ==
  ASSUME MovesOK, NEW s \in Session, CommitTx(s)
  PROVE  chainLock = s /\ moves' = Seen(s) /\ nextSeq' = nextSeq /\ Release(s) /\ walk' = walk
BY DEF MovesOK, SessionOK, CommitTx, reader

\* Every step keeps the moves well formed.
LEMMA StepKeepsMoves ==
  ASSUME MovesOK, [Next]_vars
  PROVE  MovesOK'
<1>1. ASSUME NEW s \in Session, NEW q \in Request, Lock(s, q) PROVE MovesOK'
  BY <1>1, LockKeepsMoves
<1>2. ASSUME NEW s \in Session, ReadEffective(s) PROVE MovesOK'
  BY <1>2, ReadKeepsMoves
<1>3. ASSUME NEW s \in Session, Allocate(s) PROVE MovesOK'
  BY <1>3, AllocateKeepsMoves
<1>4. ASSUME NEW s \in Session, Write(s) PROVE MovesOK'
  BY <1>4, WriteKeepsMoves
<1>5. ASSUME NEW s \in Session, CommitTx(s) PROVE MovesOK'
  BY <1>5, CommitHoldsChain, EndKeepsMoves
<1>6. ASSUME NEW s \in Session, Rollback(s) PROVE MovesOK'
  BY <1>6, EndKeepsMoves DEF Rollback
<1>7. ASSUME UNCHANGED <<moves, nextSeq, pc, ours, items, chainLock>> PROVE MovesOK'
  BY <1>7 DEF MovesOK, SessionOK, OursOK, Numbered, Fresh, Rewrites
<1>8. CASE ListMoves
  BY <1>7, <1>8 DEF ListMoves
<1>9. CASE UNCHANGED vars
  BY <1>7, <1>9 DEF vars
<1> QED
  BY <1>1, <1>2, <1>3, <1>4, <1>5, <1>6, <1>8, <1>9 DEF Next

\* The moves are well formed throughout.
LEMMA MovesAlwaysOK == Spec => []MovesOK
<1>1. Init => MovesOK
  BY MovesOKInit
<1>2. MovesOK /\ [Next]_vars => MovesOK'
  BY StepKeepsMoves
<1> QED
  BY <1>1, <1>2, PTL DEF Spec

-----------------------------------------------------------------------------
(* History is frozen.                                                      *)

MovesKept ==
  \A m \in moves :
    \E n \in moves' :
      /\ n = [m EXCEPT !.pcev = n.pcev]
      /\ n.pcev # m.pcev =>
           \E k \in moves' \ moves : k.row = m.row /\ k.date < m.date
                                     /\ \A j \in moves : j.seq # k.seq

\* Only COMMIT changes the committed moves.
LEMMA OnlyCommitsWriteMoves ==
  ASSUME [Next]_vars, moves' # moves
  PROVE  \E s \in Session : CommitTx(s)
BY DEF Next, vars, Lock, ReadEffective, Allocate, Write, Rollback, ListMoves

\* No step changes what a committed move recorded.
LEMMA StepKeepsHistory ==
  ASSUME MovesOK, [Next]_vars
  PROVE  MovesKept
<1>1. \A m \in moves : MoveOK(m, nextSeq)
  BY DEF MovesOK
<1>2. \A m \in moves : m = [m EXCEPT !.pcev = m.pcev]
  BY <1>1 DEF MoveOK
<1>3. CASE moves' = moves
  BY <1>2, <1>3 DEF MovesKept
<1>4. CASE moves' # moves
  <2>1. PICK s \in Session : CommitTx(s)
    BY <1>4, OnlyCommitsWriteMoves
  <2>2. moves' = Seen(s)
    BY <2>1, CommitHoldsChain
  <2>3. OursOK(ours[s])
    BY DEF MovesOK, SessionOK
  <2> SUFFICES ASSUME NEW m \in moves
               PROVE  \E n \in moves' :
                        /\ n = [m EXCEPT !.pcev = n.pcev]
                        /\ n.pcev # m.pcev =>
                             \E k \in moves' \ moves : k.row = m.row /\ k.date < m.date
                                                       /\ \A j \in moves : j.seq # k.seq
    BY DEF MovesKept
  <2>4. CASE \A n \in ours[s] : n.seq # m.seq
    <3>1. m \in moves'
      BY <2>2, <2>4 DEF Seen
    <3> QED
      BY <1>2, <3>1
  <2>5. CASE \E n \in ours[s] : n.seq = m.seq
    <3>1. PICK n \in ours[s] : n.seq = m.seq
      BY <2>5
    <3>2. n.seq \in Nat
      BY <2>3 DEF OursOK, MoveOK
    <3>3. ~Fresh(n)
      BY <3>1, <3>2 DEF Fresh
    <3>4. PICK o \in moves : n.seq = o.seq /\ Rewrites(n, o, ours[s])
      BY <2>3, <3>3 DEF OursOK
    <3>5. o = m
      BY <3>1, <3>4 DEF MovesOK, Numbered
    <3>6. n \in moves'
      BY <2>2 DEF Seen
    <3>7. ASSUME n.pcev # m.pcev
          PROVE  \E k \in moves' \ moves : k.row = m.row /\ k.date < m.date
                                           /\ \A j \in moves : j.seq # k.seq
      <4>1. PICK k \in ours[s] : Fresh(k) /\ k.row = m.row /\ k.date < m.date
        BY <3>4, <3>5, <3>7 DEF Rewrites
      <4>2. \A j \in moves : j.seq # k.seq
        <5>1. k.seq \in Nat
          BY <2>3 DEF OursOK, MoveOK
        <5> QED
          BY <1>1, <4>1, <5>1 DEF Fresh, MoveOK
      <4>3. k \in moves' \ moves
        BY <2>2, <4>2 DEF Seen
      <4> QED
        BY <4>1, <4>2, <4>3
    <3> QED
      BY <3>4, <3>5, <3>6, <3>7 DEF Rewrites
  <2> QED
    BY <2>4, <2>5
<1> QED
  BY <1>3, <1>4

\* queueMoves and queueLaterEffectiveShift: what a move recorded never changes,
\* and its effective snapshot changes only in the transaction that brings a move
\* of an earlier date to its row.
THEOREM HistoryAlwaysFrozen == Spec => HistoryIsFrozen
<1>1. MovesOK /\ [Next]_vars => [MovesKept]_vars
  BY StepKeepsHistory
<1>2. Spec => [][MovesKept]_vars
  BY <1>1, MovesAlwaysOK, PTL DEF Spec
<1> QED
  BY <1>2, PTL DEF HistoryIsFrozen, MovesKept

-----------------------------------------------------------------------------
(* A page is in order and whole.                                           *)

\* Moves with a date and a number of their own.
Placed(ms) == (\A m \in ms : m.seq \in Nat /\ m.date \in Nat) /\ Numbered(ms)

\* The sequence sq holds the moves ms in effective order.
SortedOK(sq, ms) ==
  /\ sq \in Seq(ms)
  /\ \A m \in ms : \E k \in 1..Len(sq) : sq[k] = m
  /\ \A i, j \in 1..Len(sq) : i < j => Before(sq[i], sq[j])

\* A move's rank among ms is the number of moves before it; ranks are distinct
\* and there are as many as moves.
LEMMA InOrderSorts ==
  ASSUME NEW ms, IsFiniteSet(ms), Placed(ms)
  PROVE  SortedOK(InOrder(ms), ms)
<1> DEFINE N == Cardinality(ms)
           below(m) == {n \in ms : Before(n, m)}
           rank == [m \in ms |-> Cardinality(below(m))]
           sq == InOrder(ms)
<1>1. \A m, n \in ms : m # n => Before(m, n) \/ Before(n, m)
  BY DEF Placed, Numbered, Before
<1>2. \A m \in ms : ~Before(m, m)
  BY DEF Placed, Before
<1>3. \A l, m, n \in ms : Before(l, m) /\ Before(m, n) => Before(l, n)
  BY DEF Placed, Before
<1> HIDE DEF below
<1>4. \A m \in ms : /\ below(m) \subseteq ms /\ m \notin below(m)
                    /\ \A n \in ms : n \in below(m) <=> Before(n, m)
  BY <1>2 DEF below
<1>5. N \in Nat
  BY FS_CardinalityType
<1>6. \A m \in ms : IsFiniteSet(below(m)) /\ Cardinality(below(m)) \in Nat
  BY <1>4, FS_Subset, FS_CardinalityType
<1>7. \A m \in ms : Cardinality(below(m)) < N
  <2> SUFFICES ASSUME NEW m \in ms PROVE Cardinality(below(m)) < N
    OBVIOUS
  <2>1. Cardinality(below(m)) <= N /\ (N = Cardinality(below(m)) => ms = below(m))
    BY <1>4, FS_Subset
  <2> QED
    BY <1>4, <1>5, <1>6, <2>1
<1>8. ASSUME NEW m \in ms, NEW n \in ms, Before(m, n) PROVE rank[m] < rank[n]
  <2>1. below(m) \subseteq below(n) /\ below(m) # below(n)
    BY <1>3, <1>4, <1>8
  <2>2. /\ Cardinality(below(m)) <= Cardinality(below(n))
        /\ Cardinality(below(n)) = Cardinality(below(m)) => below(n) = below(m)
    BY <1>6, <2>1, FS_Subset
  <2> QED
    BY <1>6, <2>1, <2>2
<1>9. rank \in [ms -> 0..N - 1]
  BY <1>5, <1>6, <1>7
<1> HIDE DEF rank, N
<1>10. \A m, n \in ms : rank[m] = rank[n] => m = n
  BY <1>1, <1>5, <1>8, <1>9
<1>11. rank \in Injection(ms, 0..N - 1)
  BY <1>9, <1>10 DEF Injection, IsInjective
<1>12. IsFiniteSet(0..N - 1) /\ Cardinality(0..N - 1) = N
  <2>1. /\ IsFiniteSet(0..N - 1)
        /\ Cardinality(0..N - 1) = IF 0 > N - 1 THEN 0 ELSE (N - 1) - 0 + 1
    BY <1>5, FS_Interval
  <2> QED
    BY <1>5, <2>1
<1>13. rank \in Surjection(ms, 0..N - 1)
  BY <1>11, <1>12, FS_Injection DEF N
<1>14. \A k \in 1..N : \E m \in ms : rank[m] = k - 1
  <2>1. \A i \in 0..N - 1 : \E m \in ms : rank[m] = i
    BY <1>13 DEF Surjection
  <2>2. \A k \in 1..N : k - 1 \in 0..N - 1
    BY <1>5
  <2> QED
    BY <2>1, <2>2
<1> DEFINE pick(k) == CHOOSE m \in ms : Cardinality({n \in ms : Before(n, m)}) = k - 1
<1>15. /\ sq = [k \in 1..N |-> pick(k)]
       /\ \A m \in ms : Cardinality({n \in ms : Before(n, m)}) = rank[m]
  BY DEF InOrder, N, rank, below
<1> HIDE DEF sq, pick
<1>16. \A k \in 1..N : sq[k] \in ms /\ rank[sq[k]] = k - 1
  <2> SUFFICES ASSUME NEW k \in 1..N PROVE sq[k] \in ms /\ rank[sq[k]] = k - 1
    OBVIOUS
  <2>1. \E m \in ms : Cardinality({n \in ms : Before(n, m)}) = k - 1
    BY <1>14, <1>15
  <2>2. pick(k) \in ms /\ Cardinality({n \in ms : Before(n, pick(k))}) = k - 1
    BY <2>1 DEF pick
  <2>3. sq[k] \in ms /\ Cardinality({n \in ms : Before(n, sq[k])}) = k - 1
    BY <1>15, <2>2
  <2> QED
    BY <1>15, <2>3
<1>17. sq \in Seq(ms) /\ Len(sq) = N
  <2>1. \A k \in 1..N : pick(k) \in ms
    BY <1>15, <1>16
  <2>2. sq \in [1..N -> ms]
    BY <1>15, <2>1
  <2>3. sq \in Seq(ms) /\ DOMAIN sq = 1..N
    BY <1>5, <2>2
  <2> QED
    BY <1>5, <2>3, LenProperties
<1>18. \A m \in ms : \E k \in 1..Len(sq) : sq[k] = m
  <2> SUFFICES ASSUME NEW m \in ms PROVE \E k \in 1..N : sq[k] = m
    BY <1>17
  <2>1. rank[m] + 1 \in 1..N /\ (rank[m] + 1) - 1 = rank[m]
    BY <1>5, <1>9
  <2> QED
    BY <1>10, <1>16, <2>1
<1>19. ASSUME NEW i \in 1..Len(sq), NEW j \in 1..Len(sq), i < j PROVE Before(sq[i], sq[j])
  <2>1. i \in 1..N /\ j \in 1..N /\ rank[sq[i]] < rank[sq[j]]
    BY <1>5, <1>16, <1>17, <1>19
  <2>2. rank[sq[i]] \in Nat /\ rank[sq[j]] \in Nat /\ sq[i] \in ms /\ sq[j] \in ms
    BY <1>5, <1>9, <1>16, <2>1
  <2>3. sq[i] # sq[j] /\ ~(rank[sq[j]] < rank[sq[i]])
    BY <2>1, <2>2
  <2> QED
    BY <1>1, <1>8, <2>2, <2>3
<1> QED
  BY <1>17, <1>18, <1>19 DEF SortedOK, sq

\* Numbers are drawn one by one, so the moves are finitely many.
LEMMA MovesAreFinite ==
  ASSUME MovesOK
  PROVE  IsFiniteSet(moves) /\ Placed(moves)
<1> DEFINE number == [m \in moves |-> m.seq]
<1>1. nextSeq \in Nat /\ \A m \in moves : m.seq \in 1..nextSeq /\ m.date \in Nat
  BY DEF MovesOK, MoveOK
<1>2. number \in Injection(moves, 1..nextSeq)
  BY <1>1 DEF Injection, IsInjective, MovesOK, Numbered
<1>3. IsFiniteSet(1..nextSeq)
  BY <1>1, FS_Interval
<1> HIDE DEF number
<1> QED
  BY <1>1, <1>2, <1>3, FS_Injection DEF Placed, MovesOK

-----------------------------------------------------------------------------
(* The statement.                                                          *)

SamePlace(m, n) == m.seq = n.seq /\ m.date = n.date /\ m.row = n.row

\* What a reader has been shown, and what was there when it began, is still
\* there, where it was.
WalkOK ==
  /\ \E S : walk.shown \in Seq(S)
  /\ \A i \in DOMAIN walk.shown : \E m \in moves : SamePlace(m, walk.shown[i])
  /\ \A x \in walk.opened : \E m \in moves : m.seq = x /\ m.row[1] = Statement
  /\ StatementIsComplete

\* COMMIT moves nothing, and what it adds comes after all that is there.
LEMMA CommitKeepsPlaces ==
  ASSUME MovesOK, NEW s \in Session, CommitTx(s)
  PROVE  /\ \A m \in moves : \E n \in moves' : SamePlace(m, n)
         /\ \A n \in moves' : Fresh(n) \/ \E m \in moves : SamePlace(m, n)
<1>1. \A m \in moves : MoveOK(m, nextSeq)
  BY DEF MovesOK
<1>2. \A m, n : MoveOK(m, nextSeq) /\ n = [m EXCEPT !.pcev = n.pcev] => SamePlace(m, n)
  BY DEF MoveOK, SamePlace
<1>3. \A m \in moves : \E n \in moves' : n = [m EXCEPT !.pcev = n.pcev]
  BY StepKeepsHistory DEF MovesKept, Next
<1>4. ASSUME NEW n \in moves' PROVE Fresh(n) \/ \E m \in moves : SamePlace(m, n)
  <2>1. n \in Seen(s)
    BY CommitHoldsChain
  <2>2. CASE n \in ours[s]
    BY <1>1, <1>2, <2>2 DEF MovesOK, SessionOK, OursOK, Rewrites
  <2>3. CASE n \in moves
    BY <2>3 DEF SamePlace
  <2> QED
    BY <2>1, <2>2, <2>3 DEF Seen
<1> QED
  BY <1>1, <1>2, <1>3, <1>4

\* A commit adds moves only past the ones a walk has seen.
LEMMA CommitKeepsWalk ==
  ASSUME MovesOK, WalkOK, NEW s \in Session, CommitTx(s)
  PROVE  WalkOK'
<1>1. walk' = walk
  BY CommitHoldsChain
<1>2. PICK S : walk.shown \in Seq(S)
  BY DEF WalkOK
<1>3. Len(walk.shown) \in Nat /\ DOMAIN walk.shown = 1..Len(walk.shown)
  BY <1>2, LenProperties
<1>4. /\ \A m \in moves : \E n \in moves' : SamePlace(m, n)
      /\ \A n \in moves' : Fresh(n) \/ \E m \in moves : SamePlace(m, n)
  BY CommitKeepsPlaces
<1>5. \A m \in moves : m.seq \in Nat /\ m.date \in Nat
  BY MovesAreFinite DEF Placed
<1>6. \A n \in moves' : n.seq \in Nat /\ n.date \in Nat
  BY StepKeepsMoves DEF Next, MovesOK, MoveOK
<1>7. \A i \in DOMAIN walk.shown : \E m \in moves' : SamePlace(m, walk.shown[i])
  BY <1>4 DEF WalkOK, SamePlace
<1>8. \A x \in walk.opened : \E m \in moves' : m.seq = x /\ m.row[1] = Statement
  BY <1>4 DEF WalkOK, SamePlace
<1>9. ASSUME walk.shown # <<>>, NEW n \in moves', n.row[1] = Statement,
             Before(n, Last(walk.shown)),
             \A i \in DOMAIN walk.shown : walk.shown[i].seq # n.seq
      PROVE  n.date < Last(walk.shown).date /\ n.seq \notin walk.opened
  <2> DEFINE last == Last(walk.shown)
  <2>1. CASE Fresh(n)
    <3>1. Len(walk.shown) \in DOMAIN walk.shown
      BY <1>2, <1>3, <1>9, EmptySeq
    <3>2. PICK m \in moves : SamePlace(m, last)
      BY <3>1 DEF WalkOK, Last
    <3> HIDE DEF last
    <3>3. m.seq < n.seq /\ m.seq = last.seq /\ m.date = last.date
      BY <2>1, <3>2 DEF Fresh, SamePlace
    <3>4. n.date < last.date
      BY <1>5, <1>6, <1>9, <3>3 DEF Before, last
    <3>5. n.seq \notin walk.opened
      BY <1>5, <1>6, <2>1 DEF WalkOK, Fresh
    <3> QED
      BY <3>4, <3>5 DEF last
  <2>2. CASE ~Fresh(n)
    <3>1. PICK m \in moves : SamePlace(m, n)
      BY <1>4, <2>2
    <3>2. m.row[1] = Statement /\ Before(m, last)
          /\ \A i \in DOMAIN walk.shown : walk.shown[i].seq # m.seq
      BY <1>9, <3>1 DEF SamePlace, Before
    <3>3. m.date < last.date /\ m.seq \notin walk.opened
      BY <1>9, <3>2 DEF WalkOK, StatementIsComplete
    <3> QED
      BY <3>1, <3>3 DEF SamePlace
  <2> QED
    BY <2>1, <2>2
<1>10. StatementIsComplete'
  <2>1. \A i, j \in DOMAIN walk'.shown : i < j => Before(walk'.shown[i], walk'.shown[j])
    BY <1>1 DEF WalkOK, StatementIsComplete
  <2>2. walk'.done => walk'.opened \subseteq {walk'.shown[i].seq : i \in DOMAIN walk'.shown}
    BY <1>1 DEF WalkOK, StatementIsComplete
  <2> QED
    BY <1>1, <1>9, <2>1, <2>2 DEF StatementIsComplete, Before, Last
<1> QED
  BY <1>1, <1>2, <1>7, <1>8, <1>10 DEF WalkOK, SamePlace

\* The next page goes on where the last one ended.
LEMMA PageKeepsWalk ==
  ASSUME MovesOK, WalkOK, ListMoves
  PROVE  WalkOK'
<1> DEFINE rest == {m \in moves : m.row[1] = Statement /\ PastCursor(m)}
           sorted == InOrder(rest)
           size == IF Len(sorted) < Limit THEN Len(sorted) ELSE Limit
           page == SubSeq(sorted, 1, size)
           shown == walk.shown
           new == walk.shown \o page
           last == Last(walk.shown)
<1>1. /\ moves' = moves
      /\ walk'.shown = new /\ walk'.done = (Len(sorted) <= Limit)
      /\ walk'.opened = IF shown = <<>> THEN {m.seq : m \in rest} ELSE walk.opened
  BY DEF ListMoves
<1>2. IsFiniteSet(moves) /\ Placed(moves)
  BY MovesAreFinite
<1>3. SortedOK(sorted, rest)
  <2>1. rest \in SUBSET moves
    OBVIOUS
  <2>2. IsFiniteSet(rest) /\ Placed(rest)
    BY <1>2, <2>1, FS_Subset DEF Placed, Numbered
  <2> HIDE DEF rest
  <2> QED
    BY <2>2, InOrderSorts
<1>4. /\ rest \subseteq moves
      /\ \A m \in moves : m.row[1] = Statement =>
           (m \in rest <=> shown = <<>> \/ Before(last, m))
      /\ \A m \in rest : m.row[1] = Statement
      /\ shown # <<>> => \A m \in rest : Before(last, m)
  BY DEF PastCursor
<1>5. \A m \in moves : m.seq \in Nat /\ m.date \in Nat
  BY <1>2 DEF Placed
<1> HIDE DEF rest, sorted
<1>6. /\ sorted \in Seq(rest) /\ Len(sorted) \in Nat
      /\ \A k \in 1..Len(sorted) : sorted[k] \in rest
      /\ \A m \in rest : \E k \in 1..Len(sorted) : sorted[k] = m
      /\ \A i, j \in 1..Len(sorted) : i < j => Before(sorted[i], sorted[j])
  BY <1>3, LenProperties, ElementOfSeq DEF SortedOK
<1>7. size \in Nat /\ size <= Len(sorted) /\ size <= Limit /\ Limit > 0
      /\ (size # Len(sorted) => size = Limit)
  BY <1>6, BoundAssumption
<1> HIDE DEF size
<1>8. page \in Seq(rest) /\ Len(page) = size /\ \A i \in 1..size : page[i] = sorted[i]
  <2>1. \A i \in 1..size : sorted[i] \in rest
    BY <1>6, <1>7
  <2>2. /\ SubSeq(sorted, 1, size) \in Seq(rest)
        /\ Len(SubSeq(sorted, 1, size)) = IF 1 <= size THEN size - 1 + 1 ELSE 0
        /\ \A i \in 1..size - 1 + 1 : SubSeq(sorted, 1, size)[i] = sorted[1 + i - 1]
    BY <1>7, <2>1, SubSeqProperties
  <2> QED
    BY <1>7, <2>2
<1> HIDE DEF page
<1>9. PICK S : shown \in Seq(S)
  BY DEF WalkOK
<1>10. Len(shown) \in Nat /\ DOMAIN shown = 1..Len(shown) /\ (shown = <<>> <=> Len(shown) = 0)
  BY <1>9, LenProperties, EmptySeq
<1>11. /\ new \in Seq(S \cup rest) /\ Len(new) = Len(shown) + size
       /\ \A i \in 1..Len(shown) + size :
            new[i] = IF i <= Len(shown) THEN shown[i] ELSE page[i - Len(shown)]
  <2>1. shown \in Seq(S \cup rest) /\ page \in Seq(S \cup rest)
    BY <1>8, <1>9
  <2> QED
    BY <1>8, <2>1, ConcatProperties
<1>12. DOMAIN new = 1..Len(shown) + size
  BY <1>11, LenProperties
<1>13. \A i \in 1..Len(shown) : i \in DOMAIN new /\ new[i] = shown[i]
  BY <1>7, <1>10, <1>11, <1>12
<1>14. \A i \in 1..size : /\ Len(shown) + i \in DOMAIN new
                          /\ new[Len(shown) + i] = sorted[i] /\ sorted[i] \in rest
  <2> SUFFICES ASSUME NEW i \in 1..size
               PROVE  /\ Len(shown) + i \in DOMAIN new
                      /\ new[Len(shown) + i] = sorted[i] /\ sorted[i] \in rest
    OBVIOUS
  <2>1. /\ Len(shown) + i \in 1..Len(shown) + size /\ ~(Len(shown) + i <= Len(shown))
        /\ (Len(shown) + i) - Len(shown) = i /\ i \in 1..Len(sorted)
    BY <1>6, <1>7, <1>10
  <2> HIDE DEF new, shown
  <2>2. new[Len(shown) + i] = page[i]
    BY <1>11, <2>1
  <2> QED
    BY <1>6, <1>8, <1>12, <2>1, <2>2
<1>15. \A i \in DOMAIN new : \/ i \in 1..Len(shown)
                             \/ i - Len(shown) \in 1..size /\ i = Len(shown) + (i - Len(shown))
  BY <1>7, <1>10, <1>12
<1>16. new # <<>> => Len(shown) + size \in DOMAIN new /\ Last(new) = new[Len(shown) + size]
  BY <1>7, <1>10, <1>11, <1>12, EmptySeq DEF Last
<1>17. shown # <<>> => Len(shown) \in 1..Len(shown) /\ last = shown[Len(shown)]
  BY <1>10 DEF Last
<1> HIDE DEF new, shown, last
\* What has been shown is placed.
<1>18. \A i \in 1..Len(shown) : /\ \E m \in moves : SamePlace(m, shown[i])
                                /\ shown[i].seq \in Nat /\ shown[i].date \in Nat
  BY <1>5, <1>10 DEF WalkOK, SamePlace, shown
<1>19. \A i \in DOMAIN new : /\ \E m \in moves : SamePlace(m, new[i])
                             /\ new[i].seq \in Nat /\ new[i].date \in Nat
  <2> SUFFICES ASSUME NEW i \in DOMAIN new
               PROVE  \E m \in moves : SamePlace(m, new[i])
    BY <1>5 DEF SamePlace
  <2>1. CASE i \in 1..Len(shown)
    BY <1>13, <1>18, <2>1
  <2>2. CASE i - Len(shown) \in 1..size /\ i = Len(shown) + (i - Len(shown))
    <3>1. new[i] \in moves
      BY <1>4, <1>14, <2>2
    <3> QED
      BY <3>1 DEF SamePlace
  <2> QED
    BY <1>15, <2>1, <2>2
\* It is in order.
<1>20. ASSUME NEW i \in DOMAIN new, NEW j \in DOMAIN new, i < j PROVE Before(new[i], new[j])
  <2>1. CASE j \in 1..Len(shown)
    <3>1. i \in 1..Len(shown)
      BY <1>10, <1>12, <1>20, <2>1
    <3> QED
      BY <1>10, <1>13, <1>20, <2>1, <3>1 DEF WalkOK, StatementIsComplete, shown
  <2>2. CASE i \in 1..Len(shown) /\ j - Len(shown) \in 1..size /\ j = Len(shown) + (j - Len(shown))
    <3>1. new[j] \in rest /\ new[i] = shown[i] /\ shown # <<>>
      BY <1>10, <1>13, <1>14, <2>2
    <3>2. Before(last, new[j])
      BY <1>4, <3>1
    <3>3. i = Len(shown) \/ (i < Len(shown) /\ Before(shown[i], last))
      BY <1>10, <1>17, <2>2, <3>1 DEF WalkOK, StatementIsComplete, shown
    <3>4. last.seq \in Nat /\ last.date \in Nat
      BY <1>17, <1>18, <3>1
    <3> QED
      BY <1>17, <1>19, <3>1, <3>2, <3>3, <3>4 DEF Before
  <2>3. CASE /\ i - Len(shown) \in 1..size /\ i = Len(shown) + (i - Len(shown))
             /\ j - Len(shown) \in 1..size /\ j = Len(shown) + (j - Len(shown))
    <3>1. i - Len(shown) < j - Len(shown)
      BY <1>10, <1>12, <1>20
    <3>2. i - Len(shown) \in 1..Len(sorted) /\ j - Len(shown) \in 1..Len(sorted)
      <4>1. 1..size \subseteq 1..Len(sorted)
        BY <1>6, <1>7
      <4> QED
        BY <2>3, <4>1
    <3>3. Before(sorted[i - Len(shown)], sorted[j - Len(shown)])
      BY <1>6, <3>1, <3>2
    <3> QED
      BY <1>14, <2>3, <3>3
  <2> QED
    BY <1>15, <2>1, <2>2, <2>3
\* A move of the page is shown; one that is not past the cursor was there before.
<1>21. ASSUME NEW m \in moves, m.row[1] = Statement, m \notin rest,
              \A i \in DOMAIN shown : shown[i].seq # m.seq
       PROVE  shown # <<>> /\ m.date < last.date /\ m.seq \notin walk.opened
  <2>1. shown # <<>> /\ ~Before(last, m)
    BY <1>4, <1>21
  <2>2. last.seq \in Nat /\ last.date \in Nat /\ last.seq # m.seq
    BY <1>10, <1>17, <1>18, <1>21, <2>1
  <2>3. Before(m, last)
    BY <1>5, <2>1, <2>2 DEF Before
  <2> QED
    BY <1>21, <2>1, <2>3 DEF WalkOK, StatementIsComplete, shown, last
<1>22. \A m \in moves : (\A i \in DOMAIN new : new[i].seq # m.seq) =>
         \A i \in DOMAIN shown : shown[i].seq # m.seq
  BY <1>10, <1>13
<1>23. ASSUME new # <<>>, NEW m \in moves, m.row[1] = Statement, Before(m, Last(new)),
              \A i \in DOMAIN new : new[i].seq # m.seq
       PROVE  m.date < Last(new).date /\ m.seq \notin walk'.opened
  <2>1. m \notin rest
    <3> SUFFICES ASSUME m \in rest PROVE FALSE
      OBVIOUS
    <3>1. PICK k \in 1..Len(sorted) : sorted[k] = m
      BY <1>6
    <3>2. k \notin 1..size
      BY <1>14, <1>23, <3>1
    <3>3. size \in 1..Len(sorted) /\ size < k
      BY <1>6, <1>7, <3>1, <3>2
    <3>4. Before(sorted[size], m)
      BY <1>6, <3>1, <3>3
    <3>5. Last(new) = sorted[size] /\ sorted[size] \in moves
      <4>1. size \in 1..size
        BY <1>7, <3>3
      <4> QED
        BY <1>4, <1>14, <1>16, <1>23, <4>1
    <3> QED
      BY <1>5, <1>23, <3>4, <3>5 DEF Before
  <2>2. shown # <<>> /\ m.date < last.date /\ m.seq \notin walk.opened
    BY <1>21, <1>22, <1>23, <2>1
  <2>3. last = new[Len(shown)] /\ Len(shown) \in DOMAIN new
    BY <1>13, <1>17, <2>2
  <2>4. size = 0 \/ Before(last, Last(new))
    BY <1>7, <1>10, <1>16, <1>20, <1>23, <2>3
  <2>5. last.date \in Nat /\ Last(new).date \in Nat
    BY <1>16, <1>19, <1>23, <2>3
  <2>6. size = 0 => Last(new) = last
    BY <1>10, <1>16, <1>23, <2>3
  <2>7. last.date <= Last(new).date
    BY <2>4, <2>5, <2>6 DEF Before
  <2> QED
    BY <1>1, <1>5, <2>2, <2>5, <2>7
\* The last page leaves nothing out that was there at the first.
<1>24. ASSUME Len(sorted) <= Limit, NEW x \in walk'.opened
       PROVE  \E i \in DOMAIN new : new[i].seq = x
  <2>1. size = Len(sorted)
    BY <1>6, <1>7, <1>24, BoundAssumption
  <2>2. \A m \in rest : \E i \in DOMAIN new : new[i] = m
    BY <1>6, <1>14, <2>1
  <2>3. PICK m \in moves : m.seq = x /\ m.row[1] = Statement
    BY <1>1, <1>4, <1>24 DEF WalkOK
  <2>4. CASE m \in rest
    BY <2>2, <2>3, <2>4
  <2>5. CASE m \notin rest
    <3> SUFFICES ASSUME \A i \in DOMAIN new : new[i].seq # m.seq PROVE FALSE
      BY <2>3
    <3>1. shown # <<>> /\ m.seq \notin walk.opened
      BY <1>21, <1>22, <2>3, <2>5
    <3> QED
      BY <1>1, <1>24, <2>3, <3>1
  <2> QED
    BY <2>4, <2>5
<1>25. \A x \in walk'.opened : \E m \in moves : m.seq = x /\ m.row[1] = Statement
  BY <1>1, <1>4 DEF WalkOK
<1>26. StatementIsComplete'
  <2>1. \A i, j \in DOMAIN walk'.shown : i < j => Before(walk'.shown[i], walk'.shown[j])
    BY <1>1, <1>20
  <2>2. walk'.done => walk'.opened \subseteq {walk'.shown[i].seq : i \in DOMAIN walk'.shown}
    BY <1>1, <1>24
  <2>3. walk'.shown # <<>> =>
          \A m \in moves' :
            /\ m.row[1] = Statement /\ Before(m, Last(walk'.shown))
            /\ \A i \in DOMAIN walk'.shown : walk'.shown[i].seq # m.seq
            => m.date < Last(walk'.shown).date /\ m.seq \notin walk'.opened
    BY <1>1, <1>23
  <2> QED
    BY <2>1, <2>2, <2>3 DEF StatementIsComplete, Before, Last
<1>27. \A i \in DOMAIN walk'.shown : \E m \in moves' : SamePlace(m, walk'.shown[i])
  BY <1>1, <1>19
<1> QED
  BY <1>1, <1>11, <1>25, <1>26, <1>27 DEF WalkOK, SamePlace

\* The invariant of a walk holds throughout.
LEMMA WalkAlwaysOK == Spec => []WalkOK
<1>1. Init => WalkOK
  BY DEF Init, WalkOK, StatementIsComplete
<1>2. ASSUME UNCHANGED <<moves, walk>>, WalkOK PROVE WalkOK'
  BY <1>2 DEF WalkOK, StatementIsComplete, SamePlace, Before, Last
<1>3. MovesOK /\ WalkOK /\ [Next]_vars => WalkOK'
  <2> SUFFICES ASSUME MovesOK, WalkOK, [Next]_vars PROVE WalkOK'
    OBVIOUS
  <2>1. CASE ListMoves
    BY <2>1, PageKeepsWalk
  <2>2. CASE \E s \in Session : CommitTx(s)
    BY <2>2, CommitKeepsWalk
  <2>3. CASE ~ListMoves /\ ~\E s \in Session : CommitTx(s)
    <3>1. UNCHANGED <<moves, walk>>
      BY <2>3 DEF Next, vars, Lock, ReadEffective, Allocate, Write, Rollback, reader
    <3> QED
      BY <1>2, <3>1
  <2> QED
    BY <2>1, <2>2, <2>3
<1> QED
  BY <1>1, <1>3, MovesAlwaysOK, PTL DEF Spec

\* ListMoves: a statement read page by page while transactions commit shows no
\* move twice, in effective order, and loses only moves backdated behind what it
\* had shown, never one that was there when it began.
THEOREM StatementAlwaysComplete == Spec => []StatementIsComplete
<1>1. WalkOK => StatementIsComplete
  BY DEF WalkOK
<1> QED
  BY <1>1, WalkAlwaysOK, PTL

-----------------------------------------------------------------------------
(* What moves add up to.                                                   *)

\* Finitely many moves of known amounts.
Counted(ms) ==
  /\ IsFiniteSet(ms)
  /\ \A m \in ms : m.amount \in Nat /\ m.source \in BOOLEAN

Ins(ms) == {m \in ms : ~m.source}
Outs(ms) == {m \in ms : m.source}
AmountOf(ms) == [m \in ms |-> m.amount]

\* Volumes, added side by side.
LEMMA AddingVolumes ==
  ASSUME NEW v \in Volumes, NEW d \in Volumes
  PROVE  /\ AddDelta(v, d) = [input |-> v.input + d.input, output |-> v.output + d.output]
         /\ AddDelta(v, d) \in Volumes
<1>1. /\ v = [input |-> v.input, output |-> v.output]
      /\ v.input \in Nat /\ v.output \in Nat /\ d.input \in Nat /\ d.output \in Nat
  BY DEF Volumes
<1>2. \A a, b \in Nat : [v EXCEPT !.input = a, !.output = b] = [input |-> a, output |-> b]
  <2> SUFFICES ASSUME NEW a \in Nat, NEW b \in Nat
               PROVE  [v EXCEPT !.input = a, !.output = b] = [input |-> a, output |-> b]
    OBVIOUS
  <2> DEFINE e == [v EXCEPT !.input = a, !.output = b]
  <2>1. e \in Volumes
    BY DEF Volumes
  <2>2. e.input = a /\ e.output = b
    BY DEF Volumes
  <2> HIDE DEF e
  <2>3. e = [input |-> e.input, output |-> e.output]
    BY <2>1 DEF Volumes
  <2> QED
    BY <2>2, <2>3 DEF e
<1>3. v.input + d.input \in Nat /\ v.output + d.output \in Nat
  BY <1>1
<1> QED
  BY <1>2, <1>3 DEF AddDelta, Volumes

\* A move adds its amount on its side.
LEMMA AddingSide ==
  ASSUME NEW v \in Volumes, NEW t, t.amount \in Nat, t.source \in BOOLEAN
  PROVE  /\ AddSide(v, t) =
              IF t.source THEN [input |-> v.input, output |-> v.output + t.amount]
              ELSE [input |-> v.input + t.amount, output |-> v.output]
         /\ AddSide(v, t) \in Volumes
<1>1. v = [input |-> v.input, output |-> v.output] /\ v.input \in Nat /\ v.output \in Nat
  BY DEF Volumes
<1>2. /\ \A a \in Nat : [v EXCEPT !.input = a] = [input |-> a, output |-> v.output]
      /\ \A a \in Nat : [v EXCEPT !.output = a] = [input |-> v.input, output |-> a]
  BY <1>1
<1>3. v.input + t.amount \in Nat /\ v.output + t.amount \in Nat
  BY <1>1
<1> QED
  BY <1>1, <1>2, <1>3 DEF AddSide, Volumes

\* One side of a total, with any weights that agree with the amounts.
LEMMA TotalIs ==
  ASSUME NEW ms, Counted(ms), NEW w, \A m \in ms : w[m] = m.amount
  PROVE  /\ Total(ms) = [input |-> SumOver(w, Ins(ms)), output |-> SumOver(w, Outs(ms))]
         /\ Total(ms) \in Volumes
         /\ IsFiniteSet(Ins(ms)) /\ IsFiniteSet(Outs(ms))
<1>1. /\ Ins(ms) \in SUBSET ms /\ Outs(ms) \in SUBSET ms
      /\ Total(ms) = [input |-> SumOver(AmountOf(ms), Ins(ms)),
                      output |-> SumOver(AmountOf(ms), Outs(ms))]
  BY DEF Total, Ins, Outs, AmountOf
<1>2. IsFiniteSet(Ins(ms)) /\ IsFiniteSet(Outs(ms))
  BY <1>1, FS_Subset DEF Counted
<1>3. \A m \in ms : AmountOf(ms)[m] = w[m] /\ w[m] \in Int /\ w[m] \in Nat
  BY DEF Counted, AmountOf
<1>4. SumOver(AmountOf(ms), Ins(ms)) = SumOver(w, Ins(ms)) /\ SumOver(w, Ins(ms)) \in Nat
  <2>1. \A m \in Ins(ms) : AmountOf(ms)[m] = w[m] /\ w[m] \in Int /\ w[m] \in Nat
    BY <1>1, <1>3
  <2> QED
    BY <1>2, <2>1, SumSame, SumNat
<1>5. SumOver(AmountOf(ms), Outs(ms)) = SumOver(w, Outs(ms)) /\ SumOver(w, Outs(ms)) \in Nat
  <2>1. \A m \in Outs(ms) : AmountOf(ms)[m] = w[m] /\ w[m] \in Int /\ w[m] \in Nat
    BY <1>1, <1>3
  <2> QED
    BY <1>2, <2>1, SumSame, SumNat
<1> QED
  BY <1>1, <1>2, <1>4, <1>5 DEF Volumes

\* Totals are volumes.
LEMMA TotalType ==
  ASSUME NEW ms, Counted(ms)
  PROVE  Total(ms) \in Volumes
<1>1. \A m \in ms : AmountOf(ms)[m] = m.amount
  BY DEF AmountOf
<1> QED
  BY <1>1, TotalIs

\* Nothing adds up to nothing.
LEMMA TotalEmpty == Total({}) = NoVolumes
<1>1. Total({}) = [input |-> SumOver(AmountOf({}), Ins({})),
                   output |-> SumOver(AmountOf({}), Outs({}))]
  BY DEF Total, Ins, Outs, AmountOf
<1>2. Ins({}) = {} /\ Outs({}) = {}
  BY DEF Ins, Outs
<1> QED
  BY <1>1, <1>2, SumEmpty DEF NoVolumes

\* Two sets with nothing in common.
LEMMA TotalUnion ==
  ASSUME NEW X, Counted(X), NEW Y, Counted(Y), X \cap Y = {}
  PROVE  Counted(X \cup Y) /\ Total(X \cup Y) = AddDelta(Total(X), Total(Y))
<1> DEFINE Z == X \cup Y
           w == AmountOf(Z)
<1>1. Counted(Z)
  <2>1. IsFiniteSet(Z)
    BY FS_Union DEF Counted
  <2> QED
    BY <2>1 DEF Counted
<1>2. \A m \in Z : w[m] = m.amount /\ w[m] \in Int
  BY <1>1 DEF AmountOf, Counted
<1>3. /\ Ins(Z) = Ins(X) \cup Ins(Y) /\ Ins(X) \cap Ins(Y) = {}
      /\ Outs(Z) = Outs(X) \cup Outs(Y) /\ Outs(X) \cap Outs(Y) = {}
      /\ Ins(Z) \in SUBSET Z /\ Outs(Z) \in SUBSET Z
  BY DEF Ins, Outs
<1>4. /\ \A m \in X : w[m] = m.amount
      /\ \A m \in Y : w[m] = m.amount
      /\ \A m \in Ins(X) \cup Ins(Y) : w[m] \in Int
      /\ \A m \in Outs(X) \cup Outs(Y) : w[m] \in Int
  BY <1>2, <1>3
<1> HIDE DEF w, Z
<1>5. /\ Total(X) = [input |-> SumOver(w, Ins(X)), output |-> SumOver(w, Outs(X))]
      /\ Total(X) \in Volumes /\ IsFiniteSet(Ins(X)) /\ IsFiniteSet(Outs(X))
  BY <1>4, TotalIs
<1>6. /\ Total(Y) = [input |-> SumOver(w, Ins(Y)), output |-> SumOver(w, Outs(Y))]
      /\ Total(Y) \in Volumes /\ IsFiniteSet(Ins(Y)) /\ IsFiniteSet(Outs(Y))
  BY <1>4, TotalIs
<1>7. Total(Z) = [input |-> SumOver(w, Ins(Z)), output |-> SumOver(w, Outs(Z))]
  BY <1>1, <1>2, TotalIs
<1>8. SumOver(w, Ins(Z)) = SumOver(w, Ins(X)) + SumOver(w, Ins(Y))
  BY <1>3, <1>4, <1>5, <1>6, SumUnion
<1>9. SumOver(w, Outs(Z)) = SumOver(w, Outs(X)) + SumOver(w, Outs(Y))
  BY <1>3, <1>4, <1>5, <1>6, SumUnion
<1>10. Total(Z) = AddDelta(Total(X), Total(Y))
  BY <1>5, <1>6, <1>7, <1>8, <1>9, AddingVolumes
<1> QED
  BY <1>1, <1>10 DEF Z

\* One more move.
LEMMA TotalAdd ==
  ASSUME NEW X, Counted(X), NEW t, t \notin X, t.amount \in Nat, t.source \in BOOLEAN
  PROVE  Counted(X \cup {t}) /\ Total(X \cup {t}) = AddSide(Total(X), t)
<1> DEFINE w == [m \in {t} |-> m.amount]
<1>1. Counted({t})
  BY FS_Singleton DEF Counted
<1>2. \A m \in {t} : w[m] = m.amount /\ w[m] \in Int
  OBVIOUS
<1>3. w[t] = t.amount /\ \A m \in {} \cup {t} : w[m] \in Int
  OBVIOUS
<1> HIDE DEF w
<1>4. Total({t}) = [input |-> SumOver(w, Ins({t})), output |-> SumOver(w, Outs({t}))]
  BY <1>1, <1>2, TotalIs
<1>5. SumOver(w, {t}) = t.amount /\ SumOver(w, {}) = 0
  <2>1. SumOver(w, {} \cup {t}) = w[t] + SumOver(w, {})
    BY <1>3, FS_EmptySet, SumAdd
  <2>2. {} \cup {t} = {t} /\ SumOver(w, {}) = 0
    BY SumEmpty
  <2>3. SumOver(w, {t}) = w[t] + 0
    BY <2>1, <2>2, Zenon
  <2> QED
    BY <1>3, <2>2, <2>3
<1>6. Total(X) \in Volumes
  BY TotalType
<1>7. Counted(X \cup {t}) /\ Total(X \cup {t}) = AddDelta(Total(X), Total({t}))
  BY <1>1, TotalUnion
<1>8. CASE t.source
  <2>1. Ins({t}) = {} /\ Outs({t}) = {t}
    BY <1>8 DEF Ins, Outs
  <2>2. Total({t}) = [input |-> 0, output |-> t.amount]
    BY <1>4, <1>5, <2>1
  <2>3. AddDelta(Total(X), Total({t})) = AddSide(Total(X), t)
    <3>1. Total({t}) \in Volumes
      BY <2>2 DEF Volumes
    <3>2. Total(X).input + 0 = Total(X).input /\ Total(X).output + 0 = Total(X).output
      BY <1>6 DEF Volumes
    <3> QED
      <4>1. AddDelta(Total(X), Total({t})) =
              [input |-> Total(X).input + Total({t}).input,
               output |-> Total(X).output + Total({t}).output]
        BY <1>6, <3>1, AddingVolumes
      <4>2. AddSide(Total(X), t) =
              IF t.source THEN [input |-> Total(X).input, output |-> Total(X).output + t.amount]
              ELSE [input |-> Total(X).input + t.amount, output |-> Total(X).output]
        BY <1>6, AddingSide
      <4> QED
        BY <1>8, <2>2, <3>2, <4>1, <4>2
  <2> QED
    BY <1>7, <2>3
<1>9. CASE ~t.source
  <2>1. Ins({t}) = {t} /\ Outs({t}) = {}
    BY <1>9 DEF Ins, Outs
  <2>2. Total({t}) = [input |-> t.amount, output |-> 0]
    BY <1>4, <1>5, <2>1
  <2>3. AddDelta(Total(X), Total({t})) = AddSide(Total(X), t)
    <3>1. Total({t}) \in Volumes
      BY <2>2 DEF Volumes
    <3>2. Total(X).input + 0 = Total(X).input /\ Total(X).output + 0 = Total(X).output
      BY <1>6 DEF Volumes
    <3> QED
      <4>1. AddDelta(Total(X), Total({t})) =
              [input |-> Total(X).input + Total({t}).input,
               output |-> Total(X).output + Total({t}).output]
        BY <1>6, <3>1, AddingVolumes
      <4>2. AddSide(Total(X), t) =
              IF t.source THEN [input |-> Total(X).input, output |-> Total(X).output + t.amount]
              ELSE [input |-> Total(X).input + t.amount, output |-> Total(X).output]
        BY <1>6, AddingSide
      <4> QED
        <5>1. Total({t}).input = t.amount /\ Total({t}).output = 0
          BY <2>2
        <5>2. AddSide(Total(X), t) =
                [input |-> Total(X).input + t.amount, output |-> Total(X).output]
          BY <1>9, <4>2, Zenon
        <5>3. AddDelta(Total(X), Total({t})) =
                [input |-> Total(X).input + t.amount, output |-> Total(X).output + 0]
          BY <4>1, <5>1, Zenon
        <5> QED
          BY <3>2, <5>2, <5>3
  <2> QED
    BY <1>7, <2>3
<1> QED
  BY <1>8, <1>9

\* A change that leaves side and amount alone.
LEMMA TotalImage ==
  ASSUME NEW S, Counted(S), NEW h,
         \A x, y \in S : h[x] = h[y] => x = y,
         \A x \in S : h[x].amount = x.amount /\ h[x].source = x.source
  PROVE  Counted({h[x] : x \in S}) /\ Total({h[x] : x \in S}) = Total(S)
<1> DEFINE I == {h[x] : x \in S}
           v == AmountOf(S)
           w == AmountOf(I)
<1>1. Counted(I)
  <2>1. IsFiniteSet(I)
    <3>1. IsFiniteSet(S)
      BY DEF Counted
    <3> DEFINE f == [x \in S |-> h[x]]
    <3>2. f \in Surjection(S, I)
      BY DEF Surjection
    <3> HIDE DEF f, I
    <3> QED
      BY <3>1, <3>2, FS_Surjection
  <2> QED
    BY <2>1 DEF Counted
<1>2. /\ \A x \in S : v[x] = x.amount /\ v[x] \in Int /\ w[h[x]] = v[x]
      /\ \A y \in I : w[y] = y.amount
  BY DEF AmountOf, Counted
<1>3. Ins(I) = {h[x] : x \in Ins(S)} /\ Outs(I) = {h[x] : x \in Outs(S)}
  BY DEF Ins, Outs
<1>4. Ins(S) \in SUBSET S /\ Outs(S) \in SUBSET S
  BY DEF Ins, Outs
<1> HIDE DEF v, w, I
<1>5. /\ Total(S) = [input |-> SumOver(v, Ins(S)), output |-> SumOver(v, Outs(S))]
      /\ IsFiniteSet(Ins(S)) /\ IsFiniteSet(Outs(S))
  BY <1>2, TotalIs
<1>6. Total(I) = [input |-> SumOver(w, Ins(I)), output |-> SumOver(w, Outs(I))]
  BY <1>1, <1>2, TotalIs
<1>7. SumOver(w, Ins(I)) = SumOver(v, Ins(S))
  <2>1. /\ \A x, y \in Ins(S) : h[x] = h[y] => x = y
        /\ \A x \in Ins(S) : v[x] \in Int /\ w[h[x]] = v[x]
    BY <1>2, <1>4
  <2>2. SumOver(w, {h[x] : x \in Ins(S)}) = SumOver(v, Ins(S))
    BY <1>5, <2>1, SumImage
  <2> QED
    BY <1>3, <2>2
<1>8. SumOver(w, Outs(I)) = SumOver(v, Outs(S))
  <2>1. /\ \A x, y \in Outs(S) : h[x] = h[y] => x = y
        /\ \A x \in Outs(S) : v[x] \in Int /\ w[h[x]] = v[x]
    BY <1>2, <1>4
  <2>2. SumOver(w, {h[x] : x \in Outs(S)}) = SumOver(v, Outs(S))
    BY <1>5, <2>1, SumImage
  <2> QED
    BY <1>3, <2>2
<1> QED
  BY <1>1, <1>5, <1>6, <1>7, <1>8 DEF I

-----------------------------------------------------------------------------
(* One row.                                                                *)

\* Both snapshots of every move of a row are replays of the row.
RowReplay(S) ==
  \A m \in S :
    /\ m.pcv = Total({n \in S : n.seq <= m.seq})
    /\ m.pcev = Total({n \in S : n = m \/ Before(n, m)})

\* The moves of one row, numbered up to top.
OneRow(S, top) ==
  /\ Counted(S) /\ Numbered(S)
  /\ \A m \in S : MoveOK(m, top)

\* What queueLaterEffectiveShift makes of a move when u lands at a date.
RowShift(m, at, u) == IF m.date > at THEN [m EXCEPT !.pcev = AddDelta(@, u)] ELSE m
RowShifts(T, at, u) == {RowShift(m, at, u) : m \in T}

\* The moves Q of a transaction dated at go on top of the row S: the frozen
\* snapshots continue the row, the effective ones what it held at that date.
GoesOn(Q, S, at) ==
  \A q \in Q :
    /\ q.pcv = AddDelta(Total(S), Total({n \in Q : n.seq <= q.seq}))
    /\ q.pcev = AddDelta(Total({m \in S : m.date <= at}), Total({n \in Q : n.seq <= q.seq}))

\* Part of what there was, shifted, with part of what is new.
LEMMA ShiftedTotal ==
  ASSUME NEW top \in Nat, NEW S, OneRow(S, top), NEW Q, Counted(Q), NEW at, NEW u,
         \A q \in Q : q.seq \in Nat /\ q.seq > top,
         NEW T \in SUBSET S, NEW R \in SUBSET Q
  PROVE  Total(RowShifts(T, at, u) \cup R) = AddDelta(Total(T), Total(R))
<1> DEFINE h == [m \in T |-> RowShift(m, at, u)]
           I == RowShifts(T, at, u)
<1>1. \A m \in T : /\ h[m].seq = m.seq /\ h[m].amount = m.amount /\ h[m].source = m.source
                   /\ m.seq \in Nat /\ m.seq <= top
  BY DEF OneRow, MoveOK, RowShift
<1>2. \A x, y \in T : h[x] = h[y] => x = y
  BY <1>1 DEF OneRow, Numbered
<1>3. I = {h[m] : m \in T}
  BY DEF RowShifts
<1>4. Counted(T) /\ Counted(R)
  BY FS_Subset DEF Counted, OneRow
<1> HIDE DEF h, I
<1>5. Counted(I) /\ Total(I) = Total(T)
  BY <1>1, <1>2, <1>3, <1>4, TotalImage
<1>6. I \cap R = {}
  BY <1>1, <1>3
<1>7. Total(I \cup R) = AddDelta(Total(I), Total(R))
  BY <1>4, <1>5, <1>6, TotalUnion
<1> QED
  BY <1>5, <1>7 DEF I

\* A transaction's moves and the shift it causes keep a row a replay.
LEMMA RowWritten ==
  ASSUME NEW top \in Nat, NEW S, OneRow(S, top), RowReplay(S),
         NEW at \in Nat, NEW Q, Counted(Q), Numbered(Q), GoesOn(Q, S, at),
         \A q \in Q : q.seq \in Nat /\ q.seq > top /\ q.date = at
  PROVE  LET N == RowShifts(S, at, Total(Q)) \cup Q
         IN  RowReplay(N) /\ Total(N) = AddDelta(Total(S), Total(Q))
<1> DEFINE u == Total(Q)
           h(m) == RowShift(m, at, u)
           img(T) == {RowShift(m, at, u) : m \in T}
           N == img(S) \cup Q
<1>1. \A m \in S : /\ h(m).seq = m.seq /\ h(m).date = m.date /\ h(m).pcv = m.pcv
                   /\ h(m).pcev = IF m.date > at THEN AddDelta(m.pcev, u) ELSE m.pcev
                   /\ m.seq \in Nat /\ m.seq <= top /\ m.date \in Nat
  <2> SUFFICES ASSUME NEW m \in S
               PROVE  /\ h(m).seq = m.seq /\ h(m).date = m.date /\ h(m).pcv = m.pcv
                      /\ h(m).pcev = IF m.date > at THEN AddDelta(m.pcev, u) ELSE m.pcev
                      /\ m.seq \in Nat /\ m.seq <= top /\ m.date \in Nat
    OBVIOUS
  <2>1. MoveOK(m, top)
    BY DEF OneRow
  <2> HIDE DEF u
  <2> QED
    BY <2>1 DEF MoveOK, RowShift
<1>2. \A T \in SUBSET S : \A R \in SUBSET Q :
        Total(img(T) \cup R) = AddDelta(Total(T), Total(R))
  <2> SUFFICES ASSUME NEW T \in SUBSET S, NEW R \in SUBSET Q
               PROVE  Total(img(T) \cup R) = AddDelta(Total(T), Total(R))
    OBVIOUS
  <2>1. \A q \in Q : q.seq \in Nat /\ q.seq > top
    OBVIOUS
  <2> HIDE DEF u
  <2>2. Total(RowShifts(T, at, u) \cup R) = AddDelta(Total(T), Total(R))
    BY <2>1, ShiftedTotal
  <2> QED
    BY <2>2 DEF RowShifts
<1>3. \A T \in SUBSET S : Total(img(T)) = Total(T)
  <2> SUFFICES ASSUME NEW T \in SUBSET S PROVE Total(img(T)) = Total(T)
    OBVIOUS
  <2>1. Total(img(T) \cup {}) = AddDelta(Total(T), Total({}))
    BY <1>2
  <2>2. Total(T) \in Volumes
    <3>1. Counted(T)
      BY FS_Subset DEF Counted, OneRow
    <3> QED
      BY <3>1, TotalType
  <2>3. AddDelta(Total(T), Total({})) = Total(T)
    <3>1. Total({}) \in Volumes /\ Total({}).input = 0 /\ Total({}).output = 0
      BY TotalEmpty DEF NoVolumes, Volumes
    <3>2. AddDelta(Total(T), Total({})) =
            [input |-> Total(T).input + 0, output |-> Total(T).output + 0]
      BY <2>2, <3>1, AddingVolumes
    <3> HIDE DEF img
    <3> QED
      BY <2>2, <3>2 DEF Volumes
  <2>4. img(T) \cup {} = img(T)
    OBVIOUS
  <2> HIDE DEF img
  <2> QED
    BY <2>1, <2>3, <2>4
<1> DEFINE upTo(m, X) == {n \in X : n.seq <= m.seq}
           until(m, X) == {n \in X : n = m \/ Before(n, m)}
<1>4. ASSUME NEW x \in Q
      PROVE  x.pcv = Total(upTo(x, N)) /\ x.pcev = Total(until(x, N))
  <2>1. /\ x.pcv = AddDelta(Total(S), Total(upTo(x, Q)))
        /\ x.pcev = AddDelta(Total({m \in S : m.date <= at}), Total(upTo(x, Q)))
    BY DEF GoesOn
  <2>2. upTo(x, N) = img(S) \cup upTo(x, Q)
    <3>1. \A m \in S : h(m).seq <= x.seq
      BY <1>1
    <3> HIDE DEF u
    <3> QED
      BY <3>1
  <2>3. until(x, N) = img({m \in S : m.date <= at}) \cup upTo(x, Q)
    <3>1. \A m \in S : h(m) # x /\ (Before(h(m), x) <=> m.date <= at)
      BY <1>1 DEF Before
    <3>2. \A q \in Q : (q = x \/ Before(q, x)) <=> q.seq <= x.seq
      BY DEF Before, Numbered
    <3> HIDE DEF u
    <3> QED
      BY <3>1, <3>2
  <2>4. upTo(x, Q) \in SUBSET Q /\ {m \in S : m.date <= at} \in SUBSET S
    OBVIOUS
  <2> HIDE DEF upTo, until, img, N, u
  <2> QED
    BY <1>2, <2>1, <2>2, <2>3, <2>4
<1>5. ASSUME NEW m \in S
      PROVE  h(m).pcv = Total(upTo(h(m), N)) /\ h(m).pcev = Total(until(h(m), N))
  <2>1. m.pcv = Total(upTo(m, S)) /\ m.pcev = Total(until(m, S))
    BY DEF RowReplay
  <2>2. upTo(h(m), N) = img(upTo(m, S))
    <3>1. /\ \A n \in S : h(n).seq <= h(m).seq <=> n.seq <= m.seq
          /\ \A q \in Q : ~(q.seq <= h(m).seq)
      BY <1>1
    <3> HIDE DEF u
    <3> QED
      BY <3>1
  <2>3. \A n \in S : (h(n) = h(m) \/ Before(h(n), h(m))) <=> (n = m \/ Before(n, m))
    <3>1. \A n \in S : h(n) = h(m) <=> n = m
      <4> HIDE DEF u
      <4> QED
        BY <1>1 DEF OneRow, Numbered
    <3> QED
      BY <1>1, <3>1 DEF Before
  <2>4. upTo(m, S) \in SUBSET S /\ until(m, S) \in SUBSET S
    OBVIOUS
  <2>5. h(m).pcv = Total(upTo(h(m), N))
    <3>1. Total(img(upTo(m, S))) = Total(upTo(m, S))
      BY <1>3, <2>4
    <3>2. h(m).pcv = m.pcv
      BY <1>1
    <3> HIDE DEF upTo, until, img, N, u, h
    <3> QED
      BY <2>1, <2>2, <3>1, <3>2
  <2>6. CASE m.date > at
    <3>1. \A q \in Q : q # h(m) /\ Before(q, h(m))
      BY <1>1, <2>6 DEF Before
    <3>2. until(h(m), N) = img(until(m, S)) \cup Q
      <4> HIDE DEF u
      <4> QED
        BY <2>3, <3>1
    <3>3. h(m).pcev = AddDelta(m.pcev, u)
      BY <1>1, <2>6
    <3> HIDE DEF upTo, until, img, N, h
    <3> QED
      BY <1>2, <2>1, <2>4, <2>5, <3>2, <3>3
  <2>7. CASE ~(m.date > at)
    <3>1. \A q \in Q : q # h(m) /\ ~Before(q, h(m))
      BY <1>1, <2>7 DEF Before
    <3>2. until(h(m), N) = img(until(m, S))
      <4> HIDE DEF u
      <4> QED
        BY <2>3, <3>1
    <3>3. h(m).pcev = m.pcev
      BY <1>1, <2>7
    <3>4. Total(img(until(m, S))) = Total(until(m, S))
      BY <1>3, <2>4
    <3> HIDE DEF upTo, until, img, N, h
    <3> QED
      BY <2>1, <2>5, <3>2, <3>3, <3>4
  <2> QED
    BY <2>6, <2>7
<1>6. RowReplay(N)
  <2> SUFFICES ASSUME NEW x \in N PROVE x.pcv = Total(upTo(x, N)) /\ x.pcev = Total(until(x, N))
    BY DEF RowReplay
  <2>1. CASE x \in Q
    BY <1>4, <2>1
  <2>2. CASE x \in img(S)
    <3>1. PICK m \in S : x = h(m)
      BY <2>2
    <3> QED
      BY <1>5, <3>1
  <2> QED
    BY <2>1, <2>2
<1>7. Total(N) = AddDelta(Total(S), Total(Q))
  BY <1>2
<1> QED
  BY <1>6, <1>7 DEF RowShifts

-----------------------------------------------------------------------------
(* The moves of a transaction, side by side.                               *)

\* A posting's two sides.
LEMMA SidesFacts ==
  ASSUME NEW ps \in Seq(PlainPosting)
  PROVE  /\ Len(ps) \in Nat /\ 2 * Len(ps) \in Nat
         /\ DOMAIN ps = 1..Len(ps) /\ DOMAIN Sides(ps) = 1..2 * Len(ps)
         /\ \A k \in 1..2 * Len(ps) :
              /\ Sides(ps)[k].row \in RowsOf(ps)
              /\ Sides(ps)[k].amount \in Nat /\ Sides(ps)[k].source \in BOOLEAN
         /\ \A i \in 1..Len(ps) :
              /\ ps[i].amount \in Nat /\ 2 * i \in 1..2 * Len(ps) /\ 2 * i - 1 \in 1..2 * Len(ps)
              /\ Sides(ps)[2 * i - 1] =
                   [row |-> SourceRow(ps[i]), amount |-> ps[i].amount, source |-> TRUE]
              /\ Sides(ps)[2 * i] =
                   [row |-> DestinationRow(ps[i]), amount |-> ps[i].amount, source |-> FALSE]
         /\ RowsOf(ps) \subseteq Row
<1>1. Len(ps) \in Nat /\ 2 * Len(ps) \in Nat /\ DOMAIN ps = 1..Len(ps)
  BY LenProperties
<1>2. \A i \in 1..Len(ps) : ps[i] \in PlainPosting
  BY <1>1, ElementOfSeq
<1>3. \A i \in 1..Len(ps) : /\ ps[i].amount \in Nat
                            /\ SourceRow(ps[i]) \in RowsOf(ps) /\ SourceRow(ps[i]) \in Row
                            /\ DestinationRow(ps[i]) \in RowsOf(ps) /\ DestinationRow(ps[i]) \in Row
  BY <1>1, <1>2 DEF PlainPosting, Posting, RowsOf, SourceRow, DestinationRow, Row
<1>4. ASSUME NEW i \in 1..Len(ps)
      PROVE  /\ 2 * i \in 1..2 * Len(ps) /\ 2 * i - 1 \in 1..2 * Len(ps)
             /\ Sides(ps)[2 * i - 1] =
                  [row |-> SourceRow(ps[i]), amount |-> ps[i].amount, source |-> TRUE]
             /\ Sides(ps)[2 * i] =
                  [row |-> DestinationRow(ps[i]), amount |-> ps[i].amount, source |-> FALSE]
  <2>1. 2 * i - 1 \in 1..2 * Len(ps) /\ (2 * i - 1) % 2 = 1 /\ ((2 * i - 1) + 1) \div 2 = i
    BY <1>1
  <2>2. 2 * i \in 1..2 * Len(ps) /\ (2 * i) % 2 # 1 /\ (2 * i + 1) \div 2 = i
    BY <1>1
  <2>3. Sides(ps)[2 * i - 1] =
          [row |-> SourceRow(ps[i]), amount |-> ps[i].amount, source |-> TRUE]
    BY <2>1 DEF Sides
  <2>4. Sides(ps)[2 * i] =
          [row |-> DestinationRow(ps[i]), amount |-> ps[i].amount, source |-> FALSE]
    BY <2>2 DEF Sides
  <2> QED
    BY <2>1, <2>2, <2>3, <2>4
<1>5. ASSUME NEW k \in 1..2 * Len(ps)
      PROVE  /\ Sides(ps)[k].row \in RowsOf(ps)
             /\ Sides(ps)[k].amount \in Nat /\ Sides(ps)[k].source \in BOOLEAN
  <2>1. PICK i \in 1..Len(ps) : k = 2 * i - 1 \/ k = 2 * i
    <3>1. (k + 1) \div 2 \in 1..Len(ps) /\ (k = 2 * ((k + 1) \div 2) - 1 \/ k = 2 * ((k + 1) \div 2))
      BY <1>1
    <3> QED
      BY <3>1
  <2>2. CASE k = 2 * i - 1
    <3>1. Sides(ps)[k] = [row |-> SourceRow(ps[i]), amount |-> ps[i].amount, source |-> TRUE]
      BY <1>4, <2>2
    <3> QED
      BY <1>3, <3>1
  <2>3. CASE k = 2 * i
    <3>1. Sides(ps)[k] = [row |-> DestinationRow(ps[i]), amount |-> ps[i].amount, source |-> FALSE]
      BY <1>4, <2>3
    <3> QED
      BY <1>3, <3>1
  <2> QED
    BY <2>1, <2>2, <2>3
<1>6. RowsOf(ps) \subseteq Row
  BY <1>1, <1>3 DEF RowsOf
<1>7. DOMAIN Sides(ps) = 1..2 * Len(ps)
  BY DEF Sides
<1> QED
  BY <1>1, <1>3, <1>4, <1>5, <1>6, <1>7

\* mv are moves of ps, one for each side, numbered from base.
Drawn(mv, ps, base) ==
  \A k \in 1..2 * Len(ps) :
    /\ mv[k].seq = base + k
    /\ mv[k].row = Sides(ps)[k].row
    /\ mv[k].amount = Sides(ps)[k].amount
    /\ mv[k].source = Sides(ps)[k].source

\* Those of the first k that are on row r.
FirstOn(mv, k, r) == {mv[j] : j \in {i \in 1..k : mv[i].row = r}}

\* They are finitely many, and none after k is among them.
LEMMA FirstOnCounted ==
  ASSUME NEW ps \in Seq(PlainPosting), NEW base \in Nat, NEW mv, Drawn(mv, ps, base),
         NEW k \in 0..2 * Len(ps), NEW r
  PROVE  Counted(FirstOn(mv, k, r)) /\ \A m \in FirstOn(mv, k, r) : m.seq <= base + k
<1> DEFINE J == {i \in 1..k : mv[i].row = r}
           f == [j \in J |-> mv[j]]
<1>1. /\ 2 * Len(ps) \in Nat
      /\ \A j \in 1..2 * Len(ps) : Sides(ps)[j].amount \in Nat /\ Sides(ps)[j].source \in BOOLEAN
  BY SidesFacts
<1>2. k \in Nat /\ \A j \in J : j \in 1..2 * Len(ps) /\ j <= k /\ j \in Nat
  BY <1>1
<1>3. IsFiniteSet(J)
  BY <1>2, PrefixFinite, FS_Subset
<1>4. f \in Surjection(J, FirstOn(mv, k, r))
  BY DEF Surjection, FirstOn
<1>5. ASSUME NEW j \in J
      PROVE  mv[j].amount \in Nat /\ mv[j].source \in BOOLEAN /\ mv[j].seq <= base + k
  <2>1. j \in 1..2 * Len(ps) /\ base + j <= base + k
    BY <1>2
  <2>2. /\ mv[j].seq = base + j /\ mv[j].amount = Sides(ps)[j].amount
        /\ mv[j].source = Sides(ps)[j].source
    BY <2>1 DEF Drawn
  <2> QED
    BY <1>1, <2>1, <2>2
<1>6. \A m \in FirstOn(mv, k, r) : \E j \in J : m = mv[j]
  BY DEF FirstOn
<1> HIDE DEF J, f
<1>7. IsFiniteSet(FirstOn(mv, k, r))
  BY <1>3, <1>4, FS_Surjection
<1> QED
  BY <1>5, <1>6, <1>7 DEF Counted

\* One more side adds itself on its row.
LEMMA FirstOnGrows ==
  ASSUME NEW ps \in Seq(PlainPosting), NEW base \in Nat, NEW mv, Drawn(mv, ps, base),
         NEW k \in 1..2 * Len(ps), NEW r
  PROVE  Total(FirstOn(mv, k, r)) =
           IF Sides(ps)[k].row = r THEN AddSide(Total(FirstOn(mv, k - 1, r)), Sides(ps)[k])
           ELSE Total(FirstOn(mv, k - 1, r))
<1>1. 2 * Len(ps) \in Nat /\ Sides(ps)[k].amount \in Nat /\ Sides(ps)[k].source \in BOOLEAN
  BY SidesFacts
<1>2. /\ mv[k].row = Sides(ps)[k].row /\ mv[k].amount = Sides(ps)[k].amount
      /\ mv[k].source = Sides(ps)[k].source /\ mv[k].seq = base + k
  BY DEF Drawn
<1>3. k - 1 \in 0..2 * Len(ps) /\ 1..k = 1..(k - 1) \cup {k} /\ k \in Nat
  BY <1>1
<1>4. Counted(FirstOn(mv, k - 1, r)) /\ \A m \in FirstOn(mv, k - 1, r) : m.seq <= base + (k - 1)
  BY <1>3, FirstOnCounted
<1>5. CASE Sides(ps)[k].row = r
  <2>1. FirstOn(mv, k, r) = FirstOn(mv, k - 1, r) \cup {mv[k]}
    <3>1. {i \in 1..k : mv[i].row = r} = {i \in 1..(k - 1) : mv[i].row = r} \cup {k}
      BY <1>2, <1>3, <1>5
    <3> QED
      BY <3>1 DEF FirstOn
  <2>2. mv[k] \notin FirstOn(mv, k - 1, r)
    <3>1. ~(base + k <= base + (k - 1))
      BY <1>3
    <3> QED
      BY <1>2, <1>4, <3>1
  <2>3. Total(FirstOn(mv, k, r)) = AddSide(Total(FirstOn(mv, k - 1, r)), mv[k])
    BY <1>1, <1>2, <1>4, <2>1, <2>2, TotalAdd
  <2>4. AddSide(Total(FirstOn(mv, k - 1, r)), mv[k]) =
          AddSide(Total(FirstOn(mv, k - 1, r)), Sides(ps)[k])
    BY <1>2 DEF AddSide
  <2> QED
    BY <1>5, <2>3, <2>4
<1>6. CASE Sides(ps)[k].row # r
  <2>1. {i \in 1..k : mv[i].row = r} = {i \in 1..(k - 1) : mv[i].row = r}
    BY <1>2, <1>3, <1>6
  <2> QED
    BY <1>6, <2>1 DEF FirstOn
<1> QED
  BY <1>5, <1>6

\* All of them together are the deltas of VolumeUpdates.
LEMMA SidesAreUpdates ==
  ASSUME NEW ps \in Seq(PlainPosting), NEW base \in Nat, NEW mv, Drawn(mv, ps, base),
         NEW r \in RowsOf(ps)
  PROVE  Total(FirstOn(mv, 2 * Len(ps), r)) = VolumeUpdates(ps)[r]
<1> DEFINE n == Len(ps)
           tot(k) == Total(FirstOn(mv, k, r))
<1>1. /\ n \in Nat /\ DOMAIN ps = 1..n /\ Movable(ps)
      /\ \A i \in 1..n :
           /\ ps[i].amount \in Nat /\ 2 * i \in 1..2 * n /\ 2 * i - 1 \in 1..2 * n
           /\ Sides(ps)[2 * i - 1] =
                [row |-> SourceRow(ps[i]), amount |-> ps[i].amount, source |-> TRUE]
           /\ Sides(ps)[2 * i] =
                [row |-> DestinationRow(ps[i]), amount |-> ps[i].amount, source |-> FALSE]
  <2>1. \A i \in 1..n : DeltaAmount(ps[i]) \in Nat
    BY SidesFacts DEF DeltaAmount
  <2> QED
    BY <2>1, SidesFacts DEF Movable
<1>2. PICK f : UpdatesRun(f, ps)
  BY <1>1, UpdatesRunExists
<1>3. f \in [0..n -> Deltas(ps)] /\ VolumeUpdates(ps) = f[n]
  BY <1>2 DEF UpdatesRun
<1> DEFINE P == {k \in Nat : k <= n => tot(2 * k) = f[k][r]}
<1>4. 0 \in P
  <2>1. FirstOn(mv, 0, r) = {} /\ 2 * 0 = 0
    BY DEF FirstOn
  <2>2. f[0][r] = NoVolumes
    BY <1>2 DEF UpdatesRun, NoDeltas, NoDelta, NoVolumes
  <2> QED
    BY <2>1, <2>2, TotalEmpty
<1>5. ASSUME NEW k \in P PROVE k + 1 \in P
  <2> SUFFICES ASSUME k + 1 <= n PROVE tot(2 * (k + 1)) = f[k + 1][r]
    OBVIOUS
  <2> DEFINE i == k + 1
             p == ps[i]
             a == p.amount
  <2>1. k \in Nat /\ i \in 1..n /\ i - 1 = k /\ k \in 0..n /\ i \in 0..n
    BY <1>1
  <2>2. tot(2 * k) = f[k][r] /\ f[k] \in [RowsOf(ps) -> Delta]
    BY <1>1, <1>3, <2>1 DEF Deltas
  <2>3. /\ a \in Nat /\ 2 * i \in 1..2 * n /\ 2 * i - 1 \in 1..2 * n
        /\ Sides(ps)[2 * i - 1] = [row |-> SourceRow(p), amount |-> a, source |-> TRUE]
        /\ Sides(ps)[2 * i] = [row |-> DestinationRow(p), amount |-> a, source |-> FALSE]
    BY <1>1, <2>1
  <2>4. f[i] = AccumulatePosting(f[k], p)
    BY <1>2, <2>1 DEF UpdatesRun
  <2>5. DeltaAmount(p) = a
    BY <2>3, NilIsNoNumber DEF DeltaAmount
  <2>6. /\ f[i][r].input = f[k][r].input + (IF r = DestinationRow(p) THEN a ELSE 0)
        /\ f[i][r].output = f[k][r].output + (IF r = SourceRow(p) THEN a ELSE 0)
        /\ f[i][r] \in Volumes
    <3>1. SourceRow(p) \in RowsOf(ps) /\ DestinationRow(p) \in RowsOf(ps)
      BY <1>1, <2>1, RowsOfPosting
    <3>2. f[i] \in [RowsOf(ps) -> Delta]
      BY <1>3, <2>1 DEF Deltas
    <3> HIDE DEF p, a, i
    <3>3. f[i][r] \in Volumes
      BY <3>2 DEF Delta, Volumes
    <3>4. DeltaAmount(p) \in Nat
      BY <2>3, <2>5
    <3>5. /\ f[i][r].input = f[k][r].input + (IF r = DestinationRow(p) THEN DeltaAmount(p) ELSE 0)
          /\ f[i][r].output = f[k][r].output + (IF r = SourceRow(p) THEN DeltaAmount(p) ELSE 0)
      BY <2>2, <2>4, <3>1, <3>4, AccumulateFacts
    <3> QED
      BY <2>5, <3>3, <3>5
  <2>7. (2 * i - 1) - 1 = 2 * k /\ 2 * i - 1 = 2 * i - 1
    BY <2>1
  <2> HIDE DEF i, p, a, n
  <2>8. tot(2 * i - 1) = IF SourceRow(p) = r THEN AddSide(tot(2 * k), Sides(ps)[2 * i - 1])
                         ELSE tot(2 * k)
    BY <2>3, <2>7, FirstOnGrows DEF n
  <2>9. tot(2 * i) = IF DestinationRow(p) = r THEN AddSide(tot(2 * i - 1), Sides(ps)[2 * i])
                     ELSE tot(2 * i - 1)
    BY <2>3, FirstOnGrows DEF n
  <2> HIDE DEF tot
  <2>10. f[k][r] \in Volumes
    BY <2>2 DEF Delta, Volumes
  <2>11. tot(2 * i - 1) = [input |-> f[k][r].input,
                           output |-> f[k][r].output + (IF r = SourceRow(p) THEN a ELSE 0)]
    <3>1. AddSide(f[k][r], Sides(ps)[2 * i - 1]) =
            [input |-> f[k][r].input, output |-> f[k][r].output + a]
      <4>1. Sides(ps)[2 * i - 1].amount = a /\ Sides(ps)[2 * i - 1].source = TRUE
        BY <2>3
      <4> HIDE DEF P
      <4> QED
        BY <2>3, <2>10, <4>1, AddingSide
    <3>2. f[k][r] = [input |-> f[k][r].input, output |-> f[k][r].output + 0]
      BY <2>10 DEF Volumes
    <3> QED
      BY <2>2, <2>8, <3>1, <3>2
  <2>12. tot(2 * i - 1) \in Volumes
    BY <2>3, <2>10, <2>11 DEF Volumes
  <2>13. tot(2 * i) = [input |-> f[k][r].input + (IF r = DestinationRow(p) THEN a ELSE 0),
                       output |-> f[k][r].output + (IF r = SourceRow(p) THEN a ELSE 0)]
    <3>1. AddSide(tot(2 * i - 1), Sides(ps)[2 * i]) =
            [input |-> tot(2 * i - 1).input + a, output |-> tot(2 * i - 1).output]
      <4>1. Sides(ps)[2 * i].amount = a /\ Sides(ps)[2 * i].source = FALSE
        BY <2>3
      <4> HIDE DEF P
      <4> QED
        BY <2>3, <2>12, <4>1, AddingSide
    <3>2. f[k][r].input + 0 = f[k][r].input
      BY <2>10 DEF Volumes
    <3>3. /\ tot(2 * i - 1).input = f[k][r].input
          /\ tot(2 * i - 1).output = f[k][r].output + (IF r = SourceRow(p) THEN a ELSE 0)
      BY <2>11
    <3> QED
      BY <2>9, <2>11, <3>1, <3>2, <3>3
  <2>14. f[i][r] = [input |-> f[i][r].input, output |-> f[i][r].output]
    BY <2>6 DEF Volumes
  <2>15. tot(2 * i) = f[i][r]
    BY <2>6, <2>13, <2>14
  <2> QED
    BY <2>15 DEF i
<1>6. P = Nat
  <2>1. P \in SUBSET Nat
    OBVIOUS
  <2> HIDE DEF P
  <2> QED
    BY <1>4, <1>5, <2>1, NatSetInduction
<1> QED
  BY <1>1, <1>3, <1>6

-----------------------------------------------------------------------------
(* queueMoves.                                                             *)

Snapshots == [pcv : Volumes, pcev : Volumes]
Queueing == [running : [Row -> Volumes], effective : [Row -> Volumes], queued : Seq(Snapshots)]
QueueStart(b, e) == [running |-> b, effective |-> e, queued |-> <<>>]

QueueStep(it, sides, b, e) ==
  it = [s \in SUBSET (DOMAIN sides) |->
          IF s = {} THEN QueueStart(b, e)
          ELSE LET x == Max(s) IN QueueMove(it[s \ {x}], sides[x])]

\* The fold, as the function it is chosen from.
LEMMA QueueIs ==
  \A sides, b, e :
    FoldLeft(QueueMove, QueueStart(b, e), sides) =
      (CHOOSE it : QueueStep(it, sides, b, e))[DOMAIN sides]
BY DEF FoldLeft, MapThenFoldSet, QueueStep

\* One side moves both running volumes of its row and is queued with them.
LEMMA QueueFacts ==
  ASSUME NEW acc \in Queueing, NEW side, side.row \in Row, side.amount \in Nat,
         side.source \in BOOLEAN
  PROVE  LET next == QueueMove(acc, side)
         IN  /\ next \in Queueing
             /\ \A r \in Row :
                  /\ next.running[r] =
                       IF side.row = r THEN AddSide(acc.running[r], side) ELSE acc.running[r]
                  /\ next.effective[r] =
                       IF side.row = r THEN AddSide(acc.effective[r], side) ELSE acc.effective[r]
             /\ next.queued = Append(acc.queued, [pcv |-> next.running[side.row],
                                                  pcev |-> next.effective[side.row]])
<1> DEFINE ru == [acc.running EXCEPT ![side.row] = AddSide(@, side)]
           ef == [acc.effective EXCEPT ![side.row] = AddSide(@, side)]
           sn == [pcv |-> ru[side.row], pcev |-> ef[side.row]]
           next == QueueMove(acc, side)
<1>1. next = [running |-> ru, effective |-> ef, queued |-> Append(acc.queued, sn)]
  BY DEF QueueMove
<1>2. /\ acc.running \in [Row -> Volumes] /\ acc.effective \in [Row -> Volumes]
      /\ acc.queued \in Seq(Snapshots)
  BY DEF Queueing
<1>3. \A v \in Volumes : AddSide(v, side) \in Volumes
  BY AddingSide
<1>4. /\ ru \in [Row -> Volumes]
      /\ \A r \in Row : ru[r] = IF side.row = r THEN AddSide(acc.running[r], side) ELSE acc.running[r]
  BY <1>2, <1>3
<1>5. /\ ef \in [Row -> Volumes]
      /\ \A r \in Row :
           ef[r] = IF side.row = r THEN AddSide(acc.effective[r], side) ELSE acc.effective[r]
  BY <1>2, <1>3
<1> HIDE DEF ru, ef, next
<1>6. sn \in Snapshots
  BY <1>4, <1>5 DEF Snapshots
<1> HIDE DEF sn
<1>7. Append(acc.queued, sn) \in Seq(Snapshots)
  BY <1>2, <1>6, AppendProperties
<1>8. next \in Queueing
  BY <1>1, <1>4, <1>5, <1>7 DEF Queueing
<1>9. next.running = ru /\ next.effective = ef /\ next.queued = Append(acc.queued, sn)
  BY <1>1
<1> QED
  BY <1>4, <1>5, <1>8, <1>9 DEF sn, next

\* f is what queueMoves has after each side in turn.
QueueRun(f, sides, b, e) ==
  /\ f \in [0..Len(sides) -> Queueing]
  /\ f[0] = QueueStart(b, e)
  /\ \A k \in 1..Len(sides) : f[k] = QueueMove(f[k - 1], sides[k])
  /\ FoldLeft(QueueMove, QueueStart(b, e), sides) = f[Len(sides)]

\* Sides that can be queued.
Queueable(sides) ==
  /\ Len(sides) \in Nat /\ DOMAIN sides = 1..Len(sides)
  /\ \A k \in DOMAIN sides :
       sides[k].row \in Row /\ sides[k].amount \in Nat /\ sides[k].source \in BOOLEAN

\* The loop that queues a transaction's moves as the sequence of its intermediate
\* results.
LEMMA QueueRunExists ==
  ASSUME NEW sides, Queueable(sides), NEW b \in [Row -> Volumes], NEW e \in [Row -> Volumes]
  PROVE  \E f : QueueRun(f, sides, b, e)
<1> DEFINE n == Len(sides)
           V == Queueing
           step == [i \in 1..n |-> [d \in V |-> QueueMove(d, sides[i])]]
           c == MaxPick(n)
<1>1. n \in Nat /\ DOMAIN sides = 1..n
  BY DEF Queueable
<1>2. \A i \in 1..n : \A d \in V : QueueMove(d, sides[i]) \in V
  <2> SUFFICES ASSUME NEW i \in 1..n, NEW d \in V PROVE QueueMove(d, sides[i]) \in V
    OBVIOUS
  <2>1. sides[i].row \in Row /\ sides[i].amount \in Nat /\ sides[i].source \in BOOLEAN
    BY <1>1 DEF Queueable
  <2> QED
    BY <2>1, QueueFacts
<1>3. step \in [1..n -> [V -> V]]
  BY <1>2
<1>4. QueueStart(b, e) \in V
  <2>1. <<>> \in Seq(Snapshots)
    BY EmptySeq
  <2> QED
    BY <2>1 DEF QueueStart, Queueing
<1>5. PICK it : Iterates(it, SUBSET (1..n), V, QueueStart(b, e), c, step)
  <2>1. IsFiniteSet(1..n) /\ Picks(c, 1..n)
    BY <1>1, FS_Interval, MaxPicks
  <2> HIDE DEF n, V, step, c
  <2> QED
    BY <1>3, <1>4, <2>1, SubsetRecursion
<1>6. \A s \in SUBSET (1..n) : s # {} => it[s] = QueueMove(it[s \ {Max(s)}], sides[Max(s)])
  <2> SUFFICES ASSUME NEW s \in SUBSET (1..n), s # {}
               PROVE  it[s] = QueueMove(it[s \ {Max(s)}], sides[Max(s)])
    OBVIOUS
  <2>1. c[s] = Max(s) /\ c[s] \in s
    BY <1>1, MaxPicks DEF MaxPick, Picks
  <2>2. it[s \ {c[s]}] \in V /\ it[s] = step[c[s]][it[s \ {c[s]}]]
    BY <1>5 DEF Iterates
  <2>3. step[c[s]][it[s \ {c[s]}]] = QueueMove(it[s \ {c[s]}], sides[c[s]])
    BY <2>1, <2>2
  <2> QED
    BY <2>1, <2>2, <2>3
<1>7. QueueStep(it, sides, b, e)
  <2> HIDE DEF n, V, step, c
  <2> QED
    BY <1>1, <1>5, <1>6 DEF QueueStep, Iterates
<1> DEFINE g == CHOOSE h : QueueStep(h, sides, b, e)
<1>8. QueueStep(g, sides, b, e) /\ FoldLeft(QueueMove, QueueStart(b, e), sides) = g[1..n]
  BY <1>1, <1>7, QueueIs
<1> DEFINE f == [k \in 0..n |-> g[1..k]]
<1> HIDE DEF g, n, V
<1>9. f[0] = QueueStart(b, e)
  <2>1. 1..0 = {} /\ {} \in SUBSET (1..n) /\ 0 \in 0..n
    BY <1>1
  <2>2. g[{}] = QueueStart(b, e)
    BY <1>1, <1>8 DEF QueueStep
  <2> QED
    BY <2>1, <2>2
<1>10. \A k \in 1..n : f[k] = QueueMove(f[k - 1], sides[k])
  <2> SUFFICES ASSUME NEW k \in 1..n PROVE f[k] = QueueMove(f[k - 1], sides[k])
    OBVIOUS
  <2>1. k \in Nat /\ k # 0 /\ k \in 0..n /\ k - 1 \in 0..n /\ 1..k \in SUBSET (1..n) /\ 1..k # {}
    BY <1>1, PrefixFacts
  <2>2. Max(1..k) = k /\ (1..k) \ {k} = 1..(k - 1)
    BY <2>1, MaxOfPrefix
  <2>3. g[1..k] = QueueMove(g[(1..k) \ {Max(1..k)}], sides[Max(1..k)])
    BY <1>1, <1>8, <2>1 DEF QueueStep
  <2> QED
    BY <2>1, <2>2, <2>3
<1>11. \A k \in 0..n : f[k] \in V
  <2> DEFINE P == {k \in Nat : k <= n => f[k] \in V}
  <2> HIDE DEF f
  <2>1. 0 \in P
    BY <1>4, <1>9
  <2>2. ASSUME NEW k \in P PROVE k + 1 \in P
    <3>1. CASE k + 1 <= n
      <4>1. k \in Nat /\ k + 1 \in 1..n /\ (k + 1) - 1 = k /\ k <= n
        BY <1>1, <2>2, <3>1
      <4>2. f[k] \in V
        BY <2>2, <4>1
      <4>3. f[k + 1] = QueueMove(f[k], sides[k + 1])
        BY <1>10, <4>1
      <4> QED
        BY <1>2, <4>1, <4>2, <4>3
    <3>2. CASE ~(k + 1 <= n)
      BY <2>2, <3>2
    <3> QED
      BY <3>1, <3>2
  <2>3. P = Nat
    <3>1. P \in SUBSET Nat
      OBVIOUS
    <3> HIDE DEF P
    <3> QED
      BY <2>1, <2>2, <3>1, NatSetInduction
  <2> QED
    BY <1>1, <2>3
<1>12. f \in [0..n -> V] /\ FoldLeft(QueueMove, QueueStart(b, e), sides) = f[n]
  BY <1>1, <1>8, <1>11
<1> HIDE DEF f
<1> QED
  BY <1>9, <1>10, <1>12 DEF QueueRun, n, V

\* A side may be added before or after the rest.
LEMMA SideAfterDelta ==
  ASSUME NEW v \in Volumes, NEW d \in Volumes, NEW t, t.amount \in Nat, t.source \in BOOLEAN
  PROVE  AddSide(AddDelta(v, d), t) = AddDelta(v, AddSide(d, t))
<1>1. v.input \in Nat /\ v.output \in Nat /\ d.input \in Nat /\ d.output \in Nat
  BY DEF Volumes
<1>2. /\ AddDelta(v, d) = [input |-> v.input + d.input, output |-> v.output + d.output]
      /\ AddDelta(v, d) \in Volumes
  BY AddingVolumes
<1>3. CASE t.source
  <2>1. AddSide(d, t) = [input |-> d.input, output |-> d.output + t.amount] /\ AddSide(d, t) \in Volumes
    BY <1>3, AddingSide
  <2>2. AddSide(AddDelta(v, d), t) =
          [input |-> AddDelta(v, d).input, output |-> AddDelta(v, d).output + t.amount]
    BY <1>2, <1>3, AddingSide
  <2>3. AddDelta(v, AddSide(d, t)) =
          [input |-> v.input + AddSide(d, t).input, output |-> v.output + AddSide(d, t).output]
    BY <2>1, AddingVolumes
  <2>4. (v.output + d.output) + t.amount = v.output + (d.output + t.amount)
    BY <1>1
  <2> QED
    BY <1>2, <2>1, <2>2, <2>3, <2>4
<1>4. CASE ~t.source
  <2>1. AddSide(d, t) = [input |-> d.input + t.amount, output |-> d.output] /\ AddSide(d, t) \in Volumes
    BY <1>4, AddingSide
  <2>2. AddSide(AddDelta(v, d), t) =
          [input |-> AddDelta(v, d).input + t.amount, output |-> AddDelta(v, d).output]
    BY <1>2, <1>4, AddingSide
  <2>3. AddDelta(v, AddSide(d, t)) =
          [input |-> v.input + AddSide(d, t).input, output |-> v.output + AddSide(d, t).output]
    BY <2>1, AddingVolumes
  <2>4. (v.input + d.input) + t.amount = v.input + (d.input + t.amount)
    BY <1>1
  <2> QED
    BY <1>2, <2>1, <2>2, <2>3, <2>4
<1> QED
  BY <1>3, <1>4

\* Nothing added.
LEMMA NothingAdded ==
  ASSUME NEW v \in Volumes
  PROVE  AddDelta(v, NoVolumes) = v
<1>1. NoVolumes \in Volumes /\ NoVolumes.input = 0 /\ NoVolumes.output = 0
  BY DEF NoVolumes, Volumes
<1>2. v = [input |-> v.input, output |-> v.output] /\ v.input \in Nat /\ v.output \in Nat
  BY DEF Volumes
<1>3. AddDelta(v, NoVolumes) = [input |-> v.input + 0, output |-> v.output + 0]
  BY <1>1, AddingVolumes
<1> QED
  BY <1>2, <1>3

\* What the run holds after k sides: the moves so far on top of where each row
\* started, and a snapshot for each.
RunHolds(f, mv, ps, b, e, k) ==
  /\ \A r \in Row :
       /\ f[k].running[r] = AddDelta(b[r], Total(FirstOn(mv, k, r)))
       /\ f[k].effective[r] = AddDelta(e[r], Total(FirstOn(mv, k, r)))
  /\ Len(f[k].queued) = k
  /\ \A j \in 1..k :
       /\ f[k].queued[j].pcv = f[j].running[Sides(ps)[j].row]
       /\ f[k].queued[j].pcev = f[j].effective[Sides(ps)[j].row]

\* One side of the run.
LEMMA RunHoldsNext ==
  ASSUME NEW ps \in Seq(PlainPosting), NEW base \in Nat, NEW mv, Drawn(mv, ps, base),
         NEW b \in [Row -> Volumes], NEW e \in [Row -> Volumes],
         NEW f, QueueRun(f, Sides(ps), b, e), Len(Sides(ps)) = 2 * Len(ps),
         NEW k \in 1..2 * Len(ps), RunHolds(f, mv, ps, b, e, k - 1)
  PROVE  RunHolds(f, mv, ps, b, e, k)
<1> DEFINE side == Sides(ps)[k]
           was(r) == Total(FirstOn(mv, k - 1, r))
           now(r) == Total(FirstOn(mv, k, r))
<1>1. 2 * Len(ps) \in Nat /\ k \in Nat /\ k - 1 \in Nat /\ k - 1 \in 0..2 * Len(ps)
  BY SidesFacts
<1>2. side.row \in Row /\ side.amount \in Nat /\ side.source \in BOOLEAN
  BY SidesFacts
<1>3. f[k - 1] \in Queueing /\ f[k] = QueueMove(f[k - 1], side)
  BY <1>1 DEF QueueRun
<1> HIDE DEF side
<1>4. /\ \A r \in Row :
           /\ f[k].running[r] =
                IF side.row = r THEN AddSide(f[k - 1].running[r], side) ELSE f[k - 1].running[r]
           /\ f[k].effective[r] =
                IF side.row = r THEN AddSide(f[k - 1].effective[r], side) ELSE f[k - 1].effective[r]
      /\ f[k].queued = Append(f[k - 1].queued, [pcv |-> f[k].running[side.row],
                                                pcev |-> f[k].effective[side.row]])
  <2> DEFINE acc == f[k - 1]
             next == QueueMove(acc, side)
  <2>1. acc \in Queueing /\ f[k] = next
    BY <1>3
  <2> HIDE DEF acc
  <2>2. /\ \A r \in Row :
             /\ next.running[r] =
                  IF side.row = r THEN AddSide(acc.running[r], side) ELSE acc.running[r]
             /\ next.effective[r] =
                  IF side.row = r THEN AddSide(acc.effective[r], side) ELSE acc.effective[r]
        /\ next.queued = Append(acc.queued, [pcv |-> next.running[side.row],
                                             pcev |-> next.effective[side.row]])
    BY <1>2, <2>1, QueueFacts
  <2> HIDE DEF next
  <2> QED
    BY <2>1, <2>2 DEF acc
<1>5. \A r \in Row : was(r) \in Volumes
  BY <1>1, FirstOnCounted, TotalType
<1>6. \A r \in Row : now(r) = IF side.row = r THEN AddSide(was(r), side) ELSE was(r)
  BY FirstOnGrows DEF side
<1>7. \A r \in Row : /\ f[k - 1].running[r] = AddDelta(b[r], was(r))
                     /\ f[k - 1].effective[r] = AddDelta(e[r], was(r))
  BY DEF RunHolds
<1>8. /\ Len(f[k - 1].queued) = k - 1
      /\ \A j \in 1..(k - 1) :
           /\ f[k - 1].queued[j].pcv = f[j].running[Sides(ps)[j].row]
           /\ f[k - 1].queued[j].pcev = f[j].effective[Sides(ps)[j].row]
  BY DEF RunHolds
<1> HIDE DEF was, now
<1>9. ASSUME NEW r \in Row
      PROVE  /\ f[k].running[r] = AddDelta(b[r], now(r))
             /\ f[k].effective[r] = AddDelta(e[r], now(r))
  <2>1. b[r] \in Volumes /\ e[r] \in Volumes /\ was(r) \in Volumes
    BY <1>5
  <2>2. /\ AddSide(AddDelta(b[r], was(r)), side) = AddDelta(b[r], AddSide(was(r), side))
        /\ AddSide(AddDelta(e[r], was(r)), side) = AddDelta(e[r], AddSide(was(r), side))
    BY <1>2, <2>1, SideAfterDelta
  <2> QED
    BY <1>4, <1>6, <1>7, <2>2
<1>10. f[k - 1].queued \in Seq(Snapshots)
  BY <1>3 DEF Queueing
<1> DEFINE sn == [pcv |-> f[k].running[side.row], pcev |-> f[k].effective[side.row]]
<1>11. sn.pcv = f[k].running[side.row] /\ sn.pcev = f[k].effective[side.row]
  OBVIOUS
<1> HIDE DEF sn
<1>12. /\ Len(f[k].queued) = k
       /\ f[k].queued[k] = sn
       /\ \A j \in 1..(k - 1) : f[k].queued[j] = f[k - 1].queued[j]
  <2>1. f[k].queued = Append(f[k - 1].queued, sn)
    BY <1>4 DEF sn
  <2> QED
    BY <1>1, <1>8, <1>10, <2>1
<1>13. ASSUME NEW j \in 1..k
       PROVE  /\ f[k].queued[j].pcv = f[j].running[Sides(ps)[j].row]
              /\ f[k].queued[j].pcev = f[j].effective[Sides(ps)[j].row]
  <2>1. CASE j = k
    BY <1>11, <1>12, <2>1 DEF side
  <2>2. CASE j # k
    <3>1. j \in 1..(k - 1)
      BY <1>1, <2>2
    <3> QED
      BY <1>8, <1>12, <3>1
  <2> QED
    BY <2>1, <2>2
<1> QED
  BY <1>9, <1>12, <1>13 DEF RunHolds, now

\* The whole run.
LEMMA RunHoldsAll ==
  ASSUME NEW ps \in Seq(PlainPosting), NEW base \in Nat, NEW mv, Drawn(mv, ps, base),
         NEW b \in [Row -> Volumes], NEW e \in [Row -> Volumes],
         NEW f, QueueRun(f, Sides(ps), b, e), Len(Sides(ps)) = 2 * Len(ps)
  PROVE  \A k \in 0..2 * Len(ps) : RunHolds(f, mv, ps, b, e, k)
<1> DEFINE n == 2 * Len(ps)
           P == {k \in Nat : k <= n => RunHolds(f, mv, ps, b, e, k)}
<1>1. n \in Nat
  BY SidesFacts
<1>2. 0 \in P
  <2>1. f[0] = QueueStart(b, e)
    BY DEF QueueRun
  <2>2. f[0].running = b /\ f[0].effective = e /\ f[0].queued = <<>>
    BY <2>1 DEF QueueStart
  <2>3. \A r \in Row : FirstOn(mv, 0, r) = {}
    BY DEF FirstOn
  <2>4. \A r \in Row : /\ b[r] = AddDelta(b[r], Total(FirstOn(mv, 0, r)))
                       /\ e[r] = AddDelta(e[r], Total(FirstOn(mv, 0, r)))
    BY <2>3, TotalEmpty, NothingAdded
  <2>5. Len(<<>>) = 0 /\ 1..0 = {}
    OBVIOUS
  <2>6. RunHolds(f, mv, ps, b, e, 0)
    BY <2>2, <2>4, <2>5 DEF RunHolds
  <2> QED
    BY <2>6
<1>3. ASSUME NEW k \in P PROVE k + 1 \in P
  <2> SUFFICES ASSUME k + 1 <= n PROVE RunHolds(f, mv, ps, b, e, k + 1)
    OBVIOUS
  <2>1. k \in Nat /\ k + 1 \in 1..n /\ (k + 1) - 1 = k /\ RunHolds(f, mv, ps, b, e, k)
    BY <1>1
  <2>2. RunHolds(f, mv, ps, b, e, (k + 1) - 1)
    BY <2>1
  <2> QED
    BY <2>1, <2>2, RunHoldsNext
<1>4. P = Nat
  <2>1. P \in SUBSET Nat
    OBVIOUS
  <2> HIDE DEF P
  <2> QED
    BY <1>2, <1>3, <2>1, NatSetInduction
<1> QED
  BY <1>1, <1>4

OfRow(ms, r) == {m \in ms : m.row = r}

\* The moves of one transaction on one row go on from what the row held.
QueuedOnRow(Q, ps, r, b, e) ==
  /\ Counted(Q)
  /\ \A q \in Q :
       /\ q.pcv = AddDelta(b[r], Total({n \in Q : n.seq <= q.seq}))
       /\ q.pcev = AddDelta(e[r], Total({n \in Q : n.seq <= q.seq}))
  /\ Total(Q) = IF r \in RowsOf(ps) THEN VolumeUpdates(ps)[r] ELSE NoVolumes
  /\ r \notin RowsOf(ps) => Q = {}

\* The moves queued on one row carry its snapshots on, one after another.
LEMMA QueuedGoesOn ==
  ASSUME nextSeq \in Nat, NEW ps \in Seq(PlainPosting), NEW at \in Date,
         NEW b \in [Row -> Volumes], NEW e \in [Row -> Volumes], NEW r \in Row
  PROVE  QueuedOnRow(OfRow(QueueMoves(ps, at, b, e), r), ps, r, b, e)
<1> DEFINE sides == Sides(ps)
           n == 2 * Len(ps)
           new == QueueMoves(ps, at, b, e)
           done == FoldLeft(QueueMove, QueueStart(b, e), sides)
           mv == [k \in 1..n |->
                    [seq |-> nextSeq + k, row |-> sides[k].row, amount |-> sides[k].amount,
                     source |-> sides[k].source, date |-> at,
                     pcv |-> done.queued[k].pcv, pcev |-> done.queued[k].pcev]]
<1>1. /\ n \in Nat /\ DOMAIN sides = 1..n
      /\ \A k \in 1..n : sides[k].row \in RowsOf(ps) /\ sides[k].row \in Row
                         /\ sides[k].amount \in Nat /\ sides[k].source \in BOOLEAN
  BY SidesFacts
<1>2. Len(sides) = n /\ Queueable(sides)
  <2>1. Len(sides) = n
    BY <1>1 DEF Sides
  <2> QED
    BY <1>1, <2>1 DEF Queueable
<1>3. new = {mv[k] : k \in 1..n}
  <2>1. new = {[seq |-> nextSeq + k, row |-> sides[k].row, amount |-> sides[k].amount,
                source |-> sides[k].source, date |-> at,
                pcv |-> done.queued[k].pcv, pcev |-> done.queued[k].pcev]
                 : k \in DOMAIN sides}
    BY DEF QueueMoves, QueueStart
  <2> HIDE DEF done, sides, new
  <2> QED
    BY <1>1, <2>1
<1>4. PICK f : QueueRun(f, sides, b, e)
  BY <1>2, QueueRunExists
<1>5. done = f[n]
  BY <1>2, <1>4 DEF QueueRun
<1> HIDE DEF done, sides, new
<1>6. \A k \in 1..n : /\ mv[k].seq = nextSeq + k /\ mv[k].row = sides[k].row
                      /\ mv[k].amount = sides[k].amount /\ mv[k].source = sides[k].source
                      /\ mv[k].pcv = f[n].queued[k].pcv /\ mv[k].pcev = f[n].queued[k].pcev
  BY <1>5
<1> HIDE DEF mv
<1>7. Drawn(mv, ps, nextSeq)
  BY <1>6 DEF Drawn, sides, n
<1>8. \A k \in 0..n : RunHolds(f, mv, ps, b, e, k)
  BY <1>2, <1>4, <1>7, RunHoldsAll DEF sides, n
<1> DEFINE Q == OfRow(new, r)
<1>9. Q = FirstOn(mv, n, r)
  BY <1>3 DEF OfRow, FirstOn
<1>10. Counted(Q)
  <2>1. n \in 0..n
    BY <1>1
  <2> HIDE DEF Q, n
  <2> QED
    BY <1>7, <1>9, <2>1, FirstOnCounted DEF n
<1>11. ASSUME NEW q \in Q
       PROVE  /\ q.pcv = AddDelta(b[r], Total({x \in Q : x.seq <= q.seq}))
              /\ q.pcev = AddDelta(e[r], Total({x \in Q : x.seq <= q.seq}))
  <2>1. PICK j \in 1..n : q = mv[j] /\ mv[j].row = r
    BY <1>9 DEF FirstOn
  <2>2. j \in 0..n /\ n \in 0..n /\ j \in Nat
    BY <1>1
  <2>3. {x \in Q : x.seq <= q.seq} = FirstOn(mv, j, r)
    <3>1. \A k \in 1..n : mv[k].seq <= q.seq <=> k <= j
      BY <1>1, <1>6, <2>1, <2>2
    <3>2. \A k : k \in 1..j <=> k \in 1..n /\ k <= j
      BY <1>1, <2>2
    <3> HIDE DEF Q
    <3> QED
      BY <1>9, <3>1, <3>2 DEF FirstOn
  <2>4. /\ f[j].running[r] = AddDelta(b[r], Total(FirstOn(mv, j, r)))
        /\ f[j].effective[r] = AddDelta(e[r], Total(FirstOn(mv, j, r)))
    BY <1>8, <2>2 DEF RunHolds
  <2>5. /\ f[n].queued[j].pcv = f[j].running[Sides(ps)[j].row]
        /\ f[n].queued[j].pcev = f[j].effective[Sides(ps)[j].row]
    BY <1>8, <2>2 DEF RunHolds
  <2>6. Sides(ps)[j].row = r
    BY <1>6, <2>1 DEF sides
  <2> HIDE DEF Q, n
  <2> QED
    BY <1>6, <2>1, <2>3, <2>4, <2>5, <2>6
<1>12. CASE r \in RowsOf(ps)
  <2>1. Total(Q) = VolumeUpdates(ps)[r]
    BY <1>7, <1>9, <1>12, SidesAreUpdates
  <2> QED
    BY <1>10, <1>11, <1>12, <2>1 DEF QueuedOnRow, new
<1>13. CASE r \notin RowsOf(ps)
  <2>1. Q = {}
    BY <1>1, <1>6, <1>9, <1>13 DEF FirstOn
  <2>2. Total(Q) = NoVolumes
    BY <2>1, TotalEmpty
  <2> QED
    BY <1>10, <1>11, <1>13, <2>1, <2>2 DEF QueuedOnRow, new
<1> QED
  BY <1>12, <1>13

-----------------------------------------------------------------------------
(* The invariant.                                                          *)

\* A session holds the rows it is to touch and the rows it has touched.
HoldsRows(s) ==
  /\ pc[s] = "idle" => \A r \in Row : rowLock[r] # s
  /\ \A n \in ours[s] : rowLock[n.row] = s
  /\ pc[s] \in {"read", "allocate", "write"} =>
       \A r \in RowsOfAll(items[s]) : rowLock[r] = s

\* A row it holds, as it sees it.
RowOK(s, r) ==
  /\ RowReplay(OfRow(Seen(s), r))
  /\ held[s][r] = Total(OfRow(Seen(s), r))

\* What it read of its item's rows still stands.
ReadStands(s) ==
  pc[s] \in {"allocate", "write"} =>
    \A r \in RowsOf(Head(items[s]).postings) :
      effective[s][r] = Total({m \in OfRow(Seen(s), r) : m.date <= Head(items[s]).date})

Measured(ms) == \A m \in ms : m.row \in Row /\ m.amount \in Nat /\ m.source \in BOOLEAN

ReplayTypes ==
  /\ volumes \in [Row -> Volumes]
  /\ held \in [Session -> [Row -> Volumes]] /\ effective \in [Session -> [Row -> Volumes]]
  /\ rowLock \in [Row -> Session \cup {NoSession}]
  /\ Measured(moves) /\ \A s \in Session : Measured(ours[s])

\* The committed rows.
RowsReplay ==
  \A r \in Row : RowReplay(OfRow(moves, r)) /\ volumes[r] = Total(OfRow(moves, r))

SessionReplays(s) ==
  /\ HoldsRows(s) /\ ReadStands(s)
  /\ \A r \in Row : rowLock[r] = s => RowOK(s, r)

ReplayOK == ReplayTypes /\ RowsReplay /\ \A s \in Session : SessionReplays(s)

\* Numbered moves are finitely many.
LEMMA NumberedFinite ==
  ASSUME NEW top \in Nat, NEW ms, Numbered(ms), \A m \in ms : MoveOK(m, top)
  PROVE  IsFiniteSet(ms)
<1> DEFINE number == [m \in ms |-> m.seq]
<1>1. \A m \in ms : m.seq \in 1..top
  BY DEF MoveOK
<1>2. number \in Injection(ms, 1..top)
  BY <1>1 DEF Injection, IsInjective, Numbered
<1>3. IsFiniteSet(1..top)
  BY FS_Interval
<1> HIDE DEF number
<1> QED
  BY <1>2, <1>3, FS_Injection

\* The rows of a set of moves.
LEMMA RowsOfMoves ==
  ASSUME NEW top \in Nat, NEW ms, Numbered(ms), Measured(ms), \A m \in ms : MoveOK(m, top),
         NEW r
  PROVE  OneRow(OfRow(ms, r), top)
<1>1. IsFiniteSet(OfRow(ms, r))
  <2>1. OfRow(ms, r) \in SUBSET ms
    BY DEF OfRow
  <2> QED
    BY <2>1, NumberedFinite, FS_Subset
<1> QED
  BY <1>1 DEF OneRow, OfRow, Counted, Numbered, Measured

\* What a session sees is numbered and measured.
LEMMA SeenRows ==
  ASSUME MovesOK, ReplayOK, NEW s \in Session, NEW r
  PROVE  OneRow(OfRow(Seen(s), r), nextSeq) /\ OneRow(OfRow(moves, r), nextSeq) /\ nextSeq \in Nat
<1>1. nextSeq \in Nat /\ Numbered(moves) /\ \A m \in moves : MoveOK(m, nextSeq)
  BY DEF MovesOK
<1>2. Measured(moves) /\ Measured(ours[s])
  BY DEF ReplayOK, ReplayTypes
<1>3. Measured(Seen(s))
  BY <1>2 DEF Measured, Seen
<1>4. OneRow(OfRow(moves, r), nextSeq)
  BY <1>1, <1>2, RowsOfMoves
<1>5. OneRow(OfRow(Seen(s), r), nextSeq)
  BY <1>1, <1>3, SeenNumbered, RowsOfMoves
<1> QED
  BY <1>1, <1>4, <1>5

\* A row that a session has not locked looks to it as it was committed.
LEMMA OtherRows ==
  ASSUME MovesOK, ReplayOK, NEW s \in Session, NEW r \in Row, rowLock[r] # s
  PROVE  OfRow(Seen(s), r) = OfRow(moves, r)
<1>1. \A n \in ours[s] : rowLock[n.row] = s
  BY DEF ReplayOK, SessionReplays, HoldsRows
<1>2. \A n \in ours[s] : n.row # r
  BY <1>1
<1>3. \A n \in ours[s] : \A m \in moves : n.seq = m.seq => n.row = m.row
  <2> SUFFICES ASSUME NEW n \in ours[s], NEW m \in moves, n.seq = m.seq PROVE n.row = m.row
    OBVIOUS
  <2>1. ~Fresh(n)
    <3>1. m.seq \in Nat
      BY DEF MovesOK, MoveOK
    <3> QED
      BY <3>1 DEF Fresh
  <2>2. PICK k \in moves : n.seq = k.seq /\ Rewrites(n, k, ours[s])
    BY <2>1 DEF MovesOK, SessionOK, OursOK
  <2>3. k = m /\ MoveOK(m, nextSeq)
    BY <2>2 DEF MovesOK, Numbered
  <2> QED
    BY <2>2, <2>3 DEF Rewrites, MoveOK
<1> QED
  BY <1>2, <1>3 DEF OfRow, Seen

\* The latest of finitely many moves.
LEMMA LatestExists ==
  ASSUME NEW ms, IsFiniteSet(ms), Placed(ms), ms # {}
  PROVE  \E m \in ms : \A n \in ms \ {m} : Before(n, m)
<1> DEFINE sq == InOrder(ms)
           top == Len(sq)
<1>1. SortedOK(sq, ms)
  BY InOrderSorts
<1> HIDE DEF sq
<1>2. /\ sq \in Seq(ms) /\ \A m \in ms : \E k \in 1..top : sq[k] = m
      /\ \A i, j \in 1..top : i < j => Before(sq[i], sq[j])
  BY <1>1 DEF SortedOK
<1>3. top \in Nat /\ top \in 1..top /\ sq[top] \in ms
  <2>1. top \in Nat
    BY <1>2, LenProperties
  <2>2. \E k \in 1..top : TRUE
    BY <1>2
  <2>3. top \in 1..top
    BY <2>1, <2>2
  <2> QED
    BY <1>2, <2>1, <2>3, ElementOfSeq
<1>4. ASSUME NEW n \in ms \ {sq[top]} PROVE Before(n, sq[top])
  <2>1. PICK k \in 1..top : sq[k] = n
    BY <1>2
  <2>2. k < top
    BY <1>3, <2>1
  <2> QED
    BY <1>2, <1>3, <2>1, <2>2
<1> QED
  BY <1>3, <1>4

\* effectiveVolumesAt returns the replay up to the date.
LEMMA EffectiveRead ==
  ASSUME NEW ms, NEW r, NEW top \in Nat, OneRow(OfRow(ms, r), top), RowReplay(OfRow(ms, r)),
         NEW at \in Nat
  PROVE  EffectiveVolumesAt(ms, r, at) = Total({m \in OfRow(ms, r) : m.date <= at})
<1> DEFINE S == OfRow(ms, r)
           earlier == {m \in ms : m.row = r /\ m.date <= at}
           Latest(m) == \A n \in earlier \ {m} : Before(n, m)
           last == CHOOSE m \in earlier : Latest(m)
<1>1. EffectiveVolumesAt(ms, r, at) = IF earlier = {} THEN NoVolumes ELSE last.pcev
  BY DEF EffectiveVolumesAt
<1>0. earlier = {m \in S : m.date <= at}
  BY DEF OfRow
<1> HIDE DEF earlier, S
<1>2. CASE earlier = {}
  <2>1. Total(earlier) = NoVolumes
    BY <1>2, TotalEmpty
  <2> QED
    BY <1>0, <1>1, <1>2, <2>1 DEF S
<1>3. CASE earlier # {}
  <2>1. IsFiniteSet(earlier) /\ Placed(earlier)
    <3>1. IsFiniteSet(earlier)
      BY <1>0, FS_Subset DEF OneRow, Counted, S
    <3>2. \A m \in S : m.seq \in Nat /\ m.date \in Nat
      BY DEF OneRow, MoveOK, S
    <3> QED
      BY <1>0, <3>1, <3>2 DEF Placed, OneRow, Numbered, S
  <2>2. \E m \in earlier : Latest(m)
    BY <1>3, <2>1, LatestExists
  <2>3. last \in earlier /\ Latest(last)
    BY <2>2
  <2> HIDE DEF last
  <2>4. last \in S /\ last.date <= at /\ \A m \in S : m.date \in Nat /\ m.seq \in Nat
    BY <1>0, <2>3 DEF OneRow, MoveOK, S
  <2>5. last.pcev = Total({n \in S : n = last \/ Before(n, last)})
    BY <2>4 DEF RowReplay, S
  <2>6. {n \in S : n = last \/ Before(n, last)} = earlier
    <3>1. \A n \in S : Before(n, last) => n.date <= at
      BY <2>4 DEF Before
    <3>2. \A n \in earlier : n = last \/ Before(n, last)
      BY <2>3
    <3> QED
      BY <1>0, <2>4, <3>1, <3>2
  <2> QED
    BY <1>0, <1>1, <1>3, <2>5, <2>6 DEF S
<1> QED
  BY <1>2, <1>3

-----------------------------------------------------------------------------
(* Every step keeps it.                                                    *)

\* The item a session works on.
LEMMA ItemAtHand ==
  ASSUME MovesOK, NEW s \in Session, pc[s] \in {"read", "allocate", "write"}
  PROVE  LET it == Head(items[s])
         IN  /\ it.postings \in Seq(PlainPosting) /\ it.date \in Date /\ it.date \in Nat
             /\ RowsOf(it.postings) \subseteq Row
             /\ RowsOf(it.postings) \subseteq RowsOfAll(items[s])
             /\ RowsOfAll(Tail(items[s])) \subseteq RowsOfAll(items[s])
<1>1. items[s] \in Seq(Item) /\ items[s] # <<>>
  BY DEF MovesOK, SessionOK
<1>2. Head(items[s]) \in Item /\ Head(items[s]) = items[s][1] /\ 1 \in DOMAIN items[s]
  BY <1>1
<1>3. Head(items[s]).postings \in Seq(PlainPosting) /\ Head(items[s]).date \in Date
  BY <1>2 DEF Item
<1>4. RowsOf(Head(items[s]).postings) \subseteq RowsOfAll(items[s])
  BY <1>2 DEF RowsOfAll
<1>5. \A i \in DOMAIN Tail(items[s]) : i + 1 \in DOMAIN items[s] /\ Tail(items[s])[i] = items[s][i + 1]
  BY <1>1
<1>6. RowsOfAll(Tail(items[s])) \subseteq RowsOfAll(items[s])
  BY <1>5 DEF RowsOfAll
<1> QED
  BY <1>3, <1>4, <1>6, SidesFacts, DateAssumption

\* A session that does not step, while the rows it holds stand still.
LEMMA SameReplays ==
  ASSUME MovesOK, ReplayOK, NEW u \in Session,
         pc'[u] = pc[u], items'[u] = items[u], held'[u] = held[u],
         effective'[u] = effective[u], ours'[u] = ours[u],
         \A r \in Row : rowLock'[r] = u <=> rowLock[r] = u,
         \A r \in Row : rowLock[r] = u => OfRow(moves, r)' = OfRow(moves, r)
  PROVE  SessionReplays(u)'
<1>1. /\ HoldsRows(u) /\ ReadStands(u) /\ \A r \in Row : rowLock[r] = u => RowOK(u, r)
  BY DEF ReplayOK, SessionReplays
<1>2. \A r \in Row : rowLock[r] = u => OfRow(Seen(u), r)' = OfRow(Seen(u), r)
  BY DEF OfRow, Seen
<1>3. HoldsRows(u)'
  <2>1. \A n \in ours[u] : n.row \in Row
    BY DEF ReplayOK, ReplayTypes, Measured
  <2>2. pc[u] \in {"read", "allocate", "write"} => RowsOfAll(items[u]) \subseteq Row
    <3> SUFFICES ASSUME pc[u] \in {"read", "allocate", "write"} PROVE RowsOfAll(items[u]) \subseteq Row
      OBVIOUS
    <3>1. items[u] \in Seq(Item)
      BY DEF MovesOK, SessionOK
    <3>2. \A i \in DOMAIN items[u] : items[u][i].postings \in Seq(PlainPosting)
      <4>1. \A i \in DOMAIN items[u] : items[u][i] \in Item
        BY <3>1
      <4> QED
        BY <4>1 DEF Item
    <3> QED
      BY <3>2, SidesFacts DEF RowsOfAll
  <2>3. RowsOfAll(items[u])' = RowsOfAll(items[u])
    BY DEF RowsOfAll
  <2> QED
    BY <1>1, <2>1, <2>2, <2>3 DEF HoldsRows
<1>4. ReadStands(u)'
  <2> SUFFICES ASSUME pc[u] \in {"allocate", "write"},
                      NEW r \in RowsOf(Head(items[u]).postings)
               PROVE  effective[u][r] = Total({m \in OfRow(Seen(u), r)' : m.date <= Head(items[u]).date})
    BY DEF ReadStands
  <2>1. r \in Row /\ rowLock[r] = u
    BY <1>1, ItemAtHand DEF HoldsRows
  <2>2. effective[u][r] = Total({m \in OfRow(Seen(u), r) : m.date <= Head(items[u]).date})
    BY <1>1 DEF ReadStands
  <2>3. OfRow(Seen(u), r)' = OfRow(Seen(u), r)
    BY <1>2, <2>1
  <2> QED
    BY <2>2, <2>3
<1>5. \A r \in Row : rowLock'[r] = u => RowOK(u, r)'
  <2> SUFFICES ASSUME NEW r \in Row, rowLock[r] = u PROVE RowOK(u, r)'
    OBVIOUS
  <2>1. OfRow(Seen(u), r)' = OfRow(Seen(u), r)
    BY <1>2
  <2> QED
    BY <1>1, <2>1 DEF RowOK, RowReplay
<1> QED
  BY <1>3, <1>4, <1>5 DEF SessionReplays

\* lockVolumes reads the committed volumes of rows that nobody holds.
LEMMA LockKeepsReplay ==
  ASSUME MovesOK, ReplayOK, NEW s \in Session, NEW q \in Request, Lock(s, q)
  PROVE  ReplayOK'
<1>1. /\ pc[s] = "idle" /\ \A r \in RowsOfAll(q) : rowLock[r] = NoSession
      /\ rowLock' = [r \in Row |-> IF r \in RowsOfAll(q) THEN s ELSE rowLock[r]]
      /\ held' = [held EXCEPT ![s] = volumes] /\ items' = [items EXCEPT ![s] = q]
      /\ pc' = [pc EXCEPT ![s] = "read"]
      /\ moves' = moves /\ volumes' = volumes /\ ours' = ours /\ effective' = effective
  BY DEF Lock
<1>2. ReplayTypes /\ RowsReplay /\ SessionReplays(s) /\ \A u \in Session : SessionReplays(u)
  BY DEF ReplayOK
<1>3. ours[s] = {} /\ DOMAIN pc = Session /\ DOMAIN items = Session
  BY <1>1 DEF MovesOK, SessionOK
<1>4. ReplayTypes'
  <2>1. volumes' \in [Row -> Volumes] /\ held' \in [Session -> [Row -> Volumes]]
    BY <1>1, <1>2 DEF ReplayTypes
  <2>2. rowLock' \in [Row -> Session \cup {NoSession}]
    BY <1>1, <1>2 DEF ReplayTypes
  <2>3. effective' \in [Session -> [Row -> Volumes]]
    BY <1>1, <1>2 DEF ReplayTypes
  <2>4. Measured(moves)' /\ \A u \in Session : Measured(ours[u])'
    BY <1>1, <1>2 DEF ReplayTypes, Measured
  <2> QED
    BY <2>1, <2>2, <2>3, <2>4 DEF ReplayTypes
<1>5. RowsReplay'
  BY <1>1, <1>2 DEF RowsReplay, OfRow, RowReplay
<1>6. SessionReplays(s)'
  <2>1. \A r \in Row : rowLock[r] # s
    BY <1>1, <1>2 DEF SessionReplays, HoldsRows
  <2>2. pc'[s] = "read" /\ items'[s] = q /\ ours'[s] = {} /\ held'[s] = volumes
    BY <1>1, <1>2, <1>3 DEF ReplayTypes
  <2>3. RowsOfAll(q) \subseteq Row
    <3>1. \A i \in DOMAIN q : q[i].postings \in Seq(PlainPosting)
      <4>1. \A i \in DOMAIN q : q[i] \in Item
        BY RequestAssumption
      <4> QED
        BY <4>1 DEF Item
    <3> QED
      BY <3>1, SidesFacts DEF RowsOfAll
  <2>4. HoldsRows(s)'
    BY <1>1, <2>2, <2>3 DEF HoldsRows, RowsOfAll
  <2>5. ReadStands(s)'
    BY <2>2 DEF ReadStands
  <2>6. \A r \in Row : OfRow(Seen(s), r)' = OfRow(moves, r)
    BY <1>1, <2>2 DEF OfRow, Seen
  <2>7. \A r \in Row : RowOK(s, r)'
    <3> SUFFICES ASSUME NEW r \in Row PROVE RowOK(s, r)'
      OBVIOUS
    <3>1. RowReplay(OfRow(moves, r)) /\ volumes[r] = Total(OfRow(moves, r))
      BY <1>2 DEF RowsReplay
    <3>2. OfRow(Seen(s), r)' = OfRow(moves, r) /\ held'[s][r] = volumes[r]
      BY <2>2, <2>6
    <3> QED
      BY <3>1, <3>2 DEF RowOK, RowReplay
  <2> QED
    BY <2>4, <2>5, <2>7 DEF SessionReplays
<1>7. ASSUME NEW u \in Session, u # s PROVE SessionReplays(u)'
  <2>1. /\ pc'[u] = pc[u] /\ items'[u] = items[u] /\ ours'[u] = ours[u]
        /\ effective'[u] = effective[u] /\ held'[u] = held[u]
    BY <1>1, <1>2, <1>3, <1>7 DEF ReplayTypes
  <2>2. \A r \in Row : rowLock'[r] = u <=> rowLock[r] = u
    BY <1>1, <1>7, SessionAssumption
  <2>3. \A r \in Row : OfRow(moves, r)' = OfRow(moves, r)
    BY <1>1 DEF OfRow
  <2> QED
    BY <2>1, <2>2, <2>3, SameReplays
<1> QED
  BY <1>4, <1>5, <1>6, <1>7 DEF ReplayOK

\* The rows are locked, so what is read stands until it is used.
LEMMA ReadKeepsReplay ==
  ASSUME MovesOK, ReplayOK, NEW s \in Session, ReadEffective(s)
  PROVE  ReplayOK'
<1> DEFINE it == Head(items[s])
           read == [r \in Row |-> IF r \in RowsOf(it.postings)
                                  THEN EffectiveVolumesAt(Seen(s), r, it.date) ELSE NoVolumes]
<1>1. /\ pc[s] = "read" /\ effective' = [effective EXCEPT ![s] = read]
      /\ pc' = [pc EXCEPT ![s] = "allocate"]
      /\ moves' = moves /\ volumes' = volumes /\ ours' = ours /\ rowLock' = rowLock
      /\ held' = held /\ items' = items
  BY DEF ReadEffective
<1>2. ReplayTypes /\ RowsReplay /\ SessionReplays(s) /\ \A u \in Session : SessionReplays(u)
  BY DEF ReplayOK
<1>3. /\ it.postings \in Seq(PlainPosting) /\ it.date \in Nat
      /\ RowsOf(it.postings) \subseteq Row /\ RowsOf(it.postings) \subseteq RowsOfAll(items[s])
  BY <1>1, ItemAtHand
<1>4. HoldsRows(s) /\ \A r \in Row : rowLock[r] = s => RowOK(s, r)
  BY <1>2 DEF SessionReplays
<1>5. \A r \in RowsOf(it.postings) : rowLock[r] = s
  BY <1>1, <1>3, <1>4 DEF HoldsRows
<1> HIDE DEF it
<1>6. ASSUME NEW r \in RowsOf(it.postings)
      PROVE  LET before == {m \in OfRow(Seen(s), r) : m.date <= it.date}
             IN  EffectiveVolumesAt(Seen(s), r, it.date) = Total(before) /\ Total(before) \in Volumes
  <2> DEFINE before == {m \in OfRow(Seen(s), r) : m.date <= it.date}
  <2>1. OneRow(OfRow(Seen(s), r), nextSeq) /\ nextSeq \in Nat
    BY SeenRows
  <2>2. RowReplay(OfRow(Seen(s), r))
    BY <1>3, <1>4, <1>5 DEF RowOK
  <2>3. EffectiveVolumesAt(Seen(s), r, it.date) = Total(before)
    BY <1>3, <2>1, <2>2, EffectiveRead
  <2>4. Counted(before)
    BY <2>1, FS_Subset DEF OneRow, Counted
  <2> QED
    BY <2>3, <2>4, TotalType
<1>7. read \in [Row -> Volumes]
  <2>1. NoVolumes \in Volumes
    BY DEF NoVolumes, Volumes
  <2> QED
    BY <1>6, <2>1
<1>8. ReplayTypes'
  <2>1. effective' \in [Session -> [Row -> Volumes]]
    BY <1>1, <1>2, <1>7 DEF ReplayTypes
  <2> QED
    BY <1>1, <1>2, <2>1 DEF ReplayTypes, Measured
<1>9. RowsReplay'
  BY <1>1, <1>2 DEF RowsReplay, OfRow, RowReplay
<1>10. OfRow(Seen(s), 0)' = OfRow(Seen(s), 0) /\ \A r : OfRow(Seen(s), r)' = OfRow(Seen(s), r)
  BY <1>1 DEF OfRow, Seen
<1>11. SessionReplays(s)'
  <2>1. pc'[s] = "allocate" /\ effective'[s] = read
    BY <1>1, <1>2 DEF ReplayTypes, MovesOK
  <2>2. HoldsRows(s)'
    BY <1>1, <1>4, <2>1 DEF HoldsRows, RowsOfAll
  <2>3. ReadStands(s)'
    <3> SUFFICES ASSUME NEW r \in RowsOf(it.postings)
                 PROVE  effective'[s][r] = Total({m \in OfRow(Seen(s), r)' : m.date <= it.date})
      BY <1>1 DEF ReadStands, it
    <3>1. effective'[s][r] = EffectiveVolumesAt(Seen(s), r, it.date)
      BY <1>3, <2>1
    <3> QED
      BY <1>6, <1>10, <3>1
  <2>4. \A r \in Row : rowLock'[r] = s => RowOK(s, r)'
    BY <1>1, <1>4, <1>10 DEF RowOK, RowReplay
  <2> QED
    BY <2>2, <2>3, <2>4 DEF SessionReplays
<1>12. ASSUME NEW u \in Session, u # s PROVE SessionReplays(u)'
  <2>1. /\ pc'[u] = pc[u] /\ items'[u] = items[u] /\ ours'[u] = ours[u]
        /\ effective'[u] = effective[u] /\ held'[u] = held[u]
    BY <1>1, <1>2, <1>12 DEF ReplayTypes, MovesOK
  <2>2. \A r \in Row : OfRow(moves, r)' = OfRow(moves, r) /\ (rowLock'[r] = u <=> rowLock[r] = u)
    BY <1>1 DEF OfRow
  <2> QED
    BY <2>1, <2>2, SameReplays
<1> QED
  BY <1>8, <1>9, <1>11, <1>12 DEF ReplayOK

\* The ledgers row is not a row of volumes.
LEMMA AllocateKeepsReplay ==
  ASSUME MovesOK, ReplayOK, NEW s \in Session, Allocate(s)
  PROVE  ReplayOK'
<1>1. /\ pc[s] = "allocate" /\ pc' = [pc EXCEPT ![s] = "write"]
      /\ moves' = moves /\ volumes' = volumes /\ ours' = ours /\ rowLock' = rowLock
      /\ held' = held /\ items' = items /\ effective' = effective
  BY DEF Allocate
<1>2. ReplayTypes /\ RowsReplay /\ SessionReplays(s)
  BY DEF ReplayOK
<1>3. ReplayTypes'
  BY <1>1, <1>2 DEF ReplayTypes, Measured
<1>4. RowsReplay'
  BY <1>1, <1>2 DEF RowsReplay, OfRow, RowReplay
<1>5. \A r : OfRow(Seen(s), r)' = OfRow(Seen(s), r)
  BY <1>1 DEF OfRow, Seen
<1>6. SessionReplays(s)'
  <2>1. pc'[s] = "write"
    BY <1>1 DEF MovesOK
  <2>2. HoldsRows(s)'
    BY <1>1, <1>2, <2>1 DEF SessionReplays, HoldsRows, RowsOfAll
  <2>3. ReadStands(s)'
    BY <1>1, <1>2, <1>5, <2>1 DEF SessionReplays, ReadStands
  <2>4. \A r \in Row : rowLock'[r] = s => RowOK(s, r)'
    BY <1>1, <1>2, <1>5 DEF SessionReplays, RowOK, RowReplay
  <2> QED
    BY <2>2, <2>3, <2>4 DEF SessionReplays
<1>7. ASSUME NEW u \in Session, u # s PROVE SessionReplays(u)'
  <2>1. /\ pc'[u] = pc[u] /\ items'[u] = items[u] /\ ours'[u] = ours[u]
        /\ effective'[u] = effective[u] /\ held'[u] = held[u]
    BY <1>1, <1>7 DEF MovesOK
  <2>2. \A r \in Row : OfRow(moves, r)' = OfRow(moves, r) /\ (rowLock'[r] = u <=> rowLock[r] = u)
    BY <1>1 DEF OfRow
  <2> QED
    BY <2>1, <2>2, SameReplays
<1> QED
  BY <1>3, <1>4, <1>6, <1>7 DEF ReplayOK

\* The moves of a transaction are on its rows.
LEMMA QueuedMeasured ==
  ASSUME NEW ps \in Seq(PlainPosting), NEW at, NEW b, NEW e
  PROVE  /\ Measured(QueueMoves(ps, at, b, e))
         /\ \A m \in QueueMoves(ps, at, b, e) : m.row \in RowsOf(ps)
<1> DEFINE sides == Sides(ps)
           done == FoldLeft(QueueMove, [running |-> b, effective |-> e, queued |-> <<>>], sides)
           new == QueueMoves(ps, at, b, e)
<1>1. new = {[seq |-> nextSeq + k, row |-> sides[k].row, amount |-> sides[k].amount,
              source |-> sides[k].source, date |-> at,
              pcv |-> done.queued[k].pcv, pcev |-> done.queued[k].pcev]
               : k \in DOMAIN sides}
  BY DEF QueueMoves
<1>2. /\ RowsOf(ps) \subseteq Row
      /\ \A k \in DOMAIN sides : /\ sides[k].row \in RowsOf(ps) /\ sides[k].amount \in Nat
                                 /\ sides[k].source \in BOOLEAN
  BY SidesFacts
<1> HIDE DEF done, sides, new
<1>3. \A m \in new : \E k \in DOMAIN sides : /\ m.row = sides[k].row /\ m.amount = sides[k].amount
                                             /\ m.source = sides[k].source
  BY <1>1
<1>4. Measured(new) /\ \A m \in new : m.row \in RowsOf(ps)
  BY <1>2, <1>3 DEF Measured
<1> QED
  BY <1>4 DEF new

\* What a session sees after it wrote: what it saw, shifted, and the new moves.
LEMMA SeenAfterWrite ==
  ASSUME MovesOK, NEW s \in Session, Write(s)
  PROVE  LET it == Head(items[s])
             later == Later(Seen(s), it.postings, it.date)
             updates == VolumeUpdates(it.postings)
         IN  Seen(s)' = {IF m \in later THEN Shifted(m, updates) ELSE m : m \in Seen(s)}
                          \cup QueueMoves(it.postings, it.date, held[s], effective[s])
<1> DEFINE it == Head(items[s])
           updates == VolumeUpdates(it.postings)
           inserted == QueueMoves(it.postings, it.date, held[s], effective[s])
           later == Later(Seen(s), it.postings, it.date)
           shifted == {Shifted(m, updates) : m \in later}
           untouched == {m \in ours[s] : \A n \in shifted : n.seq # m.seq}
           new == untouched \cup shifted \cup inserted
           kept(m) == IF m \in later THEN Shifted(m, updates) ELSE m
<1>1. /\ ours'[s] = new /\ moves' = moves /\ pc[s] = "write" /\ nextSeq \in Nat
  BY DEF Write, MovesOK
<1>2. it.postings \in Seq(PlainPosting) /\ it.date \in Date
  BY <1>1, ItemAtHand
<1>3. \A m \in inserted : m.seq \in Nat /\ m.seq > nextSeq
  <2>1. QueuedOK(inserted, it.postings, it.date)
    BY <1>1, <1>2, QueuedMoves
  <2> HIDE DEF it, inserted
  <2> QED
    BY <2>1 DEF QueuedOK, MoveOK
<1>4. /\ Numbered(Seen(s))
      /\ \A m \in Seen(s) : MoveOK(m, nextSeq) /\ m.seq \in Nat /\ m.seq <= nextSeq
  BY <1>1, SeenNumbered DEF MoveOK
<1>5. \A m \in later : m \in Seen(s) /\ Shifted(m, updates).seq = m.seq
  BY <1>4, ShiftedFields DEF Later
<1> HIDE DEF it, updates, inserted, later
<1>6. \A m \in Seen(s) : kept(m).seq = m.seq /\ kept(m).seq <= nextSeq
  BY <1>4, <1>5
<1>7. \A n \in new : n \in inserted \/ \E m \in Seen(s) : n = kept(m)
  <2>1. \A n \in untouched : n \in Seen(s) /\ kept(n) = n
    BY <1>5 DEF Seen
  <2>2. \A n \in shifted : \E m \in Seen(s) : n = kept(m)
    BY <1>5
  <2> QED
    BY <2>1, <2>2
<1>8. ASSUME NEW m \in moves, \A n \in new : n.seq # m.seq
      PROVE  m \in Seen(s) /\ kept(m) = m
  <2>1. \A n \in ours[s] : n.seq # m.seq
    <3> SUFFICES ASSUME NEW n \in ours[s], n.seq = m.seq PROVE FALSE
      OBVIOUS
    <3>1. n \in untouched \/ \E x \in shifted : x.seq = n.seq
      OBVIOUS
    <3> QED
      BY <1>8, <3>1
  <2>2. m \in Seen(s)
    BY <2>1 DEF Seen
  <2>3. m \notin later
    BY <1>5, <1>8
  <2> QED
    BY <2>2, <2>3
<1>9. ASSUME NEW m \in Seen(s)
      PROVE  kept(m) \in new \/ (kept(m) \in moves /\ \A n \in new : n.seq # kept(m).seq)
  <2>1. CASE m \in later
    BY <2>1
  <2>2. CASE m \notin later
    <3>1. kept(m) = m
      BY <2>2
    <3>2. \A n \in shifted : n.seq # m.seq
      BY <1>4, <1>5, <2>2 DEF Numbered
    <3>3. CASE m \in ours[s]
      BY <3>1, <3>2, <3>3
    <3>4. CASE m \notin ours[s]
      <4>1. m \in moves /\ \A n \in ours[s] : n.seq # m.seq
        BY <3>4 DEF Seen
      <4>2. \A n \in inserted : n.seq # m.seq
        BY <1>1, <1>3, <1>4
      <4> QED
        BY <3>1, <3>2, <4>1, <4>2
    <3> QED
      BY <3>3, <3>4
  <2> QED
    BY <2>1, <2>2
<1>10. Seen(s)' = {m \in moves : \A n \in new : n.seq # m.seq} \cup new
  BY <1>1 DEF Seen
<1>11. inserted \subseteq new
  OBVIOUS
<1> HIDE DEF new
<1>12. Seen(s)' \subseteq {kept(m) : m \in Seen(s)} \cup inserted
  BY <1>7, <1>8, <1>10
<1>13. {kept(m) : m \in Seen(s)} \cup inserted \subseteq Seen(s)'
  BY <1>9, <1>10, <1>11
<1> QED
  BY <1>12, <1>13 DEF it, updates, inserted, later

\* Row by row.
LEMMA RowAfterWrite ==
  ASSUME MovesOK, ReplayOK, NEW s \in Session, Write(s), NEW r \in Row
  PROVE  LET it == Head(items[s])
             Q == OfRow(QueueMoves(it.postings, it.date, held[s], effective[s]), r)
         IN  /\ r \in RowsOf(it.postings) =>
                  OfRow(Seen(s), r)' =
                    RowShifts(OfRow(Seen(s), r), it.date, VolumeUpdates(it.postings)[r]) \cup Q
             /\ r \notin RowsOf(it.postings) => OfRow(Seen(s), r)' = OfRow(Seen(s), r)
<1> DEFINE it == Head(items[s])
           updates == VolumeUpdates(it.postings)
           inserted == QueueMoves(it.postings, it.date, held[s], effective[s])
           later == Later(Seen(s), it.postings, it.date)
           kept(m) == IF m \in later THEN Shifted(m, updates) ELSE m
           Q == OfRow(inserted, r)
           S == Seen(s)
<1>1. Seen(s)' = {kept(m) : m \in S} \cup inserted
  BY SeenAfterWrite
<1>2. it.postings \in Seq(PlainPosting) /\ pc[s] = "write"
  <2>1. pc[s] = "write"
    BY DEF Write
  <2> QED
    BY <2>1, ItemAtHand
<1>3. \A m \in inserted : m.row \in RowsOf(it.postings)
  BY <1>2, QueuedMeasured
<1>4. \A m \in S : MoveOK(m, nextSeq)
  BY SeenNumbered
<1>5. \A m \in S : m \in later <=> m.row \in RowsOf(it.postings) /\ m.date > it.date
  BY DEF Later
<1>6. \A m \in S : kept(m).row = m.row
  BY <1>4, ShiftedFields
<1>7. OfRow(Seen(s), r)' = {m \in Seen(s)' : m.row = r}
  BY DEF OfRow
<1> HIDE DEF it, updates, inserted, later, S
<1>8. CASE r \in RowsOf(it.postings)
  <2>1. \A m \in S : m.row = r => kept(m) = RowShift(m, it.date, updates[r])
    BY <1>5, <1>8 DEF Shifted, RowShift
  <2> HIDE DEF kept
  <2>2. {m \in Seen(s)' : m.row = r} =
          {RowShift(m, it.date, updates[r]) : m \in {x \in S : x.row = r}}
            \cup {m \in inserted : m.row = r}
    BY <1>1, <1>6, <2>1
  <2> QED
    BY <1>7, <1>8, <2>2 DEF RowShifts, OfRow, S, it, updates, inserted
<1>9. CASE r \notin RowsOf(it.postings)
  <2>1. \A m \in S : m.row = r => kept(m) = m
    BY <1>5, <1>9
  <2> HIDE DEF kept
  <2>2. {m \in Seen(s)' : m.row = r} = {m \in S : m.row = r}
    BY <1>1, <1>3, <1>6, <1>9, <2>1
  <2> QED
    BY <1>7, <1>9, <2>2 DEF OfRow, S, it
<1> QED
  BY <1>8, <1>9 DEF it

\* The insert and the shift, on a row that the session holds.
LEMMA WriteKeepsRow ==
  ASSUME MovesOK, ReplayOK, NEW s \in Session, Write(s), NEW r \in Row, rowLock[r] = s
  PROVE  RowOK(s, r)'
<1> DEFINE it == Head(items[s])
           updates == VolumeUpdates(it.postings)
           inserted == QueueMoves(it.postings, it.date, held[s], effective[s])
           Q == OfRow(inserted, r)
           S == OfRow(Seen(s), r)
<1>1. /\ pc[s] = "write" /\ nextSeq \in Nat /\ SessionReplays(s) /\ ReplayTypes
      /\ held' = [held EXCEPT ![s] =
              [x \in Row |-> IF x \in RowsOf(it.postings) THEN AddDelta(@[x], updates[x]) ELSE @[x]]]
  BY DEF Write, MovesOK, ReplayOK
<1>2. RowReplay(S) /\ held[s][r] = Total(S)
  BY <1>1 DEF SessionReplays, RowOK
<1>3. held[s] \in [Row -> Volumes] /\ effective[s] \in [Row -> Volumes]
  BY <1>1 DEF ReplayTypes
<1>4. held'[s][r] = IF r \in RowsOf(it.postings) THEN AddDelta(held[s][r], updates[r]) ELSE held[s][r]
  BY <1>1 DEF ReplayTypes
<1>5. it.postings \in Seq(PlainPosting) /\ it.date \in Date /\ it.date \in Nat
  BY <1>1, ItemAtHand
<1> HIDE DEF it, updates, inserted, Q, S
<1>6. CASE r \notin RowsOf(it.postings)
  <2>1. OfRow(Seen(s), r)' = S
    BY <1>6, RowAfterWrite DEF it, S
  <2> QED
    BY <1>2, <1>4, <1>6, <2>1 DEF RowOK, RowReplay
<1>7. CASE r \in RowsOf(it.postings)
  <2>1. OfRow(Seen(s), r)' = RowShifts(S, it.date, updates[r]) \cup Q
    BY <1>7, RowAfterWrite DEF it, S, updates, inserted, Q
  <2>2. QueuedOnRow(Q, it.postings, r, held[s], effective[s])
    BY <1>1, <1>3, <1>5, QueuedGoesOn DEF inserted, Q
  <2>3. QueuedOK(inserted, it.postings, it.date)
    BY <1>1, <1>5, QueuedMoves DEF inserted
  <2>4. Numbered(Q) /\ \A q \in Q : q.seq \in Nat /\ q.seq > nextSeq /\ q.date = it.date
    BY <2>3 DEF QueuedOK, MoveOK, Numbered, Q, OfRow
  <2>5. effective[s][r] = Total({m \in S : m.date <= it.date})
    BY <1>1, <1>7 DEF SessionReplays, ReadStands, it, S
  <2>6. Counted(Q) /\ Total(Q) = updates[r] /\ GoesOn(Q, S, it.date)
    BY <1>2, <1>7, <2>2, <2>5 DEF QueuedOnRow, GoesOn, updates
  <2>7. OneRow(S, nextSeq)
    BY SeenRows DEF S
  <2>8. LET N == RowShifts(S, it.date, Total(Q)) \cup Q
        IN  RowReplay(N) /\ Total(N) = AddDelta(Total(S), Total(Q))
    BY <1>1, <1>2, <1>5, <2>4, <2>6, <2>7, RowWritten
  <2>9. RowReplay(OfRow(Seen(s), r)') /\ Total(OfRow(Seen(s), r)') = AddDelta(Total(S), updates[r])
    BY <2>1, <2>6, <2>8
  <2> QED
    BY <1>2, <1>4, <1>7, <2>9 DEF RowOK, RowReplay
<1> QED
  BY <1>6, <1>7

\* Inserting a transaction's moves and shifting the later ones keeps every snapshot
\* the replay of the moves before it.
LEMMA WriteKeepsReplay ==
  ASSUME MovesOK, ReplayOK, NEW s \in Session, Write(s)
  PROVE  ReplayOK'
<1> DEFINE it == Head(items[s])
           updates == VolumeUpdates(it.postings)
           inserted == QueueMoves(it.postings, it.date, held[s], effective[s])
           later == Later(Seen(s), it.postings, it.date)
           shifted == {Shifted(m, updates) : m \in later}
           untouched == {m \in ours[s] : \A n \in shifted : n.seq # m.seq}
           new == untouched \cup shifted \cup inserted
           after == [r \in Row |-> IF r \in RowsOf(it.postings)
                                   THEN AddDelta(held[s][r], updates[r]) ELSE held[s][r]]
<1>1. /\ pc[s] = "write" /\ ours' = [ours EXCEPT ![s] = new]
      /\ held' = [held EXCEPT ![s] = after]
      /\ items' = [items EXCEPT ![s] = Tail(@)]
      /\ pc' = [pc EXCEPT ![s] = IF Len(items[s]) = 1 THEN "commit" ELSE "read"]
      /\ moves' = moves /\ volumes' = volumes /\ rowLock' = rowLock /\ effective' = effective
  BY DEF Write
<1>2. /\ ReplayTypes /\ RowsReplay /\ SessionReplays(s) /\ HoldsRows(s)
      /\ DOMAIN pc = Session /\ DOMAIN ours = Session /\ DOMAIN items = Session
  BY DEF ReplayOK, SessionReplays, MovesOK
<1>3. /\ it.postings \in Seq(PlainPosting)
      /\ RowsOf(it.postings) \subseteq Row /\ RowsOf(it.postings) \subseteq RowsOfAll(items[s])
      /\ RowsOfAll(Tail(items[s])) \subseteq RowsOfAll(items[s])
  BY <1>1, ItemAtHand
<1>4. \A r \in RowsOfAll(items[s]) : rowLock[r] = s
  BY <1>1, <1>2 DEF HoldsRows
<1>5. Measured(inserted) /\ \A m \in inserted : m.row \in RowsOf(it.postings)
  BY <1>3, QueuedMeasured
<1>6. \A x \in shifted : /\ x.row \in RowsOf(it.postings)
                         /\ x.amount \in Nat /\ x.source \in BOOLEAN
  <2> SUFFICES ASSUME NEW m \in later
               PROVE  /\ Shifted(m, updates).row \in RowsOf(it.postings)
                      /\ Shifted(m, updates).amount \in Nat
                      /\ Shifted(m, updates).source \in BOOLEAN
    OBVIOUS
  <2>1. m \in Seen(s) /\ m.row \in RowsOf(it.postings)
    BY DEF Later
  <2>2. MoveOK(m, nextSeq) /\ m.amount \in Nat /\ m.source \in BOOLEAN
    BY <1>2, <2>1, SeenNumbered DEF ReplayTypes, Measured, Seen
  <2> HIDE DEF updates
  <2> QED
    BY <2>1, <2>2 DEF Shifted, MoveOK
<1>7. held[s] \in [Row -> Volumes] /\ after \in [Row -> Volumes]
  <2>1. held[s] \in [Row -> Volumes]
    BY <1>2 DEF ReplayTypes
  <2>2. \A r \in RowsOf(it.postings) : updates[r] \in Volumes
    <3>1. Movable(it.postings)
      <4>1. \A i \in DOMAIN it.postings : DeltaAmount(it.postings[i]) \in Nat
        BY <1>3, SidesFacts DEF DeltaAmount
      <4> HIDE DEF it
      <4> QED
        BY <1>3, <4>1, SidesFacts DEF Movable
    <3> HIDE DEF it
    <3> QED
      BY <3>1, UpdatesType DEF Delta, Volumes
  <2> HIDE DEF it, updates
  <2>3. \A r \in RowsOf(it.postings) : AddDelta(held[s][r], updates[r]) \in Volumes
    BY <1>3, <2>1, <2>2, AddingVolumes
  <2> QED
    BY <2>1, <2>3
<1> HIDE DEF it, updates, inserted, later, shifted, after
<1>8. Measured(new)
  <2>1. Measured(ours[s])
    BY <1>2 DEF ReplayTypes
  <2> QED
    BY <1>3, <1>5, <1>6, <2>1 DEF Measured
<1>9. \A n \in new : rowLock[n.row] = s
  <2>1. \A n \in ours[s] : rowLock[n.row] = s
    BY <1>2 DEF HoldsRows
  <2> QED
    BY <1>3, <1>4, <1>5, <1>6, <2>1
<1> HIDE DEF new
<1>10. ReplayTypes'
  <2>1. held' \in [Session -> [Row -> Volumes]]
    BY <1>1, <1>2, <1>7 DEF ReplayTypes
  <2>2. \A u \in Session : Measured(ours[u])'
    BY <1>1, <1>2, <1>8 DEF ReplayTypes, Measured
  <2>3. /\ volumes' \in [Row -> Volumes] /\ effective' \in [Session -> [Row -> Volumes]]
        /\ rowLock' \in [Row -> Session \cup {NoSession}] /\ Measured(moves)'
    BY <1>1, <1>2 DEF ReplayTypes, Measured
  <2> QED
    BY <2>1, <2>2, <2>3 DEF ReplayTypes
<1>11. RowsReplay'
  BY <1>1, <1>2 DEF RowsReplay, OfRow, RowReplay
<1>12. SessionReplays(s)'
  <2>1. /\ pc'[s] \in {"commit", "read"} /\ ours'[s] = new /\ items'[s] = Tail(items[s])
        /\ rowLock' = rowLock
    BY <1>1, <1>2
  <2>2. RowsOfAll(items[s])' = RowsOfAll(Tail(items[s]))
    BY <2>1 DEF RowsOfAll
  <2>3. HoldsRows(s)'
    BY <1>3, <1>4, <1>9, <2>1, <2>2 DEF HoldsRows
  <2>4. ReadStands(s)'
    BY <2>1 DEF ReadStands
  <2>5. \A r \in Row : rowLock'[r] = s => RowOK(s, r)'
    BY <2>1, WriteKeepsRow
  <2> QED
    BY <2>3, <2>4, <2>5 DEF SessionReplays
<1>13. ASSUME NEW u \in Session, u # s PROVE SessionReplays(u)'
  <2>1. /\ pc'[u] = pc[u] /\ items'[u] = items[u] /\ ours'[u] = ours[u]
        /\ effective'[u] = effective[u] /\ held'[u] = held[u]
    BY <1>1, <1>2, <1>13 DEF ReplayTypes
  <2>2. \A r \in Row : OfRow(moves, r)' = OfRow(moves, r) /\ (rowLock'[r] = u <=> rowLock[r] = u)
    BY <1>1 DEF OfRow
  <2> QED
    BY <2>1, <2>2, SameReplays
<1> QED
  BY <1>10, <1>11, <1>12, <1>13 DEF ReplayOK

\* COMMIT publishes the rows the session holds; a rollback publishes nothing.
LEMMA EndKeepsReplay ==
  ASSUME MovesOK, ReplayOK, NEW s \in Session, Release(s),
         \/ moves' = moves /\ volumes' = volumes
         \/ /\ moves' = Seen(s)
            /\ volumes' = [r \in Row |-> IF rowLock[r] = s THEN held[s][r] ELSE volumes[r]]
  PROVE  ReplayOK'
<1>1. /\ ReplayTypes /\ RowsReplay /\ SessionReplays(s)
      /\ DOMAIN pc = Session /\ DOMAIN ours = Session /\ DOMAIN items = Session
  BY DEF ReplayOK, MovesOK
<1>2. /\ rowLock' = [r \in Row |-> IF rowLock[r] = s THEN NoSession ELSE rowLock[r]]
      /\ ours' = [ours EXCEPT ![s] = {}] /\ held' = [held EXCEPT ![s] = NoneHeld]
      /\ effective' = [effective EXCEPT ![s] = NoneHeld]
      /\ items' = [items EXCEPT ![s] = <<>>] /\ pc' = [pc EXCEPT ![s] = "idle"]
  BY DEF Release
<1>3. \A r \in Row : rowLock[r] # s => OfRow(moves, r)' = OfRow(moves, r)
  <2> SUFFICES ASSUME NEW r \in Row, rowLock[r] # s PROVE OfRow(moves', r) = OfRow(moves, r)
    BY DEF OfRow
  <2>1. OfRow(Seen(s), r) = OfRow(moves, r)
    BY OtherRows
  <2> QED
    BY <2>1
<1>4. RowsReplay'
  <2> SUFFICES ASSUME NEW r \in Row
               PROVE  RowReplay(OfRow(moves', r)) /\ volumes'[r] = Total(OfRow(moves', r))
    BY DEF RowsReplay, OfRow, RowReplay
  <2>1. RowReplay(OfRow(moves, r)) /\ volumes[r] = Total(OfRow(moves, r))
    BY <1>1 DEF RowsReplay
  <2>2. CASE moves' = moves /\ volumes' = volumes
    BY <2>1, <2>2
  <2>3. CASE /\ moves' = Seen(s)
             /\ volumes' = [x \in Row |-> IF rowLock[x] = s THEN held[s][x] ELSE volumes[x]]
    <3>1. CASE rowLock[r] = s
      BY <1>1, <2>3, <3>1 DEF SessionReplays, RowOK
    <3>2. CASE rowLock[r] # s
      <4>1. OfRow(moves', r) = OfRow(moves, r)
        BY <2>3, <3>2, OtherRows
      <4> QED
        BY <2>1, <2>3, <3>2, <4>1
    <3> QED
      BY <3>1, <3>2
  <2> QED
    BY <2>2, <2>3
<1>5. ReplayTypes'
  <2>1. NoneHeld \in [Row -> Volumes]
    BY DEF NoneHeld, NoVolumes, Volumes
  <2>2. held' \in [Session -> [Row -> Volumes]] /\ effective' \in [Session -> [Row -> Volumes]]
    BY <1>1, <1>2, <2>1 DEF ReplayTypes
  <2>3. rowLock' \in [Row -> Session \cup {NoSession}]
    BY <1>1, <1>2 DEF ReplayTypes
  <2>4. volumes' \in [Row -> Volumes]
    <3>1. held[s] \in [Row -> Volumes] /\ volumes \in [Row -> Volumes]
      BY <1>1 DEF ReplayTypes
    <3> QED
      BY <3>1
  <2>5. Measured(moves)'
    BY <1>1 DEF ReplayTypes, Measured, Seen
  <2>6. \A u \in Session : Measured(ours[u])'
    BY <1>1, <1>2 DEF ReplayTypes, Measured
  <2> QED
    BY <2>2, <2>3, <2>4, <2>5, <2>6 DEF ReplayTypes
<1>6. SessionReplays(s)'
  <2>1. pc'[s] = "idle" /\ ours'[s] = {} /\ \A r \in Row : rowLock'[r] # s
    BY <1>1, <1>2, SessionAssumption
  <2>2. HoldsRows(s)' /\ ReadStands(s)'
    BY <2>1 DEF HoldsRows, ReadStands
  <2> QED
    BY <2>1, <2>2 DEF SessionReplays
<1>7. ASSUME NEW u \in Session, u # s PROVE SessionReplays(u)'
  <2>1. /\ pc'[u] = pc[u] /\ items'[u] = items[u] /\ ours'[u] = ours[u]
        /\ effective'[u] = effective[u] /\ held'[u] = held[u]
    BY <1>1, <1>2, <1>7 DEF ReplayTypes
  <2>2. \A r \in Row : rowLock'[r] = u <=> rowLock[r] = u
    BY <1>2, <1>7, SessionAssumption
  <2>3. \A r \in Row : rowLock[r] = u => OfRow(moves, r)' = OfRow(moves, r)
    BY <1>3, <1>7
  <2> QED
    BY <2>1, <2>2, <2>3, SameReplays
<1> QED
  BY <1>4, <1>5, <1>6, <1>7 DEF ReplayOK

\* No move, nothing to replay.
LEMMA InitReplays ==
  ASSUME Init
  PROVE  ReplayOK
<1>1. NoVolumes \in Volumes /\ NoneHeld \in [Row -> Volumes] /\ \A r \in Row : NoneHeld[r] = NoVolumes
  BY DEF NoneHeld, NoVolumes, Volumes
<1>2. ReplayTypes
  BY <1>1 DEF Init, ReplayTypes, Measured
<1>3. \A r \in Row : OfRow(moves, r) = {}
  BY DEF Init, OfRow
<1>4. RowsReplay
  BY <1>1, <1>3, TotalEmpty DEF Init, RowsReplay, RowReplay
<1>5. \A s \in Session : /\ pc[s] = "idle" /\ ours[s] = {}
                         /\ \A r \in Row : rowLock[r] # s
  BY SessionAssumption DEF Init
<1>6. \A s \in Session : SessionReplays(s)
  BY <1>5 DEF SessionReplays, HoldsRows, ReadStands
<1> QED
  BY <1>2, <1>4, <1>6 DEF ReplayOK

\* Every step keeps the snapshots replays.
LEMMA StepKeepsReplay ==
  ASSUME MovesOK, ReplayOK, [Next]_vars
  PROVE  ReplayOK'
<1>1. ASSUME NEW s \in Session, NEW q \in Request, Lock(s, q) PROVE ReplayOK'
  BY <1>1, LockKeepsReplay
<1>2. ASSUME NEW s \in Session, ReadEffective(s) PROVE ReplayOK'
  BY <1>2, ReadKeepsReplay
<1>3. ASSUME NEW s \in Session, Allocate(s) PROVE ReplayOK'
  BY <1>3, AllocateKeepsReplay
<1>4. ASSUME NEW s \in Session, Write(s) PROVE ReplayOK'
  BY <1>4, WriteKeepsReplay
<1>5. ASSUME NEW s \in Session, CommitTx(s) PROVE ReplayOK'
  BY <1>5, EndKeepsReplay DEF CommitTx
<1>6. ASSUME NEW s \in Session, Rollback(s) PROVE ReplayOK'
  BY <1>6, EndKeepsReplay DEF Rollback
<1>7. ASSUME UNCHANGED <<moves, volumes, pc, ours, items, rowLock, held, effective>>
      PROVE  ReplayOK'
  <2>1. ReplayTypes'
    BY <1>7 DEF ReplayOK, ReplayTypes, Measured
  <2>2. RowsReplay'
    BY <1>7 DEF ReplayOK, RowsReplay, OfRow, RowReplay
  <2>3. \A r \in Row : OfRow(moves, r)' = OfRow(moves, r)
    BY <1>7 DEF OfRow
  <2>4. ASSUME NEW u \in Session PROVE SessionReplays(u)'
    BY <1>7, <2>3, SameReplays
  <2> QED
    BY <2>1, <2>2, <2>4 DEF ReplayOK
<1>8. CASE ListMoves
  BY <1>7, <1>8 DEF ListMoves
<1>9. CASE UNCHANGED vars
  BY <1>7, <1>9 DEF vars
<1> QED
  BY <1>1, <1>2, <1>3, <1>4, <1>5, <1>6, <1>8, <1>9 DEF Next

\* The snapshots are replays throughout.
LEMMA ReplayAlwaysOK == Spec => []ReplayOK
<1>1. Init => ReplayOK
  BY InitReplays
<1>2. MovesOK /\ ReplayOK /\ [Next]_vars => ReplayOK'
  BY StepKeepsReplay
<1> QED
  BY <1>1, <1>2, MovesAlwaysOK, PTL DEF Spec

\* Every stored effective snapshot is the replay of its row up to it in effective
\* order, whatever was backdated behind it and in whatever order the transactions
\* committed (effectiveVolumesAt, queueMoves, queueLaterEffectiveShift).
THEOREM EffectiveAlwaysReplays == Spec => []EffectiveIsReplay
<1>1. ReplayOK => EffectiveIsReplay
  <2> SUFFICES ASSUME ReplayOK, NEW m \in moves
               PROVE  m.pcev = Total({n \in OnRow(m.row) : n = m \/ Before(n, m)})
    BY DEF EffectiveIsReplay
  <2>1. m.row \in Row /\ m \in OfRow(moves, m.row) /\ OnRow(m.row) = OfRow(moves, m.row)
    BY DEF ReplayOK, ReplayTypes, Measured, OfRow, OnRow
  <2> QED
    BY <2>1 DEF ReplayOK, RowsReplay, RowReplay
<1> QED
  BY <1>1, ReplayAlwaysOK, PTL

\* Every frozen snapshot is the replay of its row in order of arrival, and
\* accounts_volumes is the replay of all of it (queueMoves, updateVolumes).
THEOREM FrozenAlwaysReplays == Spec => []FrozenIsReplay
<1>1. ReplayOK => FrozenIsReplay
  <2>1. \A r : OnRow(r) = OfRow(moves, r)
    BY DEF OfRow, OnRow
  <2>2. ASSUME ReplayOK, NEW m \in moves
        PROVE  m.pcv = Total({n \in OnRow(m.row) : n.seq <= m.seq})
    <3>1. m.row \in Row /\ m \in OfRow(moves, m.row)
      BY <2>2 DEF ReplayOK, ReplayTypes, Measured, OfRow
    <3> QED
      BY <2>1, <2>2, <3>1 DEF ReplayOK, RowsReplay, RowReplay
  <2>3. ReplayOK => \A r \in Row : volumes[r] = Total(OnRow(r))
    BY <2>1 DEF ReplayOK, RowsReplay
  <2> QED
    BY <2>2, <2>3 DEF FrozenIsReplay
<1> QED
  BY <1>1, ReplayAlwaysOK, PTL

=============================================================================
