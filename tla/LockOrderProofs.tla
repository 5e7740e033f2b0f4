-------------------------- MODULE LockOrderProofs ---------------------------
(***************************************************************************)
(* For any number of sessions, accounts, rows and calls: unless a call      *)
(* writes account metadata, no set of sessions ever wait for each other.    *)
(***************************************************************************)
EXTENDS LockOrder, TLAPS, WellFoundedInduction

\* The hypothesis: SetAccountMetadata and DeleteAccountMetadataKey, which lock
\* an accounts row before the ledgers row, are not called.
NoAccountMetadata == \A q \in Request : q.kind # "accountMetadata"

SessionOK(s) ==
  /\ StageOfCall(s) /\ PendingOfStage(s)
  /\ TxFirst(s) /\ RowsInOrder(s) /\ RowsKept(s) /\ ChainThenAccounts(s)

Inv == TypeOK /\ \A s \in Session : SessionOK(s)

-----------------------------------------------------------------------------
(* Facts about locks and stages.                                           *)

\* Every kind of lock is a lock (the tables of the schema).
LEMMA LockKinds ==
  /\ <<"chain", 0>> \in Lock
  /\ \A r \in Row : <<"row", r>> \in Lock
  /\ \A a \in Account : <<"account", a>> \in Lock
  /\ \A t \in Tx : <<"tx", t>> \in Lock
  /\ RowLocks(Row) \subseteq Lock
BY DEF Lock, RowLocks

\* The rows of an item are rows (lockVolumes, lockBatch).
LEMMA ItemRowsType ==
  ASSUME NEW q \in Request, q.kind \in Money, NEW i \in FirstItem(q)..Len(q.items)
  PROVE  /\ ItemRows(q, i) \subseteq Row
         /\ ItemRows(q, i) \subseteq ItemRows(q, FirstItem(q))
<1>1. q.items \in Seq(SUBSET Row)
  BY RequestAssumption
<1>2. CASE q.kind = "batch"
  <2>1. FirstItem(q) = 0
    BY <1>2 DEF FirstItem
  <2> QED
    BY <1>1, <2>1 DEF ItemRows
<1>3. CASE q.kind # "batch"
  <2>1. FirstItem(q) = 1 /\ Len(q.items) = 1
    BY <1>3, RequestAssumption DEF FirstItem, Money
  <2> QED
    BY <1>1, <2>1 DEF ItemRows
<1> QED
  BY <1>2, <1>3

\* What a statement locks is a set of locks.
LEMMA StageLocksType ==
  ASSUME NEW q \in Request, NEW at \in Stages, NEW i \in Nat,
         at \in {"materialise", "lock", "accounts"} =>
           q.kind \in Money /\ i \in FirstItem(q)..Len(q.items)
  PROVE  StageLocks(q, at, i) \subseteq Lock
<1>1. q.tx \in Tx /\ q.account \in Account
  BY RequestAssumption
<1>2. CASE at \in {"materialise", "lock", "accounts"}
  <2>1. ItemRows(q, i) \subseteq Row
    BY <1>2, ItemRowsType
  <2>2. \A r \in ItemRows(q, i) : AccountOf[r] \in Account
    BY <2>1, OrderAssumption
  <2> QED
    BY <1>2, <2>1, <2>2 DEF StageLocks, RowLocks, Lock
<1>3. CASE at \notin {"materialise", "lock", "accounts"}
  BY <1>1, <1>3 DEF StageLocks, Lock, Stages
<1> QED
  BY <1>2, <1>3

\* The rows of a money call's first pass are locks.
LEMMA CallRows ==
  ASSUME NEW q \in Request, q.kind \in Money
  PROVE  /\ FirstItem(q) \in FirstItem(q)..Len(q.items)
         /\ RowLocks(ItemRows(q, FirstItem(q))) \subseteq RowLocks(Row)
         /\ RowLocks(ItemRows(q, FirstItem(q))) \subseteq Lock
<1>1. FirstItem(q) \in FirstItem(q)..Len(q.items)
  <2>1. /\ q.items \in Seq(SUBSET Row)
        /\ q.kind = "batch" \/ Len(q.items) = 1
    BY RequestAssumption DEF Money
  <2>2. Len(q.items) \in Nat
    BY <2>1
  <2> QED
    BY <2>1, <2>2 DEF FirstItem
<1>2. ItemRows(q, FirstItem(q)) \subseteq Row
  BY <1>1, ItemRowsType
<1> QED
  BY <1>1, <1>2 DEF RowLocks, Lock

\* A step of one session leaves what another may do alone, provided it takes
\* nothing from it and creates no row the other holds.
LEMMA OthersKeep ==
  ASSUME TypeOK, NEW u \in Session, SessionOK(u),
         stage'[u] = stage[u], todo'[u] = todo[u], item'[u] = item[u], req'[u] = req[u],
         \A l \in Lock : holder'[l] = u <=> holder[l] = u,
         rows \subseteq rows', rows' \subseteq Row,
         \A r \in rows' \ rows : holder[<<"row", r>>] # u
  PROVE  SessionOK(u)'
<1> USE LockKinds
<1>1. StageOfCall(u)'
  BY DEF SessionOK, StageOfCall, Holds
<1>2. PendingOfStage(u)'
  BY DEF SessionOK, PendingOfStage, RowLocks
<1>3. TxFirst(u)'
  BY DEF SessionOK, TxFirst, Holds
<1>4. RowsInOrder(u)'
  <2>1. stage'[u] = "materialise" /\ FirstPass(u)' => RowsInOrder(u)'
    <3> SUFFICES ASSUME stage[u] = "materialise", FirstPass(u)
                 PROVE  RowsInOrder(u)'
      BY DEF FirstPass
    <3>1. req[u] \in Request /\ req[u].kind \in Money /\ item[u] \in FirstItem(req[u])..Len(req[u].items)
      BY DEF SessionOK, StageOfCall
    <3>2. ItemRows(req[u], item[u]) \subseteq Row
      BY <3>1, ItemRowsType
    <3>3. \A l \in RowLocks(ItemRows(req[u], item[u])) : l \in Lock
      BY <3>2 DEF RowLocks, Lock
    <3>4. \A l \in RowLocks(Row) : l = <<"row", l[2]>> /\ l \in Lock
      BY DEF RowLocks
    <3> QED
      BY <3>3, <3>4 DEF SessionOK, RowsInOrder, FirstPass, Holds
  <2>2. stage'[u] = "lock" /\ FirstPass(u)' => RowsInOrder(u)'
    <3> SUFFICES ASSUME stage[u] = "lock", FirstPass(u)
                 PROVE  RowsInOrder(u)'
      BY DEF FirstPass
    <3>1. req[u] \in Request /\ req[u].kind \in Money /\ item[u] \in FirstItem(req[u])..Len(req[u].items)
      BY DEF SessionOK, StageOfCall
    <3>2. ItemRows(req[u], item[u]) \subseteq Row
      BY <3>1, ItemRowsType
    <3>3. \A l \in RowLocks(ItemRows(req[u], item[u])) : l \in Lock
      BY <3>2 DEF RowLocks, Lock
    <3>4. \A l \in RowLocks(Row) : l = <<"row", l[2]>> /\ l \in Lock
      BY DEF RowLocks
    <3>5. todo[u] \subseteq Lock
      BY DEF TypeOK
    <3> QED
      BY <3>3, <3>4, <3>5 DEF SessionOK, RowsInOrder, FirstPass, Holds
  <2>3. stage'[u] = "closeRows" => RowsInOrder(u)'
    <3>1. \A l \in RowLocks(Row) : l \in Lock
      BY DEF RowLocks
    <3> QED
      BY <3>1 DEF SessionOK, RowsInOrder, Holds
  <2> QED
    BY <2>1, <2>2, <2>3 DEF RowsInOrder
<1>5. RowsKept(u)'
  <2> SUFFICES ASSUME \/ stage[u] \in {"chain", "accounts"} /\ req[u].kind \in Money
                      \/ stage[u] \in {"materialise", "lock"} /\ ~FirstPass(u),
                      NEW l \in RowLocks(ItemRows(req[u], FirstItem(req[u])))
               PROVE  holder'[l] = u
    BY DEF RowsKept, FirstPass, Holds
  <2>1. req[u] \in Request /\ req[u].kind \in Money
    BY DEF SessionOK, StageOfCall
  <2>3. l \in Lock
    BY <2>1, CallRows
  <2> QED
    BY <2>3 DEF SessionOK, RowsKept, Holds
<1>6. ChainThenAccounts(u)'
  BY DEF SessionOK, ChainThenAccounts, FirstPass, Holds
<1> QED
  BY <1>1, <1>2, <1>3, <1>4, <1>5, <1>6 DEF SessionOK

-----------------------------------------------------------------------------
(* One lemma per action: what it does to the session that takes it.         *)

\* A new call holds nothing and is at the first statement of its kind.
LEMMA BeginKeeps ==
  ASSUME NoAccountMetadata, Inv,
         NEW s \in Session, NEW q \in Request, NEW selected \in SUBSET Row,
         Begin(s, q, selected)
  PROVE  Inv'
<1> USE LockKinds DEF Inv
<1>1. /\ stage'[s] = FirstStage(q) /\ req'[s] = q /\ item'[s] = FirstItem(q)
      /\ todo'[s] = IF q.kind = "close" THEN RowLocks(selected)
                    ELSE StageLocks(q, FirstStage(q), FirstItem(q))
      /\ rows' = rows /\ holder' = holder
  BY DEF Begin, TypeOK
<1>2. \A l \in Lock : holder[l] # s
  BY DEF Begin, SessionOK, StageOfCall, Holds
<1>3. q.kind \in {"commit", "batch", "revert", "close", "txMetadata", "recovery"}
  BY RequestAssumption DEF NoAccountMetadata
<1>4. FirstItem(q) \in Nat /\ FirstStage(q) \in Stages
  BY <1>3 DEF FirstItem, FirstStage, Stages
<1>5. q.kind \in Money => FirstItem(q) \in FirstItem(q)..Len(q.items) /\ Len(q.items) \in Nat
  BY <1>3, RequestAssumption DEF FirstItem, Money
<1>6. StageLocks(q, FirstStage(q), FirstItem(q)) \subseteq Lock
  <2>1. FirstStage(q) \in {"materialise", "lock", "accounts"} => q.kind \in Money
    BY <1>3 DEF FirstStage, Money
  <2> QED
    BY <1>4, <1>5, <2>1, StageLocksType
<1>7. RowLocks(selected) \subseteq Lock
  BY DEF RowLocks, Lock
<1>8. TypeOK'
  BY <1>1, <1>4, <1>6, <1>7 DEF TypeOK, Begin
<1>9. SessionOK(s)'
  <2>1. StageOfCall(s)'
    BY <1>1, <1>2, <1>3, <1>4, <1>5 DEF StageOfCall, FirstStage, FirstItem, Money, Holds
  <2>2. PendingOfStage(s)'
    <3>1. CASE q.kind = "close"
      <4>1. selected \subseteq rows
        BY DEF Begin
      <4> QED
        BY <1>1, <3>1, <4>1 DEF PendingOfStage, FirstStage, RowLocks
    <3>2. CASE q.kind # "close"
      BY <1>1, <1>3, <3>2 DEF PendingOfStage, FirstStage
    <3> QED
      BY <3>1, <3>2
  <2>3. TxFirst(s)'
    BY <1>1, <1>2 DEF TxFirst, Holds
  <2>4. RowsInOrder(s)'
    <3>1. stage'[s] # "lock"
      BY <1>1 DEF FirstStage
    <3>2. stage'[s] = "materialise" =>
            RowLocks(ItemRows(q, FirstItem(q))) \ todo'[s] = {}
      BY <1>1, <1>3 DEF FirstStage, StageLocks
    <3> QED
      BY <1>1, <1>2, <3>1, <3>2 DEF RowsInOrder, Holds
  <2>5. RowsKept(s)'
    BY <1>1, <1>3 DEF RowsKept, FirstStage, FirstPass, Money
  <2>6. ChainThenAccounts(s)'
    <3>1. stage'[s] = "chain" => todo'[s] # {}
      BY <1>1, <1>3 DEF FirstStage, StageLocks
    <3> QED
      BY <1>1, <1>2, <3>1 DEF ChainThenAccounts, FirstStage, Holds
  <2> QED
    BY <2>1, <2>2, <2>3, <2>4, <2>5, <2>6 DEF SessionOK
<1>10. ASSUME NEW u \in Session, u # s
       PROVE  SessionOK(u)'
  <2>1. /\ stage'[u] = stage[u] /\ todo'[u] = todo[u]
        /\ item'[u] = item[u] /\ req'[u] = req[u]
    BY <1>10 DEF Begin, TypeOK
  <2>2. TypeOK /\ SessionOK(u) /\ rows \subseteq Row
    BY DEF TypeOK
  <2> QED
    BY <1>1, <2>1, <2>2, OthersKeep
<1> QED
  BY <1>8, <1>9, <1>10

\* Taking the next lock of a statement, or passing over a row that exists.
LEMMA AcquireKeeps ==
  ASSUME Inv, NEW s \in Session, NEW l \in Lock, Acquire(s, l)
  PROVE  Inv'
<1> USE LockKinds DEF Inv
<1>1. /\ stage' = stage /\ item' = item /\ req' = req /\ rows' = rows
      /\ todo'[s] = todo[s] \ {l} /\ l \in todo[s]
      /\ \A k \in todo[s] : Key(l) <= Key(k)
  BY DEF Acquire, First, TypeOK
<1>2. TypeOK'
  BY DEF Acquire, TypeOK
<1>3. /\ \A k \in Lock \ {l} : holder'[k] = holder[k]
      /\ holder'[l] \in {holder[l], s}
      /\ holder[l] # s /\ holder'[l] = s => holder[l] = NoSession /\ ~Present(s, l)
      /\ ~Present(s, l) => holder'[l] = s
  BY DEF Acquire, TypeOK
<1>4. stage[s] \notin {"idle", "done"}
  BY <1>1 DEF SessionOK, StageOfCall, PendingOfStage, StageLocks
<1>5. SessionOK(s)'
  <2>1. StageOfCall(s)'
    BY <1>1, <1>4 DEF SessionOK, StageOfCall
  <2>2. PendingOfStage(s)'
    BY <1>1 DEF SessionOK, PendingOfStage
  <2>3. TxFirst(s)'
    <3>1. stage[s] = "tx" => todo'[s] = {} /\ l[1] = "tx"
      BY <1>1 DEF SessionOK, PendingOfStage, StageLocks
    <3>2. stage[s] = "tx" => \A k \in Lock : holder[k] # s
      BY <1>1 DEF SessionOK, TxFirst, Holds
    <3> QED
      BY <1>1, <1>3, <3>1, <3>2 DEF TxFirst, Holds
  <2>4. RowsInOrder(s)'
    <3>0. \A k \in RowLocks(Row) : k = <<"row", k[2]>> /\ k[2] \in Row /\ k \in Lock /\ k[1] = "row"
      BY DEF RowLocks
    <3>1. ASSUME stage[s] \in {"materialise", "lock"}
          PROVE  /\ todo[s] \subseteq RowLocks(ItemRows(req[s], item[s]))
                 /\ RowLocks(ItemRows(req[s], item[s])) \subseteq RowLocks(Row)
      <4>1. /\ req[s] \in Request /\ req[s].kind \in Money
            /\ item[s] \in FirstItem(req[s])..Len(req[s].items)
        BY <3>1 DEF SessionOK, StageOfCall
      <4>2. ItemRows(req[s], item[s]) \subseteq Row
        BY <4>1, ItemRowsType
      <4> QED
        BY <3>1, <4>2 DEF SessionOK, PendingOfStage, StageLocks, RowLocks
    <3>2. ASSUME stage[s] = "closeRows"
          PROVE  todo[s] \subseteq RowLocks(Row)
      BY <3>2 DEF SessionOK, PendingOfStage, RowLocks, TypeOK
    <3>3. ASSUME todo[s] \subseteq RowLocks(Row)
          PROVE  \A k \in todo'[s] : Rank[l[2]] < Rank[k[2]]
      <4> SUFFICES ASSUME NEW k \in todo[s], k # l
                   PROVE  Rank[l[2]] < Rank[k[2]]
        BY <1>1
      <4>1. k[2] # l[2] /\ k[2] \in Row /\ l[2] \in Row /\ k[1] = "row" /\ l[1] = "row"
        BY <1>1, <3>0, <3>3
      <4>2. Rank[l[2]] <= Rank[k[2]]
        BY <1>1, <4>1 DEF Key
      <4>3. Rank[k[2]] # Rank[l[2]] /\ Rank[k[2]] \in Int /\ Rank[l[2]] \in Int
        BY <4>1, OrderAssumption
      <4> QED
        BY <4>2, <4>3
    <3>4. ASSUME stage[s] = "materialise", FirstPass(s)
          PROVE  RowsInOrder(s)'
      <4>1. \A k \in todo'[s] : Rank[l[2]] < Rank[k[2]]
        BY <3>1, <3>3, <3>4
      <4>2. l[2] \in rows \/ holder'[l] = s
        BY <1>3, <3>4 DEF Present
      <4>3. holder'[l] = s => holder[l] = s \/ l[2] \notin rows
        BY <1>3, <3>4 DEF Present
      <4>4. /\ \A k \in RowLocks(ItemRows(req[s], item[s])) \ todo[s] : k[2] \in rows \/ holder[k] = s
            /\ \A k \in RowLocks(Row) : holder[k] = s =>
                 k[2] \notin rows /\ \A j \in todo[s] : Rank[k[2]] < Rank[j[2]]
        BY <3>4 DEF SessionOK, RowsInOrder, Holds
      <4>5. \A k \in RowLocks(ItemRows(req[s], item[s])) : k \in Lock
        BY <3>1, <3>4 DEF RowLocks
      <4>6. \A k \in RowLocks(ItemRows(req[s], item[s])) \ todo'[s] : k[2] \in rows \/ holder'[k] = s
        BY <1>1, <1>3, <4>2, <4>4, <4>5
      <4>7. \A k \in RowLocks(Row) : holder'[k] = s =>
                 k[2] \notin rows /\ \A j \in todo'[s] : Rank[k[2]] < Rank[j[2]]
        BY <1>1, <1>3, <3>0, <4>1, <4>3, <4>4
      <4> QED
        BY <1>1, <3>4, <4>6, <4>7 DEF RowsInOrder, Holds
    <3>5. ASSUME stage[s] = "lock", FirstPass(s)
          PROVE  RowsInOrder(s)'
      <4>1. \A k \in todo'[s] : Rank[l[2]] < Rank[k[2]]
        BY <3>1, <3>3, <3>5
      <4>2. holder'[l] = s
        BY <1>3, <3>5 DEF Present
      <4>4. /\ \A k \in todo[s] : k[2] \in rows \/ holder[k] = s
            /\ \A k \in RowLocks(ItemRows(req[s], item[s])) \ todo[s] : holder[k] = s
            /\ \A k \in RowLocks(Row) : holder[k] = s =>
                 k[2] \notin rows \/ \A j \in todo[s] : Rank[k[2]] < Rank[j[2]]
        BY <3>5 DEF SessionOK, RowsInOrder, Holds
      <4>5. \A k \in RowLocks(ItemRows(req[s], item[s])) : k \in Lock
        BY <3>1, <3>5 DEF RowLocks
      <4>6. \A k \in RowLocks(ItemRows(req[s], item[s])) \ todo'[s] : holder'[k] = s
        BY <1>1, <1>3, <4>2, <4>4, <4>5
      <4>7. \A k \in RowLocks(Row) : holder'[k] = s =>
                 k[2] \notin rows \/ \A j \in todo'[s] : Rank[k[2]] < Rank[j[2]]
        BY <1>1, <1>3, <3>0, <4>1, <4>4
      <4>8. \A k \in todo'[s] : k[2] \in rows \/ holder'[k] = s
        BY <1>1, <1>3, <4>4 DEF TypeOK
      <4> QED
        BY <1>1, <3>5, <4>6, <4>7, <4>8 DEF RowsInOrder, Holds
    <3>6. ASSUME stage[s] = "closeRows"
          PROVE  RowsInOrder(s)'
      <4>1. \A k \in todo'[s] : Rank[l[2]] < Rank[k[2]]
        BY <3>2, <3>3, <3>6
      <4>2. \A k \in RowLocks(Row) : holder[k] = s => \A j \in todo[s] : Rank[k[2]] < Rank[j[2]]
        BY <3>6 DEF SessionOK, RowsInOrder, Holds
      <4>3. \A k \in RowLocks(Row) : holder'[k] = s => \A j \in todo'[s] : Rank[k[2]] < Rank[j[2]]
        BY <1>1, <1>3, <3>0, <4>1, <4>2
      <4> QED
        BY <1>1, <3>6, <4>3 DEF RowsInOrder, Holds
    <3> QED
      BY <1>1, <3>4, <3>5, <3>6 DEF RowsInOrder, FirstPass
  <2>5. RowsKept(s)'
    <3> SUFFICES ASSUME \/ stage[s] \in {"chain", "accounts"} /\ req[s].kind \in Money
                        \/ stage[s] \in {"materialise", "lock"} /\ ~FirstPass(s),
                        NEW k \in RowLocks(ItemRows(req[s], FirstItem(req[s])))
                 PROVE  holder'[k] = s
      BY <1>1 DEF RowsKept, FirstPass, Holds
    <3>1. req[s] \in Request /\ req[s].kind \in Money
      BY DEF SessionOK, StageOfCall
    <3>2. k \in Lock
      BY <3>1, CallRows
    <3>3. holder[k] = s
      BY DEF SessionOK, RowsKept, Holds
    <3> QED
      BY <1>3, <3>2, <3>3
  <2>6. ChainThenAccounts(s)'
    <3>1. holder'[<<"chain", 0>>] = s /\ holder[<<"chain", 0>>] # s => l = <<"chain", 0>>
      BY <1>3
    <3>2. l = <<"chain", 0>> => stage[s] = "chain"
      BY <1>1 DEF SessionOK, PendingOfStage, StageLocks, RowLocks
    <3>3. holder[<<"chain", 0>>] = s => holder'[<<"chain", 0>>] = s
      BY <1>3
    <3>4. stage[s] = "chain" => l = <<"chain", 0>> /\ holder'[<<"chain", 0>>] = s
      BY <1>1, <1>3 DEF SessionOK, PendingOfStage, StageLocks, Present
    <3>5. ASSUME NEW a \in Account, holder'[<<"account", a>>] = s, holder[<<"account", a>>] # s
          PROVE  \/ holder'[<<"chain", 0>>] = s
                 \/ stage[s] = "closeAccount" /\ todo'[s] = {}
      <4>1. l = <<"account", a>>
        BY <1>3, <3>5
      <4>2. stage[s] \in {"accounts", "closeAccount"}
        BY <1>1, <4>1 DEF SessionOK, PendingOfStage, StageLocks, RowLocks, StageOfCall
      <4>3. stage[s] = "closeAccount" => todo[s] \subseteq {<<"account", req[s].account>>}
        BY DEF SessionOK, PendingOfStage, StageLocks
      <4> QED
        BY <1>1, <3>3, <4>2, <4>3 DEF SessionOK, ChainThenAccounts, Holds
    <3>6. todo[s] = {} => todo'[s] = {}
      BY <1>1
    <3> QED
      BY <1>1, <3>1, <3>2, <3>3, <3>4, <3>5, <3>6 DEF SessionOK, ChainThenAccounts, FirstPass, Holds
  <2> QED
    BY <2>1, <2>2, <2>3, <2>4, <2>5, <2>6 DEF SessionOK
<1>6. ASSUME NEW u \in Session, u # s
      PROVE  SessionOK(u)'
  <2>1. todo'[u] = todo[u]
    BY <1>6 DEF Acquire, TypeOK
  <2>2. TypeOK /\ SessionOK(u) /\ rows \subseteq Row
    BY DEF TypeOK
  <2>3. \A k \in Lock : holder'[k] = u <=> holder[k] = u
    BY <1>3, <1>6, SessionAssumption
  <2> QED
    BY <1>1, <2>1, <2>2, <2>3, OthersKeep
<1> QED
  BY <1>2, <1>5, <1>6

\* The next statement starts: what the last one took is held, and nothing else
\* changed hands.
LEMMA AdvanceKeeps ==
  ASSUME Inv, NEW s \in Session, Advance(s)
  PROVE  Inv'
<1> USE LockKinds DEF Inv
<1> DEFINE to == After(req[s], stage[s], item[s])
<1>1. /\ stage'[s] = to[1] /\ item'[s] = to[2] /\ todo[s] = {}
      /\ todo'[s] = StageLocks(req[s], to[1], to[2])
      /\ req' = req /\ rows' = rows /\ holder' = holder
      /\ stage[s] \notin {"idle", "done"}
  BY DEF Advance, TypeOK
<1>2. /\ req[s] \in Request /\ item[s] \in Nat
      /\ req[s].kind \in Money => Len(req[s].items) \in Nat \ {0}
      /\ req[s].kind \in Money => FirstItem(req[s]) \in {0, 1} /\ FirstItem(req[s]) <= Len(req[s].items)
  <2>1. req[s] \in Request /\ item[s] \in Nat
    BY <1>1 DEF SessionOK, StageOfCall, TypeOK
  <2> QED
    BY <2>1, RequestAssumption DEF FirstItem, Money
<1>3. to[1] \in Stages /\ to[2] \in Nat /\ to[1] \notin {"idle", "tx", "closeRows", "tagAccount"}
  BY <1>1, <1>2 DEF After, Stages, TypeOK
<1>4. to[1] \in {"materialise", "lock", "accounts"} =>
        /\ req[s].kind \in Money
        /\ to[2] \in FirstItem(req[s])..Len(req[s].items)
        /\ to[1] = "accounts" => to[2] # 0
  BY <1>1, <1>2 DEF After, SessionOK, StageOfCall, TypeOK, Stages, Money, FirstItem
<1>5. StageOfCall(s)'
  <2>1. to[1] = "chain" /\ req[s].kind \in Money => to[2] \in 1..Len(req[s].items)
    BY <1>1, <1>2 DEF After, SessionOK, StageOfCall, TypeOK, Stages, FirstItem, Money
  <2>2. to[1] \in {"closeRows", "closeAccount"} <=> req[s].kind = "close" /\ to[1] # "done"
    BY <1>1, <1>2 DEF After, SessionOK, StageOfCall, TypeOK, Stages, Money
  <2> QED
    BY <1>1, <1>2, <1>3, <1>4, <2>1, <2>2 DEF StageOfCall
<1>6. TypeOK'
  <2>1. StageLocks(req[s], to[1], to[2]) \subseteq Lock
    BY <1>2, <1>3, <1>4, StageLocksType
  <2> QED
    BY <1>1, <1>3, <2>1 DEF TypeOK, Advance
<1>7. PendingOfStage(s)'
  BY <1>1, <1>3 DEF PendingOfStage
<1>8. TxFirst(s)'
  BY <1>1, <1>3 DEF TxFirst
<1>9. RowsInOrder(s)'
  <2>1. ASSUME to[1] = "materialise", to[2] = FirstItem(req[s])
        PROVE  RowsInOrder(s)'
    <3>1. stage[s] = "tx" /\ req[s].kind = "revert"
      BY <1>1, <1>2, <2>1 DEF After, SessionOK, StageOfCall, TypeOK, Stages, FirstItem, Money
    <3>2. todo'[s] = RowLocks(ItemRows(req[s], FirstItem(req[s])))
      BY <1>1, <2>1 DEF StageLocks
    <3>3. \A l \in RowLocks(Row) : holder[l] # s
      BY <3>1 DEF SessionOK, TxFirst, Holds, RowLocks
    <3> QED
      BY <1>1, <2>1, <3>2, <3>3 DEF RowsInOrder, Holds
  <2>2. ASSUME to[1] = "lock", to[2] = FirstItem(req[s])
        PROVE  RowsInOrder(s)'
    <3>1. stage[s] = "materialise" /\ FirstPass(s) /\ to[2] = item[s]
      BY <1>1, <2>2 DEF After, FirstPass, TypeOK, Stages
    <3>2. todo'[s] = RowLocks(ItemRows(req[s], item[s]))
      BY <1>1, <2>2, <3>1 DEF StageLocks
    <3> QED
      BY <1>1, <2>2, <3>1, <3>2 DEF SessionOK, RowsInOrder, Holds
  <2> QED
    BY <1>1, <1>3, <2>1, <2>2 DEF RowsInOrder, FirstPass
<1>10. RowsKept(s)'
  <2> SUFFICES ASSUME \/ to[1] \in {"chain", "accounts"} /\ req[s].kind \in Money
                      \/ to[1] \in {"materialise", "lock"} /\ to[2] # FirstItem(req[s])
               PROVE  \A l \in RowLocks(ItemRows(req[s], FirstItem(req[s]))) : holder[l] = s
    BY <1>1 DEF RowsKept, FirstPass, Holds
  <2>1. \/ stage[s] = "lock" /\ FirstPass(s)
        \/ stage[s] \in {"chain", "accounts"} /\ req[s].kind \in Money
        \/ stage[s] \in {"materialise", "lock"} /\ ~FirstPass(s)
    BY <1>1, <1>2 DEF After, SessionOK, StageOfCall, TypeOK, Stages, FirstPass, FirstItem, Money
  <2>2. CASE stage[s] = "lock" /\ FirstPass(s)
    BY <1>1, <2>2 DEF SessionOK, RowsInOrder, FirstPass, Holds
  <2> QED
    BY <2>1, <2>2 DEF SessionOK, RowsKept, Holds
<1>11. ChainThenAccounts(s)'
  <2>1. to[1] = "accounts" => stage[s] = "chain"
    BY <1>1 DEF After, TypeOK, Stages
  <2>2. to[1] = "chain" => todo'[s] # {}
    BY <1>1 DEF StageLocks
  <2>3. to[1] \in {"materialise", "lock"} /\ to[2] = FirstItem(req[s]) =>
          stage[s] = "tx" \/ (stage[s] = "materialise" /\ FirstPass(s))
    BY <1>1, <1>2 DEF After, SessionOK, StageOfCall, TypeOK, Stages, FirstPass, FirstItem, Money
  <2>4. to[1] = "closeAccount" => stage[s] = "closeRows"
    BY <1>1 DEF After, TypeOK, Stages
  <2>5. stage[s] = "closeAccount" => to[1] = "done"
    BY <1>1 DEF After
  <2>6. to[1] = "done" => todo'[s] = {}
    BY <1>1 DEF StageLocks
  <2> QED
    BY <1>1, <1>3, <2>1, <2>2, <2>3, <2>4, <2>5, <2>6
    DEF SessionOK, ChainThenAccounts, FirstPass, Holds
<1>12. ASSUME NEW u \in Session, u # s
       PROVE  SessionOK(u)'
  <2>1. /\ stage'[u] = stage[u] /\ todo'[u] = todo[u]
        /\ item'[u] = item[u] /\ req'[u] = req[u]
    BY <1>12 DEF Advance, TypeOK
  <2>2. TypeOK /\ SessionOK(u) /\ rows \subseteq Row
    BY DEF TypeOK
  <2> QED
    BY <1>1, <2>1, <2>2, OthersKeep
<1> QED
  BY <1>5, <1>6, <1>7, <1>8, <1>9, <1>10, <1>11, <1>12 DEF SessionOK

\* COMMIT and ROLLBACK release everything; the rows a commit creates are its own.
LEMMA ReleaseKeeps ==
  ASSUME Inv, NEW s \in Session, Release(s),
         rows \subseteq rows', rows' \subseteq Row,
         \A r \in rows' \ rows : holder[<<"row", r>>] = s
  PROVE  Inv'
<1> USE LockKinds DEF Inv
<1>1. /\ stage'[s] = "idle" /\ todo'[s] = {} /\ item'[s] = 0 /\ req'[s] = NoRequest
      /\ \A l \in Lock : holder'[l] = IF holder[l] = s THEN NoSession ELSE holder[l]
  BY DEF Release, TypeOK
<1>2. TypeOK'
  BY DEF Release, TypeOK, Stages
<1>3. \A l \in Lock : holder'[l] # s
  BY <1>1, SessionAssumption
<1>4. SessionOK(s)'
  BY <1>1, <1>3 DEF SessionOK, StageOfCall, PendingOfStage, TxFirst, RowsInOrder, RowsKept,
                    ChainThenAccounts, Holds, NoRequest
<1>5. ASSUME NEW u \in Session, u # s
      PROVE  SessionOK(u)'
  <2>1. /\ stage'[u] = stage[u] /\ todo'[u] = todo[u]
        /\ item'[u] = item[u] /\ req'[u] = req[u]
    BY <1>5 DEF Release, TypeOK
  <2>2. TypeOK /\ SessionOK(u)
    OBVIOUS
  <2>3. \A l \in Lock : holder'[l] = u <=> holder[l] = u
    BY <1>1, <1>5, SessionAssumption
  <2>4. \A r \in rows' \ rows : holder[<<"row", r>>] # u
    BY <1>5
  <2> QED
    BY <2>1, <2>2, <2>3, <2>4, OthersKeep
<1> QED
  BY <1>2, <1>4, <1>5

\* A policy creates a row that nobody holds.
LEMMA SetPolicyKeeps ==
  ASSUME Inv, NEW r \in Row, SetPolicy(r)
  PROVE  Inv'
<1> USE LockKinds DEF Inv
<1>1. TypeOK'
  BY DEF SetPolicy, TypeOK
<1>2. ASSUME NEW u \in Session
      PROVE  SessionOK(u)'
  <2>1. /\ stage' = stage /\ todo' = todo /\ item' = item /\ req' = req /\ holder' = holder
        /\ rows' = rows \cup {r} /\ holder[<<"row", r>>] = NoSession
    BY DEF SetPolicy
  <2>2. TypeOK /\ SessionOK(u) /\ rows' \subseteq Row /\ rows \subseteq rows'
    BY <2>1 DEF TypeOK
  <2>3. \A x \in rows' \ rows : holder[<<"row", x>>] # u
    BY <2>1, SessionAssumption
  <2> QED
    BY <2>1, <2>2, <2>3, OthersKeep
<1> QED
  BY <1>1, <1>2

-----------------------------------------------------------------------------
\* Sessions that have not begun hold nothing and keep the discipline.
LEMMA InitInv == Init => Inv
<1> SUFFICES ASSUME Init PROVE Inv
  OBVIOUS
<1> USE SessionAssumption, LockKinds DEF Init
<1>1. TypeOK
  BY DEF TypeOK, Stages
<1>2. ASSUME NEW s \in Session
      PROVE  SessionOK(s)
  BY DEF SessionOK, StageOfCall, PendingOfStage, TxFirst, RowsInOrder, RowsKept,
         ChainThenAccounts, Holds, NoRequest
<1> QED
  BY <1>1, <1>2 DEF Inv

\* Every statement of every call keeps it.
LEMMA StepInv == NoAccountMetadata /\ Inv /\ [Next]_vars => Inv'
<1> SUFFICES ASSUME NoAccountMetadata, Inv, [Next]_vars PROVE Inv'
  OBVIOUS
<1>1. ASSUME NEW s \in Session, NEW q \in Request, NEW selected \in SUBSET Row,
             Begin(s, q, selected)
      PROVE  Inv'
  BY <1>1, BeginKeeps
<1>2. ASSUME NEW s \in Session, NEW l \in Lock, Acquire(s, l)
      PROVE  Inv'
  BY <1>2, AcquireKeeps
<1>3. ASSUME NEW s \in Session, Advance(s)
      PROVE  Inv'
  BY <1>3, AdvanceKeeps
<1>4. ASSUME NEW s \in Session, Commit(s)
      PROVE  Inv'
  <2>1. /\ Release(s) /\ rows \subseteq rows' /\ rows' \subseteq Row
        /\ \A r \in rows' \ rows : holder[<<"row", r>>] = s
    BY <1>4 DEF Commit, Inv, TypeOK
  <2> QED
    BY <2>1, ReleaseKeeps
<1>5. ASSUME NEW s \in Session, Abort(s)
      PROVE  Inv'
  <2>1. Release(s) /\ rows \subseteq rows' /\ rows' \subseteq Row /\ rows' \ rows = {}
    BY <1>5 DEF Abort, Inv, TypeOK
  <2> QED
    BY <2>1, ReleaseKeeps
<1>6. ASSUME NEW r \in Row, SetPolicy(r)
      PROVE  Inv'
  BY <1>6, SetPolicyKeeps
<1>7. CASE UNCHANGED vars
  <2>1. TypeOK'
    BY <1>7 DEF Inv, TypeOK, vars
  <2>2. ASSUME NEW u \in Session PROVE SessionOK(u)'
    <3>1. TypeOK /\ SessionOK(u) /\ rows' \subseteq Row
      BY <1>7 DEF Inv, TypeOK, vars
    <3> QED
      BY <1>7, <3>1, OthersKeep DEF vars
  <2> QED
    BY <2>1, <2>2 DEF Inv
<1> QED
  BY <1>1, <1>2, <1>3, <1>4, <1>5, <1>6, <1>7 DEF Next

-----------------------------------------------------------------------------
(* A wait has a height, and whoever is waited for waits higher up.         *)

\* transactions rows, new volume rows by rank, existing volume rows by rank,
\* the ledgers row, the accounts row of a close, the accounts rows of a commit.
Height(s, l) ==
  CASE l[1] = "tx" -> 0
    [] l[1] = "row" /\ stage[s] = "materialise" -> 1 + Rank[l[2]]
    [] l[1] = "row" /\ stage[s] # "materialise" -> 2 + Size + Rank[l[2]]
    [] l[1] = "chain" -> 3 + 2 * Size
    [] l[1] = "account" /\ stage[s] # "accounts" -> 4 + 2 * Size
    [] OTHER -> 5 + 2 * Size

Top == 5 + 2 * Size

\* What a waiting session is at: the lock tells the stage.
LEMMA WaitingStage ==
  ASSUME Inv, NEW s \in Session, NEW u \in Session, NEW l \in Lock, WaitsAt(s, l, u)
  PROVE  /\ l \in todo[s] /\ holder[l] = u /\ holder[l] # s
         /\ \/ stage[s] = "tx" /\ l[1] = "tx"
            \/ /\ stage[s] \in {"materialise", "lock"} /\ l[1] = "row"
               /\ FirstPass(s) /\ l \in RowLocks(Row)
            \/ stage[s] = "closeRows" /\ l[1] = "row" /\ l \in RowLocks(rows) /\ l \in RowLocks(Row)
            \/ stage[s] = "chain" /\ l = <<"chain", 0>>
            \/ stage[s] \in {"accounts", "closeAccount"} /\ l \in {"account"} \X Account
         /\ Height(s, l) \in 0..Top
<1> USE DEF Inv
<1>1. l \in todo[s] /\ holder[l] = u /\ holder[l] # s
  BY DEF WaitsAt, First
<1>2. stage[s] \notin {"idle", "done", "tagAccount"}
  BY <1>1 DEF SessionOK, StageOfCall, PendingOfStage, StageLocks
<1>3. CASE stage[s] \in {"materialise", "lock"}
  <2>1. /\ req[s] \in Request /\ req[s].kind \in Money
        /\ item[s] \in FirstItem(req[s])..Len(req[s].items)
    BY <1>3 DEF SessionOK, StageOfCall
  <2>2. l \in RowLocks(ItemRows(req[s], item[s]))
    BY <1>1, <1>3 DEF SessionOK, PendingOfStage, StageLocks
  <2>3. /\ l \in RowLocks(Row)
        /\ l \in RowLocks(ItemRows(req[s], FirstItem(req[s])))
    BY <2>1, <2>2, ItemRowsType DEF RowLocks
  <2>4. FirstPass(s)
    BY <1>1, <1>3, <2>3 DEF SessionOK, RowsKept, Holds
  <2>5. l[1] = "row" /\ Rank[l[2]] \in 0..Size
    BY <2>3, OrderAssumption DEF RowLocks
  <2>6. Height(s, l) \in 0..Top
    BY <2>5, OrderAssumption DEF Height, Top
  <2> QED
    BY <1>1, <1>3, <2>3, <2>4, <2>5, <2>6
<1>4. CASE stage[s] = "closeRows"
  <2>1. l \in RowLocks(rows) /\ l \in RowLocks(Row)
    BY <1>1, <1>4 DEF SessionOK, PendingOfStage, RowLocks, TypeOK
  <2>2. l[1] = "row" /\ Rank[l[2]] \in 0..Size
    BY <2>1, OrderAssumption DEF RowLocks
  <2>3. Height(s, l) \in 0..Top
    BY <2>2, OrderAssumption DEF Height, Top
  <2> QED
    BY <1>1, <1>4, <2>1, <2>2, <2>3
<1>5. CASE stage[s] \in {"accounts", "closeAccount"}
  <2>1. l[1] = "account"
    BY <1>1, <1>5 DEF SessionOK, PendingOfStage, StageLocks
  <2>2. l \in {"account"} \X Account
    BY <2>1 DEF Lock
  <2>3. Height(s, l) \in 0..Top
    BY <2>1, OrderAssumption DEF Height, Top
  <2> QED
    BY <1>1, <1>5, <2>2, <2>3
<1>6. CASE stage[s] \in {"tx", "chain"}
  <2>1. \/ stage[s] = "tx" /\ l[1] = "tx"
        \/ stage[s] = "chain" /\ l = <<"chain", 0>>
    BY <1>1, <1>6 DEF SessionOK, PendingOfStage, StageLocks
  <2>2. Height(s, l) \in 0..Top
    BY <2>1, OrderAssumption DEF Height, Top
  <2> QED
    BY <1>1, <2>1, <2>2
<1> QED
  BY <1>2, <1>3, <1>4, <1>5, <1>6 DEF TypeOK, Stages

\* The holder of the ledgers row waits for nothing but an accounts row.
LEMMA ChainHolderWaits ==
  ASSUME Inv, NEW u \in Session, NEW v \in Session, NEW k \in Lock, WaitsAt(u, k, v),
         holder[<<"chain", 0>>] = u
  PROVE  stage[u] = "accounts" /\ k[1] = "account" /\ Height(u, k) = Top
<1>1. stage[u] = "accounts" /\ k[1] = "account"
  <2>1. /\ stage[u] \notin {"tx", "closeRows", "closeAccount"}
        /\ stage[u] \in {"materialise", "lock"} => ~FirstPass(u)
    BY DEF Inv, SessionOK, ChainThenAccounts, Holds
  <2> QED
    BY <2>1, WaitingStage
<1> QED
  BY <1>1, OrderAssumption DEF Height, Top

\* Whoever is waited for, and waits, waits at a greater height.
LEMMA HeightsIncrease ==
  ASSUME Inv, NEW s \in Session, NEW u \in Session, NEW v \in Session,
         NEW l \in Lock, NEW k \in Lock,
         WaitsAt(s, l, u), WaitsAt(u, k, v)
  PROVE  Height(s, l) < Height(u, k)
<1> DEFINE Above(n) == n < Height(u, k)
<1>1. holder[l] = u /\ u # s /\ l \in todo[s]
  BY WaitingStage DEF WaitsAt
<1>2. k \in todo[u] /\ todo[u] # {}
  BY WaitingStage
<1>3. stage[u] # "tx"
  BY <1>1, <1>2 DEF Inv, SessionOK, TxFirst, Holds
<1>4. CASE l[1] = "tx"
  <2>1. Height(s, l) = 0
    BY <1>4 DEF Height
  <2>2. k[1] # "tx"
    BY <1>3, WaitingStage
  <2>3. k[1] = "row" => Rank[k[2]] \in 0..Size
    BY WaitingStage, OrderAssumption DEF RowLocks
  <2>4. Height(u, k) > 0
    BY <2>2, <2>3, OrderAssumption DEF Height, Lock
  <2> QED
    BY <2>1, <2>4
<1>5. CASE l[1] = "row"
  <2>1. l \in RowLocks(Row) /\ stage[s] \in {"materialise", "lock", "closeRows"}
    BY <1>5, WaitingStage
  <2>2. l[2] \in Row /\ Rank[l[2]] \in 0..Size
    BY <2>1, OrderAssumption DEF RowLocks
  <2>3. k[1] = "row" => /\ Rank[k[2]] \in 0..Size
                        /\ stage[u] \in {"materialise", "lock", "closeRows"}
                        /\ stage[u] \in {"materialise", "lock"} => FirstPass(u)
    BY WaitingStage, OrderAssumption DEF RowLocks
  <2>4. k[1] = "row" /\ stage[u] = "materialise" => Rank[l[2]] < Rank[k[2]] /\ l[2] \notin rows
    BY <1>1, <1>2, <2>1, <2>3 DEF Inv, SessionOK, RowsInOrder, Holds
  <2>5. k[1] = "row" /\ stage[u] # "materialise" /\ l[2] \in rows => Rank[l[2]] < Rank[k[2]]
    BY <1>1, <1>2, <2>1, <2>3 DEF Inv, SessionOK, RowsInOrder, Holds
  <2>6. stage[s] # "materialise" => l[2] \in rows
    <3>1. CASE stage[s] = "lock"
      <4>1. FirstPass(s)
        BY <1>5, <3>1, WaitingStage
      <4> QED
        BY <1>1, <3>1, <4>1 DEF Inv, SessionOK, RowsInOrder, Holds
    <3>2. CASE stage[s] = "closeRows"
      <4>1. l \in RowLocks(rows)
        BY <1>5, <3>2, WaitingStage
      <4> QED
        BY <4>1 DEF RowLocks
    <3> QED
      BY <2>1, <3>1, <3>2
  <2>7. CASE k[1] = "row"
    BY <1>5, <2>2, <2>3, <2>4, <2>5, <2>6, <2>7, OrderAssumption DEF Height
  <2>8. CASE k[1] # "row"
    <3>1. k[1] \in {"chain", "account"}
      BY <1>3, <2>8, WaitingStage
    <3> QED
      BY <1>5, <2>2, <3>1, OrderAssumption DEF Height
  <2> QED
    BY <2>7, <2>8
<1>6. CASE l[1] = "chain"
  <2>1. l = <<"chain", 0>>
    BY <1>6 DEF Lock
  <2>2. Height(u, k) = Top
    BY <1>1, <2>1, ChainHolderWaits
  <2> QED
    BY <1>6, <2>2, OrderAssumption DEF Height, Top
<1>7. CASE l[1] = "account"
  <2>1. l \in {"account"} \X Account /\ stage[s] \in {"accounts", "closeAccount"}
    BY <1>7, WaitingStage
  <2>2. PICK a \in Account : l = <<"account", a>>
    BY <2>1
  <2>3. holder[<<"chain", 0>>] = u
    BY <1>1, <1>2, <2>2 DEF Inv, SessionOK, ChainThenAccounts, Holds
  <2>4. Height(u, k) = Top
    BY <2>3, ChainHolderWaits
  <2>5. stage[s] # "accounts"
    BY <1>1, <2>3 DEF Inv, SessionOK, ChainThenAccounts, Holds
  <2> QED
    BY <1>7, <2>4, <2>5, OrderAssumption DEF Height, Top
<1> QED
  BY <1>4, <1>5, <1>6, <1>7 DEF Lock

\* Heights are bounded, so the waits of a set of sessions cannot all lead back
\* into it.
LEMMA InvNoDeadlock == Inv => NoDeadlock
<1> SUFFICES ASSUME Inv, NEW S \in SUBSET Session, S # {},
                    \A s \in S : \E u \in S : WaitsFor(s, u)
             PROVE  FALSE
  BY DEF NoDeadlock
<1> DEFINE Below == {n \in Nat : \E s, u \in S, l \in Lock :
                                  WaitsAt(s, l, u) /\ n = Top - Height(s, l)}
<1>1. \A s \in S : \E u \in S, l \in Lock : WaitsAt(s, l, u)
  BY DEF WaitsFor
<1>2. \A s, u \in S, l \in Lock : WaitsAt(s, l, u) => Height(s, l) \in 0..Top
  BY WaitingStage
<1>3. \A s, u \in S, l \in Lock : WaitsAt(s, l, u) => Top - Height(s, l) \in Nat
  BY <1>2, OrderAssumption DEF Top
<1>4. Below # {}
  <2>1. PICK s \in S : TRUE
    OBVIOUS
  <2>2. PICK u \in S, l \in Lock : WaitsAt(s, l, u)
    BY <1>1
  <2>3. Top - Height(s, l) \in Below
    BY <1>3, <2>2
  <2> QED
    BY <2>3
<1>5. PICK n \in Below : \A m \in Below : <<m, n>> \notin OpToRel(<, Nat)
  <2>1. Below \subseteq Nat
    OBVIOUS
  <2> HIDE DEF Below
  <2> QED
    BY <1>4, <2>1, NatLessThanWellFounded, WFMin
<1>6. PICK s \in S, u \in S, l \in Lock : WaitsAt(s, l, u) /\ n = Top - Height(s, l)
  BY <1>5
<1>7. PICK v \in S, k \in Lock : WaitsAt(u, k, v)
  BY <1>1
<1>8. Height(s, l) < Height(u, k)
  BY <1>6, <1>7, HeightsIncrease
<1>9. Top - Height(u, k) \in Below /\ Top - Height(u, k) \in Nat /\ n \in Nat
  BY <1>3, <1>7
<1>10. Top - Height(u, k) < n
  BY <1>2, <1>6, <1>7, <1>8, OrderAssumption DEF Top
<1> QED
  BY <1>5, <1>9, <1>10 DEF OpToRel

\* Whatever the number of sessions, rows and calls, the store's lock order
\* never lets sessions wait for each other, unless account metadata is written.
THEOREM LockOrderIsDeadlockFree ==
  ASSUME NoAccountMetadata
  PROVE  Spec => []NoDeadlock
<1>1. Init => Inv
  BY InitInv
<1>2. Inv /\ [Next]_vars => Inv'
  BY StepInv
<1>3. Inv => NoDeadlock
  BY InvNoDeadlock
<1> QED
  BY <1>1, <1>2, <1>3, PTL DEF Spec

\* And every session keeps the order in which the code takes its locks.
THEOREM LockDisciplineHolds ==
  ASSUME NoAccountMetadata
  PROVE  Spec => [](TypeOK /\ LockDiscipline)
<1>1. Init => Inv
  BY InitInv
<1>2. Inv /\ [Next]_vars => Inv'
  BY StepInv
<1>3. Inv => TypeOK /\ LockDiscipline
  BY DEF Inv, SessionOK, LockDiscipline
<1> QED
  BY <1>1, <1>2, <1>3, PTL DEF Spec
=============================================================================
