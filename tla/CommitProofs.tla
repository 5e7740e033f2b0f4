---------------------------- MODULE CommitProofs ----------------------------
(***************************************************************************)
(* The write path, for any sessions, accounts, assets and calls.           *)
(*                                                                         *)
(* The rows: what a commit checks is what it changes, and no balance moves *)
(* where its account may not go.                                           *)
(*                                                                         *)
(* The log: it is one chain without gap or repeat, a key, a reference and  *)
(* a reversal take effect at most once, and whoever asks about a key is    *)
(* told the same.  One idea carries all of it.  The session that holds the *)
(* ledgers row extends the committed log; with what it has written the log *)
(* is as well formed as it was, nobody else can add to it, and COMMIT      *)
(* publishes just that.  Reversals need a second lock, on the transaction  *)
(* they undo.                                                              *)
(*                                                                         *)
(* The volumes: a row is the tally of the logged transactions that touch   *)
(* it, and each transaction carries the rows it left.  A session that has  *)
(* updated a row holds it, so its view of the row is the committed tally   *)
(* and its own transactions, until COMMIT publishes rows and log together. *)
(*                                                                         *)
(* The calls: a session replays its items on the serial ledger of Ledger,  *)
(* one entry of the log each.  Once it has an entry it holds the ledgers   *)
(* row, so nobody else adds to the books it started from; and a policy     *)
(* change of a row it does not hold can be moved before its first item.    *)
(* COMMIT is then the whole call at once, and the write path implements    *)
(* the serial ledger.                                                      *)
(***************************************************************************)
EXTENDS Commit, PostingsProofs

\* A list of postings whose rows are rows of the ledger.
WellRowed(ps) == DOMAIN ps = 1..Len(ps) /\ Len(ps) \in Nat /\ RowsOf(ps) \subseteq Row

Working == {"find", "materialise", "lock", "readClosed", "apply", "allocate", "insert",
            "append", "commit"}

\* The session functions the type invariant says nothing of are functions of
\* the session.
FunctionsOK ==
  /\ DOMAIN items = Session /\ DOMAIN posts = Session /\ DOMAIN newTxs = Session
  /\ DOMAIN newLogs = Session /\ DOMAIN answer = Session /\ DOMAIN tip = Session

\* The call a session works on is well formed.
CallOK(s) ==
  /\ pc[s] # "idle" => req[s] \in Request
  /\ pc[s] = "lockTx" => req[s].kind = "revert" /\ item[s] = 1
  /\ pc[s] \in {"closeRead", "closeLock", "closeWrite"} => req[s].kind = "close"
  /\ pc[s] \in Working =>
       /\ DOMAIN items[s] = 1..Len(items[s])
       /\ Len(items[s]) \in Nat \ {0}
       /\ \A i \in DOMAIN items[s] : WellRowed(items[s][i].postings)
       /\ item[s] \in 0..Len(items[s])
  /\ pc[s] \in Working \ {"find", "materialise", "lock"} => item[s] # 0
  /\ pc[s] \in {"allocate", "insert", "append", "commit"} => WellRowed(posts[s])
  /\ \A t \in newTxs[s] : WellRowed(t.postings)
  /\ tip[s] = [lastTx |-> tip[s].lastTx, lastLog |-> tip[s].lastLog, lastHash |-> tip[s].lastHash]
  /\ tip[s].lastTx \in Nat /\ tip[s].lastLog \in Nat

\* What a session wrote is locked and in bounds, and what it has locked so far
\* it has read as it stands.
RowsOK(s) ==
  /\ \A r \in wrote[s] :
       /\ rowLock[r] = s
       /\ Balance(mine[s][r]) # Balance(volumes[r]) => InBounds(mine[s][r])
  /\ pc[s] = "lock" =>
       \A r \in ItemRows(items[s], item[s]) \ todo[s] :
         rowLock[r] = s /\ before[s][r] = View(s, r)
  /\ pc[s] \in {"readClosed", "apply"} =>
       \A r \in ItemRows(items[s], item[s]) : rowLock[r] = s /\ before[s][r] = View(s, r)

\* Ids are allocated under the lock of the ledgers row.
ChainOK(s) ==
  /\ pc[s] \in {"insert", "append", "commit"} => chainLock = s
  /\ newTxs[s] # {} \/ newLogs[s] # {} => chainLock = s

SessionOK(s) == CallOK(s) /\ RowsOK(s) /\ ChainOK(s)

Inv ==
  /\ TypeOK
  /\ FunctionsOK
  /\ \A t \in transactions : WellRowed(t.postings)
  /\ \A s \in Session : SessionOK(s)

-----------------------------------------------------------------------------
(* Facts about postings and rows.                                          *)

\* A row that does not exist is a row value (the columns' defaults).
LEMMA FreshRowType == \A r \in Row : FreshRow(r) \in RowValue
BY DEF FreshRow, RowValue, Row

\* Resolving ceilings keeps the rows (resolveUpTo changes amounts only).
LEMMA ResolveKeepsRows ==
  ASSUME NEW ps, NEW held, WellRowed(ps)
  PROVE  WellRowed(ResolveUpTo(ps, held))
<1>1. CASE ~HasUpTo(ps)
  BY <1>1 DEF ResolveUpTo
<1>2. CASE HasUpTo(ps)
  <2> DEFINE res == ResolveUpTo(ps, held)
  <2>1. /\ DOMAIN res = 1..Len(ps)
        /\ Len(res) = Len(ps)
        /\ \A i \in 1..Len(ps) : /\ res[i].source = ps[i].source
                                 /\ res[i].destination = ps[i].destination
                                 /\ res[i].asset = ps[i].asset
    BY <1>2 DEF ResolveUpTo, WellRowed
  <2>2. RowsOf(res) = RowsOf(ps)
    BY <2>1 DEF RowsOf, SourceRow, DestinationRow, WellRowed
  <2> QED
    BY <2>1, <2>2 DEF WellRowed
<1> QED
  BY <1>1, <1>2

\* A reversal touches the rows of its original (Postings.Reverse).
LEMMA ReverseKeepsRows ==
  ASSUME NEW ps, WellRowed(ps)
  PROVE  WellRowed(ReversePostings(ps))
<1> DEFINE rev == ReversePostings(ps)
<1>1. /\ DOMAIN rev = 1..Len(ps) /\ Len(rev) = Len(ps)
      /\ \A i \in 1..Len(ps) : /\ rev[i].source = ps[Len(ps) + 1 - i].destination
                               /\ rev[i].destination = ps[Len(ps) + 1 - i].source
                               /\ rev[i].asset = ps[Len(ps) + 1 - i].asset
  BY DEF ReversePostings, WellRowed
<1>2. \A i \in 1..Len(ps) : Len(ps) + 1 - i \in DOMAIN ps
  BY DEF WellRowed
<1>3. RowsOf(rev) \subseteq RowsOf(ps)
  BY <1>1, <1>2 DEF RowsOf, SourceRow, DestinationRow
<1> QED
  BY <1>1, <1>3 DEF WellRowed

\* Validated postings name rows, and amounts that can be moved or resolved.
LEMMA PostingRows ==
  ASSUME NEW ps \in Seq(ValidPosting)
  PROVE  WellRowed(ps) /\ Valid(ps)
<1>1. DOMAIN ps = 1..Len(ps) /\ Len(ps) \in Nat
  OBVIOUS
<1>2. ASSUME NEW i \in DOMAIN ps
      PROVE  SourceRow(ps[i]) \in Row /\ DestinationRow(ps[i]) \in Row
  <2>1. ps[i] \in Posting
    BY <1>1, <1>2 DEF ValidPosting
  <2> QED
    BY <2>1 DEF SourceRow, DestinationRow, Posting, Row
<1>3. ASSUME NEW i \in DOMAIN ps
      PROVE  ps[i].amount \in Nat \/ (ps[i].amount = NoAmount /\ ps[i].upTo)
  <2>1. /\ ps[i].amount \in {NoAmount} \cup Int
        /\ IF ps[i].amount = NoAmount THEN ps[i].upTo ELSE ps[i].amount >= 0
    BY <1>1, <1>3 DEF ValidPosting, Posting
  <2> QED
    BY <2>1
<1> QED
  BY <1>1, <1>2, <1>3 DEF WellRowed, RowsOf, Valid

\* The postings of a request are well formed (Validate has passed them).
LEMMA RequestRows ==
  ASSUME NEW q \in Request, q.kind \in {"commit", "batch"}
  PROVE  /\ DOMAIN q.items = 1..Len(q.items) /\ Len(q.items) \in Nat \ {0}
         /\ \A i \in DOMAIN q.items : /\ WellRowed(q.items[i].postings)
                                      /\ Valid(q.items[i].postings)
<1>1. q.items \in Seq(Item) /\ q.items # <<>>
  BY RequestAssumption
<1>2. ASSUME NEW i \in DOMAIN q.items
      PROVE  WellRowed(q.items[i].postings) /\ Valid(q.items[i].postings)
  <2>1. q.items[i] \in Item
    BY <1>1, <1>2
  <2>2. q.items[i].postings \in Seq(ValidPosting)
    BY <2>1 DEF Item
  <2> QED
    BY <2>2, PostingRows
<1> QED
  BY <1>1, <1>2

\* The rows a session locks are rows.
LEMMA ItemRowsType ==
  ASSUME NEW its, NEW i, DOMAIN its = 1..Len(its), Len(its) \in Nat,
         \A j \in DOMAIN its : WellRowed(its[j].postings),
         i \in 0..Len(its)
  PROVE  ItemRows(its, i) \subseteq Row
<1>1. CASE i = 0
  BY <1>1 DEF ItemRows, WellRowed
<1>2. CASE i # 0
  <2>1. i \in DOMAIN its
    BY <1>2
  <2> QED
    BY <1>2, <2>1 DEF ItemRows, WellRowed
<1> QED
  BY <1>1, <1>2

-----------------------------------------------------------------------------
(* A step leaves the other sessions alone.                                 *)

\* Nothing of session u changes, and no row it holds.
Kept(u) ==
  /\ pc'[u] = pc[u] /\ req'[u] = req[u] /\ items'[u] = items[u] /\ item'[u] = item[u]
  /\ todo'[u] = todo[u] /\ before'[u] = before[u] /\ posts'[u] = posts[u]
  /\ wrote'[u] = wrote[u] /\ mine'[u] = mine[u] /\ tip'[u] = tip[u]
  /\ newTxs'[u] = newTxs[u] /\ newLogs'[u] = newLogs[u]
  /\ \A r \in Row : rowLock[r] = u => rowLock'[r] = u /\ volumes'[r] = volumes[r]
  /\ chainLock = u => chainLock' = u

\* A session that a step leaves alone keeps its part of the invariant.
LEMMA KeptIsOK ==
  ASSUME Inv, NEW u \in Session, Kept(u)
  PROVE  SessionOK(u)'
<1> USE DEF Kept
<1>1. CallOK(u) /\ RowsOK(u) /\ ChainOK(u) /\ wrote[u] \subseteq Row
  BY DEF Inv, SessionOK, TypeOK
<1>2. CallOK(u)'
  BY <1>1 DEF CallOK
<1>3. ChainOK(u)'
  BY <1>1 DEF ChainOK
<1>4. \A r \in wrote'[u] :
        /\ rowLock'[r] = u
        /\ Balance(mine'[u][r]) # Balance(volumes'[r]) => InBounds(mine'[u][r])
  BY <1>1 DEF RowsOK
<1>5. \A r \in Row : rowLock[r] = u => View(u, r)' = View(u, r)
  BY DEF View
<1>6. pc[u] \in Working => ItemRows(items[u], item[u]) \subseteq Row
  BY <1>1, ItemRowsType DEF CallOK
<1>7. pc[u] = "lock" => \A r \in ItemRows(items[u], item[u]) \ todo[u] :
                          rowLock'[r] = u /\ before'[u][r] = View(u, r)'
  BY <1>1, <1>5, <1>6 DEF RowsOK, Working
<1>8. pc[u] \in {"readClosed", "apply"} => \A r \in ItemRows(items[u], item[u]) :
                          rowLock'[r] = u /\ before'[u][r] = View(u, r)'
  BY <1>1, <1>5, <1>6 DEF RowsOK, Working
<1>9. RowsOK(u)'
  BY <1>4, <1>7, <1>8 DEF RowsOK, ItemRows
<1> QED
  BY <1>2, <1>3, <1>9 DEF SessionOK

\* The end of a database transaction: s is left with nothing, the others with
\* what they had.
LEMMA EndFacts ==
  ASSUME Inv, NEW s \in Session, EndTransaction(s)
  PROVE  /\ rowLock' \in [Row -> Session \cup {NoSession}]
         /\ chainLock' \in Session \cup {NoSession}
         /\ txLock' \in [Session -> Nat]
         /\ wrote' \in [Session -> SUBSET Row]
         /\ mine' \in [Session -> [Row -> RowValue]]
         /\ before' \in [Session -> [Row -> RowValue]]
         /\ shut' \in [Session -> SUBSET Account]
         /\ holders' \in [Session -> SUBSET Session]
         /\ DOMAIN posts' = Session /\ DOMAIN newTxs' = Session
         /\ DOMAIN newLogs' = Session /\ DOMAIN tip' = Session
         /\ wrote'[s] = {} /\ newTxs'[s] = {} /\ newLogs'[s] = {} /\ tip'[s] = EmptyChain
         /\ \A u \in Session \ {s} :
              /\ before'[u] = before[u] /\ posts'[u] = posts[u] /\ wrote'[u] = wrote[u]
              /\ mine'[u] = mine[u] /\ tip'[u] = tip[u]
              /\ newTxs'[u] = newTxs[u] /\ newLogs'[u] = newLogs[u]
              /\ \A r \in Row : rowLock[r] = u => rowLock'[r] = u
              /\ chainLock = u => chainLock' = u
<1> USE DEF Inv, TypeOK, FunctionsOK
<1>1. FreshRows \in [Row -> RowValue]
  BY FreshRowType DEF FreshRows
<1>2. /\ rowLock' \in [Row -> Session \cup {NoSession}]
      /\ chainLock' \in Session \cup {NoSession}
      /\ txLock' \in [Session -> Nat]
  BY DEF EndTransaction, Freed
<1>3. /\ wrote' \in [Session -> SUBSET Row]
      /\ shut' \in [Session -> SUBSET Account]
      /\ holders' \in [Session -> SUBSET Session]
  BY DEF EndTransaction, Freed
<1>4. /\ mine' \in [Session -> [Row -> RowValue]]
      /\ before' \in [Session -> [Row -> RowValue]]
  BY <1>1 DEF EndTransaction
<1>5. /\ DOMAIN posts' = Session /\ DOMAIN newTxs' = Session
      /\ DOMAIN newLogs' = Session /\ DOMAIN tip' = Session
      /\ wrote'[s] = {} /\ newTxs'[s] = {} /\ newLogs'[s] = {} /\ tip'[s] = EmptyChain
  BY DEF EndTransaction, Freed
<1>6. ASSUME NEW u \in Session \ {s}
      PROVE  /\ before'[u] = before[u] /\ posts'[u] = posts[u] /\ wrote'[u] = wrote[u]
             /\ mine'[u] = mine[u] /\ tip'[u] = tip[u]
             /\ newTxs'[u] = newTxs[u] /\ newLogs'[u] = newLogs[u]
             /\ \A r \in Row : rowLock[r] = u => rowLock'[r] = u
             /\ chainLock = u => chainLock' = u
  BY <1>6 DEF EndTransaction, Freed
<1> QED
  BY <1>2, <1>3, <1>4, <1>5, <1>6

\* A session that has ended its transaction, whatever it does next, keeps the
\* invariant if its call is well formed there.
LEMMA EndedIsOK ==
  ASSUME Inv, NEW s \in Session, EndTransaction(s),
         pc'[s] # "idle" => req'[s] \in Request,
         pc'[s] \in {"idle", "reply", "race", "find", "materialise", "lockTx", "closeRead"},
         pc'[s] = "lockTx" => req'[s].kind = "revert" /\ item'[s] = 1,
         pc'[s] = "closeRead" => req'[s].kind = "close",
         pc'[s] \in {"find", "materialise"} =>
           /\ DOMAIN items'[s] = 1..Len(items'[s]) /\ Len(items'[s]) \in Nat \ {0}
           /\ \A i \in DOMAIN items'[s] : WellRowed(items'[s][i].postings)
           /\ item'[s] \in 0..Len(items'[s])
  PROVE  SessionOK(s)'
<1>1. wrote'[s] = {} /\ newTxs'[s] = {} /\ newLogs'[s] = {} /\ tip'[s] = EmptyChain
  BY EndFacts
<1>2. CallOK(s)'
  BY <1>1 DEF CallOK, EmptyChain, Working
<1>3. RowsOK(s)' /\ ChainOK(s)'
  BY <1>1 DEF RowsOK, ChainOK
<1> QED
  BY <1>2, <1>3 DEF SessionOK

\* An error: the transaction ends and the session is free.
LEMMA RefuseKeeps ==
  ASSUME Inv, NEW s \in Session, Refuse(s)
  PROVE  Inv'
<1>1. EndTransaction(s) /\ Forget(s) /\ UNCHANGED <<tables, begun, answers>>
  BY DEF Refuse
<1>2. TypeOK'
  <2>1. /\ pc' \in [Session -> Labels] /\ req' \in [Session -> Request \cup {NoRequest}]
        /\ attempt' \in [Session -> 0..MaxAttempts - 1]
        /\ item' \in [Session -> Nat] /\ todo' \in [Session -> SUBSET Row]
    BY <1>1, BoundAssumption DEF Forget, Inv, TypeOK, Labels
  <2> QED
    BY <1>1, <2>1, EndFacts DEF Inv, TypeOK, tables
<1>3. FunctionsOK'
  BY <1>1, EndFacts DEF Forget, Inv, FunctionsOK
<1>4. SessionOK(s)'
  <2>1. pc'[s] = "idle"
    BY <1>1 DEF Forget, Inv, TypeOK
  <2> QED
    BY <1>1, <2>1, EndedIsOK
<1>5. ASSUME NEW u \in Session \ {s} PROVE SessionOK(u)'
  <2>1. /\ pc'[u] = pc[u] /\ req'[u] = req[u] /\ items'[u] = items[u]
        /\ item'[u] = item[u] /\ todo'[u] = todo[u] /\ volumes' = volumes
    BY <1>1 DEF Forget, Inv, TypeOK, FunctionsOK, tables
  <2>2. Kept(u)
    BY <1>1, <2>1, EndFacts DEF Kept
  <2> QED
    BY <2>2, KeptIsOK
<1> QED
  BY <1>1, <1>2, <1>3, <1>4, <1>5 DEF Inv, tables

\* A result: the transaction ends, whether or not it changed the tables.
LEMMA FinishKeeps ==
  ASSUME Inv, NEW s \in Session, NEW ids, Finish(s, ids), pc[s] # "idle",
         rows' \subseteq Row, volumes' \in [Row -> RowValue], closed' \subseteq Account,
         chain'.lastTx \in Nat, chain'.lastLog \in Nat,
         \A t \in transactions' : WellRowed(t.postings),
         \A r \in Row : rowLock[r] # s => volumes'[r] = volumes[r]
  PROVE  Inv'
<1>1. /\ EndTransaction(s) /\ UNCHANGED <<req, attempt, items, item, todo, begun, answers>>
      /\ pc' = [pc EXCEPT ![s] = "reply"] /\ DOMAIN answer' = Session
  BY DEF Finish, call, Inv, FunctionsOK
<1>2. TypeOK'
  <2>1. pc' \in [Session -> Labels]
    BY <1>1 DEF Inv, TypeOK, Labels
  <2> QED
    BY <1>1, <2>1, EndFacts DEF Inv, TypeOK
<1>3. FunctionsOK'
  BY <1>1, EndFacts DEF Inv, FunctionsOK
<1>4. SessionOK(s)'
  <2>1. pc'[s] = "reply" /\ req'[s] \in Request
    BY <1>1 DEF Inv, TypeOK, SessionOK, CallOK
  <2> QED
    BY <1>1, <2>1, EndedIsOK
<1>5. ASSUME NEW u \in Session \ {s} PROVE SessionOK(u)'
  <2>1. /\ pc'[u] = pc[u] /\ req'[u] = req[u] /\ items'[u] = items[u]
        /\ item'[u] = item[u] /\ todo'[u] = todo[u]
    BY <1>1 DEF Inv, TypeOK
  <2>2. Kept(u)
    BY <1>1, <2>1, EndFacts DEF Kept
  <2> QED
    BY <2>2, KeptIsOK
<1> QED
  BY <1>2, <1>3, <1>4, <1>5 DEF Inv

-----------------------------------------------------------------------------
(* A step inside a transaction.                                            *)

\* What every step of s that ends nothing leaves alone: the tables, and all of
\* every other session.
Inside(s) ==
  /\ UNCHANGED <<tables, begun, req>>
  /\ \A u \in Session \ {s} : Kept(u)
  /\ DOMAIN items' = Session /\ DOMAIN posts' = Session /\ DOMAIN newTxs' = Session
  /\ DOMAIN newLogs' = Session /\ DOMAIN answer' = Session /\ DOMAIN tip' = Session

\* Such a step keeps the invariant if it keeps the types and what is said of s.
LEMMA InsideKeeps ==
  ASSUME Inv, NEW s \in Session, Inside(s), TypeOK', SessionOK(s)'
  PROVE  Inv'
<1>1. \A u \in Session \ {s} : SessionOK(u)'
  BY KeptIsOK DEF Inside
<1>2. FunctionsOK'
  BY DEF Inside, FunctionsOK
<1>3. transactions' = transactions
  BY DEF Inside, tables
<1> QED
  BY <1>1, <1>2, <1>3 DEF Inv

\* Every call starts at an entry point with well formed items (CommitTransaction,
\* CommitBatch, RevertTransaction, CloseAccount).
LEMMA EntryFacts ==
  ASSUME NEW q \in Request
  PROVE  /\ EntryPoint(q) \in {"find", "materialise", "lockTx", "closeRead"}
         /\ EntryPoint(q) = "lockTx" => q.kind = "revert" /\ FirstItem(q) = 1
         /\ EntryPoint(q) = "closeRead" => q.kind = "close"
         /\ EntryPoint(q) \in {"find", "materialise"} =>
              /\ DOMAIN q.items = 1..Len(q.items) /\ Len(q.items) \in Nat \ {0}
              /\ \A i \in DOMAIN q.items : WellRowed(q.items[i].postings)
              /\ FirstItem(q) \in 0..Len(q.items)
         /\ FirstItem(q) \in Nat
         /\ EntryTodo(q) \subseteq Row
<1>1. q.kind \in {"commit", "batch", "revert", "close"}
  BY RequestAssumption
<1>2. EntryPoint(q) \in {"find", "materialise"} => q.kind \in {"commit", "batch"}
  BY <1>1 DEF EntryPoint
<1>3. EntryPoint(q) \in {"find", "materialise"} =>
        /\ DOMAIN q.items = 1..Len(q.items) /\ Len(q.items) \in Nat \ {0}
        /\ \A i \in DOMAIN q.items : WellRowed(q.items[i].postings)
        /\ FirstItem(q) \in 0..Len(q.items)
  BY <1>2, RequestRows DEF FirstItem
<1>4. EntryTodo(q) \subseteq Row
  BY <1>3, ItemRowsType DEF EntryTodo
<1> QED
  BY <1>1, <1>3, <1>4 DEF EntryPoint, FirstItem

\* A call begins.
LEMMA BeginKeeps ==
  ASSUME Inv, NEW s \in Session, NEW q \in Request, Begin(s, q)
  PROVE  Inv'
<1> USE DEF Inv, TypeOK, FunctionsOK
<1>1. /\ pc' = [pc EXCEPT ![s] = EntryPoint(q)] /\ items' = [items EXCEPT ![s] = q.items]
      /\ item' = [item EXCEPT ![s] = FirstItem(q)]
      /\ todo' = [todo EXCEPT ![s] = EntryTodo(q)]
      /\ req' = [req EXCEPT ![s] = q] /\ pc[s] = "idle" /\ begun' = begun + 1
      /\ begun < MaxRequests
      /\ UNCHANGED <<tables, locks, writes, attempt, before, shut, posts, answer,
                     answers, holders>>
  BY DEF Begin, Enter
<1>2. TypeOK'
  <2>1. pc' \in [Session -> Labels] /\ begun' \in 0..MaxRequests
    BY <1>1, EntryFacts, BoundAssumption DEF Labels
  <2>2. /\ req' \in [Session -> Request \cup {NoRequest}] /\ item' \in [Session -> Nat]
        /\ todo' \in [Session -> SUBSET Row]
    BY <1>1, EntryFacts
  <2> QED
    BY <1>1, <2>1, <2>2 DEF tables, locks, writes
<1>3. FunctionsOK'
  BY <1>1 DEF writes
<1>4. SessionOK(s)'
  <2>1. /\ pc'[s] = EntryPoint(q) /\ items'[s] = q.items /\ item'[s] = FirstItem(q)
        /\ req'[s] = q /\ wrote'[s] = wrote[s] /\ mine'[s] = mine[s]
        /\ volumes' = volumes /\ rowLock' = rowLock /\ chainLock' = chainLock
        /\ newTxs' = newTxs /\ newLogs' = newLogs /\ tip' = tip
    BY <1>1 DEF tables, locks, writes
  <2>2. CallOK(s) /\ RowsOK(s) /\ ChainOK(s)
    BY DEF SessionOK
  <2>3. CallOK(s)'
    BY <2>1, <2>2, EntryFacts DEF CallOK, Working
  <2>4. RowsOK(s)' /\ ChainOK(s)'
    BY <2>1, <2>2, EntryFacts DEF RowsOK, ChainOK
  <2> QED
    BY <2>3, <2>4 DEF SessionOK
<1>5. ASSUME NEW u \in Session \ {s} PROVE SessionOK(u)'
  <2>1. Kept(u)
    BY <1>1 DEF Kept, tables, locks, writes
  <2> QED
    BY <2>1, KeptIsOK
<1> QED
  BY <1>1, <1>2, <1>3, <1>4, <1>5 DEF tables

\* An attempt is rolled back and starts again, or the call is given up.
LEMMA ContendKeeps ==
  ASSUME Inv, NEW s \in Session, Contend(s)
  PROVE  Inv'
<1>1. CASE Refuse(s)
  BY <1>1, RefuseKeeps
<1>2. CASE /\ EndTransaction(s) /\ attempt[s] + 1 < MaxAttempts
           /\ attempt' = [attempt EXCEPT ![s] = @ + 1]
           /\ Enter(s, req[s])
           /\ UNCHANGED <<tables, req, answer, begun, answers>>
  <2>1. req[s] \in Request /\ req' = req /\ volumes' = volumes
    BY <1>2 DEF Contend, Inv, SessionOK, CallOK, tables
  <2>2. TypeOK'
    <3>1. pc' \in [Session -> Labels] /\ attempt' \in [Session -> 0..MaxAttempts - 1]
      BY <1>2, <2>1, EntryFacts, BoundAssumption DEF Enter, Labels, Inv, TypeOK
    <3>2. item' \in [Session -> Nat] /\ todo' \in [Session -> SUBSET Row]
      BY <1>2, <2>1, EntryFacts DEF Enter, Inv, TypeOK
    <3> QED
      BY <1>2, <2>1, <3>1, <3>2, EndFacts DEF Inv, TypeOK, tables
  <2>3. FunctionsOK'
    BY <1>2, EndFacts DEF Inv, FunctionsOK, Enter
  <2>4. SessionOK(s)'
    <3>1. /\ pc'[s] = EntryPoint(req[s]) /\ items'[s] = req[s].items
          /\ item'[s] = FirstItem(req[s]) /\ req'[s] = req[s]
      BY <1>2, <2>1 DEF Enter, Inv, TypeOK, FunctionsOK
    <3> QED
      BY <1>2, <2>1, <3>1, EntryFacts, EndedIsOK
  <2>5. ASSUME NEW u \in Session \ {s} PROVE SessionOK(u)'
    <3>1. /\ pc'[u] = pc[u] /\ items'[u] = items[u] /\ item'[u] = item[u]
          /\ todo'[u] = todo[u]
      BY <1>2 DEF Enter, Inv, TypeOK, FunctionsOK
    <3>2. Kept(u)
      BY <1>2, <2>1, <3>1, EndFacts DEF Kept
    <3> QED
      BY <3>2, KeptIsOK
  <2> QED
    BY <1>2, <2>2, <2>3, <2>4, <2>5 DEF Inv, tables
<1> QED
  BY <1>1, <1>2 DEF Contend, MayRetry

-----------------------------------------------------------------------------
(* The actions, one by one.                                                *)

\* A stored answer is returned or refused; the tables stay as they are.
LEMMA AnswerKeeps ==
  ASSUME Inv, NEW s \in Session, AnswerStored(s), pc[s] # "idle"
  PROVE  Inv'
<1>1. PICK e \in KeyEntries(req[s].key) :
        \/ Refuse(s)
        \/ Finish(s, Stored(req[s], e)) /\ UNCHANGED tables
  BY DEF AnswerStored
<1>2. CASE Refuse(s)
  BY <1>2, RefuseKeeps
<1>3. CASE Finish(s, Stored(req[s], e)) /\ UNCHANGED tables
  <2>1. /\ rows' = rows /\ volumes' = volumes /\ closed' = closed /\ chain' = chain
        /\ transactions' = transactions
    BY <1>3 DEF tables
  <2>2. /\ rows' \subseteq Row /\ volumes' \in [Row -> RowValue] /\ closed' \subseteq Account
        /\ chain'.lastTx \in Nat /\ chain'.lastLog \in Nat
        /\ \A t \in transactions' : WellRowed(t.postings)
    BY <2>1 DEF Inv, TypeOK
  <2> QED
    BY <1>3, <2>1, <2>2, FinishKeeps
<1> QED
  BY <1>1, <1>2, <1>3

\* The lookup before the commit.
LEMMA FindKeeps ==
  ASSUME Inv, NEW s \in Session, Find(s)
  PROVE  Inv'
<1>1. CASE AnswerStored(s)
  BY <1>1, AnswerKeeps DEF Find
<1>2. CASE /\ pc[s] = "find" /\ pc' = [pc EXCEPT ![s] = "materialise"]
           /\ todo' = [todo EXCEPT ![s] = ItemRows(items[s], item[s])]
           /\ UNCHANGED <<tables, locks, writes, call, before, shut, posts, answer, history>>
  <2> USE DEF tables, locks, writes, call, history
  <2>1. CallOK(s) /\ RowsOK(s) /\ ChainOK(s)
    BY DEF Inv, SessionOK
  <2>2. ItemRows(items[s], item[s]) \subseteq Row
    BY <1>2, <2>1, ItemRowsType DEF CallOK, Working
  <2>3. TypeOK'
    <3>1. pc' \in [Session -> Labels] /\ todo' \in [Session -> SUBSET Row]
      BY <1>2, <2>2 DEF Inv, TypeOK, Labels
    <3> QED
      BY <1>2, <3>1 DEF Inv, TypeOK
  <2>4. Inside(s)
    <3>1. \A u \in Session \ {s} : Kept(u)
      BY <1>2 DEF Kept, Inv, TypeOK
    <3> QED
      BY <1>2, <3>1 DEF Inside, Inv, FunctionsOK
  <2>5. pc'[s] = "materialise"
    BY <1>2 DEF Inv, TypeOK
  <2>6. CallOK(s)'
    BY <1>2, <2>1, <2>5 DEF CallOK, Working
  <2>7. RowsOK(s)' /\ ChainOK(s)'
    BY <1>2, <2>1, <2>5 DEF RowsOK, ChainOK
  <2> QED
    BY <2>3, <2>4, <2>6, <2>7, InsideKeeps DEF SessionOK
<1> QED
  BY <1>1, <1>2 DEF Find

\* The insert takes an absent row's lock and touches nobody else's rows.
LEMMA MaterialiseKeeps ==
  ASSUME Inv, NEW s \in Session, NEW r \in Row, MaterialiseRow(s, r)
  PROVE  Inv'
<1> USE DEF tables, locks, writes, call, history
<1>1. CallOK(s) /\ RowsOK(s) /\ ChainOK(s) /\ pc[s] = "materialise"
  BY DEF Inv, SessionOK, MaterialiseRow
<1>2. ItemRows(items[s], item[s]) \subseteq Row
  BY <1>1, ItemRowsType DEF CallOK, Working
<1>3. /\ rowLock' \in [Row -> Session \cup {NoSession}]
      /\ wrote' \in [Session -> SUBSET Row]
      /\ mine' \in [Session -> [Row -> RowValue]]
      /\ \A u \in Session \ {s} : wrote'[u] = wrote[u] /\ mine'[u] = mine[u]
      /\ \A q \in Row, u \in Session : rowLock[q] = u => rowLock'[q] = u
  <2>1. CASE UNCHANGED <<rowLock, wrote, mine>>
    BY <2>1 DEF Inv, TypeOK
  <2>2. CASE /\ rowLock[r] = NoSession
             /\ rowLock' = [rowLock EXCEPT ![r] = s]
             /\ wrote' = [wrote EXCEPT ![s] = @ \cup {r}]
             /\ mine' = [mine EXCEPT ![s][r] = FreshRow(r)]
    <3>1. FreshRow(r) \in RowValue
      BY FreshRowType
    <3> QED
      BY <2>2, <3>1, SessionAssumption DEF Inv, TypeOK
  <2> QED
    BY <2>1, <2>2 DEF MaterialiseRow
<1>4. /\ pc' \in [Session -> Labels] /\ todo' \in [Session -> SUBSET Row]
      /\ \A u \in Session \ {s} : pc'[u] = pc[u] /\ todo'[u] = todo[u]
      /\ pc'[s] \in {"materialise", "lock"}
      /\ pc'[s] = "lock" => todo'[s] = ItemRows(items[s], item[s])
  <2>1. CASE /\ pc' = [pc EXCEPT ![s] = "lock"]
             /\ todo' = [todo EXCEPT ![s] = ItemRows(items[s], item[s])]
    BY <1>2, <2>1 DEF Inv, TypeOK, Labels
  <2>2. CASE todo' = [todo EXCEPT ![s] = @ \ {r}] /\ UNCHANGED pc
    BY <1>1, <2>2 DEF Inv, TypeOK, Labels
  <2> QED
    BY <2>1, <2>2 DEF MaterialiseRow
<1>5. UNCHANGED <<tables, chainLock, txLock, tip, newTxs, newLogs, call, before, shut,
                  posts, answer, history>>
  BY DEF MaterialiseRow
<1>6. TypeOK'
  BY <1>3, <1>4, <1>5 DEF Inv, TypeOK
<1>7. Inside(s)
  <2>1. \A u \in Session \ {s} : Kept(u)
    BY <1>3, <1>4, <1>5 DEF Kept
  <2> QED
    BY <1>5, <2>1 DEF Inside, Inv, FunctionsOK
<1>8. CallOK(s)'
  BY <1>1, <1>4, <1>5 DEF CallOK, Working
<1>9. RowsOK(s)'
  <2>1. \A q \in wrote'[s] :
          /\ rowLock'[q] = s
          /\ Balance(mine'[s][q]) # Balance(volumes'[q]) => InBounds(mine'[s][q])
    <3>1. CASE UNCHANGED <<rowLock, wrote, mine>>
      BY <1>1, <1>5, <3>1 DEF RowsOK
    <3>2. CASE /\ rowLock[r] = NoSession
               /\ rowLock' = [rowLock EXCEPT ![r] = s]
               /\ wrote' = [wrote EXCEPT ![s] = @ \cup {r}]
               /\ mine' = [mine EXCEPT ![s][r] = FreshRow(r)]
      <4>1. InBounds(FreshRow(r))
        BY DEF InBounds, FreshRow
      <4>2. wrote'[s] = wrote[s] \cup {r} /\ mine'[s] = [mine[s] EXCEPT ![r] = FreshRow(r)]
        BY <3>2 DEF Inv, TypeOK
      <4>3. mine[s] \in [Row -> RowValue] /\ wrote[s] \subseteq Row
        BY DEF Inv, TypeOK
      <4>4. rowLock'[r] = s /\ mine'[s][r] = FreshRow(r)
        BY <3>2, <4>2, <4>3 DEF Inv, TypeOK
      <4>5. ASSUME NEW q \in wrote[s], q # r
            PROVE  rowLock'[q] = s /\ mine'[s][q] = mine[s][q]
        BY <1>1, <3>2, <4>2, <4>3, <4>5 DEF RowsOK, Inv, TypeOK
      <4> QED
        BY <1>1, <1>5, <4>1, <4>2, <4>4, <4>5 DEF RowsOK
    <3> QED
      BY <3>1, <3>2 DEF MaterialiseRow
  <2> QED
    BY <1>4, <1>5, <2>1 DEF RowsOK
<1>10. ChainOK(s)'
  BY <1>1, <1>4, <1>5 DEF ChainOK
<1> QED
  BY <1>6, <1>7, <1>8, <1>9, <1>10, InsideKeeps DEF SessionOK

\* Each lock granted adds one row to what has been read as it stands.
LEMMA LockRowKeeps ==
  ASSUME Inv, NEW s \in Session, NEW r \in Row, LockRow(s, r)
  PROVE  Inv'
<1> USE DEF tables, locks, writes, call, history
<1>1. CallOK(s) /\ RowsOK(s) /\ ChainOK(s) /\ pc[s] = "lock"
  BY DEF Inv, SessionOK, LockRow
<1>2. /\ rowLock[r] \in {NoSession, s} /\ rowLock' = [rowLock EXCEPT ![r] = s]
      /\ before' = [before EXCEPT ![s][r] = View(s, r)]
      /\ UNCHANGED <<tables, chainLock, txLock, writes, req, attempt, items, shut, posts,
                     answer, history>>
  BY DEF LockRow, Granted
<1>3. \A i \in 0..Len(items[s]) : ItemRows(items[s], i) \subseteq Row
  BY <1>1, ItemRowsType DEF CallOK, Working
<1>4. \/ todo'[s] = todo[s] \ {r} /\ pc'[s] = "lock" /\ item'[s] = item[s]
      \/ pc'[s] = "materialise" /\ item'[s] = 1 /\ todo'[s] = ItemRows(items[s], 1)
      \/ /\ todo[s] = {r} /\ item[s] # 0
         /\ pc'[s] = "readClosed" /\ item'[s] = item[s] /\ todo'[s] = {}
  BY <1>1 DEF LockRow, Inv, TypeOK
<1>5. /\ pc' \in [Session -> Labels] /\ todo' \in [Session -> SUBSET Row]
      /\ item' \in [Session -> Nat]
      /\ \A u \in Session \ {s} : /\ pc'[u] = pc[u] /\ todo'[u] = todo[u]
                                  /\ item'[u] = item[u]
  <2>1. ItemRows(items[s], 1) \subseteq Row
    BY <1>1, <1>3 DEF CallOK, Working
  <2>2. CASE todo' = [todo EXCEPT ![s] = @ \ {r}] /\ UNCHANGED <<pc, item>>
    BY <2>2 DEF Inv, TypeOK
  <2>3. CASE /\ pc' = [pc EXCEPT ![s] = "materialise"] /\ item' = [item EXCEPT ![s] = 1]
             /\ todo' = [todo EXCEPT ![s] = ItemRows(items[s], 1)]
    BY <2>1, <2>3 DEF Inv, TypeOK, Labels
  <2>4. CASE /\ pc' = [pc EXCEPT ![s] = "readClosed"] /\ todo' = [todo EXCEPT ![s] = {}]
             /\ UNCHANGED item
    BY <2>4 DEF Inv, TypeOK, Labels
  <2> QED
    BY <2>2, <2>3, <2>4 DEF LockRow
<1>6. View(s, r) \in RowValue
  BY DEF View, Inv, TypeOK
<1>7. /\ before' \in [Session -> [Row -> RowValue]]
      /\ rowLock' \in [Row -> Session \cup {NoSession}]
      /\ \A u \in Session \ {s} : before'[u] = before[u]
      /\ before'[s] = [before[s] EXCEPT ![r] = View(s, r)]
  BY <1>2, <1>6 DEF Inv, TypeOK
<1>8. \A q \in Row, u \in Session : rowLock[q] = u => rowLock'[q] = u
  BY <1>2, SessionAssumption DEF Inv, TypeOK
<1>9. TypeOK'
  BY <1>2, <1>5, <1>7 DEF Inv, TypeOK
<1>10. Inside(s)
  <2>1. \A u \in Session \ {s} : Kept(u)
    BY <1>2, <1>5, <1>7, <1>8 DEF Kept
  <2> QED
    BY <1>2, <2>1 DEF Inside, Inv, FunctionsOK
<1>11. CallOK(s)'
  BY <1>1, <1>2, <1>4 DEF CallOK, Working
<1>12. RowsOK(s)'
  <2>1. \A q \in wrote'[s] :
          /\ rowLock'[q] = s
          /\ Balance(mine'[s][q]) # Balance(volumes'[q]) => InBounds(mine'[s][q])
    BY <1>1, <1>2, <1>8 DEF RowsOK, Inv, TypeOK
  <2>2. \A q \in Row : View(s, q)' = View(s, q)
    BY <1>2 DEF View
  <2>3. \A q \in (ItemRows(items[s], item[s]) \ todo[s]) \cup {r} :
          rowLock'[q] = s /\ before'[s][q] = View(s, q)
    <3>1. rowLock'[r] = s /\ before'[s][r] = View(s, r)
      BY <1>2, <1>7 DEF Inv, TypeOK
    <3>2. ASSUME NEW q \in ItemRows(items[s], item[s]) \ todo[s], q # r
          PROVE  rowLock'[q] = s /\ before'[s][q] = View(s, q)
      <4>1. q \in Row
        BY <1>1, <1>3, <3>2 DEF CallOK, Working
      <4>2. before'[s][q] = before[s][q]
        BY <1>7, <3>2, <4>1 DEF Inv, TypeOK
      <4> QED
        BY <1>1, <1>8, <3>2, <4>1, <4>2 DEF RowsOK
    <3> QED
      BY <3>1, <3>2
  <2>4. ItemRows(items[s], item[s]) \subseteq Row
    BY <1>1, <1>3 DEF CallOK, Working
  <2>5. CASE todo'[s] = todo[s] \ {r} /\ pc'[s] = "lock" /\ item'[s] = item[s]
    BY <1>2, <2>1, <2>2, <2>3, <2>4, <2>5 DEF RowsOK
  <2>6. CASE pc'[s] = "materialise"
    BY <2>1, <2>6 DEF RowsOK
  <2>7. CASE todo[s] = {r} /\ pc'[s] = "readClosed" /\ item'[s] = item[s]
    BY <1>2, <2>1, <2>2, <2>3, <2>4, <2>7 DEF RowsOK
  <2> QED
    BY <1>4, <2>5, <2>6, <2>7
<1>13. ChainOK(s)'
  BY <1>1, <1>2, <1>4 DEF ChainOK
<1> QED
  BY <1>9, <1>10, <1>11, <1>12, <1>13, InsideKeeps DEF SessionOK

\* Reading the closed marks changes nothing that is locked.
LEMMA ReadClosedKeeps ==
  ASSUME Inv, NEW s \in Session, ReadClosed(s)
  PROVE  Inv'
<1> USE DEF tables, locks, writes, call, history
<1>1. CallOK(s) /\ RowsOK(s) /\ ChainOK(s) /\ pc[s] = "readClosed"
  BY DEF Inv, SessionOK, ReadClosed
<1>2. /\ pc' = [pc EXCEPT ![s] = "apply"]
      /\ UNCHANGED <<tables, locks, writes, call, todo, before, posts, answer, history>>
  BY DEF ReadClosed
<1>3. TypeOK'
  <2>1. shut' \in [Session -> SUBSET Account]
    BY DEF ReadClosed, Inv, TypeOK
  <2>2. pc' \in [Session -> Labels]
    BY <1>2 DEF Inv, TypeOK, Labels
  <2> QED
    BY <1>2, <2>1, <2>2 DEF Inv, TypeOK
<1>4. Inside(s)
  <2>1. \A u \in Session \ {s} : Kept(u)
    BY <1>2 DEF Kept, Inv, TypeOK
  <2> QED
    BY <1>2, <2>1 DEF Inside, Inv, FunctionsOK
<1>5. pc'[s] = "apply"
  BY <1>2 DEF Inv, TypeOK
<1>6. CallOK(s)'
  BY <1>1, <1>2, <1>5 DEF CallOK, Working
<1>7. RowsOK(s)'
  <2>1. \A r \in Row : View(s, r)' = View(s, r)
    BY <1>2 DEF View
  <2>2. ItemRows(items[s], item[s]) \subseteq Row
    BY <1>1, ItemRowsType DEF CallOK, Working
  <2> QED
    BY <1>1, <1>2, <1>5, <2>1, <2>2 DEF RowsOK
<1>8. ChainOK(s)'
  BY <1>1, <1>2, <1>5 DEF ChainOK
<1> QED
  BY <1>3, <1>4, <1>6, <1>7, <1>8, InsideKeeps DEF SessionOK

\* An update the trigger accepts leaves a balance where it was or in bounds,
\* and changes no permission.
LEMMA AcceptedRow ==
  ASSUME NEW old \in RowValue, NEW delta, RowAccepts(old, AddDelta(old, delta))
  PROVE  /\ AddDelta(old, delta) \in RowValue
         /\ \/ InBounds(AddDelta(old, delta))
            \/ AddDelta(old, delta) = old
<1> DEFINE new == AddDelta(old, delta)
<1>1. /\ new \in RowValue
      /\ (new.input = old.input /\ new.output = old.output) \/ InBounds(new)
  BY DEF RowAccepts
<1>2. new.allowNegative = old.allowNegative /\ new.allowPositive = old.allowPositive
  BY DEF AddDelta, RowValue
<1>3. new.input = old.input /\ new.output = old.output => new = old
  BY <1>1, <1>2 DEF RowValue
<1> QED
  BY <1>1, <1>3

\* The checked write: every row it changes is locked, and ends in bounds.
LEMMA ApplyKeeps ==
  ASSUME Inv, NEW s \in Session, Apply(s)
  PROVE  Inv'
<1> USE DEF tables, locks, writes, call, history
<1>1. CASE Refuse(s)
  BY <1>1, RefuseKeeps
<1>2. CASE ~Refuse(s)
  <2>1. CallOK(s) /\ RowsOK(s) /\ ChainOK(s) /\ pc[s] = "apply"
    BY DEF Inv, SessionOK, Apply
  <2>2. /\ TriggersPass(s)
        /\ posts' = [posts EXCEPT ![s] = Settled(s)]
        /\ wrote' = [wrote EXCEPT ![s] = @ \cup RowsOf(Asked(s))]
        /\ mine' = [mine EXCEPT ![s] =
                      [r \in Row |-> IF r \in RowsOf(Asked(s)) THEN Updated(s)[r] ELSE @[r]]]
        /\ pc' = [pc EXCEPT ![s] = "allocate"]
        /\ UNCHANGED <<tables, locks, tip, newTxs, newLogs, call, todo, before, shut,
                       answer, history>>
    BY <1>2 DEF Apply, Accepted
  <2>3. WellRowed(Asked(s)) /\ ItemRows(items[s], item[s]) = RowsOf(Asked(s))
    BY <2>1 DEF CallOK, Working, Asked, ItemRows
  <2>4. RowsOf(Asked(s)) \subseteq Row
    BY <2>3 DEF WellRowed
  <2>5. ASSUME NEW r \in RowsOf(Asked(s))
        PROVE  /\ Updated(s)[r] \in RowValue
               /\ InBounds(Updated(s)[r]) \/ Updated(s)[r] = View(s, r)
    <3>1. View(s, r) \in RowValue
      BY <2>4 DEF View, Inv, TypeOK
    <3>2. Updated(s)[r] = AddDelta(View(s, r), VolumeUpdates(Settled(s))[r])
      BY DEF Updated
    <3>3. RowAccepts(View(s, r), Updated(s)[r])
      BY <2>2 DEF TriggersPass
    <3> QED
      BY <3>1, <3>2, <3>3, AcceptedRow
  <2>6. /\ mine'[s] = [r \in Row |-> IF r \in RowsOf(Asked(s)) THEN Updated(s)[r]
                                     ELSE mine[s][r]]
        /\ wrote'[s] = wrote[s] \cup RowsOf(Asked(s))
        /\ pc'[s] = "allocate" /\ posts'[s] = Settled(s)
        /\ \A u \in Session \ {s} : /\ mine'[u] = mine[u] /\ wrote'[u] = wrote[u]
                                    /\ pc'[u] = pc[u] /\ posts'[u] = posts[u]
    BY <2>2 DEF Inv, TypeOK, FunctionsOK
  <2>7. TypeOK'
    <3>1. mine'[s] \in [Row -> RowValue]
      BY <2>5, <2>6 DEF Inv, TypeOK
    <3>2. mine' \in [Session -> [Row -> RowValue]]
      BY <2>2, <2>6, <3>1 DEF Inv, TypeOK
    <3>3. wrote' \in [Session -> SUBSET Row] /\ pc' \in [Session -> Labels]
      BY <2>2, <2>4 DEF Inv, TypeOK, Labels
    <3> QED
      BY <2>2, <3>2, <3>3 DEF Inv, TypeOK
  <2>8. Inside(s)
    <3>1. \A u \in Session \ {s} : Kept(u)
      BY <2>2, <2>6 DEF Kept
    <3> QED
      BY <2>2, <3>1 DEF Inside, Inv, FunctionsOK
  <2>9. CallOK(s)'
    <3>1. WellRowed(posts'[s])
      BY <2>3, <2>6, ResolveKeepsRows DEF Settled
    <3> QED
      BY <2>1, <2>2, <2>6, <3>1 DEF CallOK, Working
  <2>10. RowsOK(s)'
    <3>1. ASSUME NEW r \in wrote'[s]
          PROVE  /\ rowLock'[r] = s
                 /\ Balance(mine'[s][r]) # Balance(volumes'[r]) => InBounds(mine'[s][r])
      <4>1. r \in Row
        BY <2>4, <2>6, <3>1 DEF Inv, TypeOK
      <4>2. rowLock'[r] = s
        BY <2>1, <2>2, <2>3, <2>6, <3>1 DEF RowsOK
      <4>3. CASE r \in RowsOf(Asked(s))
        <5>1. mine'[s][r] = Updated(s)[r]
          BY <2>6, <4>1, <4>3
        <5>2. CASE InBounds(Updated(s)[r])
          BY <4>2, <5>1, <5>2
        <5>3. CASE Updated(s)[r] = View(s, r)
          BY <2>1, <2>2, <4>2, <5>1, <5>3 DEF View, RowsOK
        <5> QED
          BY <2>5, <4>3, <5>2, <5>3
      <4>4. CASE r \notin RowsOf(Asked(s))
        BY <2>1, <2>2, <2>6, <3>1, <4>1, <4>2, <4>4 DEF RowsOK
      <4> QED
        BY <4>3, <4>4
    <3> QED
      BY <2>6, <3>1 DEF RowsOK
  <2>11. ChainOK(s)'
    BY <2>1, <2>2, <2>6 DEF ChainOK
  <2> QED
    BY <2>7, <2>8, <2>9, <2>10, <2>11, InsideKeeps DEF SessionOK
<1> QED
  BY <1>1, <1>2

\* The ledgers row is taken, and with it the right to number an entry.
LEMMA AllocateKeeps ==
  ASSUME Inv, NEW s \in Session, Allocate(s)
  PROVE  Inv'
<1> USE DEF tables, locks, writes, call, history
<1>1. CallOK(s) /\ RowsOK(s) /\ ChainOK(s) /\ pc[s] = "allocate"
  BY DEF Inv, SessionOK, Allocate
<1>2. /\ chainLock \in {NoSession, s} /\ chainLock' = s
      /\ tip' = [tip EXCEPT ![s] = [lastTx |-> ChainView(s).lastTx + 1,
                                    lastLog |-> ChainView(s).lastLog + 1,
                                    lastHash |-> ChainView(s).lastHash]]
      /\ pc' = [pc EXCEPT ![s] = "insert"]
      /\ UNCHANGED <<tables, rowLock, txLock, wrote, mine, newTxs, newLogs, call, todo,
                     before, shut, posts, answer, history>>
  BY DEF Allocate
<1>3. ChainView(s).lastTx \in Nat /\ ChainView(s).lastLog \in Nat
  BY <1>1 DEF ChainView, CallOK, Inv, TypeOK
<1>4. /\ tip'[s] = [lastTx |-> ChainView(s).lastTx + 1, lastLog |-> ChainView(s).lastLog + 1,
                    lastHash |-> ChainView(s).lastHash]
      /\ pc'[s] = "insert"
      /\ \A u \in Session \ {s} : tip'[u] = tip[u] /\ pc'[u] = pc[u]
  BY <1>2 DEF Inv, TypeOK, FunctionsOK
<1>5. TypeOK'
  <2>1. pc' \in [Session -> Labels]
    BY <1>2 DEF Inv, TypeOK, Labels
  <2> QED
    BY <1>2, <2>1 DEF Inv, TypeOK
<1>6. Inside(s)
  <2>1. \A u \in Session \ {s} : Kept(u)
    BY <1>2, <1>4, SessionAssumption DEF Kept
  <2> QED
    BY <1>2, <2>1 DEF Inside, Inv, FunctionsOK
<1>7. CallOK(s)'
  BY <1>1, <1>2, <1>3, <1>4 DEF CallOK, Working
<1>8. RowsOK(s)' /\ ChainOK(s)'
  BY <1>1, <1>2, <1>4 DEF RowsOK, ChainOK
<1> QED
  BY <1>5, <1>6, <1>7, <1>8, InsideKeeps DEF SessionOK

\* The transaction row.
LEMMA InsertKeeps ==
  ASSUME Inv, NEW s \in Session, InsertTransaction(s)
  PROVE  Inv'
<1> USE DEF tables, locks, writes, call, history
<1>1. CASE Refuse(s)
  BY <1>1, RefuseKeeps
<1>2. CASE ~Refuse(s)
  <2>1. CallOK(s) /\ RowsOK(s) /\ ChainOK(s) /\ pc[s] = "insert"
    BY DEF Inv, SessionOK, InsertTransaction
  <2>2. /\ newTxs' = [newTxs EXCEPT ![s] = @ \cup {NewTransaction(s)}]
        /\ pc' = [pc EXCEPT ![s] = "append"]
        /\ UNCHANGED <<tables, locks, wrote, mine, tip, newLogs, call, todo, before, shut,
                       posts, answer, history>>
    BY <1>2 DEF InsertTransaction
  <2>3. /\ newTxs'[s] = newTxs[s] \cup {NewTransaction(s)} /\ pc'[s] = "append"
        /\ \A u \in Session \ {s} : newTxs'[u] = newTxs[u] /\ pc'[u] = pc[u]
    BY <2>2 DEF Inv, TypeOK, FunctionsOK
  <2>4. TypeOK'
    <3>1. pc' \in [Session -> Labels]
      BY <2>2 DEF Inv, TypeOK, Labels
    <3> QED
      BY <2>2, <3>1 DEF Inv, TypeOK
  <2>5. Inside(s)
    <3>1. \A u \in Session \ {s} : Kept(u)
      BY <2>2, <2>3 DEF Kept
    <3> QED
      BY <2>2, <3>1 DEF Inside, Inv, FunctionsOK
  <2>6. WellRowed(NewTransaction(s).postings)
    BY <2>1 DEF NewTransaction, CallOK
  <2>7. CallOK(s)'
    BY <2>1, <2>2, <2>3, <2>6 DEF CallOK, Working
  <2>8. RowsOK(s)' /\ ChainOK(s)'
    BY <2>1, <2>2, <2>3 DEF RowsOK, ChainOK
  <2> QED
    BY <2>4, <2>5, <2>7, <2>8, InsideKeeps DEF SessionOK
<1> QED
  BY <1>1, <1>2

\* The log entry: the race ends the transaction, otherwise the next item or the
\* commit follows.
LEMMA AppendKeeps ==
  ASSUME Inv, NEW s \in Session, AppendLog(s)
  PROVE  Inv'
<1> USE DEF tables, locks, writes, call, history
<1>1. CallOK(s) /\ RowsOK(s) /\ ChainOK(s) /\ pc[s] = "append"
  BY DEF Inv, SessionOK, AppendLog
<1>2. CASE /\ EndTransaction(s) /\ pc' = [pc EXCEPT ![s] = "race"]
           /\ UNCHANGED <<tables, call, todo, answer, begun, answers>>
  <2>1. TypeOK'
    <3>1. pc' \in [Session -> Labels]
      BY <1>2 DEF Inv, TypeOK, Labels
    <3> QED
      BY <1>2, <3>1, EndFacts DEF Inv, TypeOK
  <2>2. Inside(s)
    <3>1. \A u \in Session \ {s} : Kept(u)
      BY <1>2, EndFacts DEF Kept, Inv, TypeOK
    <3> QED
      BY <1>2, <3>1, EndFacts DEF Inside, Inv, FunctionsOK
  <2>3. SessionOK(s)'
    <3>1. pc'[s] = "race" /\ req'[s] \in Request
      BY <1>1, <1>2 DEF Inv, TypeOK, CallOK
    <3> QED
      BY <1>2, <3>1, EndedIsOK
  <2> QED
    BY <2>1, <2>2, <2>3, InsideKeeps
<1>3. CASE /\ newLogs' = [newLogs EXCEPT ![s] = @ \cup {NewEntry(s)}]
           /\ tip' = [tip EXCEPT ![s].lastHash = NewEntry(s).hash]
           /\ \/ /\ item[s] < Len(items[s])
                 /\ item' = [item EXCEPT ![s] = @ + 1]
                 /\ pc' = [pc EXCEPT ![s] = "materialise"]
                 /\ todo' = [todo EXCEPT ![s] = ItemRows(items[s], item[s] + 1)]
              \/ /\ pc' = [pc EXCEPT ![s] = "commit"]
                 /\ UNCHANGED <<item, todo>>
           /\ UNCHANGED <<tables, locks, wrote, mine, newTxs, req, attempt, items, before,
                          shut, posts, answer, history>>
  <2>1. /\ item[s] \in Nat /\ Len(items[s]) \in Nat /\ item[s] # 0
        /\ item[s] \in 0..Len(items[s])
    BY <1>1 DEF CallOK, Working, Inv, TypeOK
  <2>2. item[s] < Len(items[s]) => ItemRows(items[s], item[s] + 1) \subseteq Row
    BY <1>1, <2>1, ItemRowsType DEF CallOK, Working
  <2>3. /\ pc' \in [Session -> Labels] /\ item' \in [Session -> Nat]
        /\ todo' \in [Session -> SUBSET Row]
        /\ \A u \in Session \ {s} : /\ pc'[u] = pc[u] /\ item'[u] = item[u]
                                    /\ todo'[u] = todo[u]
        /\ pc'[s] \in {"materialise", "commit"} /\ item'[s] \in 0..Len(items[s])
        /\ item'[s] # 0
    <3>1. CASE /\ item[s] < Len(items[s])
               /\ item' = [item EXCEPT ![s] = @ + 1]
               /\ pc' = [pc EXCEPT ![s] = "materialise"]
               /\ todo' = [todo EXCEPT ![s] = ItemRows(items[s], item[s] + 1)]
      BY <2>1, <2>2, <3>1 DEF Inv, TypeOK, Labels
    <3>2. CASE pc' = [pc EXCEPT ![s] = "commit"] /\ UNCHANGED <<item, todo>>
      BY <2>1, <3>2 DEF Inv, TypeOK, Labels
    <3> QED
      BY <1>3, <3>1, <3>2
  <2>4. /\ tip'[s] = [tip[s] EXCEPT !.lastHash = NewEntry(s).hash]
        /\ newLogs'[s] = newLogs[s] \cup {NewEntry(s)}
        /\ \A u \in Session \ {s} : tip'[u] = tip[u] /\ newLogs'[u] = newLogs[u]
    BY <1>3 DEF Inv, FunctionsOK
  <2>5. TypeOK'
    BY <1>3, <2>3 DEF Inv, TypeOK
  <2>6. Inside(s)
    <3>1. \A u \in Session \ {s} : Kept(u)
      BY <1>3, <2>3, <2>4 DEF Kept
    <3> QED
      BY <1>3, <3>1 DEF Inside, Inv, FunctionsOK
  <2>7. CallOK(s)'
    <3>1. /\ tip'[s] = [lastTx |-> tip'[s].lastTx, lastLog |-> tip'[s].lastLog,
                        lastHash |-> tip'[s].lastHash]
          /\ tip'[s].lastTx \in Nat /\ tip'[s].lastLog \in Nat
      BY <1>1, <2>4 DEF CallOK
    <3> QED
      BY <1>1, <1>3, <2>3, <3>1 DEF CallOK, Working
  <2>8. RowsOK(s)' /\ ChainOK(s)'
    BY <1>1, <1>3, <2>3 DEF RowsOK, ChainOK
  <2> QED
    BY <2>5, <2>6, <2>7, <2>8, InsideKeeps DEF SessionOK
<1> QED
  BY <1>2, <1>3 DEF AppendLog

\* COMMIT publishes rows the session holds, and only those.
LEMMA CommitKeeps ==
  ASSUME Inv, NEW s \in Session, CommitTx(s)
  PROVE  Inv'
<1>1. CASE Refuse(s)
  BY <1>1, RefuseKeeps
<1>2. CASE ~Refuse(s)
  <2>1. CallOK(s) /\ RowsOK(s) /\ pc[s] = "commit"
    BY DEF Inv, SessionOK, CommitTx
  <2>2. /\ rows' = rows \cup wrote[s] /\ volumes' = CommitView(s) /\ chain' = tip[s]
        /\ transactions' = transactions \cup newTxs[s] /\ closed' = closed
        /\ Finish(s, {t.id : t \in newTxs[s]})
    BY <1>2 DEF CommitTx
  <2>3. volumes' \in [Row -> RowValue] /\ rows' \subseteq Row
    BY <2>2 DEF CommitView, View, Inv, TypeOK
  <2>4. closed' \subseteq Account /\ chain'.lastTx \in Nat /\ chain'.lastLog \in Nat
    BY <2>1, <2>2 DEF CallOK, Inv, TypeOK
  <2>5. \A t \in transactions' : WellRowed(t.postings)
    BY <2>1, <2>2 DEF CallOK, Inv
  <2>6. \A r \in Row : rowLock[r] # s => volumes'[r] = volumes[r]
    BY <2>1, <2>2 DEF CommitView, View, RowsOK
  <2> QED
    BY <2>1, <2>2, <2>3, <2>4, <2>5, <2>6, FinishKeeps
<1> QED
  BY <1>1, <1>2

\* The answer is delivered after the transaction has ended.
LEMMA ReplyKeeps ==
  ASSUME Inv, NEW s \in Session, Reply(s)
  PROVE  Inv'
<1> USE DEF tables, locks, writes, call, history
<1>1. CallOK(s) /\ RowsOK(s) /\ ChainOK(s) /\ pc[s] = "reply"
  BY DEF Inv, SessionOK, Reply
<1>2. Forget(s) /\ UNCHANGED <<tables, locks, writes, before, shut, posts, begun, holders>>
  BY DEF Reply
<1>3. /\ pc' \in [Session -> Labels] /\ req' \in [Session -> Request \cup {NoRequest}]
      /\ attempt' \in [Session -> 0..MaxAttempts - 1]
      /\ item' \in [Session -> Nat] /\ todo' \in [Session -> SUBSET Row]
  BY <1>2, BoundAssumption DEF Forget, Inv, TypeOK, Labels
<1>4. TypeOK'
  BY <1>2, <1>3 DEF Inv, TypeOK
<1>5. FunctionsOK'
  BY <1>2 DEF Forget, Inv, FunctionsOK
<1>6. SessionOK(s)'
  <2>1. pc'[s] = "idle"
    BY <1>2 DEF Forget, Inv, TypeOK
  <2>2. CallOK(s)'
    BY <1>1, <1>2, <2>1 DEF CallOK, Working
  <2>3. RowsOK(s)' /\ ChainOK(s)'
    BY <1>1, <1>2, <2>1 DEF RowsOK, ChainOK
  <2> QED
    BY <2>2, <2>3 DEF SessionOK
<1>7. ASSUME NEW u \in Session \ {s} PROVE SessionOK(u)'
  <2>1. Kept(u)
    BY <1>2 DEF Forget, Kept, Inv, TypeOK, FunctionsOK
  <2> QED
    BY <2>1, KeptIsOK
<1> QED
  BY <1>2, <1>4, <1>5, <1>6, <1>7 DEF Inv

\* A reversal takes its postings from a committed transaction.
LEMMA LockTransactionKeeps ==
  ASSUME Inv, NEW s \in Session, LockTransaction(s)
  PROVE  Inv'
<1> USE DEF tables, locks, writes, call, history
<1>1. CASE Refuse(s)
  BY <1>1, RefuseKeeps
<1>2. CASE ~Refuse(s)
  <2>1. CallOK(s) /\ RowsOK(s) /\ ChainOK(s) /\ pc[s] = "lockTx"
    BY DEF Inv, SessionOK, LockTransaction
  <2>2. PICK t \in transactions :
          /\ t.id = req[s].target
          /\ txLock' = [txLock EXCEPT ![s] = t.id]
          /\ items' = [items EXCEPT ![s] =
                         <<[postings |-> ReversePostings(t.postings), ref |-> NoRef]>>]
          /\ todo' = [todo EXCEPT ![s] = RowsOf(ReversePostings(t.postings))]
          /\ pc' = [pc EXCEPT ![s] = "materialise"]
          /\ UNCHANGED <<tables, rowLock, chainLock, writes, req, attempt, item, before,
                         shut, posts, answer, history>>
    BY <1>2 DEF LockTransaction
  <2>3. WellRowed(ReversePostings(t.postings))
    BY ReverseKeepsRows DEF Inv
  <2>4. t.id \in Nat
    BY <2>1, <2>2, RequestAssumption DEF CallOK
  <2>5. TypeOK'
    <3>1. /\ pc' \in [Session -> Labels] /\ todo' \in [Session -> SUBSET Row]
          /\ txLock' \in [Session -> Nat]
      BY <2>2, <2>3, <2>4 DEF Inv, TypeOK, Labels, WellRowed
    <3> QED
      BY <2>2, <3>1 DEF Inv, TypeOK
  <2>6. Inside(s)
    <3>1. \A u \in Session \ {s} : Kept(u)
      BY <2>2 DEF Kept, Inv, TypeOK, FunctionsOK
    <3> QED
      BY <2>2, <3>1 DEF Inside, Inv, FunctionsOK
  <2>7. /\ pc'[s] = "materialise"
        /\ items'[s] = <<[postings |-> ReversePostings(t.postings), ref |-> NoRef]>>
    BY <2>2 DEF Inv, TypeOK, FunctionsOK
  <2>8. /\ DOMAIN items'[s] = 1..Len(items'[s]) /\ Len(items'[s]) \in Nat \ {0}
        /\ \A i \in DOMAIN items'[s] : WellRowed(items'[s][i].postings)
        /\ item'[s] \in 0..Len(items'[s])
    <3>1. Len(items'[s]) = 1 /\ DOMAIN items'[s] = {1}
      BY <2>7
    <3>2. items'[s][1].postings = ReversePostings(t.postings)
      BY <2>7
    <3>3. item'[s] = 1
      BY <2>1, <2>2 DEF CallOK
    <3>4. \A i \in DOMAIN items'[s] : WellRowed(items'[s][i].postings)
      BY <2>3, <3>1, <3>2
    <3> QED
      BY <3>1, <3>3, <3>4
  <2>9. CallOK(s)'
    BY <2>1, <2>2, <2>7, <2>8 DEF CallOK, Working
  <2>10. RowsOK(s)' /\ ChainOK(s)'
    BY <2>1, <2>2, <2>7 DEF RowsOK, ChainOK
  <2> QED
    BY <2>5, <2>6, <2>9, <2>10, InsideKeeps DEF SessionOK
<1> QED
  BY <1>1, <1>2

\* The close selects rows.
LEMMA CloseReadKeeps ==
  ASSUME Inv, NEW s \in Session, CloseRead(s)
  PROVE  Inv'
<1> USE DEF tables, locks, writes, call, history
<1>1. CallOK(s) /\ RowsOK(s) /\ ChainOK(s) /\ pc[s] = "closeRead"
  BY DEF Inv, SessionOK, CloseRead
<1>2. /\ pc' = [pc EXCEPT ![s] = "closeLock"]
      /\ UNCHANGED <<tables, locks, writes, call, before, shut, posts, answer, begun, answers>>
  BY DEF CloseRead
<1>3. /\ pc' \in [Session -> Labels] /\ todo' \in [Session -> SUBSET Row]
      /\ holders' \in [Session -> SUBSET Session]
      /\ pc'[s] = "closeLock"
      /\ \A u \in Session \ {s} : pc'[u] = pc[u] /\ todo'[u] = todo[u]
  <2>1. AccountRows(req[s].target) \subseteq Row
    BY DEF AccountRows, Inv, TypeOK
  <2> QED
    BY <1>2, <2>1 DEF CloseRead, Inv, TypeOK, Labels
<1>4. TypeOK'
  BY <1>2, <1>3 DEF Inv, TypeOK
<1>5. Inside(s)
  <2>1. \A u \in Session \ {s} : Kept(u)
    BY <1>2, <1>3 DEF Kept
  <2> QED
    BY <1>2, <2>1 DEF Inside, Inv, FunctionsOK
<1>6. CallOK(s)'
  BY <1>1, <1>2, <1>3 DEF CallOK, Working
<1>7. RowsOK(s)' /\ ChainOK(s)'
  BY <1>1, <1>2, <1>3 DEF RowsOK, ChainOK
<1> QED
  BY <1>4, <1>5, <1>6, <1>7, InsideKeeps DEF SessionOK

\* The close locks a row nobody holds.
LEMMA CloseLockKeeps ==
  ASSUME Inv, NEW s \in Session, NEW r \in Row, CloseLock(s, r)
  PROVE  Inv'
<1> USE DEF tables, locks, writes, call, history
<1>1. CallOK(s) /\ RowsOK(s) /\ ChainOK(s) /\ pc[s] = "closeLock"
  BY DEF Inv, SessionOK, CloseLock
<1>2. /\ rowLock[r] = NoSession /\ rowLock' = [rowLock EXCEPT ![r] = s]
      /\ before' = [before EXCEPT ![s][r] = volumes[r]]
      /\ todo' = [todo EXCEPT ![s] = @ \ {r}]
      /\ UNCHANGED <<tables, chainLock, txLock, writes, call, pc, shut, posts, answer, history>>
  BY DEF CloseLock
<1>3. /\ before' \in [Session -> [Row -> RowValue]] /\ todo' \in [Session -> SUBSET Row]
      /\ rowLock' \in [Row -> Session \cup {NoSession}]
      /\ \A u \in Session \ {s} : before'[u] = before[u] /\ todo'[u] = todo[u]
  BY <1>2 DEF Inv, TypeOK
<1>4. \A q \in Row, u \in Session : rowLock[q] = u => rowLock'[q] = u
  BY <1>2, SessionAssumption DEF Inv, TypeOK
<1>5. TypeOK'
  BY <1>2, <1>3 DEF Inv, TypeOK
<1>6. Inside(s)
  <2>1. \A u \in Session \ {s} : Kept(u)
    BY <1>2, <1>3, <1>4 DEF Kept
  <2> QED
    BY <1>2, <2>1 DEF Inside, Inv, FunctionsOK
<1>7. CallOK(s)'
  BY <1>1, <1>2 DEF CallOK, Working
<1>8. RowsOK(s)'
  BY <1>1, <1>2, <1>4 DEF RowsOK, Inv, TypeOK
<1>9. ChainOK(s)'
  BY <1>1, <1>2 DEF ChainOK
<1> QED
  BY <1>5, <1>6, <1>7, <1>8, <1>9, InsideKeeps DEF SessionOK

\* The close refuses an account with a balance, or goes on to write.
LEMMA CloseCheckKeeps ==
  ASSUME Inv, NEW s \in Session, CloseCheck(s)
  PROVE  Inv'
<1> USE DEF tables, locks, writes, call, history
<1>1. CASE Refuse(s)
  BY <1>1, RefuseKeeps
<1>2. CASE ~Refuse(s)
  <2>1. CallOK(s) /\ RowsOK(s) /\ ChainOK(s) /\ pc[s] = "closeLock"
    BY DEF Inv, SessionOK, CloseCheck
  <2>2. /\ pc' = [pc EXCEPT ![s] = "closeWrite"]
        /\ UNCHANGED <<tables, locks, writes, call, todo, before, shut, posts, answer, history>>
    BY <1>2 DEF CloseCheck
  <2>3. pc' \in [Session -> Labels] /\ pc'[s] = "closeWrite"
    BY <2>2 DEF Inv, TypeOK, Labels
  <2>4. TypeOK'
    BY <2>2, <2>3 DEF Inv, TypeOK
  <2>5. Inside(s)
    <3>1. \A u \in Session \ {s} : Kept(u)
      BY <2>2 DEF Kept, Inv, TypeOK
    <3> QED
      BY <2>2, <3>1 DEF Inside, Inv, FunctionsOK
  <2>6. CallOK(s)'
    BY <2>1, <2>2, <2>3 DEF CallOK, Working
  <2>7. RowsOK(s)' /\ ChainOK(s)'
    BY <2>1, <2>2, <2>3 DEF RowsOK, ChainOK
  <2> QED
    BY <2>4, <2>5, <2>6, <2>7, InsideKeeps DEF SessionOK
<1> QED
  BY <1>1, <1>2

\* The close marks the account.
LEMMA CloseWriteKeeps ==
  ASSUME Inv, NEW s \in Session, CloseWrite(s)
  PROVE  Inv'
<1>1. /\ pc[s] = "closeWrite" /\ closed' = closed \cup {req[s].target} /\ Finish(s, {})
      /\ UNCHANGED <<rows, volumes, chain, transactions>>
  BY DEF CloseWrite
<1>2. req[s].target \in Account
  BY <1>1, RequestAssumption DEF Inv, SessionOK, CallOK
<1>3. /\ rows' \subseteq Row /\ volumes' \in [Row -> RowValue] /\ closed' \subseteq Account
      /\ chain'.lastTx \in Nat /\ chain'.lastLog \in Nat
      /\ \A t \in transactions' : WellRowed(t.postings)
  BY <1>1, <1>2 DEF Inv, TypeOK
<1> QED
  BY <1>1, <1>3, FinishKeeps

\* A policy change waits for the row, so it happens to nobody's checked row.
LEMMA PolicyKeeps ==
  ASSUME Inv, NEW r \in PolicyRow, NEW allow \in BOOLEAN,
         SetAllowNegative(r, allow) \/ SetAllowPositive(r, allow)
  PROVE  Inv'
<1> USE DEF tables, locks, writes, call, history
<1>1. /\ rowLock[r] = NoSession /\ r \in Row /\ rows' = rows \cup {r}
      /\ UNCHANGED <<closed, chain, transactions, reverted, logs, locks, writes, call, pc,
                     todo, before, shut, posts, answer, history>>
  BY PolicyAssumption DEF SetAllowNegative, SetAllowPositive, RowFree
<1>2. /\ volumes' \in [Row -> RowValue]
      /\ \A q \in Row \ {r} : volumes'[q] = volumes[q]
  <2>1. PICK n \in BOOLEAN, p \in BOOLEAN :
          volumes' = [volumes EXCEPT ![r].allowNegative = n, ![r].allowPositive = p]
    <3>1. volumes[r] \in RowValue /\ volumes \in [Row -> RowValue]
      BY <1>1 DEF Inv, TypeOK
    <3>2. CASE SetAllowNegative(r, allow)
      <4>1. volumes' = [volumes EXCEPT ![r].allowNegative = allow,
                                       ![r].allowPositive = volumes[r].allowPositive]
        BY <1>1, <3>1, <3>2 DEF SetAllowNegative, RowValue
      <4> QED
        BY <3>1, <4>1 DEF RowValue
    <3>3. CASE SetAllowPositive(r, allow)
      <4>1. volumes' = [volumes EXCEPT ![r].allowNegative = volumes[r].allowNegative /\ r \in rows,
                                       ![r].allowPositive = allow]
        BY <1>1, <3>1, <3>3 DEF SetAllowPositive, RowValue
      <4> QED
        BY <3>1, <4>1 DEF RowValue
    <3> QED
      BY <3>2, <3>3
  <2>2. volumes \in [Row -> RowValue]
    BY DEF Inv, TypeOK
  <2>3. /\ DOMAIN volumes' = Row
        /\ volumes'[r] = [volumes[r] EXCEPT !.allowNegative = n, !.allowPositive = p]
        /\ \A q \in Row \ {r} : volumes'[q] = volumes[q]
    BY <1>1, <2>1, <2>2
  <2>4. volumes'[r] \in RowValue
    BY <1>1, <2>2, <2>3 DEF RowValue
  <2>5. volumes' = [q \in Row |-> volumes'[q]]
    BY <2>1, <2>2
  <2> QED
    BY <2>2, <2>3, <2>4, <2>5
<1>3. TypeOK'
  BY <1>1, <1>2 DEF Inv, TypeOK
<1>4. FunctionsOK'
  BY <1>1 DEF Inv, FunctionsOK
<1>5. ASSUME NEW u \in Session PROVE SessionOK(u)'
  <2>1. Kept(u)
    BY <1>1, <1>2, SessionAssumption DEF Kept
  <2> QED
    BY <2>1, KeptIsOK
<1> QED
  BY <1>1, <1>3, <1>4, <1>5 DEF Inv

\* Reopening changes the closed marks only.
LEMMA ReopenKeeps ==
  ASSUME Inv, NEW a \in Account, Reopen(a)
  PROVE  Inv'
<1> USE DEF tables, locks, writes, call, history
<1>1. /\ closed' = closed \ {a}
      /\ UNCHANGED <<rows, volumes, chain, transactions, reverted, logs, locks, writes,
                     call, pc, todo, before, shut, posts, answer, history>>
  BY DEF Reopen
<1>2. TypeOK' /\ FunctionsOK'
  BY <1>1 DEF Inv, TypeOK, FunctionsOK
<1>3. ASSUME NEW u \in Session PROVE SessionOK(u)'
  <2>1. Kept(u)
    BY <1>1 DEF Kept
  <2> QED
    BY <2>1, KeptIsOK
<1> QED
  BY <1>1, <1>2, <1>3 DEF Inv

-----------------------------------------------------------------------------
(* The theorems.                                                           *)

\* A fresh ledger satisfies the invariant.
LEMMA InitInv == Init => Inv
<1> SUFFICES ASSUME Init PROVE Inv
  OBVIOUS
<1>1. FreshRows \in [Row -> RowValue]
  BY FreshRowType DEF FreshRows
<1>2. TypeOK
  BY <1>1, BoundAssumption DEF Init, TypeOK, EmptyChain, Labels
<1>3. FunctionsOK
  BY DEF Init, FunctionsOK
<1>4. ASSUME NEW s \in Session PROVE SessionOK(s)
  <2>1. CallOK(s)
    BY DEF Init, CallOK, EmptyChain, Working
  <2>2. RowsOK(s) /\ ChainOK(s)
    BY DEF Init, RowsOK, ChainOK
  <2> QED
    BY <2>1, <2>2 DEF SessionOK
<1> QED
  BY <1>2, <1>3, <1>4 DEF Inv, Init

\* Nothing happens.
LEMMA StutterKeeps ==
  ASSUME Inv, UNCHANGED vars
  PROVE  Inv'
<1> USE DEF vars, tables, locks, writes, call, history
<1>1. TypeOK' /\ FunctionsOK' /\ transactions' = transactions
  BY DEF Inv, TypeOK, FunctionsOK
<1>2. ASSUME NEW u \in Session PROVE SessionOK(u)'
  <2>1. Kept(u)
    BY DEF Kept
  <2> QED
    BY <2>1, KeptIsOK
<1> QED
  BY <1>1, <1>2 DEF Inv

\* A session's own step.
LEMMA StepKeeps ==
  ASSUME Inv, NEW s \in Session, Step(s)
  PROVE  Inv'
<1>1. CASE Find(s)
  BY <1>1, FindKeeps
<1>2. CASE Race(s)
  BY <1>2, AnswerKeeps DEF Race
<1>3. ASSUME NEW r \in Row, MaterialiseRow(s, r) PROVE Inv'
  BY <1>3, MaterialiseKeeps
<1>4. ASSUME NEW r \in Row, LockRow(s, r) PROVE Inv'
  BY <1>4, LockRowKeeps
<1>5. CASE ReadClosed(s) \/ Apply(s) \/ Allocate(s)
  BY <1>5, ReadClosedKeeps, ApplyKeeps, AllocateKeeps
<1>6. CASE InsertTransaction(s) \/ AppendLog(s)
  BY <1>6, InsertKeeps, AppendKeeps
<1>7. CASE CommitTx(s) \/ DryRun(s) \/ Reply(s)
  BY <1>7, CommitKeeps, RefuseKeeps, ReplyKeeps DEF DryRun
<1>8. CASE LockTransaction(s) \/ CloseRead(s)
  BY <1>8, LockTransactionKeeps, CloseReadKeeps
<1>9. ASSUME NEW r \in Row, CloseLock(s, r) PROVE Inv'
  BY <1>9, CloseLockKeeps
<1>10. CASE CloseCheck(s) \/ CloseWrite(s)
  BY <1>10, CloseCheckKeeps, CloseWriteKeeps
<1> QED
  BY <1>1, <1>2, <1>3, <1>4, <1>5, <1>6, <1>7, <1>8, <1>9, <1>10 DEF Step

\* Every step of the system keeps the invariant.
LEMMA StepInv ==
  ASSUME Inv, [Next]_vars
  PROVE  Inv'
<1>1. ASSUME NEW s \in Session, NEW q \in Request, Begin(s, q) PROVE Inv'
  BY <1>1, BeginKeeps
<1>2. ASSUME NEW s \in Session, Step(s) PROVE Inv'
  BY <1>2, StepKeeps
<1>3. ASSUME NEW s \in Session, Crash(s) PROVE Inv'
  BY <1>3, RefuseKeeps DEF Crash
<1>4. ASSUME NEW s \in Session, Contend(s) PROVE Inv'
  BY <1>4, ContendKeeps
<1>5. CASE Operator
  BY <1>5, PolicyKeeps, ReopenKeeps DEF Operator
<1>6. CASE UNCHANGED vars
  BY <1>6, StutterKeeps
<1> QED
  BY <1>1, <1>2, <1>3, <1>4, <1>5, <1>6 DEF Next

\* Every reachable state satisfies the invariant.
THEOREM InvHolds == Spec => []Inv
<1>1. Init => Inv
  BY InitInv
<1>2. Inv /\ [Next]_vars => Inv'
  BY StepInv
<1> QED
  BY <1>1, <1>2, PTL DEF Spec

\* Type correctness of the write path.
THEOREM TypesHold == Spec => []TypeOK
<1>1. Inv => TypeOK
  BY DEF Inv
<1> QED
  BY <1>1, InvHolds, PTL

\* Uncommitted rows are locked rows, and ids are allocated under the lock of the
\* ledgers row (lockVolumes, allocate).
THEOREM WritesLocked == Spec => []WritesAreLocked
<1>1. Inv => WritesAreLocked
  BY DEF Inv, SessionOK, RowsOK, ChainOK, WritesAreLocked
<1> QED
  BY <1>1, InvHolds, PTL

\* What checkBalances and resolveUpTo decide on is what the rows hold, for any
\* number of sessions, calls and policy changes.
THEOREM ChecksAreCurrent == Spec => []CheckedIsCurrent
<1>1. Inv => CheckedIsCurrent
  BY DEF Inv, SessionOK, RowsOK, CheckedIsCurrent
<1> QED
  BY <1>1, InvHolds, PTL

-----------------------------------------------------------------------------
\* Nothing but a commit or a policy change touches the volumes, and a policy
\* change moves no balance.
LEMMA OnlyCommitsMove ==
  ASSUME Inv, [Next]_vars
  PROVE  \/ \A r \in Row : Balance(volumes'[r]) = Balance(volumes[r])
         \/ \E s \in Session : /\ pc[s] = "commit"
                               /\ volumes' = CommitView(s)
<1> USE DEF tables
<1>1. ASSUME NEW s \in Session, Refuse(s) PROVE volumes' = volumes
  BY <1>1 DEF Refuse
<1>2. ASSUME NEW s \in Session, AnswerStored(s) PROVE volumes' = volumes
  BY <1>1, <1>2 DEF AnswerStored
<1>3. ASSUME NEW s \in Session, NEW q \in Request, Begin(s, q) PROVE volumes' = volumes
  BY <1>3 DEF Begin
<1>4. ASSUME NEW s \in Session, Step(s)
      PROVE  volumes' = volumes \/ (pc[s] = "commit" /\ volumes' = CommitView(s))
  <2>1. CASE Find(s) \/ Race(s)
    BY <1>2, <2>1 DEF Find, Race
  <2>2. ASSUME NEW r \in Row, MaterialiseRow(s, r) \/ LockRow(s, r) \/ CloseLock(s, r)
        PROVE  volumes' = volumes
    BY <2>2 DEF MaterialiseRow, LockRow, CloseLock
  <2>3. CASE ReadClosed(s) \/ Apply(s) \/ Allocate(s) \/ InsertTransaction(s)
    BY <1>1, <2>3 DEF ReadClosed, Apply, Allocate, InsertTransaction
  <2>4. CASE AppendLog(s) \/ DryRun(s) \/ Reply(s)
    BY <1>1, <2>4 DEF AppendLog, DryRun, Reply
  <2>5. CASE CommitTx(s)
    BY <1>1, <2>5 DEF CommitTx
  <2>6. CASE LockTransaction(s) \/ CloseRead(s) \/ CloseCheck(s) \/ CloseWrite(s)
    BY <1>1, <2>6 DEF LockTransaction, CloseRead, CloseCheck, CloseWrite
  <2> QED
    BY <1>4, <2>1, <2>2, <2>3, <2>4, <2>5, <2>6 DEF Step
<1>5. ASSUME NEW s \in Session, Crash(s) \/ Contend(s) PROVE volumes' = volumes
  BY <1>1, <1>5 DEF Crash, Contend
<1>6. ASSUME NEW r \in PolicyRow, NEW allow \in BOOLEAN,
             SetAllowNegative(r, allow) \/ SetAllowPositive(r, allow)
      PROVE  \A q \in Row : Balance(volumes'[q]) = Balance(volumes[q])
  <2>1. volumes \in [Row -> RowValue] /\ r \in Row
    BY PolicyAssumption DEF Inv, TypeOK
  <2>2. \A q \in Row : /\ volumes'[q].input = volumes[q].input
                       /\ volumes'[q].output = volumes[q].output
    <3>1. CASE SetAllowNegative(r, allow)
      BY <2>1, <3>1 DEF SetAllowNegative, RowValue
    <3>2. CASE SetAllowPositive(r, allow)
      BY <2>1, <3>2 DEF SetAllowPositive, RowValue
    <3> QED
      BY <1>6, <3>1, <3>2
  <2> QED
    BY <2>2 DEF Balance
<1>7. ASSUME NEW a \in Account, Reopen(a) PROVE volumes' = volumes
  BY <1>7 DEF Reopen
<1>8. CASE UNCHANGED vars
  BY <1>8 DEF vars
<1> QED
  BY <1>3, <1>4, <1>5, <1>6, <1>7, <1>8 DEF Next, Operator

\* No commit, batch or reversal, interleaved with any others and with any policy
\* changes, moves a balance to where its account is not permitted to be.
THEOREM NoOverdraw == Spec => NoUnpermittedOverdraw
<1>1. Inv /\ [Next]_vars =>
        [\A r \in Row : Balance(volumes'[r]) # Balance(volumes[r]) => InBounds(volumes'[r])]_vars
  <2> SUFFICES ASSUME Inv, [Next]_vars, NEW r \in Row, Balance(volumes'[r]) # Balance(volumes[r])
               PROVE  InBounds(volumes'[r])
    OBVIOUS
  <2>1. PICK s \in Session : pc[s] = "commit" /\ volumes' = CommitView(s)
    BY OnlyCommitsMove
  <2>2. volumes'[r] = View(s, r)
    BY <2>1 DEF CommitView
  <2>3. r \in wrote[s] /\ volumes'[r] = mine[s][r]
    BY <2>2 DEF View
  <2> QED
    BY <2>3 DEF Inv, SessionOK, RowsOK
<1> QED
  BY <1>1, InvHolds, PTL DEF NoUnpermittedOverdraw, Spec
-----------------------------------------------------------------------------
(* Well formed books: a log, the reversals it holds, the number and the    *)
(* hash of its last entry, and the number of its last transaction.         *)

Logged(ls) == {e.data.tx : e \in ls}

Undoings(ls) == {e.data.undoes : e \in ls} \ {0}

Chained(ls, n, h) ==
  /\ {e.id : e \in ls} = 1..n
  /\ \A e, f \in ls : e.id = f.id => e = f
  /\ \A e \in ls :
       \E previous \in {f.hash : f \in {g \in ls : g.id = e.id - 1}}
                          \cup (IF e.id = 1 THEN {<<>>} ELSE {}) :
         e.hash = ChainHash(previous, e.data)
  /\ \A e \in ls : e.id = n => h = e.hash
  /\ n = 0 => h = <<>>

Numbered(ts, m) ==
  /\ {t.id : t \in ts} = 1..m
  /\ \A t, u \in ts : t.id = u.id => t = u

UniqueKeys(ls) == \A e, f \in ls : e.key = f.key /\ e.key # NoKey => e = f

UniqueRefs(ts) == \A t, u \in ts : t.ref = u.ref /\ t.ref # NoRef => t = u

UniqueUndoes(ls) ==
  \A e, f \in ls : e.data.undoes = f.data.undoes /\ e.data.undoes # 0 => e = f

Books(ls, undone, n, h, m) ==
  /\ Chained(ls, n, h)
  /\ Numbered(Logged(ls), m)
  /\ UniqueKeys(ls)
  /\ UniqueRefs(Logged(ls))
  /\ UniqueUndoes(ls)
  /\ Undoings(ls) = undone

\* The place in the code of a session that may hold the ledgers row.
Holding == Working \ {"find"}

\* The log, the transactions and the reversals as s will leave them.
LogOf(s) == logs \cup newLogs[s]
TxsOf(s) == transactions \cup newTxs[s]
UndoneBy(s) == reverted \cup (IF newLogs[s] = {} THEN {} ELSE Undone(req[s]))

\* The books of the session that holds the ledgers row.  It has taken the next
\* ids before insertTransaction, and between that and appendLog it has stored
\* a transaction that no entry holds yet.
BooksOK(s) ==
  /\ pc[s] \in Holding
  /\ pc[s] = "insert" =>
       /\ TxsOf(s) = Logged(LogOf(s))
       /\ tip[s].lastLog > 0 /\ tip[s].lastTx > 0
       /\ Books(LogOf(s), UndoneBy(s), tip[s].lastLog - 1, tip[s].lastHash,
                tip[s].lastTx - 1)
  /\ pc[s] = "append" =>
       /\ TxsOf(s) = Logged(LogOf(s)) \cup {NewTransaction(s)}
       /\ NewTransaction(s).ref # NoRef =>
            \A t \in Logged(LogOf(s)) : t.ref # NewTransaction(s).ref
       /\ tip[s].lastLog > 0 /\ tip[s].lastTx > 0
       /\ Books(LogOf(s), UndoneBy(s), tip[s].lastLog - 1, tip[s].lastHash,
                tip[s].lastTx - 1)
  /\ pc[s] \notin {"insert", "append"} =>
       /\ TxsOf(s) = Logged(LogOf(s))
       /\ Books(LogOf(s), UndoneBy(s), tip[s].lastLog, tip[s].lastHash, tip[s].lastTx)

\* How far a call has come: its first entry, which carries the key, is written
\* by its first item, and a reversal is one item under the lock of its original.
ProgressOK(s) ==
  /\ pc[s] \in Working \ {"commit"} /\ item[s] \in {0, 1} => newLogs[s] = {}
  /\ pc[s] = "commit" => newLogs[s] # {}
  /\ pc[s] \in Working /\ req[s].kind = "revert" =>
       /\ Len(items[s]) = 1 /\ item[s] = 1
       /\ req[s].target # 0 /\ req[s].target \notin reverted
       /\ txLock[s] = req[s].target

\* Two sessions never hold one transaction.
TxLocksApart ==
  \A s, u \in Session : s # u /\ txLock[s] = txLock[u] => txLock[s] = 0

\* The inductive invariant, on top of Inv.
LogInv ==
  /\ transactions = Logged(logs)
  /\ Books(logs, reverted, chain.lastLog, chain.lastHash, chain.lastTx)
  /\ TxLocksApart
  /\ \A s \in Session : ProgressOK(s) /\ (chainLock = s => BooksOK(s))

-----------------------------------------------------------------------------
(* Books grow by one entry.                                                *)

\* An entry with the next id that hashes what the last one left extends the
\* chain (ChainHash, VerifyLog).
LEMMA ChainGrows ==
  ASSUME NEW ls, NEW n \in Nat, NEW h, Chained(ls, n, h), NEW e, e.id = n + 1,
         e.hash = ChainHash(h, e.data)
  PROVE  Chained(ls \cup {e}, n + 1, e.hash)
<1> DEFINE new == ls \cup {e}
<1>1. \A f \in ls : f.id \in 1..n
  BY DEF Chained
<1>2. \A f \in ls : f.id # n + 1 /\ f.id - 1 # n + 1
  BY <1>1
<1>3. {f.id : f \in new} = 1..(n + 1)
  <2>1. {f.id : f \in new} = {f.id : f \in ls} \cup {n + 1}
    OBVIOUS
  <2>2. {f.id : f \in ls} = 1..n
    BY DEF Chained
  <2> QED
    BY <2>1, <2>2
<1>4. \A f, g \in new : f.id = g.id => f = g
  BY <1>2 DEF Chained
<1>5. ASSUME NEW f \in new
      PROVE  \E previous \in {x.hash : x \in {g \in new : g.id = f.id - 1}}
                               \cup (IF f.id = 1 THEN {<<>>} ELSE {}) :
               f.hash = ChainHash(previous, f.data)
  <2>1. CASE f \in ls
    <3>1. PICK previous \in {x.hash : x \in {g \in ls : g.id = f.id - 1}}
                                 \cup (IF f.id = 1 THEN {<<>>} ELSE {}) :
            f.hash = ChainHash(previous, f.data)
      BY <2>1 DEF Chained
    <3> QED
      BY <3>1
  <2>2. CASE f = e
    <3>1. CASE n = 0
      <4>1. h = <<>> /\ f.id = 1
        BY <2>2, <3>1 DEF Chained
      <4> QED
        BY <2>2, <4>1
    <3>2. CASE n # 0
      <4>1. n \in {x.id : x \in ls}
        <5>1. {x.id : x \in ls} = 1..n
          BY DEF Chained
        <5>2. n \in 1..n
          BY <3>2
        <5> QED
          BY <5>1, <5>2
      <4>2. PICK g \in ls : g.id = n
        BY <4>1
      <4>3. h = g.hash /\ g.id = f.id - 1
        BY <2>2, <4>2 DEF Chained
      <4>4. h \in {x.hash : x \in {y \in new : y.id = f.id - 1}}
        BY <4>2, <4>3
      <4> QED
        BY <2>2, <4>4
    <3> QED
      BY <3>1, <3>2
  <2> QED
    BY <2>1, <2>2
<1>6. \A f \in new : f.id = n + 1 => e.hash = f.hash
  BY <1>2
<1> QED
  BY <1>3, <1>4, <1>5, <1>6 DEF Chained

\* The next entry, with a fresh key, a fresh reference and a fresh reversal.
LEMMA BooksGrow ==
  ASSUME NEW ls, NEW undone, NEW n \in Nat, NEW h, NEW m \in Nat,
         Books(ls, undone, n, h, m),
         NEW e, e.id = n + 1, e.hash = ChainHash(h, e.data), e.data.tx.id = m + 1,
         e.key # NoKey => \A f \in ls : f.key # e.key,
         e.data.tx.ref # NoRef => \A t \in Logged(ls) : t.ref # e.data.tx.ref,
         e.data.undoes # 0 => e.data.undoes \notin undone
  PROVE  Books(ls \cup {e}, undone \cup ({e.data.undoes} \ {0}), n + 1, e.hash, m + 1)
<1>1. Chained(ls \cup {e}, n + 1, e.hash)
  BY ChainGrows DEF Books
<1>2. Logged(ls \cup {e}) = Logged(ls) \cup {e.data.tx}
  BY DEF Logged
<1>3. Numbered(Logged(ls \cup {e}), m + 1)
  <2>1. {t.id : t \in Logged(ls)} = 1..m
    BY DEF Books, Numbered
  <2>2. \A t \in Logged(ls) : t.id \in 1..m
    BY <2>1
  <2>3. \A t \in Logged(ls) : t.id # m + 1
    BY <2>2
  <2>4. {t.id : t \in Logged(ls) \cup {e.data.tx}} = 1..(m + 1)
    <3>1. {t.id : t \in Logged(ls) \cup {e.data.tx}} = {t.id : t \in Logged(ls)} \cup {m + 1}
      OBVIOUS
    <3> QED
      BY <2>1, <3>1
  <2> QED
    BY <1>2, <2>3, <2>4 DEF Books, Numbered
<1>4. UniqueKeys(ls \cup {e})
  BY DEF Books, UniqueKeys
<1>5. UniqueRefs(Logged(ls \cup {e}))
  BY <1>2 DEF Books, UniqueRefs
<1>6. UniqueUndoes(ls \cup {e})
  <2>1. \A f \in ls : f.data.undoes # 0 => f.data.undoes \in undone
    BY DEF Books, Undoings
  <2> QED
    BY <2>1 DEF Books, UniqueUndoes
<1>7. Undoings(ls \cup {e}) = undone \cup ({e.data.undoes} \ {0})
  BY DEF Books, Undoings
<1> QED
  BY <1>1, <1>3, <1>4, <1>5, <1>6, <1>7 DEF Books

-----------------------------------------------------------------------------
(* A step leaves the other sessions alone.                                 *)

\* What a session's books and progress are made of.
Same(u) ==
  /\ pc'[u] = pc[u] /\ req'[u] = req[u] /\ items'[u] = items[u] /\ item'[u] = item[u]
  /\ before'[u] = before[u] /\ posts'[u] = posts[u] /\ tip'[u] = tip[u]
  /\ newTxs'[u] = newTxs[u] /\ newLogs'[u] = newLogs[u] /\ txLock'[u] = txLock[u]

\* The transaction a session is about to insert is the same after a step of another.
LEMMA SameTransaction ==
  ASSUME NEW u \in Session, Same(u)
  PROVE  NewTransaction(u)' = NewTransaction(u)
BY DEF Same, NewTransaction, PostCommitVolumes, Asked, BatchTag, IkHash

\* Its books stay as they are while it holds the ledgers row, and what it means
\* to reverse stays unreversed.
LEMMA SameKeeps ==
  ASSUME LogInv, NEW u \in Session, Same(u),
         chainLock' = u => chainLock = u /\ UNCHANGED <<logs, transactions, reverted>>,
         \A t \in reverted' \ reverted : txLock[u] # t
  PROVE  ProgressOK(u)' /\ (chainLock' = u => BooksOK(u)')
<1>1. ProgressOK(u) /\ (chainLock = u => BooksOK(u))
  BY DEF LogInv
<1>2. ProgressOK(u)'
  BY <1>1 DEF Same, ProgressOK
<1>3. ASSUME chainLock' = u PROVE BooksOK(u)'
  <2>1. BooksOK(u) /\ UNCHANGED <<logs, transactions, reverted>>
    BY <1>1, <1>3
  <2>2. LogOf(u)' = LogOf(u) /\ TxsOf(u)' = TxsOf(u) /\ UndoneBy(u)' = UndoneBy(u)
    BY <2>1 DEF Same, LogOf, TxsOf, UndoneBy, Undone
  <2>3. pc'[u] = pc[u] /\ tip'[u] = tip[u] /\ NewTransaction(u)' = NewTransaction(u)
    BY SameTransaction DEF Same
  <2> QED
    BY <2>1, <2>2, <2>3 DEF BooksOK
<1> QED
  BY <1>2, <1>3

\* Where a call is, for every session but s.
Elsewhere(s) ==
  \A u \in Session \ {s} :
    /\ pc'[u] = pc[u] /\ req'[u] = req[u] /\ items'[u] = items[u] /\ item'[u] = item[u]

\* Rolled back, or ended with nothing of the log published: the locks go and
\* what was written goes with them.
LEMMA EndKeepsLog ==
  ASSUME Inv, LogInv, NEW s \in Session, EndTransaction(s), Elsewhere(s),
         UNCHANGED <<chain, transactions, reverted, logs>>,
         pc'[s] \notin Working \ {"find", "materialise"},
         pc'[s] \in Working => req'[s].kind # "revert"
  PROVE  LogInv'
<1>1. /\ newLogs'[s] = {} /\ txLock' = [txLock EXCEPT ![s] = 0]
      /\ chainLock' = Freed(chainLock, s)
  BY EndFacts DEF EndTransaction
<1>2. chainLock' # s /\ \A u \in Session : chainLock' = u => chainLock = u
  BY <1>1, SessionAssumption DEF Freed
<1>3. \A u \in Session \ {s} : Same(u)
  BY <1>1, EndFacts DEF Same, Elsewhere, Inv, TypeOK
<1>4. ASSUME NEW u \in Session PROVE ProgressOK(u)' /\ (chainLock' = u => BooksOK(u)')
  <2>1. CASE u = s
    BY <1>1, <1>2, <2>1 DEF ProgressOK, Working
  <2>2. CASE u # s
    BY <1>2, <1>3, <2>2, SameKeeps
  <2> QED
    BY <2>1, <2>2
<1>5. TxLocksApart'
  BY <1>1 DEF LogInv, TxLocksApart, Inv, TypeOK
<1> QED
  BY <1>4, <1>5 DEF LogInv

\* A step that neither takes an id nor writes an entry nor ends anything.
LEMMA QuietKeepsLog ==
  ASSUME LogInv, NEW s \in Session, Elsewhere(s),
         \A u \in Session \ {s} : before'[u] = before[u] /\ posts'[u] = posts[u],
         UNCHANGED <<chain, transactions, reverted, logs, chainLock, txLock, tip,
                     newTxs, newLogs>>,
         pc[s] \notin {"insert", "append", "commit"},
         pc'[s] \notin {"insert", "append", "commit"},
         chainLock = s => pc'[s] \in Holding /\ req'[s] = req[s],
         pc'[s] \in Working /\ item'[s] \in {0, 1} => newLogs[s] = {},
         pc'[s] \in Working /\ req'[s].kind = "revert" =>
           /\ pc[s] \in Working /\ req'[s] = req[s] /\ items'[s] = items[s]
           /\ item'[s] = item[s]
  PROVE  LogInv'
<1>1. \A u \in Session \ {s} : Same(u)
  BY DEF Same, Elsewhere
<1>2. ASSUME NEW u \in Session PROVE ProgressOK(u)' /\ (chainLock' = u => BooksOK(u)')
  <2>1. CASE u = s
    <3>1. ProgressOK(s) /\ (chainLock = s => BooksOK(s))
      BY DEF LogInv
    <3>2. ProgressOK(s)'
      BY <3>1 DEF ProgressOK
    <3>3. ASSUME chainLock' = s PROVE BooksOK(s)'
      <4>1. /\ LogOf(s)' = LogOf(s) /\ TxsOf(s)' = TxsOf(s) /\ UndoneBy(s)' = UndoneBy(s)
            /\ tip'[s] = tip[s] /\ pc'[s] \in Holding
        BY <3>3 DEF LogOf, TxsOf, UndoneBy, Undone
      <4> QED
        BY <3>1, <3>3, <4>1 DEF BooksOK
    <3> QED
      BY <2>1, <3>2, <3>3
  <2>2. CASE u # s
    BY <1>1, <2>2, SameKeeps
  <2> QED
    BY <2>1, <2>2
<1>3. TxLocksApart'
  BY DEF LogInv, TxLocksApart
<1> QED
  BY <1>2, <1>3 DEF LogInv

-----------------------------------------------------------------------------
(* The actions.                                                            *)

\* A refused call rolls its own entries back and leaves the log alone.
LEMMA RefuseKeepsLog ==
  ASSUME Inv, LogInv, NEW s \in Session, Refuse(s)
  PROVE  LogInv'
<1>1. EndTransaction(s) /\ UNCHANGED <<chain, transactions, reverted, logs>>
  BY DEF Refuse, tables
<1>2. Elsewhere(s) /\ pc'[s] = "idle"
  BY DEF Refuse, Forget, Elsewhere, Inv, TypeOK, FunctionsOK
<1> QED
  BY <1>1, <1>2, EndKeepsLog DEF Working

\* A result that publishes nothing of the log.
LEMMA FinishKeepsLog ==
  ASSUME Inv, LogInv, NEW s \in Session, NEW ids, Finish(s, ids),
         UNCHANGED <<chain, transactions, reverted, logs>>
  PROVE  LogInv'
<1>1. EndTransaction(s) /\ Elsewhere(s) /\ pc'[s] = "reply"
  BY DEF Finish, call, Elsewhere, Inv, TypeOK
<1> QED
  BY <1>1, EndKeepsLog DEF Working

\* A call answered from the log writes nothing.
LEMMA AnswerKeepsLog ==
  ASSUME Inv, LogInv, NEW s \in Session, AnswerStored(s)
  PROVE  LogInv'
<1>1. PICK e \in KeyEntries(req[s].key) :
        \/ Refuse(s)
        \/ Finish(s, Stored(req[s], e)) /\ UNCHANGED tables
  BY DEF AnswerStored
<1> QED
  BY <1>1, RefuseKeepsLog, FinishKeepsLog DEF tables

\* An attempt starts again: only a reversal enters elsewhere than a commit.
LEMMA ContendKeepsLog ==
  ASSUME Inv, LogInv, NEW s \in Session, Contend(s)
  PROVE  LogInv'
<1>1. CASE Refuse(s)
  BY <1>1, RefuseKeepsLog
<1>2. CASE EndTransaction(s) /\ Enter(s, req[s]) /\ UNCHANGED <<tables, req>>
  <2>1. /\ UNCHANGED <<chain, transactions, reverted, logs>> /\ req[s] \in Request
        /\ Elsewhere(s) /\ pc'[s] = EntryPoint(req[s]) /\ req'[s] = req[s]
    BY <1>2 DEF tables, Enter, Elsewhere, Contend, Inv, TypeOK, FunctionsOK, SessionOK, CallOK
  <2>2. /\ pc'[s] \in {"find", "materialise", "lockTx", "closeRead"}
        /\ pc'[s] \in Working => req'[s].kind # "revert"
    BY <2>1, EntryFacts DEF EntryPoint, Working
  <2> QED
    BY <1>2, <2>1, <2>2, EndKeepsLog DEF Working
<1> QED
  BY <1>1, <1>2 DEF Contend

\* A call that starts has written nothing.
LEMMA BeginKeepsLog ==
  ASSUME Inv, LogInv, NEW s \in Session, NEW q \in Request, Begin(s, q)
  PROVE  LogInv'
<1>1. /\ UNCHANGED <<chain, transactions, reverted, logs, chainLock, txLock, tip, newTxs,
                     newLogs, before, posts>>
      /\ pc[s] = "idle"
  BY DEF Begin, tables, locks, writes
<1>2. /\ Elsewhere(s) /\ pc'[s] = EntryPoint(q) /\ req'[s] = q
  BY DEF Begin, Enter, Elsewhere, Inv, TypeOK, FunctionsOK
<1>3. /\ pc'[s] \in {"find", "materialise", "lockTx", "closeRead"}
      /\ pc'[s] \in Working => req'[s].kind # "revert"
  BY <1>2, EntryFacts DEF EntryPoint, Working
<1>4. chainLock # s /\ newLogs[s] = {}
  BY <1>1 DEF LogInv, BooksOK, Holding, Working, Inv, SessionOK, ChainOK
<1> QED
  BY <1>1, <1>2, <1>3, <1>4, QuietKeepsLog

\* The lookup that finds nothing, the rows, the checks and the update.
LEMMA RowsKeepLog ==
  ASSUME Inv, LogInv, NEW s \in Session,
         \/ \E r \in Row : MaterialiseRow(s, r) \/ LockRow(s, r)
         \/ ReadClosed(s)
  PROVE  LogInv'
<1> USE DEF tables, locks, writes, call, history, Inv, TypeOK, FunctionsOK
<1>1. /\ UNCHANGED <<chain, transactions, reverted, logs, chainLock, txLock, tip, newTxs,
                     newLogs, req, items, posts>>
      /\ pc[s] \in {"materialise", "lock", "readClosed"}
      /\ \A u \in Session \ {s} : before'[u] = before[u]
  BY DEF MaterialiseRow, LockRow, ReadClosed
<1>2. /\ \A u \in Session \ {s} : pc'[u] = pc[u] /\ item'[u] = item[u]
      /\ pc'[s] \in {"materialise", "lock", "readClosed", "apply"}
      /\ item'[s] = item[s] \/ (item[s] = 0 /\ item'[s] = 1)
  <2>1. ASSUME NEW r \in Row, MaterialiseRow(s, r)
        PROVE  /\ \A u \in Session \ {s} : pc'[u] = pc[u] /\ item'[u] = item[u]
               /\ pc'[s] \in {"materialise", "lock", "readClosed", "apply"}
               /\ item'[s] = item[s]
    BY <2>1 DEF MaterialiseRow
  <2>2. ASSUME NEW r \in Row, LockRow(s, r)
        PROVE  /\ \A u \in Session \ {s} : pc'[u] = pc[u] /\ item'[u] = item[u]
               /\ pc'[s] \in {"materialise", "lock", "readClosed", "apply"}
               /\ item'[s] = item[s] \/ (item[s] = 0 /\ item'[s] = 1)
    BY <2>2 DEF LockRow
  <2>3. CASE ReadClosed(s)
    BY <2>3 DEF ReadClosed
  <2> QED
    BY <2>1, <2>2, <2>3
<1>3. Elsewhere(s)
  BY <1>1, <1>2 DEF Elsewhere
<1>4. ProgressOK(s) /\ pc[s] \in Working \ {"commit"} /\ pc'[s] \in Holding
  BY <1>1, <1>2 DEF LogInv, Holding, Working
<1>5. item'[s] \in {0, 1} => newLogs[s] = {}
  BY <1>2, <1>4 DEF ProgressOK
<1>6. req[s].kind = "revert" => item'[s] = item[s]
  BY <1>2, <1>4 DEF ProgressOK
<1> QED
  BY <1>1, <1>2, <1>3, <1>4, <1>5, <1>6, QuietKeepsLog

\* The lookup of the key writes nothing.
LEMMA FindKeepsLog ==
  ASSUME Inv, LogInv, NEW s \in Session, Find(s)
  PROVE  LogInv'
<1> USE DEF tables, locks, writes, call, history, Inv, TypeOK, FunctionsOK
<1>1. CASE AnswerStored(s)
  BY <1>1, AnswerKeepsLog
<1>2. CASE ~AnswerStored(s)
  <2>1. /\ UNCHANGED <<chain, transactions, reverted, logs, chainLock, txLock, tip, newTxs,
                       newLogs, req, items, item, posts, before>>
        /\ pc[s] = "find" /\ pc' = [pc EXCEPT ![s] = "materialise"]
    BY <1>2 DEF Find
  <2>2. Elsewhere(s) /\ pc'[s] = "materialise"
    BY <2>1 DEF Elsewhere
  <2>3. pc[s] \in Working \ {"commit"} /\ chainLock # s /\ ChainOK(s)
    BY <2>1 DEF LogInv, BooksOK, Holding, Working, SessionOK
  <2>4. newLogs[s] = {}
    BY <2>3 DEF ChainOK
  <2> QED
    BY <2>1, <2>2, <2>3, <2>4, QuietKeepsLog
<1> QED
  BY <1>1, <1>2

\* Checking and updating the rows leaves the log alone.
LEMMA ApplyKeepsLog ==
  ASSUME Inv, LogInv, NEW s \in Session, Apply(s)
  PROVE  LogInv'
<1> USE DEF tables, locks, writes, call, history, Inv, TypeOK, FunctionsOK
<1>1. CASE Refuse(s)
  BY <1>1, RefuseKeepsLog
<1>2. CASE ~Refuse(s)
  <2>1. /\ UNCHANGED <<chain, transactions, reverted, logs, chainLock, txLock, tip, newTxs,
                       newLogs, req, items, item, before>>
        /\ pc[s] = "apply" /\ pc' = [pc EXCEPT ![s] = "allocate"]
        /\ posts' = [posts EXCEPT ![s] = Settled(s)]
    BY <1>2 DEF Apply
  <2>2. Elsewhere(s) /\ pc'[s] = "allocate" /\ \A u \in Session \ {s} : posts'[u] = posts[u]
    BY <2>1 DEF Elsewhere
  <2>3. ProgressOK(s) /\ pc[s] \in Working \ {"commit"} /\ pc'[s] \in Holding
    BY <2>1, <2>2 DEF LogInv, Holding, Working
  <2>4. item[s] \in {0, 1} => newLogs[s] = {}
    BY <2>3 DEF ProgressOK
  <2> QED
    BY <2>1, <2>2, <2>3, <2>4, QuietKeepsLog
<1> QED
  BY <1>1, <1>2

\* A close, and the answer to a call, have nothing of the log.
LEMMA OutsideKeepsLog ==
  ASSUME Inv, LogInv, NEW s \in Session,
         Reply(s) \/ CloseRead(s) \/ CloseCheck(s) \/ \E r \in Row : CloseLock(s, r)
  PROVE  LogInv'
<1> USE DEF tables, locks, writes, call, history, Inv, TypeOK, FunctionsOK
<1>1. CASE Refuse(s)
  BY <1>1, RefuseKeepsLog
<1>2. CASE ~Refuse(s)
  <2>1. /\ UNCHANGED <<chain, transactions, reverted, logs, chainLock, txLock, tip, newTxs,
                       newLogs, posts>>
        /\ pc[s] \in {"reply", "closeRead", "closeLock"}
        /\ \A u \in Session \ {s} : before'[u] = before[u]
    BY <1>2 DEF Reply, CloseRead, CloseCheck, CloseLock
  <2>2. Elsewhere(s) /\ pc'[s] \in {"idle", "closeLock", "closeWrite"}
    <3>1. CASE Reply(s)
      BY <3>1 DEF Reply, Forget, Elsewhere
    <3>2. CASE CloseRead(s)
      BY <3>2 DEF CloseRead, Elsewhere
    <3>3. CASE CloseCheck(s)
      BY <1>2, <3>3 DEF CloseCheck, Elsewhere
    <3>4. CASE \E r \in Row : CloseLock(s, r)
      BY <2>1, <3>4 DEF CloseLock, Elsewhere
    <3> QED
      BY <3>1, <3>2, <3>3, <3>4
  <2>3. chainLock # s
    BY <2>1 DEF LogInv, BooksOK, Holding, Working
  <2> QED
    BY <2>1, <2>2, <2>3, QuietKeepsLog DEF Working
<1> QED
  BY <1>1, <1>2

\* An operator's statement, or no step at all.
LEMMA StillKeepsLog ==
  ASSUME LogInv,
         UNCHANGED <<chain, transactions, reverted, logs, locks, writes, call, pc, before, posts>>
  PROVE  LogInv'
<1> USE DEF locks, writes, call
<1>1. \A u \in Session : Same(u)
  BY DEF Same
<1>2. ASSUME NEW u \in Session PROVE ProgressOK(u)' /\ (chainLock' = u => BooksOK(u)')
  BY <1>1, SameKeeps
<1>3. TxLocksApart'
  BY DEF LogInv, TxLocksApart
<1> QED
  BY <1>2, <1>3 DEF LogInv

\* A change of policy or of closure leaves the log alone.
LEMMA OperatorKeepsLog ==
  ASSUME LogInv, Operator
  PROVE  LogInv'
BY StillKeepsLog DEF Operator, SetAllowNegative, SetAllowPositive, Reopen

\* Writing a closure leaves the log alone.
LEMMA CloseWriteKeepsLog ==
  ASSUME Inv, LogInv, NEW s \in Session, CloseWrite(s)
  PROVE  LogInv'
BY FinishKeepsLog DEF CloseWrite

\* The next ids, on top of what the session sees of the ledgers row.
LEMMA AllocateKeepsLog ==
  ASSUME Inv, LogInv, NEW s \in Session, Allocate(s)
  PROVE  LogInv'
<1> USE DEF tables, locks, writes, call, history, Inv, TypeOK, FunctionsOK
<1> DEFINE c == ChainView(s)
<1>1. /\ UNCHANGED <<chain, transactions, reverted, logs, txLock, newTxs, newLogs, req, items,
                     item, before, posts>>
      /\ pc[s] = "allocate" /\ pc' = [pc EXCEPT ![s] = "insert"]
      /\ chainLock \in {NoSession, s} /\ chainLock' = s
      /\ tip' = [tip EXCEPT ![s] = [lastTx |-> c.lastTx + 1, lastLog |-> c.lastLog + 1,
                                    lastHash |-> c.lastHash]]
  BY DEF Allocate
<1>2. /\ pc'[s] = "insert" /\ tip'[s].lastTx = c.lastTx + 1
      /\ tip'[s].lastLog = c.lastLog + 1 /\ tip'[s].lastHash = c.lastHash
  BY <1>1
<1>3. \A u \in Session \ {s} : Same(u)
  BY <1>1 DEF Same
<1>4. c.lastTx \in Nat /\ c.lastLog \in Nat
  BY DEF ChainView, SessionOK, CallOK
<1>5. /\ TxsOf(s) = Logged(LogOf(s))
      /\ Books(LogOf(s), UndoneBy(s), c.lastLog, c.lastHash, c.lastTx)
  <2>1. CASE chainLock = s
    BY <1>1, <2>1 DEF LogInv, BooksOK, ChainView
  <2>2. CASE chainLock # s
    <3>1. newTxs[s] = {} /\ newLogs[s] = {} /\ c = chain
      BY <2>2 DEF SessionOK, ChainOK, ChainView
    <3>2. LogOf(s) = logs /\ TxsOf(s) = transactions /\ UndoneBy(s) = reverted
      BY <3>1 DEF LogOf, TxsOf, UndoneBy
    <3> QED
      BY <3>1, <3>2 DEF LogInv
  <2> QED
    BY <2>1, <2>2
<1> HIDE DEF c
<1>6. BooksOK(s)'
  <2>1. LogOf(s)' = LogOf(s) /\ TxsOf(s)' = TxsOf(s) /\ UndoneBy(s)' = UndoneBy(s)
    BY <1>1 DEF LogOf, TxsOf, UndoneBy, Undone
  <2>2. /\ tip'[s].lastLog > 0 /\ tip'[s].lastTx > 0
        /\ tip'[s].lastLog - 1 = c.lastLog /\ tip'[s].lastTx - 1 = c.lastTx
    <3>1. ASSUME NEW a \in Nat, NEW b, b = a + 1 PROVE b > 0 /\ b - 1 = a
      BY <3>1
    <3> QED
      BY <1>2, <1>4, <3>1
  <2> QED
    BY <1>2, <1>5, <2>1, <2>2 DEF BooksOK, Holding, Working
<1>7. ProgressOK(s)'
  BY <1>1, <1>2 DEF LogInv, ProgressOK, Working
<1>8. ASSUME NEW u \in Session PROVE ProgressOK(u)' /\ (chainLock' = u => BooksOK(u)')
  <2>1. CASE u = s
    BY <1>6, <1>7, <2>1
  <2>2. CASE u # s
    BY <1>1, <1>3, <2>2, SameKeeps
  <2> QED
    BY <2>1, <2>2
<1>9. TxLocksApart'
  BY <1>1 DEF LogInv, TxLocksApart
<1> QED
  BY <1>1, <1>8, <1>9 DEF LogInv

\* The transaction: its reference is not in the table and not in the batch.
LEMMA InsertKeepsLog ==
  ASSUME Inv, LogInv, NEW s \in Session, InsertTransaction(s)
  PROVE  LogInv'
<1> USE DEF tables, locks, writes, call, history, Inv, TypeOK, FunctionsOK
<1>1. CASE Refuse(s)
  BY <1>1, RefuseKeepsLog
<1>2. CASE ~Refuse(s)
  <2>1. /\ UNCHANGED <<chain, transactions, reverted, logs, chainLock, txLock, tip, newLogs,
                       req, items, item, before, posts>>
        /\ newTxs' = [newTxs EXCEPT ![s] = @ \cup {NewTransaction(s)}]
        /\ pc[s] = "insert" /\ pc' = [pc EXCEPT ![s] = "append"]
        /\ \/ items[s][item[s]].ref = NoRef
           \/ \A t \in transactions \cup newTxs[s] : t.ref # items[s][item[s]].ref
    BY <1>2 DEF InsertTransaction
  <2>2. newTxs'[s] = newTxs[s] \cup {NewTransaction(s)} /\ pc'[s] = "append"
    BY <2>1
  <2>3. \A u \in Session \ {s} : Same(u)
    BY <2>1 DEF Same
  <2>4. NewTransaction(s)' = NewTransaction(s) /\ NewTransaction(s).ref = items[s][item[s]].ref
    <3>1. NewTransaction(s).ref = items[s][item[s]].ref
      BY DEF NewTransaction
    <3>2. posts'[s] = posts[s] /\ tip'[s] = tip[s] /\ before'[s] = before[s]
          /\ items'[s] = items[s] /\ item'[s] = item[s] /\ req'[s] = req[s]
      BY <2>1
    <3>3. NewTransaction(s)' = NewTransaction(s)
      BY <3>2 DEF NewTransaction, PostCommitVolumes, Asked, BatchTag, IkHash
    <3> QED
      BY <3>1, <3>3
  <2>5. chainLock = s /\ BooksOK(s)
    BY <2>1 DEF LogInv, SessionOK, ChainOK
  <2>6. BooksOK(s)'
    <3>1. LogOf(s)' = LogOf(s) /\ UndoneBy(s)' = UndoneBy(s) /\ tip'[s] = tip[s]
      BY <2>1 DEF LogOf, UndoneBy, Undone
    <3>2. TxsOf(s)' = TxsOf(s) \cup {NewTransaction(s)}
      BY <2>1, <2>2 DEF TxsOf
    <3>3. TxsOf(s) = Logged(LogOf(s))
      BY <2>1, <2>5 DEF BooksOK
    <3>4. NewTransaction(s).ref # NoRef =>
            \A t \in Logged(LogOf(s)) : t.ref # NewTransaction(s).ref
      BY <2>1, <2>4, <3>3 DEF TxsOf
    <3> QED
      BY <2>1, <2>2, <2>4, <2>5, <3>1, <3>2, <3>3, <3>4 DEF BooksOK, Holding, Working
  <2>7. ProgressOK(s)'
    BY <2>1, <2>2 DEF LogInv, ProgressOK, Working
  <2>8. ASSUME NEW u \in Session PROVE ProgressOK(u)' /\ (chainLock' = u => BooksOK(u)')
    <3>1. CASE u = s
      BY <2>6, <2>7, <3>1
    <3>2. CASE u # s
      BY <2>1, <2>3, <3>2, SameKeeps
    <3> QED
      BY <3>1, <3>2
  <2>9. TxLocksApart'
    BY <2>1 DEF LogInv, TxLocksApart
  <2> QED
    BY <2>1, <2>8, <2>9 DEF LogInv
<1> QED
  BY <1>1, <1>2

\* What the entry to be appended holds.
LEMMA EntryShape ==
  ASSUME NEW s \in Session
  PROVE  LET e == NewEntry(s)
         IN  /\ e.id = tip[s].lastLog /\ e.key = EntryKey(s)
             /\ e.data.tx = NewTransaction(s)
             /\ e.data.undoes = (IF req[s].kind = "revert" THEN req[s].target ELSE 0)
             /\ e.hash = ChainHash(tip[s].lastHash, e.data)
             /\ e.data.tx.id = tip[s].lastTx
BY DEF NewEntry, NewTransaction

\* The books with the entry appended.
LEMMA AppendedBooks ==
  ASSUME Inv, LogInv, NEW s \in Session, pc[s] = "append", ~KeyTaken(s)
  PROVE  LET e == NewEntry(s)
         IN  /\ TxsOf(s) = Logged(LogOf(s) \cup {e})
             /\ Books(LogOf(s) \cup {e}, reverted \cup Undone(req[s]),
                      tip[s].lastLog, e.hash, tip[s].lastTx)
<1> DEFINE e == NewEntry(s)
           n == tip[s].lastLog - 1
           m == tip[s].lastTx - 1
           ls == LogOf(s)
           undone == UndoneBy(s)
<1>1. /\ chainLock = s /\ ProgressOK(s) /\ item[s] # 0 /\ item[s] \in Nat
      /\ tip[s].lastLog \in Nat /\ tip[s].lastTx \in Nat
  BY DEF LogInv, Inv, TypeOK, SessionOK, ChainOK, CallOK, Working
<1>2. /\ TxsOf(s) = Logged(ls) \cup {NewTransaction(s)}
      /\ NewTransaction(s).ref # NoRef => \A t \in Logged(ls) : t.ref # NewTransaction(s).ref
      /\ tip[s].lastLog > 0 /\ tip[s].lastTx > 0
      /\ Books(ls, undone, n, tip[s].lastHash, m)
  BY <1>1 DEF LogInv, BooksOK
<1>3. n \in Nat /\ m \in Nat /\ n + 1 = tip[s].lastLog /\ m + 1 = tip[s].lastTx
  BY <1>1, <1>2
<1>4. /\ e.id = n + 1 /\ e.hash = ChainHash(tip[s].lastHash, e.data) /\ e.data.tx.id = m + 1
      /\ e.data.tx = NewTransaction(s) /\ e.key = EntryKey(s)
      /\ e.data.undoes = (IF req[s].kind = "revert" THEN req[s].target ELSE 0)
  BY <1>3, EntryShape
<1>5. newLogs[s] = {} \/ item[s] # 1
  BY <1>1 DEF ProgressOK, Working
<1>6. e.key # NoKey => \A f \in ls : f.key # e.key
  <2> SUFFICES ASSUME e.key # NoKey, NEW f \in ls PROVE f.key # e.key
    OBVIOUS
  <2>1. item[s] = 1
    BY <1>4 DEF EntryKey
  <2>2. f \in logs
    BY <1>5, <2>1 DEF LogOf
  <2> QED
    BY <1>4, <2>2 DEF KeyTaken, KeyEntries
<1>7. /\ e.data.undoes # 0 => e.data.undoes \notin undone
      /\ undone \cup ({e.data.undoes} \ {0}) = reverted \cup Undone(req[s])
  <2>1. CASE req[s].kind = "revert"
    <3>1. item[s] = 1 /\ req[s].target # 0 /\ req[s].target \notin reverted
      BY <1>1, <2>1 DEF ProgressOK, Working
    <3>2. undone = reverted
      BY <1>5, <3>1 DEF UndoneBy
    <3> QED
      BY <1>4, <2>1, <3>1, <3>2 DEF Undone
  <2>2. CASE req[s].kind # "revert"
    BY <1>4, <2>2 DEF UndoneBy, Undone
  <2> QED
    BY <2>1, <2>2
<1>8. Logged(ls \cup {e}) = Logged(ls) \cup {e.data.tx}
  BY DEF Logged
<1>9. Books(ls \cup {e}, undone \cup ({e.data.undoes} \ {0}), n + 1, e.hash, m + 1)
  <2> HIDE DEF e, n, m, ls, undone
  <2> QED
    BY <1>2, <1>3, <1>4, <1>6, <1>7, BooksGrow
<1> QED
  BY <1>2, <1>3, <1>4, <1>7, <1>8, <1>9

\* The entry: the key is not in the log, and only the first entry has one.
LEMMA AppendKeepsLog ==
  ASSUME Inv, LogInv, NEW s \in Session, AppendLog(s)
  PROVE  LogInv'
<1> USE DEF tables, locks, writes, call, history, Inv, TypeOK, FunctionsOK
<1>1. CASE KeyTaken(s)
  <2>1. /\ EndTransaction(s) /\ pc' = [pc EXCEPT ![s] = "race"]
        /\ UNCHANGED <<chain, transactions, reverted, logs, req, items, item>>
    BY <1>1 DEF AppendLog
  <2>2. Elsewhere(s) /\ pc'[s] = "race"
    BY <2>1 DEF Elsewhere
  <2> QED
    BY <2>1, <2>2, EndKeepsLog DEF Working
<1>2. CASE ~KeyTaken(s)
  <2> DEFINE e == NewEntry(s)
  <2>1. /\ UNCHANGED <<chain, transactions, reverted, logs, chainLock, txLock, newTxs,
                       req, items, before, posts>>
        /\ newLogs' = [newLogs EXCEPT ![s] = @ \cup {e}]
        /\ tip' = [tip EXCEPT ![s].lastHash = e.hash]
        /\ pc[s] = "append"
    BY <1>2 DEF AppendLog
  <2>2. /\ \A u \in Session \ {s} : pc'[u] = pc[u] /\ item'[u] = item[u]
        /\ \/ pc'[s] = "commit" /\ item'[s] = item[s]
           \/ /\ pc'[s] = "materialise" /\ item'[s] = item[s] + 1
              /\ item[s] < Len(items[s])
    BY <1>2 DEF AppendLog
  <2>3. /\ newLogs'[s] = newLogs[s] \cup {e}
        /\ \A u \in Session \ {s} : newLogs'[u] = newLogs[u] /\ tip'[u] = tip[u]
    BY <2>1
  <2>4. /\ tip'[s].lastLog = tip[s].lastLog /\ tip'[s].lastTx = tip[s].lastTx
        /\ tip'[s].lastHash = e.hash
    <3>1. tip[s] = [lastTx |-> tip[s].lastTx, lastLog |-> tip[s].lastLog,
                    lastHash |-> tip[s].lastHash]
      BY DEF SessionOK, CallOK
    <3>2. tip'[s] = [tip[s] EXCEPT !.lastHash = e.hash]
      BY <2>1
    <3> QED
      BY <3>1, <3>2
  <2>5. /\ TxsOf(s) = Logged(LogOf(s) \cup {e})
        /\ Books(LogOf(s) \cup {e}, reverted \cup Undone(req[s]), tip[s].lastLog, e.hash,
                 tip[s].lastTx)
    BY <1>2, <2>1, AppendedBooks
  <2>6. /\ item[s] \in Nat /\ item[s] # 0
        /\ req[s].kind = "revert" => Len(items[s]) = 1 /\ item[s] = 1
    BY <2>1 DEF SessionOK, CallOK, Working, LogInv, ProgressOK
  <2> HIDE DEF e
  <2>7. BooksOK(s)'
    <3>1. /\ LogOf(s)' = LogOf(s) \cup {e} /\ TxsOf(s)' = TxsOf(s)
          /\ UndoneBy(s)' = reverted \cup Undone(req[s])
      BY <2>1, <2>3 DEF LogOf, TxsOf, UndoneBy, Undone
    <3> QED
      BY <2>2, <2>4, <2>5, <3>1 DEF BooksOK, Holding, Working
  <2>8. ProgressOK(s)'
    <3>1. CASE pc'[s] = "commit"
      BY <2>1, <2>2, <2>3, <3>1 DEF LogInv, ProgressOK, Working
    <3>2. CASE pc'[s] # "commit"
      <4>1. pc'[s] = "materialise" /\ item'[s] \notin {0, 1} /\ req[s].kind # "revert"
        <5>1. /\ pc'[s] = "materialise" /\ item'[s] = item[s] + 1
              /\ item[s] < Len(items[s])
          BY <2>2, <3>2
        <5>2. item'[s] # 0 /\ item'[s] # 1
          BY <2>6, <5>1
        <5>3. ASSUME req[s].kind = "revert" PROVE FALSE
          <6>1. Len(items[s]) = 1 /\ item[s] = 1
            BY <2>6, <5>3
          <6>2. 1 < 1
            BY <5>1, <6>1
          <6> QED
            BY <6>2
        <5> QED
          BY <5>1, <5>2, <5>3
      <4> QED
        BY <2>1, <4>1 DEF ProgressOK
    <3> QED
      BY <3>1, <3>2
  <2>9. \A u \in Session \ {s} : Same(u)
    BY <2>1, <2>2, <2>3 DEF Same
  <2>10. ASSUME NEW u \in Session PROVE ProgressOK(u)' /\ (chainLock' = u => BooksOK(u)')
    <3>1. CASE u = s
      BY <2>7, <2>8, <3>1
    <3>2. CASE u # s
      BY <2>1, <2>9, <3>2, SameKeeps
    <3> QED
      BY <3>1, <3>2
  <2>11. TxLocksApart'
    BY <2>1 DEF LogInv, TxLocksApart
  <2> QED
    BY <2>1, <2>10, <2>11 DEF LogInv
<1> QED
  BY <1>1, <1>2

\* COMMIT publishes the books of the session that holds the ledgers row, and
\* undoes a transaction nobody else holds.
LEMMA CommitKeepsLog ==
  ASSUME Inv, LogInv, NEW s \in Session, CommitTx(s)
  PROVE  LogInv'
<1> USE DEF Inv, TypeOK, FunctionsOK
<1>1. CASE Refuse(s)
  BY <1>1, RefuseKeepsLog
<1>2. CASE ~Refuse(s)
  <2>1. /\ pc[s] = "commit" /\ chain' = tip[s]
        /\ transactions' = transactions \cup newTxs[s]
        /\ reverted' = reverted \cup Undone(req[s]) /\ logs' = logs \cup newLogs[s]
        /\ Finish(s, {t.id : t \in newTxs[s]})
    BY <1>2 DEF CommitTx
  <2>2. EndTransaction(s) /\ Elsewhere(s) /\ pc'[s] = "reply"
    BY <2>1 DEF Finish, call, Elsewhere
  <2>3. chainLock = s /\ BooksOK(s) /\ ProgressOK(s)
    BY <2>1 DEF LogInv, SessionOK, ChainOK
  <2>4. /\ logs' = LogOf(s) /\ transactions' = TxsOf(s) /\ reverted' = UndoneBy(s)
    BY <2>1, <2>3 DEF LogOf, TxsOf, UndoneBy, ProgressOK
  <2>5. /\ TxsOf(s) = Logged(LogOf(s))
        /\ Books(LogOf(s), UndoneBy(s), tip[s].lastLog, tip[s].lastHash, tip[s].lastTx)
    BY <2>1, <2>3 DEF BooksOK
  <2>6. chainLock' = NoSession /\ txLock' = [txLock EXCEPT ![s] = 0] /\ newLogs'[s] = {}
    BY <2>2, <2>3, EndFacts DEF EndTransaction, Freed
  <2>7. \A u \in Session \ {s} : Same(u)
    BY <2>2, <2>6, EndFacts DEF Same, Elsewhere
  <2>8. ASSUME NEW u \in Session \ {s}, NEW t \in reverted' \ reverted
        PROVE  txLock[u] # t
    <3>1. req[s].kind = "revert" /\ t = req[s].target
      BY <2>1, <2>8 DEF Undone
    <3>2. txLock[s] = t /\ t # 0
      BY <2>1, <2>3, <3>1 DEF ProgressOK, Working
    <3> QED
      BY <3>2 DEF LogInv, TxLocksApart
  <2>9. ASSUME NEW u \in Session PROVE ProgressOK(u)' /\ (chainLock' = u => BooksOK(u)')
    <3>1. chainLock' # u
      BY <2>6, SessionAssumption
    <3>2. CASE u = s
      BY <2>2, <2>6, <3>1, <3>2 DEF ProgressOK, Working
    <3>3. CASE u # s
      BY <2>7, <2>8, <3>1, <3>3, SameKeeps
    <3> QED
      BY <3>2, <3>3
  <2>10. TxLocksApart'
    BY <2>6 DEF LogInv, TxLocksApart
  <2> QED
    BY <2>1, <2>4, <2>5, <2>9, <2>10 DEF LogInv
<1> QED
  BY <1>1, <1>2

\* select ... for update of the original: nobody else has it, and it is not
\* reversed.
LEMMA LockTransactionKeepsLog ==
  ASSUME Inv, LogInv, NEW s \in Session, LockTransaction(s)
  PROVE  LogInv'
<1> USE DEF tables, locks, writes, call, history, Inv, TypeOK, FunctionsOK
<1>1. CASE Refuse(s)
  BY <1>1, RefuseKeepsLog
<1>2. CASE ~Refuse(s)
  <2>1. PICK t \in transactions :
          /\ t.id = req[s].target
          /\ txLock' = [txLock EXCEPT ![s] = t.id]
          /\ items' = [items EXCEPT ![s] =
                         <<[postings |-> ReversePostings(t.postings), ref |-> NoRef]>>]
          /\ pc' = [pc EXCEPT ![s] = "materialise"]
          /\ UNCHANGED <<tables, rowLock, chainLock, writes, req, attempt, item, before,
                         shut, posts, answer, history>>
    BY <1>2 DEF LockTransaction
  <2>2. /\ pc[s] = "lockTx" /\ req[s].target \notin reverted
        /\ \A u \in Session \ {s} : txLock[u] # req[s].target
    BY <1>2 DEF LockTransaction, AlreadyReverted
  <2>3. /\ txLock'[s] = req[s].target /\ Len(items'[s]) = 1 /\ pc'[s] = "materialise"
        /\ item'[s] = 1 /\ req'[s] = req[s]
    BY <2>1, <2>2 DEF SessionOK, CallOK
  <2>4. chainLock # s /\ newLogs[s] = {}
    BY <2>2 DEF LogInv, BooksOK, Holding, Working, SessionOK, ChainOK
  <2>5. req[s].target # 0
    <3>1. t.id \in {x.id : x \in Logged(logs)}
      BY DEF LogInv
    <3>2. t.id \in 1..chain.lastTx
      BY <3>1 DEF LogInv, Books, Numbered
    <3> QED
      BY <2>1, <3>2
  <2>6. ProgressOK(s)'
    BY <2>1, <2>2, <2>3, <2>4, <2>5 DEF ProgressOK
  <2>7. \A u \in Session \ {s} : Same(u)
    BY <2>1 DEF Same
  <2>8. ASSUME NEW u \in Session PROVE ProgressOK(u)' /\ (chainLock' = u => BooksOK(u)')
    <3>1. CASE u = s
      BY <2>1, <2>4, <2>6, <3>1
    <3>2. CASE u # s
      BY <2>1, <2>7, <3>2, SameKeeps
    <3> QED
      BY <3>1, <3>2
  <2>9. TxLocksApart'
    BY <2>1, <2>2 DEF LogInv, TxLocksApart
  <2> QED
    BY <2>1, <2>8, <2>9 DEF LogInv
<1> QED
  BY <1>1, <1>2

-----------------------------------------------------------------------------
(* The theorems.                                                           *)

\* An empty ledger.
LEMMA InitLogInv == Init => LogInv
<1> SUFFICES ASSUME Init PROVE LogInv
  OBVIOUS
<1>1. logs = {} /\ transactions = {} /\ reverted = {} /\ chain = EmptyChain
      /\ chainLock = NoSession
  BY DEF Init
<1>2. Logged({}) = {} /\ Undoings({}) = {}
  BY DEF Logged, Undoings
<1>3. Books({}, {}, 0, <<>>, 0)
  BY <1>2 DEF Books, Chained, Numbered, UniqueKeys, UniqueRefs, UniqueUndoes
<1>4. \A s \in Session : pc[s] = "idle" /\ txLock[s] = 0 /\ chainLock # s
  BY SessionAssumption DEF Init
<1>5. \A s \in Session : ProgressOK(s)
  BY <1>4 DEF ProgressOK, Working
<1> QED
  BY <1>1, <1>2, <1>3, <1>4, <1>5 DEF LogInv, TxLocksApart, EmptyChain

\* A session's own step.
LEMMA StepKeepsLog ==
  ASSUME Inv, LogInv, NEW s \in Session, Step(s)
  PROVE  LogInv'
<1>1. CASE Find(s) \/ Race(s)
  BY <1>1, FindKeepsLog, AnswerKeepsLog DEF Race
<1>2. CASE (\E r \in Row : MaterialiseRow(s, r) \/ LockRow(s, r)) \/ ReadClosed(s)
  BY <1>2, RowsKeepLog
<1>3. CASE Apply(s) \/ Allocate(s) \/ InsertTransaction(s) \/ AppendLog(s)
  BY <1>3, ApplyKeepsLog, AllocateKeepsLog, InsertKeepsLog, AppendKeepsLog
<1>4. CASE CommitTx(s) \/ DryRun(s) \/ LockTransaction(s) \/ CloseWrite(s)
  BY <1>4, CommitKeepsLog, RefuseKeepsLog, LockTransactionKeepsLog, CloseWriteKeepsLog
     DEF DryRun
<1>5. CASE Reply(s) \/ CloseRead(s) \/ CloseCheck(s) \/ \E r \in Row : CloseLock(s, r)
  BY <1>5, OutsideKeepsLog
<1> QED
  BY <1>1, <1>2, <1>3, <1>4, <1>5 DEF Step

\* Every step of the system keeps the books.
LEMMA StepLogInv ==
  ASSUME Inv, LogInv, [Next]_vars
  PROVE  LogInv'
<1>1. ASSUME NEW s \in Session, NEW q \in Request, Begin(s, q) PROVE LogInv'
  BY <1>1, BeginKeepsLog
<1>2. ASSUME NEW s \in Session, Step(s) PROVE LogInv'
  BY <1>2, StepKeepsLog
<1>3. ASSUME NEW s \in Session, Crash(s) \/ Contend(s) PROVE LogInv'
  BY <1>3, RefuseKeepsLog, ContendKeepsLog DEF Crash
<1>4. CASE Operator
  BY <1>4, OperatorKeepsLog
<1>5. CASE UNCHANGED vars
  BY <1>5, StillKeepsLog DEF vars, tables
<1> QED
  BY <1>1, <1>2, <1>3, <1>4, <1>5 DEF Next

\* The invariant of the log holds throughout.
LEMMA LogInvHolds == Spec => []LogInv
<1>1. Init => LogInv
  BY InitLogInv
<1>2. Inv /\ LogInv /\ [Next]_vars => LogInv'
  BY StepLogInv
<1> QED
  BY <1>1, <1>2, InvHolds, PTL DEF Spec

\* VerifyLog finds nothing at any moment, for any number of concurrent calls,
\* batches, reversals, retries and crashes (allocate, appendLog).
THEOREM LogAlwaysVerifies == Spec => []LogVerifies
<1>1. LogInv => LogVerifies
  <2> SUFFICES ASSUME LogInv PROVE LogVerifies
    OBVIOUS
  <2>1. Chained(logs, chain.lastLog, chain.lastHash)
    BY DEF LogInv, Books
  <2>2. {t.id : t \in transactions} = 1..chain.lastTx
    BY DEF LogInv, Books, Numbered
  <2> QED
    BY <2>1, <2>2 DEF LogVerifies, Chained
<1> QED
  BY <1>1, LogInvHolds, PTL

\* A key and a reference take effect at most once, however often and however
\* concurrently the call is made (appendLog, insertTransaction).
THEOREM KeysTakeEffectOnce == Spec => []OncePerKey
<1>1. LogInv => OncePerKey
  BY DEF LogInv, Books, UniqueKeys, UniqueRefs, OncePerKey
<1> QED
  BY <1>1, LogInvHolds, PTL

\* No transaction is reversed twice, whoever tries at the same time
\* (RevertTransaction).
THEOREM NothingRevertedTwice == Spec => []RevertedOnce
<1>1. LogInv => RevertedOnce
  BY DEF LogInv, Books, UniqueUndoes, RevertedOnce
<1> QED
  BY <1>1, LogInvHolds, PTL

\* The tables hold what the log holds: its transactions and its reversals.
TablesAreTheLog ==
  /\ transactions = {e.data.tx : e \in logs}
  /\ reverted = {e.data.undoes : e \in logs} \ {0}

\* VerifyProjection finds no transaction, and no reversal, that the log does not
\* hold, and none missing that it does.
THEOREM TablesAlwaysTheLog == Spec => []TablesAreTheLog
<1>1. LogInv => TablesAreTheLog
  BY DEF LogInv, Books, Logged, Undoings, TablesAreTheLog
<1> QED
  BY <1>1, LogInvHolds, PTL

-----------------------------------------------------------------------------
(* What keyed calls are told.  The answer to a call is a function of the    *)
(* log entry under its key, and it is the same function whether the call    *)
(* wrote the entry or found it.  For a batch it is every transaction with   *)
(* its tag, which is settled at COMMIT only if no other key carries the     *)
(* same batch.                                                             *)

NoTwinBatches ==
  \A q, r \in Request :
    /\ q.kind = "batch" /\ r.kind = "batch" /\ q.items = r.items
    /\ q.key # NoKey /\ r.key # NoKey
    => q.key = r.key

\* What the callers of the key of e are told.
Answered(e) ==
  IF e.ikHash[1] = "commit" THEN {e.data.tx.id}
  ELSE {t.id : t \in {u \in transactions : u.tag = e.ikHash}}

\* A keyed entry was written for a call with that key, and the first
\* transaction of a batch is tagged.
KeyedOK(e) ==
  e.key # NoKey =>
    \E q \in Request :
      /\ q.kind \in {"commit", "batch"} /\ q.key = e.key /\ e.ikHash = IkHash(q)
      /\ q.kind = "batch" => e.data.tx.tag = e.ikHash

\* A tagged transaction belongs to a batch whose entry has the key.
TaggedOK(t) == t.tag # NoTag => \E e \in logs : e.key # NoKey /\ e.ikHash = t.tag

\* The transactions were told to callers of the key.
ToldOK(key, ids) ==
  \E e \in logs : e.key = key /\ key # NoKey /\ ids = Answered(e)

\* What a session has written so far: a transaction for each entry, and one more
\* between insertTransaction and appendLog.
NewOK(s) ==
  /\ newTxs[s] = Logged(newLogs[s])
                   \cup (IF pc[s] = "append" THEN {NewTransaction(s)} ELSE {})
  /\ \A t \in newTxs[s] : t.tag = BatchTag(req[s])
  /\ \A e \in newLogs[s] :
       /\ e \notin logs
       /\ e.key # NoKey => e.key = req[s].key /\ e.ikHash = IkHash(req[s])
  /\ newLogs[s] # {} => \E e \in newLogs[s] : e.key = req[s].key
  /\ req[s].kind = "commit" => \A e, f \in newLogs[s] : e = f

\* A call with a key is at its first item until it has written the key.
ItemsOK(s) ==
  pc[s] \in Working =>
    /\ req[s].kind = "commit" => Len(items[s]) = 1
    /\ item[s] \notin {0, 1} => newLogs[s] # {}

ReplyOK(s) == pc[s] = "reply" /\ req[s].key # NoKey => ToldOK(req[s].key, answer[s])

CallerOK(s) == NewOK(s) /\ ItemsOK(s) /\ ReplyOK(s)

AnswerInv ==
  /\ \A e \in logs : KeyedOK(e)
  /\ \A t \in transactions : TaggedOK(t)
  /\ \A x \in answers : ToldOK(x.key, x.ids)
  /\ \A s \in Session : CallerOK(s)

-----------------------------------------------------------------------------

\* What was told stays right.
AnswersStay ==
  \A e \in logs : e.key # NoKey => e \in logs' /\ Answered(e)' = Answered(e)

\* A step that leaves the log alone changes no answer.
LEMMA QuietSettles ==
  ASSUME UNCHANGED <<logs, transactions>>
  PROVE  AnswersStay
BY DEF AnswersStay, Answered

\* What a caller was told about a key stays true while answers stay.
LEMMA ToldStays ==
  ASSUME AnswersStay, NEW key, NEW ids, ToldOK(key, ids)
  PROVE  ToldOK(key, ids)'
BY DEF AnswersStay, ToldOK

\* The callers that do not step.
LEMMA SameCaller ==
  ASSUME NEW u \in Session, CallerOK(u), Same(u), answer'[u] = answer[u], AnswersStay,
         newLogs[u] = {} \/ logs' = logs
  PROVE  CallerOK(u)'
<1>1. NewTransaction(u)' = NewTransaction(u)
  BY SameTransaction
<1>2. /\ pc'[u] = pc[u] /\ req'[u] = req[u] /\ items'[u] = items[u] /\ item'[u] = item[u]
      /\ newTxs'[u] = newTxs[u] /\ newLogs'[u] = newLogs[u]
  BY DEF Same
<1>3. NewOK(u)'
  BY <1>1, <1>2 DEF CallerOK, NewOK, Logged, BatchTag, IkHash
<1>4. ItemsOK(u)'
  BY <1>2 DEF CallerOK, ItemsOK
<1>5. ReplyOK(u)'
  BY <1>2, ToldStays DEF CallerOK, ReplyOK
<1> QED
  BY <1>3, <1>4, <1>5 DEF CallerOK

\* A step of s that publishes nothing.
LEMMA QuietKeepsAnswers ==
  ASSUME AnswerInv, NEW s \in Session, UNCHANGED <<logs, transactions>>,
         \A u \in Session \ {s} : Same(u) /\ answer'[u] = answer[u],
         \A x \in answers' : x \in answers \/ ToldOK(x.key, x.ids),
         CallerOK(s)'
  PROVE  AnswerInv'
<1>1. AnswersStay
  BY QuietSettles
<1>2. (\A e \in logs : KeyedOK(e))' /\ (\A t \in transactions : TaggedOK(t))'
  BY DEF AnswerInv, KeyedOK, TaggedOK
<1>3. \A x \in answers' : ToldOK(x.key, x.ids)'
  BY <1>1, ToldStays DEF AnswerInv
<1>4. \A u \in Session : CallerOK(u)'
  BY <1>1, SameCaller DEF AnswerInv
<1> QED
  BY <1>2, <1>3, <1>4 DEF AnswerInv

\* With nothing written there is nothing to say of what is written.
LEMMA NothingNew ==
  ASSUME NEW s \in Session, newTxs'[s] = {}, newLogs'[s] = {}, pc'[s] # "append"
  PROVE  NewOK(s)'
BY DEF NewOK, Logged

\* Whoever does not hold the ledgers row has written nothing.
LEMMA OutsideNothingNew ==
  ASSUME Inv, LogInv, NEW s \in Session, pc[s] \notin Holding
  PROVE  chainLock # s /\ newTxs[s] = {} /\ newLogs[s] = {}
BY DEF Inv, SessionOK, ChainOK, LogInv, BooksOK

\* A transaction ends and publishes nothing.
LEMMA EndKeepsAnswers ==
  ASSUME Inv, AnswerInv, NEW s \in Session, EndTransaction(s), Elsewhere(s),
         \A u \in Session \ {s} : answer'[u] = answer[u],
         UNCHANGED <<logs, transactions, answers>>,
         pc'[s] # "append", ItemsOK(s)', ReplyOK(s)'
  PROVE  AnswerInv'
<1>1. newTxs'[s] = {} /\ newLogs'[s] = {}
  BY EndFacts
<1>2. \A u \in Session \ {s} : Same(u)
  BY EndFacts DEF Same, Elsewhere, Inv, TypeOK, EndTransaction
<1>3. CallerOK(s)'
  BY <1>1, NothingNew DEF CallerOK
<1> QED
  BY <1>2, <1>3, QuietKeepsAnswers

\* A refusal answers nothing about a key.
LEMMA RefuseKeepsAnswers ==
  ASSUME Inv, AnswerInv, NEW s \in Session, Refuse(s)
  PROVE  AnswerInv'
<1>1. /\ EndTransaction(s) /\ UNCHANGED <<transactions, logs, answers>>
      /\ Elsewhere(s) /\ pc'[s] = "idle"
      /\ \A u \in Session \ {s} : answer'[u] = answer[u]
  BY DEF Refuse, Forget, tables, Elsewhere, Inv, TypeOK, FunctionsOK
<1>2. ItemsOK(s)' /\ ReplyOK(s)'
  BY <1>1 DEF ItemsOK, ReplyOK, Working
<1> QED
  BY <1>1, <1>2, EndKeepsAnswers

\* The stored answer is what the callers of the key are told.
LEMMA AnswerKeepsAnswers ==
  ASSUME Inv, AnswerInv, NEW s \in Session, AnswerStored(s)
  PROVE  AnswerInv'
<1>1. CASE Refuse(s)
  BY <1>1, RefuseKeepsAnswers
<1>2. CASE ~Refuse(s)
  <2>1. PICK e \in KeyEntries(req[s].key) :
          /\ e.ikHash = IkHash(req[s])
          /\ Finish(s, Stored(req[s], e)) /\ UNCHANGED tables
    BY <1>2 DEF AnswerStored
  <2>2. /\ EndTransaction(s) /\ UNCHANGED <<transactions, logs, answers>>
        /\ Elsewhere(s) /\ pc'[s] = "reply" /\ req'[s] = req[s]
        /\ answer'[s] = Stored(req[s], e)
        /\ \A u \in Session \ {s} : answer'[u] = answer[u]
    BY <2>1 DEF Finish, call, tables, Elsewhere, Inv, TypeOK, FunctionsOK
  <2>3. e \in logs /\ e.key = req[s].key
    BY <2>1 DEF KeyEntries
  <2>4. Stored(req[s], e) = Answered(e)
    <3>1. e.ikHash[1] = req[s].kind
      BY <2>1 DEF IkHash
    <3> QED
      BY <2>1, <3>1 DEF Stored, Answered
  <2>5. ReplyOK(s)'
    <3>1. Answered(e)' = Answered(e) /\ e \in logs'
      BY <2>2, <2>3 DEF Answered
    <3> QED
      BY <2>2, <2>3, <2>4, <3>1 DEF ReplyOK, ToldOK
  <2>6. ItemsOK(s)'
    BY <2>2 DEF ItemsOK, Working
  <2> QED
    BY <2>2, <2>5, <2>6, EndKeepsAnswers
<1> QED
  BY <1>1, <1>2

\* A call is at its first item when it enters, a single commit at its only one.
LEMMA EnterItems ==
  ASSUME NEW s \in Session, NEW q \in Request, req'[s] = q, pc'[s] = EntryPoint(q),
         items'[s] = q.items, item'[s] = FirstItem(q)
  PROVE  ItemsOK(s)' /\ ReplyOK(s)' /\ pc'[s] # "append"
<1>1. FirstItem(q) \in {0, 1} /\ EntryPoint(q) \notin {"append", "reply"}
  BY DEF FirstItem, EntryPoint
<1>2. q.kind = "commit" => Len(q.items) = 1
  BY RequestAssumption
<1> QED
  BY <1>1, <1>2 DEF ItemsOK, ReplyOK

\* A call that loses the race for its key goes back to ask the log.
LEMMA ContendKeepsAnswers ==
  ASSUME Inv, AnswerInv, NEW s \in Session, Contend(s)
  PROVE  AnswerInv'
<1>1. CASE Refuse(s)
  BY <1>1, RefuseKeepsAnswers
<1>2. CASE ~Refuse(s)
  <2>1. /\ EndTransaction(s) /\ Enter(s, req[s])
        /\ UNCHANGED <<tables, req, answer, begun, answers>> /\ pc[s] # "idle"
    BY <1>2 DEF Contend
  <2>2. /\ UNCHANGED <<transactions, logs, answers, answer>> /\ req[s] \in Request
        /\ Elsewhere(s) /\ req'[s] = req[s] /\ pc'[s] = EntryPoint(req[s])
        /\ items'[s] = req[s].items /\ item'[s] = FirstItem(req[s])
    BY <2>1 DEF tables, Enter, Elsewhere, Inv, TypeOK, FunctionsOK, SessionOK, CallOK
  <2> QED
    BY <2>1, <2>2, EnterItems, EndKeepsAnswers
<1> QED
  BY <1>1, <1>2

\* A call that starts has not been answered.
LEMMA BeginKeepsAnswers ==
  ASSUME Inv, LogInv, AnswerInv, NEW s \in Session, NEW q \in Request, Begin(s, q)
  PROVE  AnswerInv'
<1> USE DEF tables, locks, writes, Inv, TypeOK, FunctionsOK
<1>1. /\ UNCHANGED <<transactions, logs, answers, answer, tip, newTxs, newLogs, txLock,
                     before, posts>>
      /\ pc[s] = "idle"
  BY DEF Begin
<1>2. /\ Elsewhere(s) /\ req'[s] = q /\ pc'[s] = EntryPoint(q)
      /\ items'[s] = q.items /\ item'[s] = FirstItem(q)
  BY DEF Begin, Enter, Elsewhere
<1>3. newTxs[s] = {} /\ newLogs[s] = {}
  BY <1>1, OutsideNothingNew DEF Holding, Working
<1>4. CallerOK(s)'
  BY <1>1, <1>2, <1>3, EnterItems, NothingNew DEF CallerOK
<1>5. \A u \in Session \ {s} : Same(u)
  BY <1>1, <1>2 DEF Same, Elsewhere
<1> QED
  BY <1>1, <1>4, <1>5, QuietKeepsAnswers

\* A statement between two writes of the call.
LEMMA MiddleKeepsAnswers ==
  ASSUME AnswerInv, NEW s \in Session, Elsewhere(s),
         \A u \in Session \ {s} : /\ before'[u] = before[u] /\ posts'[u] = posts[u]
                                  /\ tip'[u] = tip[u] /\ txLock'[u] = txLock[u],
         UNCHANGED <<transactions, logs, answers, answer, newTxs, newLogs>>,
         req'[s] = req[s], pc[s] # "append", pc'[s] \notin {"append", "reply"},
         pc'[s] \in Working =>
           \/ pc[s] \in Working /\ items'[s] = items[s] /\ item'[s] = item[s]
           \/ pc[s] \in Working /\ items'[s] = items[s] /\ item'[s] = 1
           \/ req[s].kind # "commit" /\ item'[s] = 1
  PROVE  AnswerInv'
<1>1. \A u \in Session \ {s} : Same(u)
  BY DEF Same, Elsewhere
<1>2. CallerOK(s)
  BY DEF AnswerInv
<1>3. NewOK(s)'
  BY <1>2 DEF CallerOK, NewOK, Logged, BatchTag, IkHash
<1>4. ItemsOK(s)' /\ ReplyOK(s)'
  BY <1>2 DEF CallerOK, ItemsOK, ReplyOK
<1> QED
  BY <1>1, <1>3, <1>4, QuietKeepsAnswers DEF CallerOK

\* The lookup, the rows, the checks, the update, the ids, the original of a
\* reversal: nothing is written to the log or the transactions.
LEMMA RowsKeepAnswers ==
  ASSUME Inv, AnswerInv, NEW s \in Session,
         \/ \E r \in Row : MaterialiseRow(s, r) \/ LockRow(s, r)
         \/ ReadClosed(s)
  PROVE  AnswerInv'
<1> USE DEF tables, locks, writes, call, history, Inv, TypeOK, FunctionsOK
<1>1. /\ UNCHANGED <<transactions, logs, answers, answer, newTxs, newLogs, tip, txLock,
                     req, items, posts>>
      /\ pc[s] \in {"materialise", "lock", "readClosed"}
      /\ \A u \in Session \ {s} : before'[u] = before[u]
  BY DEF MaterialiseRow, LockRow, ReadClosed
<1>2. /\ \A u \in Session \ {s} : pc'[u] = pc[u] /\ item'[u] = item[u]
      /\ pc'[s] \in {"materialise", "lock", "readClosed", "apply"}
      /\ item'[s] = item[s] \/ item'[s] = 1
  <2>1. ASSUME NEW r \in Row, MaterialiseRow(s, r)
        PROVE  /\ \A u \in Session \ {s} : pc'[u] = pc[u] /\ item'[u] = item[u]
               /\ pc'[s] \in {"materialise", "lock", "readClosed", "apply"}
               /\ item'[s] = item[s]
    BY <2>1 DEF MaterialiseRow
  <2>2. ASSUME NEW r \in Row, LockRow(s, r)
        PROVE  /\ \A u \in Session \ {s} : pc'[u] = pc[u] /\ item'[u] = item[u]
               /\ pc'[s] \in {"materialise", "lock", "readClosed", "apply"}
               /\ item'[s] = item[s] \/ item'[s] = 1
    BY <2>2 DEF LockRow
  <2>3. CASE ReadClosed(s)
    BY <2>3 DEF ReadClosed
  <2> QED
    BY <2>1, <2>2, <2>3
<1>3. Elsewhere(s)
  BY <1>1, <1>2 DEF Elsewhere
<1>4. pc[s] \in Working
  BY <1>1 DEF Working
<1> QED
  BY <1>1, <1>2, <1>3, <1>4, MiddleKeepsAnswers

\* The lookup of the key, with nothing found, answers nothing.
LEMMA FindKeepsAnswers ==
  ASSUME Inv, AnswerInv, NEW s \in Session, Find(s)
  PROVE  AnswerInv'
<1> USE DEF tables, locks, writes, call, history, Inv, TypeOK, FunctionsOK
<1>1. CASE AnswerStored(s)
  BY <1>1, AnswerKeepsAnswers
<1>2. CASE ~AnswerStored(s)
  <2>1. /\ UNCHANGED <<transactions, logs, answers, answer, newTxs, newLogs, tip, txLock,
                       req, items, item, posts, before>>
        /\ pc[s] = "find" /\ pc' = [pc EXCEPT ![s] = "materialise"]
    BY <1>2 DEF Find
  <2>2. Elsewhere(s) /\ pc'[s] = "materialise" /\ pc[s] \in Working
    BY <2>1 DEF Elsewhere, Working
  <2> QED
    BY <2>1, <2>2, MiddleKeepsAnswers
<1> QED
  BY <1>1, <1>2

\* Checking and updating the rows answers nothing.
LEMMA ApplyKeepsAnswers ==
  ASSUME Inv, AnswerInv, NEW s \in Session, Apply(s) \/ Allocate(s)
  PROVE  AnswerInv'
<1> USE DEF tables, locks, writes, call, history, Inv, TypeOK, FunctionsOK
<1>1. CASE Refuse(s)
  BY <1>1, RefuseKeepsAnswers
<1>2. CASE ~Refuse(s)
  <2>1. /\ UNCHANGED <<transactions, logs, answers, answer, newTxs, newLogs, txLock, req,
                       items, item, before>>
        /\ pc[s] \in {"apply", "allocate"}
        /\ pc' \in {[pc EXCEPT ![s] = "allocate"], [pc EXCEPT ![s] = "insert"]}
        /\ \A u \in Session \ {s} : posts'[u] = posts[u] /\ tip'[u] = tip[u]
    BY <1>2 DEF Apply, Allocate
  <2>2. Elsewhere(s) /\ pc'[s] \in {"allocate", "insert"} /\ pc[s] \in Working
    BY <2>1 DEF Elsewhere, Working
  <2> QED
    BY <2>1, <2>2, MiddleKeepsAnswers
<1> QED
  BY <1>1, <1>2

\* Locking the transaction to reverse answers nothing.
LEMMA LockTransactionKeepsAnswers ==
  ASSUME Inv, AnswerInv, NEW s \in Session, LockTransaction(s)
  PROVE  AnswerInv'
<1> USE DEF tables, locks, writes, call, history, Inv, TypeOK, FunctionsOK
<1>1. CASE Refuse(s)
  BY <1>1, RefuseKeepsAnswers
<1>2. CASE ~Refuse(s)
  <2>1. /\ UNCHANGED <<transactions, logs, answers, answer, newTxs, newLogs, tip, req, item,
                       before, posts>>
        /\ pc[s] = "lockTx" /\ pc' = [pc EXCEPT ![s] = "materialise"]
        /\ \A u \in Session \ {s} : items'[u] = items[u] /\ txLock'[u] = txLock[u]
    BY <1>2 DEF LockTransaction
  <2>2. /\ Elsewhere(s) /\ pc'[s] = "materialise"
        /\ req[s].kind # "commit" /\ item'[s] = 1
    BY <2>1 DEF Elsewhere, SessionOK, CallOK
  <2> QED
    BY <2>1, <2>2, MiddleKeepsAnswers
<1> QED
  BY <1>1, <1>2

\* The steps of a closure answer nothing about a key.
LEMMA CloseKeepsAnswers ==
  ASSUME Inv, AnswerInv, NEW s \in Session,
         CloseRead(s) \/ CloseCheck(s) \/ \E r \in Row : CloseLock(s, r)
  PROVE  AnswerInv'
<1> USE DEF tables, locks, writes, call, history, Inv, TypeOK, FunctionsOK
<1>1. CASE Refuse(s)
  BY <1>1, RefuseKeepsAnswers
<1>2. CASE ~Refuse(s)
  <2>1. /\ UNCHANGED <<transactions, logs, answers, answer, newTxs, newLogs, tip, txLock,
                       req, items, item, posts>>
        /\ pc[s] \in {"closeRead", "closeLock"}
        /\ pc' \in {pc, [pc EXCEPT ![s] = "closeLock"], [pc EXCEPT ![s] = "closeWrite"]}
        /\ \A u \in Session \ {s} : before'[u] = before[u]
    BY <1>2 DEF CloseRead, CloseCheck, CloseLock
  <2>2. Elsewhere(s) /\ pc'[s] \in {"closeRead", "closeLock", "closeWrite"}
    BY <2>1 DEF Elsewhere
  <2> QED
    BY <2>1, <2>2, MiddleKeepsAnswers DEF Working
<1> QED
  BY <1>1, <1>2

\* A close has no key.
LEMMA CloseWriteKeepsAnswers ==
  ASSUME Inv, AnswerInv, NEW s \in Session, CloseWrite(s)
  PROVE  AnswerInv'
<1>1. /\ EndTransaction(s) /\ UNCHANGED <<transactions, logs, answers>>
      /\ Elsewhere(s) /\ pc'[s] = "reply" /\ req'[s] = req[s] /\ pc[s] = "closeWrite"
      /\ \A u \in Session \ {s} : answer'[u] = answer[u]
  BY DEF CloseWrite, Finish, call, Elsewhere, Inv, TypeOK, FunctionsOK
<1>2. req[s].key = NoKey
  BY <1>1, RequestAssumption DEF Inv, SessionOK, CallOK
<1>3. ItemsOK(s)' /\ ReplyOK(s)'
  BY <1>1, <1>2 DEF ItemsOK, ReplyOK, Working
<1> QED
  BY <1>1, <1>3, EndKeepsAnswers

\* A step that leaves the log and the answers alone keeps the invariant.
LEMMA StillKeepsAnswers ==
  ASSUME AnswerInv,
         UNCHANGED <<transactions, logs, locks, writes, call, pc, before, posts, answer, answers>>
  PROVE  AnswerInv'
<1> USE DEF locks, writes, call
<1>1. AnswersStay
  BY QuietSettles
<1>2. (\A e \in logs : KeyedOK(e))' /\ (\A t \in transactions : TaggedOK(t))'
  BY DEF AnswerInv, KeyedOK, TaggedOK
<1>3. \A x \in answers' : ToldOK(x.key, x.ids)'
  BY <1>1, ToldStays DEF AnswerInv
<1>4. \A u \in Session : CallerOK(u)'
  BY <1>1, SameCaller DEF AnswerInv, Same
<1> QED
  BY <1>2, <1>3, <1>4 DEF AnswerInv

\* The caller learns the answer.
LEMMA ReplyKeepsAnswers ==
  ASSUME Inv, LogInv, AnswerInv, NEW s \in Session, Reply(s)
  PROVE  AnswerInv'
<1> USE DEF tables, locks, writes, Inv, TypeOK, FunctionsOK
<1>1. /\ UNCHANGED <<transactions, logs, newTxs, newLogs, tip, txLock, before, posts>>
      /\ pc[s] = "reply" /\ Forget(s)
  BY DEF Reply
<1>2. pc'[s] = "idle" /\ \A u \in Session \ {s} : Same(u) /\ answer'[u] = answer[u]
  BY <1>1 DEF Forget, Same
<1>3. newTxs[s] = {} /\ newLogs[s] = {}
  BY <1>1, OutsideNothingNew DEF Holding, Working
<1>4. CallerOK(s)'
  BY <1>1, <1>2, <1>3, NothingNew DEF CallerOK, ItemsOK, ReplyOK, Working
<1>5. ASSUME NEW x \in answers' PROVE x \in answers \/ ToldOK(x.key, x.ids)
  <2>1. CASE req[s].key = NoKey
    BY <2>1, <1>5 DEF Reply
  <2>2. CASE req[s].key # NoKey
    <3>1. ToldOK(req[s].key, answer[s])
      BY <1>1, <2>2 DEF AnswerInv, CallerOK, ReplyOK
    <3>2. x \in answers \/ (x.key = req[s].key /\ x.ids = answer[s])
      BY <2>2, <1>5 DEF Reply
    <3> QED
      BY <3>1, <3>2
  <2> QED
    BY <2>1, <2>2
<1> QED
  BY <1>1, <1>2, <1>4, <1>5, QuietKeepsAnswers

\* insertTransaction stores the tag of the call.
LEMMA InsertKeepsAnswers ==
  ASSUME Inv, LogInv, AnswerInv, NEW s \in Session, InsertTransaction(s)
  PROVE  AnswerInv'
<1> USE DEF tables, locks, writes, call, history, Inv, TypeOK, FunctionsOK
<1>1. CASE Refuse(s)
  BY <1>1, RefuseKeepsAnswers
<1>2. CASE ~Refuse(s)
  <2>1. /\ UNCHANGED <<transactions, logs, answers, answer, newLogs, tip, txLock, req,
                       items, item, before, posts>>
        /\ newTxs' = [newTxs EXCEPT ![s] = @ \cup {NewTransaction(s)}]
        /\ pc[s] = "insert" /\ pc' = [pc EXCEPT ![s] = "append"]
    BY <1>2 DEF InsertTransaction
  <2>2. /\ newTxs'[s] = newTxs[s] \cup {NewTransaction(s)} /\ pc'[s] = "append"
        /\ newLogs'[s] = newLogs[s] /\ req'[s] = req[s]
        /\ items'[s] = items[s] /\ item'[s] = item[s]
    BY <2>1
  <2>3. \A u \in Session \ {s} : Same(u)
    BY <2>1 DEF Same
  <2>4. NewTransaction(s)' = NewTransaction(s) /\ NewTransaction(s).tag = BatchTag(req[s])
    <3>1. NewTransaction(s).tag = BatchTag(req[s])
      BY DEF NewTransaction
    <3>2. posts'[s] = posts[s] /\ tip'[s] = tip[s] /\ before'[s] = before[s]
      BY <2>1
    <3>3. NewTransaction(s)' = NewTransaction(s)
      BY <2>2, <3>2 DEF NewTransaction, PostCommitVolumes, Asked, BatchTag, IkHash
    <3> QED
      BY <3>1, <3>3
  <2>5. CallerOK(s)
    BY DEF AnswerInv
  <2>6. NewOK(s)'
    <3>1. newTxs[s] = Logged(newLogs[s]) /\ \A t \in newTxs[s] : t.tag = BatchTag(req[s])
      BY <2>1, <2>5 DEF CallerOK, NewOK
    <3>2. Logged(newLogs[s])' = Logged(newLogs[s]) /\ BatchTag(req[s])' = BatchTag(req[s])
      BY <2>2 DEF Logged, BatchTag, IkHash
    <3>3. \A t \in newTxs'[s] : t.tag = BatchTag(req[s])
      BY <2>2, <2>4, <3>1
    <3> QED
      BY <2>1, <2>2, <2>4, <2>5, <3>1, <3>2, <3>3 DEF CallerOK, NewOK, IkHash
  <2>7. ItemsOK(s)' /\ ReplyOK(s)'
    BY <2>1, <2>2, <2>5 DEF CallerOK, ItemsOK, ReplyOK, Working
  <2> QED
    BY <2>1, <2>3, <2>6, <2>7, QuietKeepsAnswers DEF CallerOK
<1> QED
  BY <1>1, <1>2

\* The next entry is in nobody's log yet.
LEMMA EntryIsNew ==
  ASSUME Inv, LogInv, NEW s \in Session, pc[s] = "append"
  PROVE  NewEntry(s) \notin logs
<1>1. chainLock = s /\ tip[s].lastLog \in Nat
  BY DEF Inv, SessionOK, ChainOK, CallOK
<1>2. tip[s].lastLog > 0 /\ {e.id : e \in LogOf(s)} = 1..(tip[s].lastLog - 1)
  BY <1>1 DEF LogInv, BooksOK, Books, Chained
<1>3. ASSUME NEW e \in logs PROVE e.id # tip[s].lastLog
  <2>1. e.id \in 1..(tip[s].lastLog - 1)
    BY <1>2 DEF LogOf
  <2> QED
    BY <1>1, <2>1
<1> QED
  BY <1>3, EntryShape

\* appendLog puts the key on the first entry of the call.
LEMMA AppendKeepsAnswers ==
  ASSUME Inv, LogInv, AnswerInv, NEW s \in Session, AppendLog(s)
  PROVE  AnswerInv'
<1> USE DEF tables, locks, writes, call, history, Inv, TypeOK, FunctionsOK
<1>1. CASE KeyTaken(s)
  <2>1. /\ EndTransaction(s) /\ pc' = [pc EXCEPT ![s] = "race"]
        /\ UNCHANGED <<transactions, logs, req, items, item, answer, answers>>
    BY <1>1 DEF AppendLog
  <2>2. Elsewhere(s) /\ pc'[s] = "race"
    BY <2>1 DEF Elsewhere
  <2>3. ItemsOK(s)' /\ ReplyOK(s)'
    BY <2>2 DEF ItemsOK, ReplyOK, Working
  <2> QED
    BY <2>1, <2>2, <2>3, EndKeepsAnswers
<1>2. CASE ~KeyTaken(s)
  <2> DEFINE e == NewEntry(s)
  <2>1. /\ UNCHANGED <<transactions, logs, answers, answer, txLock, newTxs, req, items,
                       before, posts>>
        /\ newLogs' = [newLogs EXCEPT ![s] = @ \cup {e}]
        /\ tip' = [tip EXCEPT ![s].lastHash = e.hash]
        /\ pc[s] = "append"
    BY <1>2 DEF AppendLog
  <2>2. /\ \A u \in Session \ {s} : pc'[u] = pc[u] /\ item'[u] = item[u]
        /\ \/ pc'[s] = "commit" /\ item'[s] = item[s]
           \/ pc'[s] = "materialise"
    BY <1>2 DEF AppendLog
  <2>3. /\ newLogs'[s] = newLogs[s] \cup {e} /\ newTxs'[s] = newTxs[s]
        /\ req'[s] = req[s] /\ items'[s] = items[s]
        /\ \A u \in Session \ {s} : newLogs'[u] = newLogs[u] /\ tip'[u] = tip[u]
    BY <2>1
  <2>4. \A u \in Session \ {s} : Same(u)
    BY <2>1, <2>2, <2>3 DEF Same
  <2>5. /\ e.data.tx = NewTransaction(s) /\ e.key = EntryKey(s) /\ e \notin logs
        /\ e.key # NoKey => e.key = req[s].key /\ e.ikHash = IkHash(req[s])
    <3>1. e.ikHash = IF EntryKey(s) = NoKey THEN NoTag ELSE IkHash(req[s])
      BY DEF NewEntry
    <3>2. EntryKey(s) # NoKey => EntryKey(s) = req[s].key
      BY DEF EntryKey
    <3> QED
      BY <2>1, <3>1, <3>2, EntryShape, EntryIsNew
  <2>6. CallerOK(s) /\ ProgressOK(s) /\ item[s] \in 0..Len(items[s]) /\ item[s] # 0
        /\ Len(items[s]) \in Nat
    BY <2>1 DEF AnswerInv, LogInv, SessionOK, CallOK, Working
  <2> HIDE DEF e
  <2>7. item[s] = 1 => newLogs[s] = {} /\ EntryKey(s) = req[s].key
    BY <2>1, <2>6 DEF ProgressOK, Working, EntryKey
  <2>8. item[s] # 1 => newLogs[s] # {} /\ req[s].kind # "commit"
    <3>1. ASSUME item[s] # 1, req[s].kind = "commit" PROVE FALSE
      <4>1. Len(items[s]) = 1
        BY <2>1, <2>6, <3>1 DEF CallerOK, ItemsOK, Working
      <4> QED
        BY <2>6, <3>1, <4>1
    <3> QED
      BY <2>1, <2>6, <3>1 DEF CallerOK, ItemsOK, Working
  <2>9. NewOK(s)'
    <3>1. newTxs[s] = Logged(newLogs[s]) \cup {NewTransaction(s)}
      BY <2>1, <2>6 DEF CallerOK, NewOK
    <3>2. newTxs'[s] = Logged(newLogs[s])' /\ pc'[s] # "append"
      BY <2>2, <2>3, <2>5, <3>1 DEF Logged
    <3>3. BatchTag(req[s])' = BatchTag(req[s]) /\ IkHash(req[s])' = IkHash(req[s])
      BY <2>3 DEF BatchTag, IkHash
    <3>4. \A t \in newTxs'[s] : t.tag = BatchTag(req[s])
      BY <2>3, <2>6 DEF CallerOK, NewOK
    <3>5. \A f \in newLogs'[s] :
            f \notin logs /\ (f.key # NoKey => f.key = req[s].key /\ f.ikHash = IkHash(req[s]))
      BY <2>3, <2>5, <2>6 DEF CallerOK, NewOK
    <3>6. \E f \in newLogs'[s] : f.key = req[s].key
      <4>1. CASE item[s] = 1
        BY <2>3, <2>5, <2>7, <4>1
      <4>2. CASE item[s] # 1
        BY <2>3, <2>6, <2>8, <4>2 DEF CallerOK, NewOK
      <4> QED
        BY <4>1, <4>2
    <3>7. req[s].kind = "commit" => \A f, g \in newLogs'[s] : f = g
      BY <2>3, <2>7, <2>8
    <3>8. (newTxs[s] = Logged(newLogs[s]) \cup
                         (IF pc[s] = "append" THEN {NewTransaction(s)} ELSE {}))'
      BY <3>2
    <3>9. (\A t \in newTxs[s] : t.tag = BatchTag(req[s]))'
      BY <3>3, <3>4
    <3>10. (\A f \in newLogs[s] :
              /\ f \notin logs
              /\ f.key # NoKey => f.key = req[s].key /\ f.ikHash = IkHash(req[s]))'
      BY <2>1, <2>3, <3>3, <3>5
    <3> QED
      BY <2>3, <3>6, <3>7, <3>8, <3>9, <3>10 DEF NewOK
  <2>10. ItemsOK(s)' /\ ReplyOK(s)'
    BY <2>1, <2>2, <2>3, <2>6 DEF CallerOK, ItemsOK, ReplyOK, Working
  <2> QED
    BY <2>1, <2>4, <2>9, <2>10, QuietKeepsAnswers DEF CallerOK
<1> QED
  BY <1>1, <1>2

\* A batch under a key has no earlier entry and no earlier transaction with its
\* hash: one would have its key.
LEMMA NoRival ==
  ASSUME NoTwinBatches, Inv, LogInv, AnswerInv, NEW s \in Session, pc[s] = "commit",
         req[s].kind = "batch", req[s].key # NoKey
  PROVE  /\ \A e \in logs : e.key # NoKey => e.ikHash # IkHash(req[s])
         /\ \A t \in transactions : t.tag # IkHash(req[s])
<1>1. /\ req[s] \in Request /\ chainLock = s /\ newLogs[s] # {} /\ NewOK(s)
      /\ UniqueKeys(LogOf(s))
  BY DEF Inv, SessionOK, CallOK, ChainOK, LogInv, ProgressOK, BooksOK, Books, AnswerInv, CallerOK
<1>2. PICK f \in newLogs[s] : f.key = req[s].key /\ f \notin logs
  BY <1>1 DEF NewOK
<1>3. ASSUME NEW e \in logs, e.key # NoKey, e.ikHash = IkHash(req[s]) PROVE FALSE
  <2>1. PICK q \in Request :
          q.kind \in {"commit", "batch"} /\ q.key = e.key /\ e.ikHash = IkHash(q)
    BY <1>3 DEF AnswerInv, KeyedOK
  <2>2. q.kind = "batch" /\ q.items = req[s].items
    BY <1>3, <2>1 DEF IkHash
  <2>3. q.key = req[s].key
    BY <1>1, <1>3, <2>1, <2>2 DEF NoTwinBatches
  <2>4. e = f
    BY <1>1, <1>2, <1>3, <2>1, <2>3 DEF UniqueKeys, LogOf
  <2> QED
    BY <1>2, <2>4
<1>4. ASSUME NEW t \in transactions, t.tag = IkHash(req[s]) PROVE FALSE
  <2>1. t.tag # NoTag
    BY <1>1, <1>4, TagAssumption DEF IkHash
  <2>2. PICK e \in logs : e.key # NoKey /\ e.ikHash = t.tag
    BY <2>1 DEF AnswerInv, TaggedOK
  <2> QED
    BY <1>3, <1>4, <2>2
<1> QED
  BY <1>3, <1>4

\* COMMIT publishes one call's transactions: what other callers were told does
\* not change, and the caller is told what a replay will be told.
LEMMA CommitKeepsAnswers ==
  ASSUME NoTwinBatches, Inv, LogInv, AnswerInv, NEW s \in Session, CommitTx(s)
  PROVE  AnswerInv'
<1> USE DEF Inv, TypeOK, FunctionsOK
<1>1. CASE Refuse(s)
  BY <1>1, RefuseKeepsAnswers
<1>2. CASE ~Refuse(s)
  <2> DEFINE q == req[s]
             ids == {t.id : t \in newTxs[s]}
  <2>1. /\ pc[s] = "commit" /\ transactions' = transactions \cup newTxs[s]
        /\ logs' = logs \cup newLogs[s] /\ Finish(s, ids)
    BY <1>2 DEF CommitTx
  <2>2. /\ EndTransaction(s) /\ Elsewhere(s) /\ pc'[s] = "reply" /\ req'[s] = q
        /\ answer'[s] = ids /\ answers' = answers
        /\ \A u \in Session \ {s} : answer'[u] = answer[u]
    BY <2>1 DEF Finish, call, Elsewhere
  <2>3. newTxs'[s] = {} /\ newLogs'[s] = {} /\ \A u \in Session \ {s} : Same(u)
    BY <2>2, EndFacts DEF Same, Elsewhere, EndTransaction
  <2>4. /\ q \in Request /\ chainLock = s /\ newLogs[s] # {} /\ NewOK(s)
        /\ newTxs[s] = Logged(newLogs[s])
    <3>1. q \in Request /\ chainLock = s
      BY <2>1 DEF SessionOK, CallOK, ChainOK
    <3>2. newLogs[s] # {} /\ NewOK(s)
      BY <2>1 DEF LogInv, ProgressOK, AnswerInv, CallerOK
    <3>3. newTxs[s] = Logged(newLogs[s])
      BY <2>1, <3>2 DEF NewOK
    <3> QED
      BY <3>1, <3>2, <3>3
  <2>5. \A u \in Session \ {s} : newLogs[u] = {}
    BY <2>4 DEF SessionOK, ChainOK
  <2>6. /\ q.key # NoKey => q.kind \in {"commit", "batch"}
        /\ IkHash(q) # NoTag
    BY <2>4, RequestAssumption, TagAssumption DEF IkHash
  <2>7. AnswersStay
    <3> SUFFICES ASSUME NEW e \in logs, e.key # NoKey PROVE Answered(e)' = Answered(e)
      BY <2>1 DEF AnswersStay
    <3>1. PICK p \in Request : e.ikHash = IkHash(p)
      BY DEF AnswerInv, KeyedOK
    <3>2. e.ikHash # NoTag
      BY <3>1, TagAssumption DEF IkHash
    <3>3. \A t \in newTxs[s] : t.tag = BatchTag(q)
      BY <2>4 DEF NewOK
    <3>4. BatchTag(q) # e.ikHash
      BY <2>1, <3>2, NoRival DEF BatchTag
    <3>5. {u \in transactions' : u.tag = e.ikHash} = {u \in transactions : u.tag = e.ikHash}
      BY <2>1, <3>3, <3>4
    <3> QED
      BY <3>5 DEF Answered
  <2>8. ASSUME q.key # NoKey, NEW f \in newLogs[s], f.key = q.key
        PROVE  Answered(f)' = ids
    <3>1. f.ikHash = IkHash(q) /\ f.ikHash[1] = q.kind
      BY <2>4, <2>8 DEF NewOK, IkHash
    <3>2. CASE q.kind = "commit"
      <4>1. newLogs[s] = {f}
        BY <2>4, <2>8, <3>2 DEF NewOK
      <4>2. newTxs[s] = {f.data.tx}
        BY <2>4, <4>1 DEF Logged
      <4> QED
        BY <3>1, <3>2, <4>2 DEF Answered
    <3>3. CASE q.kind = "batch"
      <4>1. \A t \in newTxs[s] : t.tag = f.ikHash
        BY <2>4, <2>8, <3>1, <3>3 DEF NewOK, BatchTag
      <4>2. \A t \in transactions : t.tag # f.ikHash
        BY <2>1, <2>8, <3>1, <3>3, NoRival
      <4>3. {u \in transactions' : u.tag = f.ikHash} = newTxs[s]
        BY <2>1, <4>1, <4>2
      <4> QED
        BY <3>1, <3>3, <4>3 DEF Answered
    <3> QED
      BY <2>6, <2>8, <3>2, <3>3
  <2>9. ASSUME NEW e \in logs' PROVE KeyedOK(e)'
    <3>1. CASE e \in logs
      BY <3>1 DEF AnswerInv, KeyedOK
    <3>2. CASE e \in newLogs[s]
      <4>1. e.data.tx \in newTxs[s]
        BY <2>4, <3>2 DEF Logged
      <4>2. e.data.tx.tag = BatchTag(q)
        BY <2>4, <4>1 DEF NewOK
      <4>3. e.key # NoKey => e.key = q.key /\ e.ikHash = IkHash(q)
        BY <2>4, <3>2 DEF NewOK
      <4> QED
        BY <2>4, <2>6, <4>2, <4>3 DEF KeyedOK, BatchTag
    <3> QED
      BY <2>1, <2>9, <3>1, <3>2
  <2>10. ASSUME NEW t \in transactions' PROVE TaggedOK(t)'
    <3>1. CASE t \in transactions
      BY <2>1, <3>1 DEF AnswerInv, TaggedOK
    <3>2. CASE t \in newTxs[s]
      <4>1. t.tag = BatchTag(q)
        BY <2>4, <3>2 DEF NewOK
      <4>2. PICK f \in newLogs[s] : f.key = q.key
        BY <2>4 DEF NewOK
      <4>3. f.key # NoKey => f.ikHash = IkHash(q)
        BY <2>4 DEF NewOK
      <4> QED
        BY <2>1, <4>1, <4>2, <4>3 DEF TaggedOK, BatchTag
    <3> QED
      BY <2>1, <2>10, <3>1, <3>2
  <2>11. \A x \in answers' : ToldOK(x.key, x.ids)'
    BY <2>2, <2>7, ToldStays DEF AnswerInv
  <2>12. ReplyOK(s)'
    <3>1. PICK f \in newLogs[s] : f.key = q.key
      BY <2>4 DEF NewOK
    <3>2. q.key # NoKey => Answered(f)' = ids
      BY <2>8, <3>1
    <3>3. f \in logs'
      BY <2>1, <3>1
    <3> QED
      BY <2>2, <3>1, <3>2, <3>3 DEF ReplyOK, ToldOK
  <2>13. ASSUME NEW u \in Session PROVE CallerOK(u)'
    <3>1. CASE u = s
      BY <2>2, <2>3, <2>12, <3>1, NothingNew DEF CallerOK, ItemsOK, Working
    <3>2. CASE u # s
      BY <2>2, <2>3, <2>5, <2>7, <3>2, SameCaller DEF AnswerInv
    <3> QED
      BY <3>1, <3>2
  <2> QED
    BY <2>9, <2>10, <2>11, <2>13 DEF AnswerInv
<1> QED
  BY <1>1, <1>2

\* Every step of the system keeps the answers.
LEMMA StepAnswerInv ==
  ASSUME NoTwinBatches, Inv, LogInv, AnswerInv, [Next]_vars
  PROVE  AnswerInv'
<1>1. ASSUME NEW s \in Session, NEW q \in Request, Begin(s, q) PROVE AnswerInv'
  BY <1>1, BeginKeepsAnswers
<1>2. ASSUME NEW s \in Session, Step(s) PROVE AnswerInv'
  <2>1. CASE Find(s) \/ Race(s)
    BY <2>1, FindKeepsAnswers, AnswerKeepsAnswers DEF Race
  <2>2. CASE (\E r \in Row : MaterialiseRow(s, r) \/ LockRow(s, r)) \/ ReadClosed(s)
    BY <2>2, RowsKeepAnswers
  <2>3. CASE Apply(s) \/ Allocate(s) \/ InsertTransaction(s) \/ AppendLog(s)
    BY <2>3, ApplyKeepsAnswers, InsertKeepsAnswers, AppendKeepsAnswers
  <2>4. CASE CommitTx(s) \/ DryRun(s) \/ LockTransaction(s) \/ CloseWrite(s)
    BY <2>4, CommitKeepsAnswers, RefuseKeepsAnswers, LockTransactionKeepsAnswers,
       CloseWriteKeepsAnswers DEF DryRun
  <2>5. CASE Reply(s) \/ CloseRead(s) \/ CloseCheck(s) \/ \E r \in Row : CloseLock(s, r)
    BY <2>5, ReplyKeepsAnswers, CloseKeepsAnswers
  <2> QED
    BY <1>2, <2>1, <2>2, <2>3, <2>4, <2>5 DEF Step
<1>3. ASSUME NEW s \in Session, Crash(s) \/ Contend(s) PROVE AnswerInv'
  BY <1>3, RefuseKeepsAnswers, ContendKeepsAnswers DEF Crash
<1>4. CASE Operator
  BY <1>4, StillKeepsAnswers DEF Operator, SetAllowNegative, SetAllowPositive, Reopen, history
<1>5. CASE UNCHANGED vars
  BY <1>5, StillKeepsAnswers DEF vars, tables, history
<1> QED
  BY <1>1, <1>2, <1>3, <1>4, <1>5 DEF Next

\* Nobody has been answered at the start.
LEMMA InitAnswerInv == Init => AnswerInv
<1> SUFFICES ASSUME Init PROVE AnswerInv
  OBVIOUS
<1>1. \A s \in Session : pc[s] = "idle" /\ newTxs[s] = {} /\ newLogs[s] = {}
  BY DEF Init
<1>2. \A s \in Session : CallerOK(s)
  BY <1>1 DEF CallerOK, NewOK, ItemsOK, ReplyOK, Logged, Working
<1> QED
  BY <1>2 DEF AnswerInv, Init

\* Everyone who is told that a key succeeded is told the same transactions, and
\* they are in the ledger, however calls, replays, races and crashes interleave,
\* if no two keys carry the same batch (findByIdempotencyKey,
\* findBatchByIdempotencyKey, idempotencyRace, batchIdempotencyRace).
THEOREM AnswersAlwaysAgree ==
  ASSUME NoTwinBatches
  PROVE  Spec => []AnswersAgree
<1>1. Init => AnswerInv
  BY InitAnswerInv
<1>2. Inv /\ LogInv /\ AnswerInv /\ [Next]_vars => AnswerInv'
  BY StepAnswerInv
<1>3. LogInv /\ AnswerInv => AnswersAgree
  <2> SUFFICES ASSUME LogInv, AnswerInv PROVE AnswersAgree
    OBVIOUS
  <2>1. ASSUME NEW x \in answers PROVE x.ids # {} /\ x.ids \subseteq TxIds
    <3>1. PICK e \in logs : e.key = x.key /\ x.key # NoKey /\ x.ids = Answered(e)
      BY DEF AnswerInv, ToldOK
    <3>2. e.data.tx \in transactions
      BY DEF LogInv, Logged
    <3>3. PICK q \in Request :
            /\ q.kind \in {"commit", "batch"} /\ e.ikHash = IkHash(q)
            /\ q.kind = "batch" => e.data.tx.tag = e.ikHash
      BY <3>1 DEF AnswerInv, KeyedOK
    <3>4. e.ikHash[1] = q.kind
      BY <3>3 DEF IkHash
    <3>5. e.data.tx.id \in Answered(e)
      BY <3>2, <3>3, <3>4 DEF Answered
    <3>6. Answered(e) \subseteq TxIds
      BY <3>2 DEF Answered, TxIds
    <3> QED
      BY <3>1, <3>5, <3>6
  <2>2. ASSUME NEW x \in answers, NEW y \in answers, x.key = y.key PROVE x.ids = y.ids
    <3>1. PICK e \in logs : e.key = x.key /\ x.key # NoKey /\ x.ids = Answered(e)
      BY DEF AnswerInv, ToldOK
    <3>2. PICK f \in logs : f.key = y.key /\ y.ids = Answered(f)
      BY DEF AnswerInv, ToldOK
    <3>3. e = f
      BY <2>2, <3>1, <3>2 DEF LogInv, Books, UniqueKeys
    <3> QED
      BY <3>1, <3>2, <3>3
  <2> QED
    BY <2>1, <2>2 DEF AnswersAgree
<1> QED
  BY <1>1, <1>2, <1>3, InvHolds, LogInvHolds, PTL DEF Spec
-----------------------------------------------------------------------------
(* What a set of transactions adds up to on a row.                         *)

Touching(T, r) == {t \in T : r \in RowsOf(t.postings)}
Inputs(T, r) == [t \in T |-> VolumeUpdates(t.postings)[r].input]
Outputs(T, r) == [t \in T |-> VolumeUpdates(t.postings)[r].output]

\* v holds what the transactions of T moved on r.
Tallies(v, T, r) ==
  /\ v.input = SumOver(Inputs(Touching(T, r), r), Touching(T, r))
  /\ v.output = SumOver(Outputs(Touching(T, r), r), Touching(T, r))

\* The tally of a row as a sum over the logged transactions.
LEMMA TalliesIs ==
  \A v, T, r : Tallies(v, T, r) <=> <<v.input, v.output>> = Totals(T, r)
BY DEF Tallies, Totals, Touching, Inputs, Outputs

\* Finitely many transactions with plain amounts.
Recorded(T) == IsFiniteSet(T) /\ \A t \in T : Plain(t.postings)

\* Finitely many recorded transactions touch a row, each by natural amounts.
LEMMA RecordedNumbers ==
  ASSUME NEW T, Recorded(T), NEW r
  PROVE  /\ IsFiniteSet(Touching(T, r))
         /\ \A t \in Touching(T, r) : /\ VolumeUpdates(t.postings)[r] \in Delta
                                       /\ Inputs(Touching(T, r), r)[t] \in Nat
                                       /\ Outputs(Touching(T, r), r)[t] \in Nat
<1>1. IsFiniteSet(Touching(T, r))
  BY FS_Subset DEF Touching, Recorded
<1>2. ASSUME NEW t \in Touching(T, r)
      PROVE  VolumeUpdates(t.postings)[r] \in Delta
  <2>1. Movable(t.postings) /\ r \in RowsOf(t.postings)
    BY PlainMoves DEF Touching, Recorded
  <2> QED
    BY <2>1, UpdatesType
<1> QED
  BY <1>1, <1>2 DEF Inputs, Outputs, Delta

\* Transactions that do not touch a row do not count on it.
LEMMA TalliesElsewhere ==
  ASSUME NEW v, NEW T, NEW U, NEW r, \A t \in U : r \notin RowsOf(t.postings)
  PROVE  Tallies(v, T \cup U, r) <=> Tallies(v, T, r)
<1>1. Touching(T \cup U, r) = Touching(T, r)
  BY DEF Touching
<1> QED
  BY <1>1 DEF Tallies

\* An empty log tallies to nothing.
LEMMA TalliesNothing ==
  ASSUME NEW v, NEW T, NEW r, \A t \in T : r \notin RowsOf(t.postings)
  PROVE  Tallies(v, T, r) <=> v.input = 0 /\ v.output = 0
<1>1. Touching(T, r) = {}
  BY DEF Touching
<1> QED
  BY <1>1, SumEmpty DEF Tallies

\* One more transaction on the row adds its deltas.
LEMMA TalliesGrow ==
  ASSUME NEW v, NEW T, Recorded(T), NEW t, t \notin T, Plain(t.postings), NEW r,
         r \in RowsOf(t.postings), Tallies(v, T, r), NEW w,
         w.input = v.input + VolumeUpdates(t.postings)[r].input,
         w.output = v.output + VolumeUpdates(t.postings)[r].output
  PROVE  Tallies(w, T \cup {t}, r)
<1> DEFINE A == Touching(T, r)
           B == Touching(T \cup {t}, r)
<1>1. B = A \cup {t} /\ t \notin A
  BY DEF Touching
<1>2. Recorded(T \cup {t})
  BY FS_AddElement DEF Recorded
<1>3. IsFiniteSet(A) /\ \A u \in B : Inputs(B, r)[u] \in Int /\ Outputs(B, r)[u] \in Int
  BY <1>2, RecordedNumbers
<1>4. \A u \in A : /\ Inputs(A, r)[u] = Inputs(B, r)[u]
                   /\ Outputs(A, r)[u] = Outputs(B, r)[u]
  BY <1>1 DEF Inputs, Outputs
<1> HIDE DEF A, B
<1>5. /\ SumOver(Inputs(A, r), A) = SumOver(Inputs(B, r), A)
      /\ SumOver(Outputs(A, r), A) = SumOver(Outputs(B, r), A)
  BY <1>1, <1>3, <1>4, SumSame
<1>6. /\ SumOver(Inputs(B, r), A \cup {t}) = Inputs(B, r)[t] + SumOver(Inputs(B, r), A)
      /\ SumOver(Outputs(B, r), A \cup {t}) = Outputs(B, r)[t] + SumOver(Outputs(B, r), A)
  BY <1>1, <1>3, SumAdd
<1>7. /\ Inputs(B, r)[t] = VolumeUpdates(t.postings)[r].input
      /\ Outputs(B, r)[t] = VolumeUpdates(t.postings)[r].output
      /\ Inputs(B, r)[t] \in Int /\ Outputs(B, r)[t] \in Int
  BY <1>1, <1>3 DEF Inputs, Outputs
<1>8. SumOver(Inputs(B, r), A) \in Int /\ SumOver(Outputs(B, r), A) \in Int
  BY <1>1, <1>3, SumType
<1>9. v.input = SumOver(Inputs(A, r), A) /\ v.output = SumOver(Outputs(A, r), A)
  BY DEF Tallies, A
<1>10. w.input = SumOver(Inputs(B, r), B) /\ w.output = SumOver(Outputs(B, r), B)
  BY <1>1, <1>5, <1>6, <1>7, <1>8, <1>9
<1> QED
  BY <1>10 DEF Tallies, B

\* Volumes that are what the transactions moved sum to zero, asset by asset,
\* over any rows that include the ones they touch.
LEMMA TalliesConserve ==
  ASSUME NEW T, Recorded(T), NEW D, IsFiniteSet(D),
         \A t \in T : RowsOf(t.postings) \subseteq D,
         NEW vols, \A r \in D : Tallies(vols[r], T, r), NEW x
  PROVE  SumOver(Balances(vols, AssetRows(x, D)), AssetRows(x, D)) = 0
<1> DEFINE S == AssetRows(x, D)
           in(U, r) == SumOver(Inputs(Touching(U, r), r), Touching(U, r))
           out(U, r) == SumOver(Outputs(Touching(U, r), r), Touching(U, r))
           bal(U) == [r \in S |-> in(U, r) - out(U, r)]
           P == {U \in SUBSET T : SumOver(bal(U), S) = 0}
<1>0. IsFiniteSet(S) /\ S \subseteq D
  BY FS_Subset DEF AssetRows
<1>1. \A U \in SUBSET T : Recorded(U) /\ \A r : in(U, r) \in Int /\ out(U, r) \in Int
  <2> SUFFICES ASSUME NEW U \in SUBSET T
               PROVE  Recorded(U) /\ \A r : in(U, r) \in Int /\ out(U, r) \in Int
    OBVIOUS
  <2>1. Recorded(U)
    BY FS_Subset DEF Recorded
  <2>2. ASSUME NEW r PROVE in(U, r) \in Int /\ out(U, r) \in Int
    <3>1. /\ IsFiniteSet(Touching(U, r))
          /\ \A t \in Touching(U, r) : /\ Inputs(Touching(U, r), r)[t] \in Int
                                        /\ Outputs(Touching(U, r), r)[t] \in Int
      BY <2>1, RecordedNumbers
    <3> QED
      BY <3>1, SumType
  <2> QED
    BY <2>1, <2>2
<1>2. {} \in P
  <2>1. \A r : Touching({}, r) = {}
    BY DEF Touching
  <2>2. \A r \in S : bal({})[r] = 0
    BY <2>1, SumEmpty
  <2> HIDE DEF bal
  <2> QED
    BY <1>0, <2>2, SumZero
<1>3. ASSUME NEW U \in P, NEW t \in T \ U PROVE U \cup {t} \in P
  <2> DEFINE ups == VolumeUpdates(t.postings)
             R == AssetRows(x, RowsOf(t.postings))
             add == [r \in S |-> IF r \in R THEN Balance(ups[r]) ELSE 0]
  <2>1. /\ U \in SUBSET T /\ Recorded(U) /\ U \cup {t} \in SUBSET T
        /\ SumOver(bal(U), S) = 0
    BY <1>1, <1>3
  <2>2. Plain(t.postings) /\ Movable(t.postings) /\ RowsOf(t.postings) \subseteq D
    BY PlainMoves DEF Recorded
  <2>3. ups \in [RowsOf(t.postings) -> Delta]
    BY <2>2, UpdatesType
  <2>4. R \subseteq S /\ \A r \in S : r \in RowsOf(t.postings) <=> r \in R
    BY <2>2 DEF AssetRows
  <2>5. \A r \in R : ups[r].input \in Nat /\ ups[r].output \in Nat
    BY <2>3 DEF AssetRows, Delta
  <2>6. ASSUME NEW r \in S
        PROVE  bal(U \cup {t})[r] = bal(U)[r] + add[r] /\ bal(U)[r] \in Int /\ add[r] \in Int
    <3>1. bal(U)[r] = in(U, r) - out(U, r) /\ in(U, r) \in Int /\ out(U, r) \in Int
      BY <1>1, <2>1
    <3>2. bal(U \cup {t})[r] = in(U \cup {t}, r) - out(U \cup {t}, r)
      OBVIOUS
    <3>3. CASE r \in R
      <4> DEFINE v == [input |-> in(U, r), output |-> out(U, r)]
                 w == [input |-> in(U, r) + ups[r].input, output |-> out(U, r) + ups[r].output]
      <4>1. Tallies(v, U, r)
        BY DEF Tallies
      <4>2. Tallies(w, U \cup {t}, r)
        <5>1. t \notin U /\ r \in RowsOf(t.postings)
          BY <2>4, <3>3
        <5>2. w.input = v.input + ups[r].input /\ w.output = v.output + ups[r].output
          OBVIOUS
        <5> HIDE DEF v, w, in, out
        <5> QED
          BY <2>1, <2>2, <4>1, <5>1, <5>2, TalliesGrow
      <4>3. in(U \cup {t}, r) = in(U, r) + ups[r].input /\ out(U \cup {t}, r) = out(U, r) + ups[r].output
        BY <4>2 DEF Tallies
      <4>4. add[r] = ups[r].input - ups[r].output /\ ups[r].input \in Nat /\ ups[r].output \in Nat
        BY <2>5, <3>3 DEF Balance
      <4> HIDE DEF in, out, bal, add
      <4> QED
        BY <3>1, <3>2, <4>3, <4>4
    <3>4. CASE r \notin R
      <4>1. Touching(U \cup {t}, r) = Touching(U, r)
        BY <2>4, <3>4 DEF Touching
      <4>2. in(U \cup {t}, r) = in(U, r) /\ out(U \cup {t}, r) = out(U, r) /\ add[r] = 0
        BY <3>4, <4>1
      <4> HIDE DEF in, out, bal, add
      <4> QED
        BY <3>1, <3>2, <4>2
    <3> QED
      BY <3>3, <3>4
  <2>7. SumOver(add, S) = 0
    <3>1. \A r \in S : add[r] \in Int
      BY <2>6
    <3>2. \A r \in S \ R : add[r] = 0
      OBVIOUS
    <3>3. \A r \in R : add[r] = Balances(ups, R)[r] /\ Balances(ups, R)[r] \in Int
      BY <2>4, <2>5 DEF Balances, Balance
    <3>4. SumOver(Balances(ups, R), R) = 0
      BY <2>2, UpdatesConserve
    <3> HIDE DEF add
    <3>5. SumOver(add, S) = SumOver(add, R)
      BY <1>0, <2>4, <3>1, <3>2, SumPart
    <3>6. IsFiniteSet(R)
      BY <1>0, <2>4, FS_Subset
    <3>7. SumOver(add, R) = SumOver(Balances(ups, R), R)
      BY <3>3, <3>6, SumSame
    <3> QED
      BY <3>4, <3>5, <3>7
  <2>8. SumOver(bal(U \cup {t}), S) = SumOver(bal(U), S) + SumOver(add, S)
    <3> DEFINE new == bal(U \cup {t})
               old == bal(U)
    <3>1. \A r \in S : old[r] \in Int /\ add[r] \in Int /\ new[r] = old[r] + add[r]
      BY <2>6
    <3> HIDE DEF new, old, add, P, S
    <3>2. SumOver(new, S) = SumOver(old, S) + SumOver(add, S)
      BY <1>0, <3>1, SumPlus
    <3> QED
      BY <3>2 DEF new, old
  <2> QED
    BY <2>1, <2>7, <2>8
<1>4. T \in P
  <2>1. P \in SUBSET SUBSET T /\ IsFiniteSet(T)
    BY DEF Recorded
  <2> HIDE DEF P
  <2> QED
    BY <1>2, <1>3, <2>1, FiniteSetInduction
<1>5. \A r \in S : Balances(vols, S)[r] = bal(T)[r] /\ bal(T)[r] \in Int
  BY <1>0, <1>1 DEF Balances, Balance, Tallies
<1> HIDE DEF bal
<1>6. SumOver(Balances(vols, S), S) = SumOver(bal(T), S)
  BY <1>0, <1>5, SumSame
<1> QED
  BY <1>4, <1>6

-----------------------------------------------------------------------------
(* The volumes are the log replayed.  A session works on the ledger as its *)
(* COMMIT would leave it: the committed transactions and its own.  The     *)
(* rows it wrote hold what those moved, save the rows of an item whose     *)
(* update has run and whose transaction is not inserted yet; there the     *)
(* rows as read hold it.  Nobody can move the ground under it: the rows it *)
(* wrote are locked, and from its first transaction on so is the ledgers   *)
(* row.                                                                    *)

\* The volumes frozen on each transaction are the replay up to its id.
Frozen(T) ==
  \A t \in T : \A r \in RowsOf(t.postings) :
    Tallies(t.pcv[r], {u \in T : u.id <= t.id}, r)

\* The update has run and the transaction is not inserted yet.
Applied == {"allocate", "insert"}

\* The update of the item of s: the rows as read, and as written.
UpdateOK(s) ==
  /\ Plain(posts[s]) /\ RowsOf(posts[s]) = RowsOf(Asked(s))
  /\ RowsOf(posts[s]) \subseteq wrote[s]
  /\ \A r \in RowsOf(posts[s]) :
       /\ Tallies(before[s][r], TxsOf(s), r)
       /\ mine[s][r] = AddDelta(before[s][r], VolumeUpdates(posts[s])[r])

\* The rows of s that wait for a transaction.
Pending(s) == IF pc[s] \in Applied THEN RowsOf(posts[s]) ELSE {}

\* What s has written adds up.
WrittenOK(s) == \A r \in wrote[s] \ Pending(s) : Tallies(mine[s][r], TxsOf(s), r)

\* What s inserted, and what its call asks for.
InsertedOK(s) ==
  /\ Recorded(newTxs[s]) /\ IsFiniteSet(wrote[s])
  /\ \A t \in newTxs[s] : RowsOf(t.postings) \subseteq wrote[s]
  /\ Frozen(TxsOf(s))

AskedOK(s) == pc[s] \in Working => \A i \in DOMAIN items[s] : Valid(items[s][i].postings)

VolumesOK(s) ==
  /\ AskedOK(s) /\ InsertedOK(s) /\ WrittenOK(s)
  /\ pc[s] \in Applied => UpdateOK(s)

\* The committed tables.
TalliedOK ==
  /\ Recorded(transactions) /\ IsFiniteSet(rows)
  /\ \A t \in transactions : RowsOf(t.postings) \subseteq rows
  /\ \A r \in Row : Tallies(volumes[r], transactions, r)
  /\ Frozen(transactions)

\* The inductive invariant, on top of Inv and LogInv.
VolInv == TalliedOK /\ \A s \in Session : VolumesOK(s)

-----------------------------------------------------------------------------
(* A step leaves the other sessions alone.                                 *)

\* What a session has asked for and written.
SameRows(u) ==
  /\ pc'[u] = pc[u] /\ items'[u] = items[u] /\ item'[u] = item[u]
  /\ before'[u] = before[u] /\ posts'[u] = posts[u]
  /\ wrote'[u] = wrote[u] /\ mine'[u] = mine[u] /\ newTxs'[u] = newTxs[u]

\* A session keeps its part if nothing is committed.
LEMMA SameRowsKeep ==
  ASSUME NEW u \in Session, VolumesOK(u), SameRows(u), transactions' = transactions
  PROVE  VolumesOK(u)'
<1>1. TxsOf(u)' = TxsOf(u) /\ Asked(u)' = Asked(u) /\ Pending(u)' = Pending(u)
  BY DEF TxsOf, Asked, SameRows, Pending
<1>2. AskedOK(u)' /\ InsertedOK(u)' /\ WrittenOK(u)'
  BY <1>1 DEF VolumesOK, AskedOK, InsertedOK, WrittenOK, SameRows
<1>3. pc'[u] \in Applied => UpdateOK(u)'
  BY <1>1 DEF VolumesOK, UpdateOK, SameRows
<1> QED
  BY <1>2, <1>3 DEF VolumesOK

\* The committed tables keep theirs if no transaction is committed and no volume
\* moves, whatever rows are created.
LEMMA TablesKeep ==
  ASSUME TalliedOK, transactions' = transactions, rows \subseteq rows', IsFiniteSet(rows'),
         \A r \in Row : volumes'[r].input = volumes[r].input /\ volumes'[r].output = volumes[r].output
  PROVE  TalliedOK'
<1>1. \A r \in Row : Tallies(volumes'[r], transactions, r)
  BY DEF Tallies, TalliedOK
<1>2. \A t \in transactions : RowsOf(t.postings) \subseteq rows'
  BY DEF TalliedOK
<1> QED
  BY <1>1, <1>2 DEF TalliedOK

\* A session that has ended its transaction has nothing to answer for.
LEMMA EndedVolumes ==
  ASSUME NEW s \in Session, TalliedOK', wrote'[s] = {}, newTxs'[s] = {}, pc'[s] \notin Applied,
         AskedOK(s)'
  PROVE  VolumesOK(s)'
<1>1. TxsOf(s)' = transactions'
  BY DEF TxsOf
<1>2. Recorded(newTxs'[s]) /\ IsFiniteSet(wrote'[s])
  BY FS_EmptySet DEF Recorded
<1>3. InsertedOK(s)'
  BY <1>1, <1>2 DEF InsertedOK, TalliedOK
<1>4. WrittenOK(s)'
  BY DEF WrittenOK
<1> QED
  BY <1>3, <1>4 DEF VolumesOK

\* Rolled back, or ended with nothing published.
LEMMA EndKeepsVolumes ==
  ASSUME Inv, VolInv, NEW s \in Session, EndTransaction(s), Elsewhere(s),
         UNCHANGED <<rows, volumes, transactions>>, pc'[s] \notin Applied, AskedOK(s)'
  PROVE  VolInv'
<1>1. TalliedOK'
  BY TablesKeep DEF VolInv, TalliedOK
<1>2. ASSUME NEW u \in Session PROVE VolumesOK(u)'
  <2>1. CASE u = s
    BY <1>1, <2>1, EndFacts, EndedVolumes
  <2>2. CASE u # s
    <3>1. SameRows(u)
      BY <2>2, EndFacts DEF SameRows, Elsewhere
    <3> QED
      BY <3>1, SameRowsKeep DEF VolInv
  <2> QED
    BY <2>1, <2>2
<1> QED
  BY <1>1, <1>2 DEF VolInv

\* A step inside a transaction.
LEMMA InsideKeepsVolumes ==
  ASSUME VolInv, NEW s \in Session, \A u \in Session \ {s} : SameRows(u),
         UNCHANGED <<rows, volumes, transactions>>, VolumesOK(s)'
  PROVE  VolInv'
<1>1. TalliedOK'
  BY TablesKeep DEF VolInv, TalliedOK
<1>2. ASSUME NEW u \in Session \ {s} PROVE VolumesOK(u)'
  BY SameRowsKeep DEF VolInv
<1> QED
  BY <1>1, <1>2 DEF VolInv

\* A step that writes nothing.
LEMMA QuietKeepsVolumes ==
  ASSUME VolInv, NEW s \in Session, Elsewhere(s),
         \A u \in Session \ {s} : before'[u] = before[u] /\ posts'[u] = posts[u],
         UNCHANGED <<rows, volumes, transactions, wrote, mine, newTxs>>,
         pc[s] \notin Applied, pc'[s] \notin Applied, AskedOK(s)'
  PROVE  VolInv'
<1>1. \A u \in Session \ {s} : SameRows(u)
  BY DEF SameRows, Elsewhere
<1>2. VolumesOK(s)'
  <2>1. TxsOf(s)' = TxsOf(s) /\ Pending(s)' = {} /\ Pending(s) = {}
    BY DEF TxsOf, Pending
  <2>2. InsertedOK(s) /\ WrittenOK(s)
    BY DEF VolInv, VolumesOK
  <2>3. InsertedOK(s)' /\ WrittenOK(s)'
    BY <2>1, <2>2 DEF InsertedOK, WrittenOK
  <2> QED
    BY <2>3 DEF VolumesOK
<1> QED
  BY <1>1, <1>2, InsideKeepsVolumes

-----------------------------------------------------------------------------
(* The actions.                                                            *)

\* A refused call gives back its rows; the committed ones still match the log.
LEMMA RefuseKeepsVolumes ==
  ASSUME Inv, VolInv, NEW s \in Session, Refuse(s)
  PROVE  VolInv'
<1>1. EndTransaction(s) /\ UNCHANGED <<rows, volumes, transactions>>
  BY DEF Refuse, tables
<1>2. Elsewhere(s) /\ pc'[s] = "idle"
  BY DEF Refuse, Forget, Elsewhere, Inv, TypeOK, FunctionsOK
<1>3. AskedOK(s)'
  BY <1>2 DEF AskedOK, Working
<1> QED
  BY <1>1, <1>2, <1>3, EndKeepsVolumes DEF Applied

\* A result that publishes nothing.
LEMMA FinishKeepsVolumes ==
  ASSUME Inv, VolInv, NEW s \in Session, NEW ids, Finish(s, ids),
         UNCHANGED <<rows, volumes, transactions>>
  PROVE  VolInv'
<1>1. EndTransaction(s) /\ Elsewhere(s) /\ pc'[s] = "reply"
  BY DEF Finish, call, Elsewhere, Inv, TypeOK
<1>2. AskedOK(s)'
  BY <1>1 DEF AskedOK, Working
<1> QED
  BY <1>1, <1>2, EndKeepsVolumes DEF Applied

\* A call answered from the log has no row.
LEMMA AnswerKeepsVolumes ==
  ASSUME Inv, VolInv, NEW s \in Session, AnswerStored(s)
  PROVE  VolInv'
<1>1. PICK e \in KeyEntries(req[s].key) :
        \/ Refuse(s)
        \/ Finish(s, Stored(req[s], e)) /\ UNCHANGED tables
  BY DEF AnswerStored
<1> QED
  BY <1>1, RefuseKeepsVolumes, FinishKeepsVolumes DEF tables

\* A call that starts as a commit has been validated.
LEMMA EntryAsked ==
  ASSUME NEW q \in Request, EntryPoint(q) \in Working
  PROVE  \A i \in DOMAIN q.items : Valid(q.items[i].postings)
<1>1. q.kind \in {"commit", "batch"}
  BY RequestAssumption DEF EntryPoint, Working
<1> QED
  BY <1>1, RequestRows

\* An attempt starts again.
LEMMA ContendKeepsVolumes ==
  ASSUME Inv, VolInv, NEW s \in Session, Contend(s)
  PROVE  VolInv'
<1>1. CASE Refuse(s)
  BY <1>1, RefuseKeepsVolumes
<1>2. CASE EndTransaction(s) /\ Enter(s, req[s]) /\ UNCHANGED <<tables, req>>
  <2>1. /\ UNCHANGED <<rows, volumes, transactions>> /\ req[s] \in Request
        /\ Elsewhere(s) /\ pc'[s] = EntryPoint(req[s]) /\ items'[s] = req[s].items
    BY <1>2 DEF tables, Enter, Elsewhere, Contend, Inv, TypeOK, FunctionsOK, SessionOK, CallOK
  <2>2. pc'[s] \in {"find", "materialise", "lockTx", "closeRead"}
    BY <2>1, EntryFacts
  <2>3. AskedOK(s)'
    BY <2>1, EntryAsked DEF AskedOK
  <2> QED
    BY <1>2, <2>1, <2>2, <2>3, EndKeepsVolumes DEF Applied
<1> QED
  BY <1>1, <1>2 DEF Contend

\* A call that starts has no row.
LEMMA BeginKeepsVolumes ==
  ASSUME Inv, VolInv, NEW s \in Session, NEW q \in Request, Begin(s, q)
  PROVE  VolInv'
<1>1. /\ UNCHANGED <<rows, volumes, transactions, wrote, mine, newTxs, before, posts>>
      /\ pc[s] = "idle"
  BY DEF Begin, tables, locks, writes
<1>2. Elsewhere(s) /\ pc'[s] = EntryPoint(q) /\ items'[s] = q.items
  BY DEF Begin, Enter, Elsewhere, Inv, TypeOK, FunctionsOK
<1>3. pc'[s] \in {"find", "materialise", "lockTx", "closeRead"}
  BY <1>2, EntryFacts
<1>4. AskedOK(s)'
  BY <1>2, EntryAsked DEF AskedOK
<1> QED
  BY <1>1, <1>2, <1>3, <1>4, QuietKeepsVolumes DEF Applied

\* The lookup of the key changes no row.
LEMMA FindKeepsVolumes ==
  ASSUME Inv, VolInv, NEW s \in Session, Find(s)
  PROVE  VolInv'
<1> USE DEF tables, locks, writes, call, history, Inv, TypeOK, FunctionsOK
<1>1. CASE AnswerStored(s)
  BY <1>1, AnswerKeepsVolumes
<1>2. CASE ~AnswerStored(s)
  <2>1. /\ UNCHANGED <<rows, volumes, transactions, wrote, mine, newTxs, req, items, item,
                       posts, before>>
        /\ pc[s] = "find" /\ pc' = [pc EXCEPT ![s] = "materialise"]
    BY <1>2 DEF Find
  <2>2. Elsewhere(s) /\ pc'[s] = "materialise"
    BY <2>1 DEF Elsewhere
  <2>3. AskedOK(s)'
    BY <2>1, <2>2 DEF VolInv, VolumesOK, AskedOK, Working
  <2> QED
    BY <2>1, <2>2, <2>3, QuietKeepsVolumes DEF Applied
<1> QED
  BY <1>1, <1>2

\* insert ... on conflict do nothing: a row nobody has moved anything on.
LEMMA MaterialiseKeepsVolumes ==
  ASSUME Inv, VolInv, NEW s \in Session, NEW r \in Row, MaterialiseRow(s, r)
  PROVE  VolInv'
<1> USE DEF tables, locks, writes, call, history, Inv, TypeOK, FunctionsOK
<1>1. /\ UNCHANGED <<rows, volumes, transactions, newTxs, req, items, item, before, posts>>
      /\ pc[s] = "materialise" /\ pc'[s] \in {"materialise", "lock"}
      /\ \A u \in Session \ {s} : pc'[u] = pc[u]
  BY DEF MaterialiseRow
<1>2. Elsewhere(s)
  BY <1>1 DEF Elsewhere
<1>3. AskedOK(s)'
  BY <1>1 DEF VolInv, VolumesOK, AskedOK, Working
<1>4. CASE UNCHANGED <<wrote, mine>>
  BY <1>1, <1>2, <1>3, <1>4, QuietKeepsVolumes DEF Applied
<1>5. CASE ~UNCHANGED <<wrote, mine>>
  <2>1. /\ r \notin rows /\ rowLock[r] = NoSession
        /\ wrote' = [wrote EXCEPT ![s] = @ \cup {r}]
        /\ mine' = [mine EXCEPT ![s][r] = FreshRow(r)]
    BY <1>5 DEF MaterialiseRow
  <2>2. /\ wrote'[s] = wrote[s] \cup {r} /\ mine'[s][r] = FreshRow(r)
        /\ \A q \in Row \ {r} : mine'[s][q] = mine[s][q]
        /\ \A u \in Session \ {s} : wrote'[u] = wrote[u] /\ mine'[u] = mine[u]
    BY <2>1
  <2>3. \A u \in Session \ {s} : SameRows(u)
    BY <1>1, <1>2, <2>2 DEF SameRows, Elsewhere
  <2>4. VolumesOK(s) /\ TalliedOK
    BY DEF VolInv
  <2>5. r \notin wrote[s] /\ wrote[s] \subseteq Row
    BY <2>1, SessionAssumption DEF SessionOK, RowsOK
  <2>6. \A t \in TxsOf(s) : r \notin RowsOf(t.postings)
    BY <2>1, <2>4, <2>5 DEF TxsOf, TalliedOK, VolumesOK, InsertedOK
  <2>7. TxsOf(s)' = TxsOf(s) /\ newTxs'[s] = newTxs[s] /\ Pending(s) = {} /\ Pending(s)' = {}
    BY <1>1 DEF TxsOf, Pending, Applied
  <2>8. InsertedOK(s)'
    <3>1. IsFiniteSet(wrote'[s])
      <4>1. IsFiniteSet(wrote[s])
        BY <2>4 DEF VolumesOK, InsertedOK
      <4>2. IsFiniteSet(wrote[s] \cup {r})
        BY ONLY <4>1, FS_AddElement
      <4> QED
        BY <2>2, <4>2
    <3>2. \A t \in newTxs[s] : RowsOf(t.postings) \subseteq wrote'[s]
      BY <2>2, <2>4 DEF VolumesOK, InsertedOK
    <3> QED
      BY <2>4, <2>7, <3>1, <3>2 DEF VolumesOK, InsertedOK
  <2>9. WrittenOK(s)'
    <3>1. FreshRow(r).input = 0 /\ FreshRow(r).output = 0
      BY DEF FreshRow
    <3>2. Tallies(mine'[s][r], TxsOf(s), r)
      BY <2>2, <2>6, <3>1, TalliesNothing
    <3>3. \A q \in wrote[s] : Tallies(mine'[s][q], TxsOf(s), q)
      BY <2>2, <2>4, <2>5, <2>7 DEF VolumesOK, WrittenOK
    <3> QED
      BY <2>2, <2>7, <3>2, <3>3 DEF WrittenOK
  <2>10. VolumesOK(s)'
    BY <1>1, <1>3, <2>8, <2>9 DEF VolumesOK, Applied
  <2> QED
    BY <1>1, <2>3, <2>10, InsideKeepsVolumes
<1> QED
  BY <1>4, <1>5

\* The rows are locked and read, and the closed marks are read.
LEMMA LockKeepsVolumes ==
  ASSUME Inv, VolInv, NEW s \in Session, (\E r \in Row : LockRow(s, r)) \/ ReadClosed(s)
  PROVE  VolInv'
<1> USE DEF tables, locks, writes, call, history, Inv, TypeOK, FunctionsOK
<1>1. /\ UNCHANGED <<rows, volumes, transactions, wrote, mine, newTxs, req, items, posts>>
      /\ pc[s] \in {"lock", "readClosed"}
      /\ \A u \in Session \ {s} : before'[u] = before[u]
  BY DEF LockRow, ReadClosed
<1>2. /\ \A u \in Session \ {s} : pc'[u] = pc[u] /\ item'[u] = item[u]
      /\ pc'[s] \in {"materialise", "lock", "readClosed", "apply"}
  <2>1. ASSUME NEW r \in Row, LockRow(s, r)
        PROVE  /\ \A u \in Session \ {s} : pc'[u] = pc[u] /\ item'[u] = item[u]
               /\ pc'[s] \in {"materialise", "lock", "readClosed", "apply"}
    BY <2>1 DEF LockRow
  <2>2. CASE ReadClosed(s)
    BY <2>2 DEF ReadClosed
  <2> QED
    BY <2>1, <2>2
<1>3. Elsewhere(s)
  BY <1>1, <1>2 DEF Elsewhere
<1>4. AskedOK(s)'
  BY <1>1, <1>2 DEF VolInv, VolumesOK, AskedOK, Working
<1> QED
  BY <1>1, <1>2, <1>3, <1>4, QuietKeepsVolumes DEF Applied

\* A close, and the answer to a call, have nothing to do with volumes.
LEMMA OutsideKeepsVolumes ==
  ASSUME Inv, VolInv, NEW s \in Session,
         Reply(s) \/ CloseRead(s) \/ CloseCheck(s) \/ \E r \in Row : CloseLock(s, r)
  PROVE  VolInv'
<1> USE DEF tables, locks, writes, call, history, Inv, TypeOK, FunctionsOK
<1>1. CASE Refuse(s)
  BY <1>1, RefuseKeepsVolumes
<1>2. CASE ~Refuse(s)
  <2>1. /\ UNCHANGED <<rows, volumes, transactions, wrote, mine, newTxs, posts>>
        /\ pc[s] \in {"reply", "closeRead", "closeLock"}
        /\ \A u \in Session \ {s} : before'[u] = before[u]
    BY <1>2 DEF Reply, CloseRead, CloseCheck, CloseLock
  <2>2. Elsewhere(s) /\ pc'[s] \in {"idle", "closeLock", "closeWrite"}
    <3>1. CASE Reply(s)
      BY <3>1 DEF Reply, Forget, Elsewhere
    <3>2. CASE CloseRead(s)
      BY <3>2 DEF CloseRead, Elsewhere
    <3>3. CASE CloseCheck(s)
      BY <1>2, <3>3 DEF CloseCheck, Elsewhere
    <3>4. CASE \E r \in Row : CloseLock(s, r)
      BY <2>1, <3>4 DEF CloseLock, Elsewhere
    <3> QED
      BY <3>1, <3>2, <3>3, <3>4
  <2>3. AskedOK(s)'
    BY <2>2 DEF AskedOK, Working
  <2> QED
    BY <2>1, <2>2, <2>3, QuietKeepsVolumes DEF Applied
<1> QED
  BY <1>1, <1>2

\* What s sees of a row before its update holds what the transactions it sees
\* moved.
LEMMA ViewTallies ==
  ASSUME Inv, VolInv, NEW s \in Session, pc[s] \notin Applied, NEW r \in Row
  PROVE  Tallies(View(s, r), TxsOf(s), r)
<1>1. VolumesOK(s) /\ TalliedOK
  BY DEF VolInv
<1>2. CASE r \in wrote[s]
  BY <1>1, <1>2 DEF View, VolumesOK, WrittenOK, Pending
<1>3. CASE r \notin wrote[s]
  <2>1. \A t \in newTxs[s] : r \notin RowsOf(t.postings)
    BY <1>1, <1>3 DEF VolumesOK, InsertedOK
  <2>2. Tallies(volumes[r], transactions, r) /\ View(s, r) = volumes[r]
    BY <1>1, <1>3 DEF TalliedOK, View
  <2> QED
    BY <2>1, <2>2, TalliesElsewhere DEF TxsOf
<1> QED
  BY <1>2, <1>3

\* When the checks run, the rows of the item are as they were read, and what
\* moves is plain amounts on those rows (resolveUpTo).
LEMMA SettledFacts ==
  ASSUME Inv, VolInv, NEW s \in Session, pc[s] = "apply"
  PROVE  /\ Valid(Asked(s)) /\ RowsOf(Asked(s)) \subseteq Row
         /\ \A r \in RowsOf(Asked(s)) : before[s][r] = View(s, r) /\ before[s][r] \in RowValue
         /\ Plain(Settled(s)) /\ RowsOf(Settled(s)) = RowsOf(Asked(s))
<1>1. CallOK(s) /\ RowsOK(s) /\ pc[s] \in Working \ {"find", "materialise", "lock"}
  BY DEF Inv, SessionOK, Working
<1>2. /\ DOMAIN items[s] = 1..Len(items[s]) /\ Len(items[s]) \in Nat
      /\ item[s] \in 0..Len(items[s]) /\ item[s] # 0
      /\ \A i \in DOMAIN items[s] : WellRowed(items[s][i].postings)
  BY <1>1 DEF CallOK
<1>3. item[s] \in DOMAIN items[s]
  BY <1>2
<1>4. \A r \in ItemRows(items[s], item[s]) : before[s][r] = View(s, r)
  BY <1>1 DEF RowsOK
<1>5. \A r \in RowsOf(Asked(s)) : before[s][r] = View(s, r)
  BY <1>2, <1>4 DEF Asked, ItemRows
<1>6. Valid(Asked(s))
  BY <1>1, <1>3 DEF VolInv, VolumesOK, AskedOK, Asked
<1>7. RowsOf(Asked(s)) \subseteq Row
  BY <1>2, <1>3 DEF Asked, WellRowed
<1>8. \A r \in RowsOf(Asked(s)) : before[s][r] \in RowValue
  BY <1>7 DEF Inv, TypeOK
<1>9. \A r \in RowsOf(Asked(s)) : Balance(before[s][r]) \in Int
  BY <1>8 DEF RowValue, Balance
<1>10. Plain(Settled(s)) /\ RowsOf(Settled(s)) = RowsOf(Asked(s))
  BY <1>6, <1>9, ResolveIsPlain DEF Settled
<1> QED
  BY <1>5, <1>6, <1>7, <1>8, <1>10

\* Resolve, check, update: the deltas of what moves, on the rows as read.
LEMMA ApplyKeepsVolumes ==
  ASSUME Inv, VolInv, NEW s \in Session, Apply(s)
  PROVE  VolInv'
<1>1. CASE Refuse(s)
  BY <1>1, RefuseKeepsVolumes
<1>2. CASE ~Refuse(s)
  <2>1. /\ UNCHANGED <<rows, volumes, transactions, newTxs, items, item, before>>
        /\ pc[s] = "apply" /\ pc' = [pc EXCEPT ![s] = "allocate"]
        /\ posts' = [posts EXCEPT ![s] = Settled(s)]
        /\ wrote' = [wrote EXCEPT ![s] = @ \cup RowsOf(Asked(s))]
        /\ mine' = [mine EXCEPT ![s] =
             [r \in Row |-> IF r \in RowsOf(Asked(s)) THEN Updated(s)[r] ELSE @[r]]]
    BY <1>2 DEF Apply, tables, call
  <2>2. /\ pc \in [Session -> Labels] /\ DOMAIN posts = Session /\ wrote \in [Session -> SUBSET Row]
        /\ mine \in [Session -> [Row -> RowValue]] /\ before \in [Session -> [Row -> RowValue]]
    BY DEF Inv, TypeOK, FunctionsOK
  <2>3. /\ pc'[s] = "allocate" /\ posts'[s] = Settled(s)
        /\ wrote'[s] = wrote[s] \cup RowsOf(Asked(s))
        /\ \A r \in Row : mine'[s][r] = IF r \in RowsOf(Asked(s)) THEN Updated(s)[r] ELSE mine[s][r]
    BY <2>1, <2>2
  <2>4. \A u \in Session \ {s} : SameRows(u)
    BY <2>1, <2>2 DEF SameRows
  <2>5. VolumesOK(s) /\ TalliedOK
    BY DEF VolInv
  <2>7. /\ Valid(Asked(s)) /\ RowsOf(Asked(s)) \subseteq Row
        /\ \A r \in RowsOf(Asked(s)) : before[s][r] = View(s, r)
    BY <2>1, SettledFacts
  <2>9. Plain(Settled(s)) /\ RowsOf(Settled(s)) = RowsOf(Asked(s))
    BY <2>1, SettledFacts
  <2>10. TxsOf(s)' = TxsOf(s) /\ newTxs'[s] = newTxs[s] /\ Asked(s)' = Asked(s) /\ Pending(s) = {}
         /\ Pending(s)' = RowsOf(Asked(s)) /\ before'[s] = before[s]
    BY <2>1, <2>3, <2>9 DEF TxsOf, Asked, Pending, Applied
  <2>11. AskedOK(s)'
    BY <2>1, <2>5 DEF VolumesOK, AskedOK, Working
  <2>12. InsertedOK(s)'
    <3>1. IsFiniteSet(wrote[s]) /\ Recorded(newTxs[s]) /\ Frozen(TxsOf(s))
          /\ \A t \in newTxs[s] : RowsOf(t.postings) \subseteq wrote[s]
      BY <2>5 DEF VolumesOK, InsertedOK
    <3>2. IsFiniteSet(RowsOf(Asked(s)))
      BY <2>7, RowsOfFinite DEF Valid
    <3>3. IsFiniteSet(wrote'[s])
      <4>1. IsFiniteSet(wrote[s] \cup RowsOf(Asked(s)))
        BY ONLY <3>1, <3>2, FS_Union
      <4> QED
        BY <2>3, <4>1
    <3> QED
      BY <2>3, <2>10, <3>1, <3>3 DEF InsertedOK
  <2>13. WrittenOK(s)'
    BY <2>2, <2>3, <2>5, <2>10 DEF VolumesOK, WrittenOK
  <2>14. UpdateOK(s)'
    <3>1. ASSUME NEW r \in RowsOf(Asked(s))
          PROVE  /\ Tallies(before[s][r], TxsOf(s), r)
                 /\ mine'[s][r] = AddDelta(before[s][r], VolumeUpdates(Settled(s))[r])
      <4>1. Tallies(before[s][r], TxsOf(s), r)
        BY <2>1, <2>7, ViewTallies DEF Applied
      <4>2. Updated(s)[r] = AddDelta(View(s, r), VolumeUpdates(Settled(s))[r])
        BY DEF Updated
      <4> QED
        BY <2>3, <2>7, <4>1, <4>2
    <3> QED
      BY <2>3, <2>9, <2>10, <3>1 DEF UpdateOK
  <2>15. VolumesOK(s)'
    BY <2>11, <2>12, <2>13, <2>14 DEF VolumesOK
  <2> QED
    BY <2>1, <2>4, <2>15, InsideKeepsVolumes
<1> QED
  BY <1>1, <1>2

\* Taking the next id changes no row.
LEMMA AllocateKeepsVolumes ==
  ASSUME Inv, VolInv, NEW s \in Session, Allocate(s)
  PROVE  VolInv'
<1>1. /\ UNCHANGED <<rows, volumes, transactions, wrote, mine, newTxs, items, item, before, posts>>
      /\ pc[s] = "allocate" /\ pc' = [pc EXCEPT ![s] = "insert"]
  BY DEF Allocate, tables, call
<1>2. pc'[s] = "insert" /\ \A u \in Session \ {s} : SameRows(u)
  BY <1>1 DEF SameRows, Inv, TypeOK
<1>3. TxsOf(s)' = TxsOf(s) /\ Asked(s)' = Asked(s) /\ Pending(s)' = Pending(s)
  BY <1>1, <1>2 DEF TxsOf, Asked, Pending, Applied
<1>4. AskedOK(s) /\ InsertedOK(s) /\ WrittenOK(s) /\ UpdateOK(s)
  BY <1>1 DEF VolInv, VolumesOK, Applied
<1>5. AskedOK(s)' /\ InsertedOK(s)' /\ WrittenOK(s)' /\ UpdateOK(s)'
  BY <1>1, <1>2, <1>3, <1>4 DEF AskedOK, InsertedOK, WrittenOK, UpdateOK, Working
<1> QED
  BY <1>1, <1>2, <1>5, InsideKeepsVolumes DEF VolumesOK

\* A transaction with the highest id: the volumes frozen before stay the replay
\* up to their ids, and its own are the replay of all there is.
LEMMA FrozenGrows ==
  ASSUME NEW T, Frozen(T), NEW t, \A u \in T : u.id <= t.id /\ ~(t.id <= u.id),
         t.id <= t.id,
         \A r \in RowsOf(t.postings) : Tallies(t.pcv[r], T \cup {t}, r)
  PROVE  Frozen(T \cup {t})
<1>1. {u \in T \cup {t} : u.id <= t.id} = T \cup {t}
  OBVIOUS
<1>2. \A x \in T : {u \in T \cup {t} : u.id <= x.id} = {u \in T : u.id <= x.id}
  OBVIOUS
<1> QED
  BY <1>1, <1>2 DEF Frozen

\* insertTransaction: what the item moved is now a transaction.
LEMMA InsertKeepsVolumes ==
  ASSUME Inv, LogInv, VolInv, NEW s \in Session, InsertTransaction(s)
  PROVE  VolInv'
<1>1. CASE Refuse(s)
  BY <1>1, RefuseKeepsVolumes
<1>2. CASE ~Refuse(s)
  <2> DEFINE t == NewTransaction(s)
             T == TxsOf(s)
  <2>1. /\ UNCHANGED <<rows, volumes, transactions, wrote, mine, items, item, before, posts>>
        /\ newTxs' = [newTxs EXCEPT ![s] = @ \cup {t}]
        /\ pc[s] = "insert" /\ pc' = [pc EXCEPT ![s] = "append"]
    BY <1>2 DEF InsertTransaction, tables, call
  <2>2. newTxs'[s] = newTxs[s] \cup {t} /\ pc'[s] = "append"
        /\ \A u \in Session \ {s} : SameRows(u)
    BY <2>1 DEF SameRows, Inv, TypeOK, FunctionsOK
  <2>3. TxsOf(s)' = T \cup {t} /\ Pending(s) = RowsOf(posts[s]) /\ Pending(s)' = {}
    BY <2>1, <2>2 DEF TxsOf, Pending, Applied
  <2>4. AskedOK(s) /\ InsertedOK(s) /\ WrittenOK(s) /\ UpdateOK(s) /\ TalliedOK
    BY <2>1 DEF VolInv, VolumesOK, Applied
  <2>5. /\ t.id = tip[s].lastTx /\ t.postings = posts[s]
        /\ \A r \in RowsOf(posts[s]) :
             t.pcv[r] = AddDelta(before[s][r], VolumeUpdates(posts[s])[r])
    BY <2>4 DEF NewTransaction, PostCommitVolumes, UpdateOK
  <2>6. \A u \in T : u.id <= t.id /\ ~(t.id <= u.id)
    <3>1. chainLock = s /\ tip[s].lastTx \in Nat
      BY <2>1 DEF Inv, SessionOK, ChainOK, CallOK
    <3>2. T = Logged(LogOf(s)) /\ Numbered(Logged(LogOf(s)), tip[s].lastTx - 1)
      BY <2>1, <3>1 DEF LogInv, BooksOK, Books
    <3>3. \A u \in T : u.id \in 1..(tip[s].lastTx - 1)
      BY <3>2 DEF Numbered
    <3> QED
      BY <2>5, <3>1, <3>3
  <2>7. t \notin T /\ t.id <= t.id
    <3>1. tip[s].lastTx \in Nat
      BY DEF Inv, SessionOK, CallOK
    <3>2. t.id <= t.id
      BY <2>5, <3>1
    <3> QED
      BY <2>6, <3>2
  <2>8. Recorded(T) /\ Plain(t.postings)
    <3>1. Recorded(transactions) /\ Recorded(newTxs[s]) /\ Plain(posts[s])
      BY <2>4 DEF TalliedOK, InsertedOK, UpdateOK
    <3> QED
      BY <2>5, <3>1, FS_Union DEF Recorded, TxsOf
  <2>9. ASSUME NEW r \in RowsOf(posts[s])
        PROVE  Tallies(t.pcv[r], T \cup {t}, r) /\ mine[s][r] = t.pcv[r]
    <3> DEFINE v == before[s][r]
               d == VolumeUpdates(posts[s])[r]
    <3>1. Tallies(v, T, r) /\ mine[s][r] = AddDelta(v, d)
      BY <2>4 DEF UpdateOK
    <3>2. v \in RowValue
      BY <2>4 DEF UpdateOK, Inv, TypeOK
    <3>3. AddDelta(v, d).input = v.input + d.input /\ AddDelta(v, d).output = v.output + d.output
      BY <3>2 DEF AddDelta, RowValue
    <3>4. t.pcv[r] = AddDelta(v, d) /\ r \in RowsOf(t.postings) /\ d = VolumeUpdates(t.postings)[r]
      BY <2>5
    <3> HIDE DEF v, d, t, T
    <3>5. /\ t.pcv[r].input = v.input + VolumeUpdates(t.postings)[r].input
          /\ t.pcv[r].output = v.output + VolumeUpdates(t.postings)[r].output
      BY <3>3, <3>4
    <3>6. Tallies(t.pcv[r], T \cup {t}, r)
      BY <2>7, <2>8, <3>1, <3>4, <3>5, TalliesGrow
    <3> QED
      BY <3>1, <3>4, <3>6
  <2> HIDE DEF t, T
  <2>10. InsertedOK(s)'
    <3>1. Frozen(T)
      BY <2>4 DEF InsertedOK, T
    <3>2. Frozen(T \cup {t})
      BY <2>5, <2>6, <2>7, <2>9, <3>1, FrozenGrows
    <3>3. Recorded(newTxs'[s])
      BY <2>2, <2>4, <2>8, FS_AddElement DEF InsertedOK, Recorded
    <3>4. \A u \in newTxs'[s] : RowsOf(u.postings) \subseteq wrote[s]
      BY <2>2, <2>4, <2>5 DEF InsertedOK, UpdateOK
    <3>5. IsFiniteSet(wrote[s])
      BY <2>4 DEF InsertedOK
    <3> QED
      BY <2>1, <2>3, <3>2, <3>3, <3>4, <3>5 DEF InsertedOK
  <2>11. WrittenOK(s)'
    <3>1. ASSUME NEW r \in wrote[s] PROVE Tallies(mine[s][r], T \cup {t}, r)
      <4>1. CASE r \in RowsOf(posts[s])
        BY <2>9, <4>1
      <4>2. CASE r \notin RowsOf(posts[s])
        <5>1. Tallies(mine[s][r], T, r)
          BY <2>3, <2>4, <4>2 DEF WrittenOK, T
        <5>2. \A u \in {t} : r \notin RowsOf(u.postings)
          BY <2>5, <4>2
        <5> QED
          BY <5>1, <5>2, TalliesElsewhere
      <4> QED
        BY <4>1, <4>2
    <3> QED
      BY <2>1, <2>3, <3>1 DEF WrittenOK
  <2>12. VolumesOK(s)'
    BY <2>1, <2>2, <2>4, <2>10, <2>11 DEF VolumesOK, AskedOK, Working, Applied
  <2> QED
    BY <2>1, <2>2, <2>12, InsideKeepsVolumes
<1> QED
  BY <1>1, <1>2

\* Appending the entry of a transaction whose rows are written keeps the tally.
LEMMA AppendKeepsVolumes ==
  ASSUME Inv, VolInv, NEW s \in Session, AppendLog(s)
  PROVE  VolInv'
<1> USE DEF tables, locks, call, history, Inv, TypeOK, FunctionsOK
<1>1. CASE KeyTaken(s)
  <2>1. /\ EndTransaction(s) /\ pc' = [pc EXCEPT ![s] = "race"]
        /\ UNCHANGED <<rows, volumes, transactions, req, items, item>>
    BY <1>1 DEF AppendLog
  <2>2. Elsewhere(s) /\ pc'[s] = "race"
    BY <2>1 DEF Elsewhere
  <2>3. AskedOK(s)'
    BY <2>2 DEF AskedOK, Working
  <2> QED
    BY <2>1, <2>2, <2>3, EndKeepsVolumes DEF Applied
<1>2. CASE ~KeyTaken(s)
  <2>1. /\ UNCHANGED <<rows, volumes, transactions, wrote, mine, newTxs, req, items, before, posts>>
        /\ pc[s] = "append"
    BY <1>2 DEF AppendLog
  <2>2. /\ \A u \in Session \ {s} : pc'[u] = pc[u] /\ item'[u] = item[u]
        /\ pc'[s] \in {"commit", "materialise"}
    BY <1>2 DEF AppendLog
  <2>3. Elsewhere(s)
    BY <2>1, <2>2 DEF Elsewhere
  <2>4. AskedOK(s)'
    BY <2>1, <2>2 DEF VolInv, VolumesOK, AskedOK, Working
  <2> QED
    BY <2>1, <2>2, <2>3, <2>4, QuietKeepsVolumes DEF Applied
<1> QED
  BY <1>1, <1>2

\* While s may insert, nobody else has inserted anything.
LEMMA OneInserts ==
  ASSUME Inv, NEW s \in Session, chainLock = s, NEW u \in Session \ {s}
  PROVE  newTxs[u] = {}
BY DEF Inv, SessionOK, ChainOK

\* Two sessions never write one row.
LEMMA WritesApart ==
  ASSUME Inv, NEW s \in Session, NEW u \in Session \ {s}
  PROVE  wrote[s] \cap wrote[u] = {}
BY DEF Inv, SessionOK, RowsOK

\* COMMIT publishes what adds up, and what it publishes is on no row that
\* another session has written or read for its update.
LEMMA CommitKeepsVolumes ==
  ASSUME Inv, VolInv, NEW s \in Session, CommitTx(s)
  PROVE  VolInv'
<1>1. CASE Refuse(s)
  BY <1>1, RefuseKeepsVolumes
<1>2. CASE ~Refuse(s)
  <2> DEFINE T == TxsOf(s)
  <2>1. /\ pc[s] = "commit" /\ rows' = rows \cup wrote[s] /\ volumes' = CommitView(s)
        /\ transactions' = T /\ Finish(s, {t.id : t \in newTxs[s]})
    BY <1>2 DEF CommitTx, TxsOf
  <2>2. EndTransaction(s) /\ Elsewhere(s) /\ pc'[s] = "reply"
    BY <2>1 DEF Finish, call, Elsewhere, Inv, TypeOK
  <2>3. AskedOK(s) /\ InsertedOK(s) /\ WrittenOK(s) /\ TalliedOK
    BY DEF VolInv, VolumesOK
  <2>4. Recorded(T)
    <3>1. Recorded(transactions) /\ Recorded(newTxs[s])
      BY <2>3 DEF TalliedOK, InsertedOK
    <3> QED
      BY <3>1, FS_Union DEF Recorded, TxsOf
  <2>5. IsFiniteSet(rows')
    <3>1. IsFiniteSet(rows) /\ IsFiniteSet(wrote[s])
      BY <2>3 DEF TalliedOK, InsertedOK
    <3>2. IsFiniteSet(rows \cup wrote[s])
      BY ONLY <3>1, FS_Union
    <3> QED
      BY <2>1, <3>2
  <2>6. \A t \in T : RowsOf(t.postings) \subseteq rows'
    BY <2>1, <2>3 DEF TxsOf, TalliedOK, InsertedOK
  <2>7. \A r \in Row : Tallies(volumes'[r], T, r)
    BY <2>1, ViewTallies DEF CommitView, Applied
  <2>8. Frozen(T)
    BY <2>3 DEF InsertedOK
  <2>9. TalliedOK'
    <3> HIDE DEF T
    <3> QED
      BY <2>1, <2>4, <2>5, <2>6, <2>7, <2>8 DEF TalliedOK
  <2>10. VolumesOK(s)'
    <3>1. AskedOK(s)'
      BY <2>2 DEF AskedOK, Working
    <3> QED
      BY <2>2, <2>9, <3>1, EndFacts, EndedVolumes DEF Applied
  <2>11. ASSUME NEW u \in Session \ {s} PROVE VolumesOK(u)'
    <3>1. SameRows(u)
      BY <2>2, EndFacts DEF SameRows, Elsewhere
    <3>2. newTxs[u] = {} /\ wrote[s] \cap wrote[u] = {}
      <4>1. chainLock = s
        BY <2>1 DEF Inv, SessionOK, ChainOK
      <4> QED
        BY <4>1, OneInserts, WritesApart
    <3>3. VolumesOK(u)
      BY DEF VolInv
    <3>4. /\ TxsOf(u) = transactions /\ TxsOf(u)' = transactions \cup newTxs[s]
          /\ Asked(u)' = Asked(u) /\ Pending(u)' = Pending(u)
      BY <2>1, <3>1, <3>2 DEF TxsOf, SameRows, Asked, Pending
    <3>5. \A r \in wrote[u] : \A t \in newTxs[s] : r \notin RowsOf(t.postings)
      BY <2>3, <3>2 DEF InsertedOK
    <3>6. \A r \in wrote[u] : \A v :
            Tallies(v, TxsOf(u), r) => Tallies(v, transactions \cup newTxs[s], r)
      BY <3>4, <3>5, TalliesElsewhere
    <3>7. AskedOK(u)'
      BY <3>1, <3>3 DEF VolumesOK, AskedOK, SameRows
    <3>8. InsertedOK(u)'
      <4>1. TxsOf(u)' = T
        BY <3>4 DEF TxsOf
      <4> QED
        BY <2>8, <3>1, <3>3, <4>1 DEF VolumesOK, InsertedOK, SameRows
    <3>9. WrittenOK(u)'
      BY <3>1, <3>3, <3>4, <3>6 DEF VolumesOK, WrittenOK, SameRows
    <3>10. ASSUME pc'[u] \in Applied PROVE UpdateOK(u)'
      <4>1. UpdateOK(u)
        BY <3>1, <3>3, <3>10 DEF VolumesOK, SameRows
      <4>2. \A r \in RowsOf(posts[u]) : Tallies(before[u][r], transactions \cup newTxs[s], r)
        BY <3>6, <4>1 DEF UpdateOK
      <4> QED
        BY <3>1, <3>4, <4>1, <4>2 DEF UpdateOK, SameRows
    <3> QED
      BY <3>7, <3>8, <3>9, <3>10 DEF VolumesOK
  <2> QED
    BY <2>9, <2>10, <2>11 DEF VolInv
<1> QED
  BY <1>1, <1>2

\* A reversal asks for plain amounts: those of its original.
LEMMA ReverseIsPlain ==
  ASSUME NEW ps, Plain(ps)
  PROVE  Plain(ReversePostings(ps))
<1>1. /\ DOMAIN ReversePostings(ps) = 1..Len(ps) /\ Len(ReversePostings(ps)) = Len(ps)
      /\ \A i \in 1..Len(ps) : /\ ReversePostings(ps)[i].amount = ps[Len(ps) + 1 - i].amount
                               /\ ReversePostings(ps)[i].upTo = FALSE
  BY DEF ReversePostings, Plain
<1>2. \A i \in 1..Len(ps) : Len(ps) + 1 - i \in DOMAIN ps
  BY DEF Plain
<1> QED
  BY <1>1, <1>2 DEF Plain

\* Locking the transaction to reverse changes no row.
LEMMA LockTransactionKeepsVolumes ==
  ASSUME Inv, VolInv, NEW s \in Session, LockTransaction(s)
  PROVE  VolInv'
<1> USE DEF tables, locks, writes, call, history, Inv, TypeOK, FunctionsOK
<1>1. CASE Refuse(s)
  BY <1>1, RefuseKeepsVolumes
<1>2. CASE ~Refuse(s)
  <2>1. PICK t \in transactions :
          /\ items' = [items EXCEPT ![s] =
                         <<[postings |-> ReversePostings(t.postings), ref |-> NoRef]>>]
          /\ pc' = [pc EXCEPT ![s] = "materialise"]
          /\ UNCHANGED <<tables, writes, req, item, before, posts>>
    BY <1>2 DEF LockTransaction
  <2>2. pc[s] = "lockTx" /\ pc'[s] = "materialise" /\ Elsewhere(s)
        /\ items'[s] = <<[postings |-> ReversePostings(t.postings), ref |-> NoRef]>>
    BY <2>1 DEF LockTransaction, Elsewhere
  <2>3. Valid(ReversePostings(t.postings))
    BY ReverseIsPlain, PlainMoves DEF VolInv, TalliedOK, Recorded
  <2>4. AskedOK(s)'
    BY <2>2, <2>3 DEF AskedOK
  <2> QED
    BY <2>1, <2>2, <2>4, QuietKeepsVolumes DEF Applied
<1> QED
  BY <1>1, <1>2

\* Writing a closure changes no row.
LEMMA CloseWriteKeepsVolumes ==
  ASSUME Inv, VolInv, NEW s \in Session, CloseWrite(s)
  PROVE  VolInv'
BY FinishKeepsVolumes DEF CloseWrite

\* An operator's statement creates a row or changes permissions, and moves
\* nothing (SetAllowNegative, SetAllowPositive, ReopenAccount).
LEMMA OperatorKeepsVolumes ==
  ASSUME Inv, VolInv, Operator
  PROVE  VolInv'
<1> USE DEF Inv, TypeOK
<1>1. /\ UNCHANGED <<transactions, wrote, mine, newTxs, items, item, pc, before, posts>>
      /\ rows' = rows \/ \E r \in Row : rows' = rows \cup {r}
      /\ \A r \in Row : /\ volumes'[r].input = volumes[r].input
                        /\ volumes'[r].output = volumes[r].output
  <2>1. ASSUME NEW r \in PolicyRow, NEW allow \in BOOLEAN, SetAllowNegative(r, allow)
        PROVE  /\ UNCHANGED <<transactions, wrote, mine, newTxs, items, item, pc, before, posts>>
               /\ rows' = rows \cup {r}
               /\ \A q \in Row : /\ volumes'[q].input = volumes[q].input
                                 /\ volumes'[q].output = volumes[q].output
    <3>1. volumes' = [volumes EXCEPT ![r].allowNegative = allow]
      BY <2>1 DEF SetAllowNegative
    <3>2. \A q \in Row : /\ volumes'[q].input = volumes[q].input
                         /\ volumes'[q].output = volumes[q].output
      BY <3>1 DEF RowValue
    <3> QED
      BY <2>1, <3>2 DEF SetAllowNegative, writes, call
  <2>2. ASSUME NEW r \in PolicyRow, NEW allow \in BOOLEAN, SetAllowPositive(r, allow)
        PROVE  /\ UNCHANGED <<transactions, wrote, mine, newTxs, items, item, pc, before, posts>>
               /\ rows' = rows \cup {r}
               /\ \A q \in Row : /\ volumes'[q].input = volumes[q].input
                                 /\ volumes'[q].output = volumes[q].output
    <3>1. volumes' = [volumes EXCEPT ![r].allowPositive = allow, ![r].allowNegative = @ /\ r \in rows]
      BY <2>2 DEF SetAllowPositive
    <3>2. \A q \in Row : /\ volumes'[q].input = volumes[q].input
                         /\ volumes'[q].output = volumes[q].output
      BY <3>1 DEF RowValue
    <3> QED
      BY <2>2, <3>2 DEF SetAllowPositive, writes, call
  <2>3. CASE \E a \in Account : Reopen(a)
    BY <2>3 DEF Reopen, writes, call
  <2> QED
    BY <2>1, <2>2, <2>3, PolicyAssumption DEF Operator
<1>2. IsFiniteSet(rows') /\ rows \subseteq rows'
  <2>1. IsFiniteSet(rows)
    BY DEF VolInv, TalliedOK
  <2>2. \A r : IsFiniteSet(rows \cup {r})
    BY ONLY <2>1, FS_AddElement
  <2> QED
    BY <1>1, <2>1, <2>2
<1>3. TalliedOK'
  BY <1>1, <1>2, TablesKeep DEF VolInv
<1>4. ASSUME NEW u \in Session PROVE VolumesOK(u)'
  <2>1. SameRows(u)
    BY <1>1 DEF SameRows
  <2> QED
    BY <1>1, <2>1, SameRowsKeep DEF VolInv
<1> QED
  BY <1>3, <1>4 DEF VolInv

-----------------------------------------------------------------------------
(* The theorems.                                                           *)

\* An empty ledger.
LEMMA InitVolInv == Init => VolInv
<1> SUFFICES ASSUME Init PROVE VolInv
  OBVIOUS
<1>1. rows = {} /\ transactions = {} /\ volumes = FreshRows
  BY DEF Init
<1>2. \A r \in Row : volumes[r].input = 0 /\ volumes[r].output = 0
  BY <1>1 DEF FreshRows, FreshRow
<1>3. IsFiniteSet({}) /\ Recorded({})
  BY FS_EmptySet DEF Recorded
<1>4. \A r \in Row : Tallies(volumes[r], transactions, r)
  BY <1>1, <1>2, TalliesNothing
<1>5. TalliedOK
  BY <1>1, <1>3, <1>4 DEF TalliedOK, Frozen
<1>6. ASSUME NEW s \in Session PROVE VolumesOK(s)
  <2>1. wrote[s] = {} /\ newTxs[s] = {} /\ pc[s] = "idle"
    BY DEF Init
  <2>2. TxsOf(s) = {}
    BY <1>1, <2>1 DEF TxsOf
  <2> QED
    BY <1>3, <2>1, <2>2 DEF VolumesOK, AskedOK, InsertedOK, WrittenOK, Frozen, Working, Applied
<1> QED
  BY <1>5, <1>6 DEF VolInv

\* A session's own step.
LEMMA StepKeepsVolumes ==
  ASSUME Inv, LogInv, VolInv, NEW s \in Session, Step(s)
  PROVE  VolInv'
<1>1. CASE Find(s) \/ Race(s)
  BY <1>1, FindKeepsVolumes, AnswerKeepsVolumes DEF Race
<1>2. ASSUME NEW r \in Row, MaterialiseRow(s, r) \/ LockRow(s, r) PROVE VolInv'
  BY <1>2, MaterialiseKeepsVolumes, LockKeepsVolumes
<1>3. CASE ReadClosed(s) \/ Apply(s) \/ Allocate(s) \/ InsertTransaction(s) \/ AppendLog(s)
  BY <1>3, LockKeepsVolumes, ApplyKeepsVolumes, AllocateKeepsVolumes, InsertKeepsVolumes,
     AppendKeepsVolumes
<1>4. CASE CommitTx(s) \/ DryRun(s) \/ LockTransaction(s) \/ CloseWrite(s)
  BY <1>4, CommitKeepsVolumes, RefuseKeepsVolumes, LockTransactionKeepsVolumes,
     CloseWriteKeepsVolumes DEF DryRun
<1>5. CASE Reply(s) \/ CloseRead(s) \/ CloseCheck(s) \/ \E r \in Row : CloseLock(s, r)
  BY <1>5, OutsideKeepsVolumes
<1> QED
  BY <1>1, <1>2, <1>3, <1>4, <1>5 DEF Step

\* Every step of the system.
LEMMA StepVolInv ==
  ASSUME Inv, LogInv, VolInv, [Next]_vars
  PROVE  VolInv'
<1>1. ASSUME NEW s \in Session, NEW q \in Request, Begin(s, q) PROVE VolInv'
  BY <1>1, BeginKeepsVolumes
<1>2. ASSUME NEW s \in Session, Step(s) PROVE VolInv'
  BY <1>2, StepKeepsVolumes
<1>3. ASSUME NEW s \in Session, Crash(s) \/ Contend(s) PROVE VolInv'
  BY <1>3, RefuseKeepsVolumes, ContendKeepsVolumes DEF Crash
<1>4. CASE Operator
  BY <1>4, OperatorKeepsVolumes
<1>5. CASE UNCHANGED vars
  <2>1. UNCHANGED <<rows, volumes, transactions>> /\ \A u \in Session : SameRows(u)
    BY <1>5 DEF vars, tables, writes, call, SameRows
  <2>2. TalliedOK'
    BY <2>1, TablesKeep DEF VolInv, TalliedOK
  <2> QED
    BY <2>1, <2>2, SameRowsKeep DEF VolInv
<1> QED
  BY <1>1, <1>2, <1>3, <1>4, <1>5 DEF Next

\* The invariant of the rows holds throughout.
LEMMA VolInvHolds == Spec => []VolInv
<1>1. Init => VolInv
  BY InitVolInv
<1>2. Inv /\ LogInv /\ VolInv /\ [Next]_vars => VolInv'
  BY StepVolInv
<1> QED
  BY <1>1, <1>2, InvHolds, LogInvHolds, PTL DEF Spec

\* The projection is the log replayed, at every moment and under any
\* interleaving of calls, batches, reversals, retries and crashes: what
\* VerifyProjection recomputes is what the tables hold.
THEOREM ProjectionAlwaysMatches == Spec => []ProjectionMatchesLog
<1>1. LogInv /\ VolInv => ProjectionMatchesLog
  <2> SUFFICES ASSUME LogInv, VolInv PROVE ProjectionMatchesLog
    OBVIOUS
  <2>1. transactions = {e.data.tx : e \in logs} /\ reverted = {e.data.undoes : e \in logs} \ {0}
    BY DEF LogInv, Books, Logged, Undoings
  <2>2. \A r \in Row : <<volumes[r].input, volumes[r].output>> = Totals(transactions, r)
    BY TalliesIs DEF VolInv, TalliedOK
  <2> QED
    BY <2>1, <2>2 DEF ProjectionMatchesLog
<1> QED
  BY <1>1, LogInvHolds, VolInvHolds, PTL

\* The post commit volumes of every transaction are the replay up to its id:
\* ids are in the order in which commits saw each other's rows.
THEOREM PostCommitVolumesReplay == Spec => []PostCommitVolumesAreReplay
<1>1. VolInv => PostCommitVolumesAreReplay
  BY TalliesIs DEF VolInv, TalliedOK, Frozen, PostCommitVolumesAreReplay
<1> QED
  BY <1>1, VolInvHolds, PTL

\* Adding a delta never takes a counter down (the monotonic volumes trigger).
LEMMA AddDeltaOnlyAdds ==
  ASSUME NEW v \in RowValue, NEW d \in Delta
  PROVE  /\ AddDelta(v, d) \in RowValue
         /\ AddDelta(v, d).input >= v.input /\ AddDelta(v, d).output >= v.output
<1>1. d.input \in Nat /\ d.output \in Nat /\ v.input \in Nat /\ v.output \in Nat
  BY DEF Delta, RowValue
<1>2. v.input + d.input \in Nat /\ v.output + d.output \in Nat
  BY <1>1
<1>3. AddDelta(v, d) \in RowValue
  <2>1. \A a, b \in Nat : [v EXCEPT !.input = a, !.output = b] \in RowValue
    BY DEF RowValue
  <2>2. AddDelta(v, d) = [v EXCEPT !.input = v.input + d.input, !.output = v.output + d.output]
    BY DEF AddDelta, RowValue
  <2> QED
    BY <1>2, <2>1, <2>2
<1>4. AddDelta(v, d).input = v.input + d.input /\ AddDelta(v, d).output = v.output + d.output
  BY DEF AddDelta, RowValue
<1> QED
  BY <1>1, <1>3, <1>4

\* What is applied is what the transaction says: for any calls, policies and
\* interleavings, the rows a session has locked are the rows the resolved list
\* names, and the deltas are the sums of its amounts (resolveUpTo, VolumeUpdates).
THEOREM UpdatesAlwaysTheSums == Spec => []UpdatesAreTheSums
<1>1. Inv /\ VolInv => UpdatesAreTheSums
  BY SettledFacts, UpdatesSumTheAmounts DEF UpdatesAreTheSums
<1> QED
  BY <1>1, InvHolds, VolInvHolds, PTL

\* No sweep of any call draws more than its source holds when it runs, against
\* the rows as the session has locked them (resolveUpTo).
THEOREM SweepsAlwaysHeld == Spec => []SweepNeverOverdraws
<1>1. Inv /\ VolInv => SweepNeverOverdraws
  BY SettledFacts, SweepsNeverOverdraw DEF SweepNeverOverdraws, LockedInBounds
<1> QED
  BY <1>1, InvHolds, VolInvHolds, PTL

\* Every sweep without a ceiling takes all there is (resolveUpTo).
THEOREM SweepsAlwaysEmpty == Spec => []SweepLeavesNothing
<1>1. Inv /\ VolInv => SweepLeavesNothing
  BY SettledFacts, SweepsLeaveNothing DEF SweepLeavesNothing
<1> QED
  BY <1>1, InvHolds, VolInvHolds, PTL

\* Every transaction a session is about to apply can be taken back in full
\* straight away (Reverse, checkBalances).
THEOREM ReversalsAlwaysRestore == Spec => []ReversalRestores
<1>1. Inv /\ VolInv => ReversalRestores
  BY SettledFacts, ReversalsRestore DEF ReversalRestores, LockedInBounds
<1> QED
  BY <1>1, InvHolds, VolInvHolds, PTL

\* The checks in Go are exact.  A row update that checkBalances passed only adds
\* to what was read, and what a session is about to COMMIT conserves every asset.
THEOREM GuardsAreNeverNeeded == Spec => []GuardsNeverFire
<1>1. Inv /\ VolInv => GuardsNeverFire
  <2> SUFFICES ASSUME Inv, VolInv, NEW s \in Session
               PROVE  /\ pc[s] = "apply" /\ ChecksPass(s) => TriggersPass(s)
                      /\ pc[s] = "commit" => Conserved(CommitView(s), rows \cup wrote[s])
    BY DEF GuardsNeverFire
  <2>1. ASSUME pc[s] = "apply", ChecksPass(s) PROVE TriggersPass(s)
    <3> SUFFICES ASSUME NEW r \in RowsOf(Asked(s))
                 PROVE  RowAccepts(View(s, r), Updated(s)[r])
      BY DEF TriggersPass
    <3> DEFINE v == before[s][r]
               ups == VolumeUpdates(Settled(s))
               w == AddDelta(v, ups[r])
    <3>1. v = View(s, r) /\ v \in RowValue /\ Plain(Settled(s)) /\ r \in RowsOf(Settled(s))
      BY <2>1, SettledFacts
    <3>2. ups \in [RowsOf(Settled(s)) -> Delta]
      BY <3>1, PlainMoves, UpdatesType
    <3>3. ups[r] \in Delta /\ InBounds(w)
      BY <2>1, <3>1, <3>2 DEF ChecksPass, CheckBalances
    <3>5. w \in RowValue /\ w.input >= v.input /\ w.output >= v.output
      BY <3>1, <3>3, AddDeltaOnlyAdds
    <3>7. Updated(s)[r] = AddDelta(View(s, r), ups[r])
      BY DEF Updated
    <3> QED
      BY <3>1, <3>3, <3>5, <3>7 DEF RowAccepts
  <2>2. ASSUME pc[s] = "commit" PROVE Conserved(CommitView(s), rows \cup wrote[s])
    <3> DEFINE T == TxsOf(s)
               D == rows \cup wrote[s]
               vols == CommitView(s)
    <3>1. VolumesOK(s) /\ TalliedOK
      BY DEF VolInv
    <3>2. D \subseteq Row /\ \A r \in D : Tallies(vols[r], T, r)
      BY <2>2, ViewTallies DEF CommitView, Applied, Inv, TypeOK
    <3>3. IsFiniteSet(D) /\ Recorded(T)
      <4>1. /\ IsFiniteSet(rows) /\ IsFiniteSet(wrote[s])
            /\ Recorded(transactions) /\ Recorded(newTxs[s])
        BY <3>1 DEF TalliedOK, VolumesOK, InsertedOK
      <4> QED
        BY <4>1, FS_Union DEF Recorded, TxsOf
    <3>4. \A t \in T : RowsOf(t.postings) \subseteq D
      BY <3>1 DEF TxsOf, TalliedOK, VolumesOK, InsertedOK
    <3> HIDE DEF T, D, vols
    <3>5. \A x \in Asset : SumOver(Balances(vols, AssetRows(x, D)), AssetRows(x, D)) = 0
      BY <3>2, <3>3, <3>4, TalliesConserve
    <3> QED
      BY <3>5 DEF Conserved, D, vols
  <2> QED
    BY <2>1, <2>2
<1> QED
  BY <1>1, InvHolds, VolInvHolds, PTL

-----------------------------------------------------------------------------
(* The serial ledger uses the same arithmetic.                             *)

\* Rows mean the same in both modules.
LEMMA SerialRows ==
  /\ Serial!Row = Row
  /\ \A ps : Serial!RowsOf(ps) = RowsOf(ps)
  /\ \A p : Serial!SourceRow(p) = SourceRow(p)
BY DEF Serial!Row, Row, Serial!RowsOf, RowsOf, Serial!SourceRow, SourceRow,
   Serial!DestinationRow, DestinationRow

\* The deltas of postings.
LEMMA SerialUpdates == \A ps : Serial!VolumeUpdates(ps) = VolumeUpdates(ps)
BY Zenon DEF Serial!VolumeUpdates, VolumeUpdates, FoldLeft, MapThenFoldSet, Serial!FoldLeft,
   Serial!MapThenFoldSet, Serial!RowsOf, RowsOf, Serial!SourceRow, SourceRow,
   Serial!DestinationRow, DestinationRow, Serial!AccumulatePosting, AccumulatePosting,
   Serial!NoDelta, NoDelta, Serial!DeltaAmount, DeltaAmount, Serial!Max, Max

\* The amounts of sweeps.
LEMMA SerialResolve ==
  \A ps, vols : Serial!ResolveUpTo(ps, vols) = ResolveUpTo(ps, vols)
BY Zenon DEF Serial!ResolveUpTo, ResolveUpTo, Serial!HasUpTo, HasUpTo, Serial!ResolvedAmounts,
   ResolvedAmounts, FoldLeft, MapThenFoldSet, Serial!FoldLeft, Serial!MapThenFoldSet,
   Serial!RowsOf, RowsOf, Serial!SourceRow, SourceRow, Serial!DestinationRow, DestinationRow,
   Serial!ResolvePosting, ResolvePosting, Serial!ResolvedAmount, ResolvedAmount,
   Serial!Balance, Balance, Serial!Max, Max

\* Adding a delta, and the checks of balances and sweeps.
LEMMA SerialChecks ==
  /\ \A v, d : Serial!AddDelta(v, d) = AddDelta(v, d)
  /\ \A vols, updates : Serial!CheckBalances(vols, updates) <=> CheckBalances(vols, updates)
  /\ \A ps, vols : Serial!UnboundedSweep(ps, vols) <=> UnboundedSweep(ps, vols)
BY Zenon DEF Serial!AddDelta, AddDelta, Serial!CheckBalances, CheckBalances, Serial!InBounds,
   InBounds, Serial!UnboundedSweep, UnboundedSweep, Serial!SourceRow, SourceRow

\* The postings of a reversal.
LEMMA SerialReverse == \A ps : Serial!ReversePostings(ps) = ReversePostings(ps)
BY DEF Serial!ReversePostings, ReversePostings

\* The size of a set.
LEMMA SerialSizes == \A S : Serial!Cardinality(S) = Cardinality(S)
BY DEF Serial!Cardinality, Cardinality

\* What Record makes of an item: the postings as they move, the rows they leave,
\* the data of the entry, and whether it is accepted.
Paid(b, it) == ResolveUpTo(it.postings, b.volumes)
Left(b, it) ==
  [r \in RowsOf(Paid(b, it)) |-> AddDelta(b.volumes[r], VolumeUpdates(Paid(b, it))[r])]
EntryData(b, it, tag, undoes) ==
  [tx |-> [id |-> Cardinality(b.transactions) + 1, postings |-> Paid(b, it),
           ref |-> it.ref, tag |-> tag, pcv |-> Left(b, it)],
   undoes |-> undoes]
Allowed(b, it, key) ==
  /\ b.ok
  /\ ~UnboundedSweep(it.postings, b.volumes)
  /\ CheckBalances(b.volumes, VolumeUpdates(Paid(b, it)))
  /\ it.ref # NoRef => \A t \in b.transactions : t.ref # it.ref
  /\ key # NoKey => \A e \in b.logs : e.key # key

\* The books after a transaction.
LEMMA RecordIs ==
  ASSUME NEW b, NEW it, NEW key, NEW ik, NEW tag, NEW undoes
  PROVE  LET data == EntryData(b, it, tag, undoes)
         IN  Serial!Record(b, it, key, ik, tag, undoes) =
               [ok |-> Allowed(b, it, key),
                volumes |-> [r \in Row |-> IF r \in RowsOf(Paid(b, it)) THEN Left(b, it)[r]
                                           ELSE b.volumes[r]],
                transactions |-> b.transactions \cup {data.tx},
                logs |-> b.logs \cup {[id |-> Cardinality(b.logs) + 1, data |-> data,
                                       hash |-> Append(b.hash, data), key |-> key,
                                       ikHash |-> ik]},
                hash |-> Append(b.hash, data)]
BY SerialRows, SerialUpdates, SerialResolve, SerialChecks, SerialSizes, Zenon
   DEF Serial!Record, Paid, Left, EntryData, Allowed
-----------------------------------------------------------------------------
(* A call of several items, item by item.                                  *)

\* The recursion that the fold over the items chooses.
PostStep(it, q, b, D) ==
  it = [S \in SUBSET D |-> IF S = {} THEN b
                           ELSE Serial!PostItem(q, it[S \ {Max(S)}], Max(S))]

\* There is one.
LEMMA PostRecursion ==
  ASSUME NEW q, NEW b, NEW n \in Nat
  PROVE  \E it : PostStep(it, q, b, 1..n)
<1> DEFINE P == {m \in Nat : \E it : PostStep(it, q, b, 1..m)}
<1>1. 0 \in P
  <2> DEFINE it == [S \in SUBSET (1..0) |-> b]
  <2>1. \A S \in SUBSET (1..0) : S = {}
    OBVIOUS
  <2>2. PostStep(it, q, b, 1..0)
    BY <2>1 DEF PostStep
  <2> QED
    BY <2>2
<1>2. ASSUME NEW m \in P PROVE m + 1 \in P
  <2>1. PICK it : PostStep(it, q, b, 1..m)
    BY <1>2
  <2>2. m \in Nat /\ m + 1 \in Nat
    BY <1>2
  <2>3. \A S \in SUBSET (1..m) :
          it[S] = IF S = {} THEN b ELSE Serial!PostItem(q, it[S \ {Max(S)}], Max(S))
    BY <2>1 DEF PostStep
  <2> DEFINE D == 1..(m + 1)
             jt == [S \in SUBSET D |-> IF m + 1 \in S
                                       THEN Serial!PostItem(q, it[S \ {m + 1}], m + 1)
                                       ELSE it[S]]
             next(S) == IF S = {} THEN b ELSE Serial!PostItem(q, jt[S \ {Max(S)}], Max(S))
  <2>4. \A S \in SUBSET D : S \ {m + 1} \in SUBSET (1..m) /\ S \ {m + 1} \in SUBSET D
    BY <2>2
  <2>5. ASSUME NEW S \in SUBSET D, m + 1 \in S PROVE jt[S] = next(S)
    <3>1. Max(S) = m + 1
      <4>1. IsFiniteSet(D) /\ D \in SUBSET Int
        BY <2>2, FS_Interval
      <4>2. IsFiniteSet(S) /\ S \in SUBSET Int /\ S # {}
        BY <2>5, <4>1, FS_Subset
      <4>3. Max(S) \in S /\ \A y \in S : Max(S) >= y
        BY <4>2, MaxOfFinite
      <4>4. Max(S) \in D /\ Max(S) >= m + 1
        BY <2>5, <4>3
      <4> QED
        BY <2>2, <4>4
    <3>2. jt[S \ {m + 1}] = it[S \ {m + 1}]
      BY <2>4, <2>5
    <3> QED
      BY <2>5, <3>1, <3>2
  <2>6. ASSUME NEW S \in SUBSET D, m + 1 \notin S PROVE jt[S] = next(S)
    <3>1. S \in SUBSET (1..m) /\ m + 1 \notin S \ {Max(S)} /\ S \ {Max(S)} \in SUBSET D
      <4>1. \A y : m + 1 \notin S \ {y} /\ S \ {y} \in SUBSET D
        BY <2>6
      <4>2. S \in SUBSET (1..m)
        BY <2>2, <2>6
      <4> QED
        BY <4>1, <4>2
    <3>2. jt[S] = it[S] /\ jt[S \ {Max(S)}] = it[S \ {Max(S)}]
      BY <2>6, <3>1
    <3>3. it[S] = IF S = {} THEN b ELSE Serial!PostItem(q, it[S \ {Max(S)}], Max(S))
      BY <2>3, <3>1
    <3> QED
      BY <3>2, <3>3
  <2>7. jt = [S \in SUBSET D |-> next(S)]
    <3>1. \A S \in SUBSET D : jt[S] = next(S)
      BY <2>5, <2>6
    <3>2. jt = [S \in SUBSET D |-> jt[S]]
      OBVIOUS
    <3> HIDE DEF jt, next
    <3>3. [S \in SUBSET D |-> jt[S]] = [S \in SUBSET D |-> next(S)]
      BY <3>1
    <3> QED
      BY <3>2, <3>3
  <2>8. PostStep(jt, q, b, 1..(m + 1))
    BY <2>7 DEF PostStep
  <2> QED
    BY <2>2, <2>8
<1>3. P = Nat
  <2>1. P \in SUBSET Nat
    OBVIOUS
  <2> HIDE DEF P
  <2> QED
    BY <1>1, <1>2, <2>1, NatSetInduction
<1> QED
  BY <1>3

\* The fold unfolded.
LEMMA PostedIs ==
  ASSUME NEW q, NEW n \in Nat, DOMAIN q.items = 1..n
  PROVE  \E g : PostStep(g, q, Serial!Books, 1..n) /\ Serial!Posted(q) = g[1..n]
<1> DEFINE b == Serial!Books
           ids == [i \in DOMAIN q.items |-> i]
           step(it, S) == IF S = {} THEN b
                          ELSE Serial!PostItem(q, it[S \ {Max(S)}], ids[Max(S)])
           g == CHOOSE it : it = [S \in SUBSET (DOMAIN ids) |-> step(it, S)]
<1>1. Serial!Posted(q) = g[DOMAIN ids]
  BY Zenon DEF Serial!Posted, Serial!FoldLeftDomain, Serial!FoldLeft, Serial!MapThenFoldSet,
     Serial!Max, Max
<1>2. DOMAIN ids = 1..n
  OBVIOUS
<1>3. ASSUME NEW S \in SUBSET (1..n), S # {} PROVE ids[Max(S)] = Max(S)
  <2>1. IsFiniteSet(S) /\ S \in SUBSET Int
    BY <1>3, PrefixFinite, FS_Subset
  <2>2. Max(S) \in 1..n
    BY <1>3, <2>1, MaxOfFinite
  <2> QED
    BY <2>2
<1>4. \A it : \A S \in SUBSET (1..n) :
        step(it, S) = IF S = {} THEN b ELSE Serial!PostItem(q, it[S \ {Max(S)}], Max(S))
  BY <1>3
<1> HIDE DEF step, b
<1>5. \A it : it = [S \in SUBSET (DOMAIN ids) |-> step(it, S)] <=> PostStep(it, q, b, 1..n)
  <2> SUFFICES ASSUME NEW it
               PROVE  [S \in SUBSET (1..n) |-> step(it, S)] =
                        [S \in SUBSET (1..n) |->
                          IF S = {} THEN b ELSE Serial!PostItem(q, it[S \ {Max(S)}], Max(S))]
    BY <1>2 DEF PostStep
  <2> QED
    BY <1>4
<1>6. PICK it : PostStep(it, q, b, 1..n)
  BY PostRecursion
<1>7. g = [S \in SUBSET (DOMAIN ids) |-> step(g, S)]
  BY <1>5, <1>6
<1>8. PostStep(g, q, b, 1..n)
  BY <1>5, <1>7
<1> QED
  BY <1>1, <1>2, <1>8 DEF b

\* The books after a call are the last of any run of its items.
LEMMA PostedAlong ==
  ASSUME NEW q, NEW n \in Nat, DOMAIN q.items = 1..n, NEW bs, bs[0] = Serial!Books,
         \A k \in 1..n : bs[k] = Serial!PostItem(q, bs[k - 1], k)
  PROVE  Serial!Posted(q) = bs[n]
<1>1. PICK g : PostStep(g, q, Serial!Books, 1..n) /\ Serial!Posted(q) = g[1..n]
  BY PostedIs
<1> DEFINE P == {k \in Nat : k <= n => g[1..k] = bs[k]}
<1>2. \A S \in SUBSET (1..n) : g[S] = IF S = {} THEN Serial!Books
                                       ELSE Serial!PostItem(q, g[S \ {Max(S)}], Max(S))
  BY <1>1 DEF PostStep
<1>3. 0 \in P
  <2>1. 1..0 = {} /\ {} \in SUBSET (1..n)
    OBVIOUS
  <2> QED
    BY <1>2, <2>1
<1>4. ASSUME NEW k \in P PROVE k + 1 \in P
  <2>1. k \in Nat /\ k + 1 \in Nat
    BY <1>4
  <2> SUFFICES ASSUME k + 1 <= n PROVE g[1..(k + 1)] = bs[k + 1]
    BY <2>1
  <2>2. k + 1 \in 1..n /\ (k + 1) - 1 = k /\ k <= n
    BY <2>1
  <2>3. 1..(k + 1) \in SUBSET (1..n) /\ 1..(k + 1) # {}
    BY <2>2, PrefixFacts
  <2>4. Max(1..(k + 1)) = k + 1 /\ (1..(k + 1)) \ {k + 1} = 1..k
    BY <2>1, <2>2, MaxOfPrefix
  <2>5. g[1..(k + 1)] = Serial!PostItem(q, g[1..k], k + 1)
    BY <1>2, <2>3, <2>4
  <2>6. g[1..k] = bs[k]
    BY <1>4, <2>2
  <2> QED
    BY <2>2, <2>5, <2>6
<1>5. P = Nat
  <2>1. P \in SUBSET Nat
    OBVIOUS
  <2> HIDE DEF P
  <2> QED
    BY <1>3, <1>4, <2>1, NatSetInduction
<1> QED
  BY <1>1, <1>5
-----------------------------------------------------------------------------
(* Books and rows.                                                         *)

\* Numbered without gap, there are as many as the last number says.
LEMMA NumberedSize ==
  ASSUME NEW T, NEW n \in Nat, {t.id : t \in T} = 1..n, \A t, u \in T : t.id = u.id => t = u
  PROVE  IsFiniteSet(T) /\ Cardinality(T) = n
<1> DEFINE number == [t \in T |-> t.id]
<1>1. number \in Bijection(T, 1..n)
  <2>1. number \in [T -> 1..n] /\ \A x, y \in T : number[x] = number[y] => x = y
    OBVIOUS
  <2>2. \A i \in 1..n : \E t \in T : number[t] = i
    OBVIOUS
  <2> HIDE DEF number
  <2> QED
    BY <2>1, <2>2 DEF Bijection, Injection, Surjection, IsInjective
<1>2. IsFiniteSet(1..n) /\ Cardinality(1..n) = n
  BY FS_Interval
<1> HIDE DEF number
<1>3. number \in Surjection(T, 1..n) /\ number \in Injection(T, 1..n)
  BY <1>1 DEF Bijection
<1> QED
  BY <1>2, <1>3, FS_Injection

\* The books of the serial ledger are the committed tables and the chain's tip.
Shown(vols, ls, h) ==
  [ok |-> TRUE, volumes |-> vols, transactions |-> Logged(ls), logs |-> ls, hash |-> h]

\* They are what the serial ledger starts a call from.
LEMMA BooksShown ==
  ASSUME LogInv, Inv
  PROVE  Serial!Books = Shown(volumes, logs, chain.lastHash)
<1>1. Chained(logs, chain.lastLog, chain.lastHash) /\ transactions = Logged(logs)
  BY DEF LogInv, Books
<1>2. chain.lastLog \in Nat
  BY DEF Inv, TypeOK
<1> DEFINE last == CHOOSE e \in logs : \A f \in logs : f.id <= e.id
<1>3. ASSUME logs = {} PROVE chain.lastHash = <<>>
  <2>1. 1..chain.lastLog = {}
    BY <1>1, <1>3 DEF Chained
  <2> QED
    BY <1>1, <1>2, <2>1 DEF Chained
<1>4. ASSUME logs # {} PROVE chain.lastHash = last.hash
  <2>1. \A e \in logs : e.id \in 1..chain.lastLog
    BY <1>1 DEF Chained
  <2>2. chain.lastLog \in 1..chain.lastLog
    BY <1>2, <1>4, <2>1
  <2>3. PICK e \in logs : e.id = chain.lastLog
    BY <1>1, <2>2 DEF Chained
  <2>4. \A f \in logs : f.id <= e.id
    BY <1>2, <2>1, <2>3
  <2>5. last \in logs /\ \A f \in logs : f.id <= last.id
    BY <2>4
  <2>6. last.id = chain.lastLog
    BY <1>2, <2>1, <2>3, <2>5
  <2> QED
    BY <1>1, <2>5, <2>6 DEF Chained
<1>5. chain.lastHash = IF logs = {} THEN <<>> ELSE last.hash
  BY <1>3, <1>4
<1> QED
  BY <1>1, <1>5 DEF Serial!Books, Shown

\* What an item does depends on the rows it names.
LEMMA SameResolved ==
  ASSUME NEW ps, NEW u, NEW v, \A r \in RowsOf(ps) : u[r] = v[r]
  PROVE  /\ ResolveUpTo(ps, u) = ResolveUpTo(ps, v)
         /\ UnboundedSweep(ps, u) <=> UnboundedSweep(ps, v)
<1>1. [r \in RowsOf(ps) |-> Balance(u[r])] = [r \in RowsOf(ps) |-> Balance(v[r])]
  OBVIOUS
<1>2. ResolvedAmounts(ps, u) = ResolvedAmounts(ps, v)
  BY <1>1, Zenon DEF ResolvedAmounts
<1>3. UnboundedSweep(ps, u) <=> UnboundedSweep(ps, v)
  BY RowsOfPosting DEF UnboundedSweep
<1>4. ResolveUpTo(ps, u) = ResolveUpTo(ps, v)
  BY <1>2 DEF ResolveUpTo
<1> QED
  BY <1>3, <1>4

\* And so do the checks.
LEMMA SameChecked ==
  ASSUME NEW u, NEW v, NEW updates, \A r \in DOMAIN updates : u[r] = v[r]
  PROVE  CheckBalances(u, updates) <=> CheckBalances(v, updates)
BY DEF CheckBalances

\* Item k of the call q on books b.
Enact(q, its, b, k) ==
  Serial!Record(b, its[k], IF k = 1 THEN q.key ELSE NoKey,
                IF k = 1 /\ q.key # NoKey THEN IkHash(q) ELSE NoTag, BatchTag(q),
                IF q.kind = "revert" THEN q.target ELSE 0)

\* Books with another value on one row.
Moved(b, r, v) ==
  [ok |-> b.ok, volumes |-> [x \in Row |-> IF x = r THEN v ELSE b.volumes[x]],
   transactions |-> b.transactions, logs |-> b.logs, hash |-> b.hash]

\* A row that an item does not name can be changed before or after it.
LEMMA RecordFrame ==
  ASSUME NEW b, b.volumes \in [Row -> RowValue], NEW it, Valid(it.postings),
         RowsOf(it.postings) \subseteq Row, NEW r \in Row, r \notin RowsOf(it.postings),
         NEW v, NEW key, NEW ik, NEW tag, NEW undoes
  PROVE  Serial!Record(Moved(b, r, v), it, key, ik, tag, undoes) =
           Moved(Serial!Record(b, it, key, ik, tag, undoes), r, v)
<1> DEFINE c == Moved(b, r, v)
           ps == it.postings
           paid == Paid(b, it)
<1>1. /\ c.ok = b.ok /\ c.transactions = b.transactions /\ c.logs = b.logs /\ c.hash = b.hash
      /\ c.volumes = [x \in Row |-> IF x = r THEN v ELSE b.volumes[x]]
  BY DEF Moved
<1>2. \A x \in RowsOf(ps) : c.volumes[x] = b.volumes[x]
  BY <1>1
<1>3. paid = Paid(c, it) /\ (UnboundedSweep(ps, c.volumes) <=> UnboundedSweep(ps, b.volumes))
  BY <1>2, SameResolved DEF Paid
<1>4. Plain(paid) /\ RowsOf(paid) = RowsOf(ps)
  <2>1. \A x \in RowsOf(ps) : Balance(b.volumes[x]) \in Int
    BY RowBalances
  <2> QED
    BY <2>1, ResolveIsPlain DEF Paid
<1>5. DOMAIN VolumeUpdates(paid) = RowsOf(ps)
  BY <1>4, PlainUpdates
<1> HIDE DEF c, ps, paid
<1>6. CheckBalances(c.volumes, VolumeUpdates(paid)) <=> CheckBalances(b.volumes, VolumeUpdates(paid))
  BY <1>2, <1>5, SameChecked
<1>7. Left(c, it) = Left(b, it)
  BY <1>2, <1>3, <1>4 DEF Left, paid
<1>8. EntryData(c, it, tag, undoes) = EntryData(b, it, tag, undoes)
  BY <1>1, <1>3, <1>7 DEF EntryData, paid
<1>9. Allowed(c, it, key) <=> Allowed(b, it, key)
  BY <1>1, <1>3, <1>6 DEF Allowed, paid, ps
<1> DEFINE data == EntryData(b, it, tag, undoes)
           one == Serial!Record(c, it, key, ik, tag, undoes)
           two == Serial!Record(b, it, key, ik, tag, undoes)
           rest == b.logs \cup {[id |-> Cardinality(b.logs) + 1, data |-> data,
                                 hash |-> Append(b.hash, data), key |-> key, ikHash |-> ik]}
<1>10. two = [ok |-> Allowed(b, it, key),
              volumes |-> [x \in Row |-> IF x \in RowsOf(paid) THEN Left(b, it)[x]
                                         ELSE b.volumes[x]],
              transactions |-> b.transactions \cup {data.tx}, logs |-> rest,
              hash |-> Append(b.hash, data)]
  BY RecordIs DEF paid
<1>11. one = [ok |-> Allowed(c, it, key),
              volumes |-> [x \in Row |-> IF x \in RowsOf(paid) THEN Left(b, it)[x]
                                         ELSE c.volumes[x]],
              transactions |-> b.transactions \cup {data.tx}, logs |-> rest,
              hash |-> Append(b.hash, data)]
  BY <1>1, <1>3, <1>7, <1>8, RecordIs DEF paid
<1> HIDE DEF data, one, two, rest
<1>12. Allowed(c, it, key) = Allowed(b, it, key)
  BY <1>9 DEF Allowed
<1>13. [x \in Row |-> IF x \in RowsOf(paid) THEN Left(b, it)[x] ELSE c.volumes[x]] =
         [x \in Row |-> IF x = r THEN v ELSE two.volumes[x]]
  <2>1. two.volumes = [x \in Row |-> IF x \in RowsOf(paid) THEN Left(b, it)[x] ELSE b.volumes[x]]
    BY <1>10
  <2>2. r \notin RowsOf(paid)
    BY <1>4 DEF ps
  <2> QED
    BY <1>1, <2>1, <2>2
<1>14. two.ok = Allowed(b, it, key) /\ two.transactions = b.transactions \cup {data.tx}
       /\ two.logs = rest /\ two.hash = Append(b.hash, data)
  BY <1>10
<1>15. one = Moved(two, r, v)
  BY <1>11, <1>12, <1>13, <1>14 DEF Moved
<1> QED
  BY <1>15 DEF one, two, c

-----------------------------------------------------------------------------
(* A session works on a copy of the serial ledger.                         *)

\* Between the update of the rows and the entry.
Midway == {"allocate", "insert", "append"}

\* The rows as s leaves them with the items it has entered in the log.
Seen(s) ==
  [r \in Row |-> IF pc[s] \in Midway /\ r \in RowsOf(Asked(s)) THEN before[s][r]
                 ELSE View(s, r)]

\* How many those are.
Done(s) ==
  IF pc[s] = "commit" THEN item[s] ELSE IF item[s] = 0 THEN 0 ELSE item[s] - 1

\* bs is the books after each of these items, from the committed ones to what s
\* sees.
Replayed(s, bs) ==
  /\ bs[0] = Serial!Books
  /\ \A k \in 1..Done(s) : bs[k] = Enact(req[s], items[s], bs[k - 1], k)
  /\ \A k \in 0..Done(s) : bs[k].volumes \in [Row -> RowValue]
  /\ bs[Done(s)] = Shown(Seen(s), LogOf(s), ChainView(s).lastHash)

\* The update of the item under way passed the checks on the rows as read.
MidOK(s) ==
  pc[s] \in Midway =>
    /\ posts[s] = ResolveUpTo(Asked(s), before[s])
    /\ ~UnboundedSweep(Asked(s), before[s])
    /\ CheckBalances(before[s], VolumeUpdates(posts[s]))
    /\ RowsOf(Asked(s)) \subseteq wrote[s]
    /\ \A r \in RowsOf(Asked(s)) :
         mine[s][r] = AddDelta(before[s][r], VolumeUpdates(posts[s])[r])

\* What s works on is what it was asked for.
AskOK(s) ==
  pc[s] \in Working =>
    /\ req[s].kind # "close"
    /\ req[s].kind \in {"commit", "batch"} => items[s] = req[s].items
    /\ req[s].kind = "revert" =>
         \E t \in transactions :
           /\ t.id = req[s].target
           /\ items[s] = <<[postings |-> ReversePostings(t.postings), ref |-> NoRef]>>

\* Where it is, and what it holds.
PlanOK(s) ==
  /\ pc[s] = "find" => item[s] \in {0, 1}
  /\ pc[s] = "commit" => item[s] = Len(items[s])
  /\ pc[s] \notin Holding => wrote[s] = {}
  /\ pc[s] \in Holding /\ Done(s) # 0 =>
       /\ chainLock = s
       /\ \A k \in 1..Done(s) : RowsOf(items[s][k].postings) \subseteq wrote[s]

\* Before its first entry it sees the committed rows, after it its own books.
BehindOK(s) ==
  pc[s] \in Holding =>
    IF Done(s) = 0 THEN Seen(s) = volumes ELSE \E bs : Replayed(s, bs)

\* A row that does not exist is counted as the one that would be inserted.
AbsentOK == \A r \in Row \ rows : volumes[r] = FreshRow(r)

\* The inductive invariant, on top of Inv, LogInv and VolInv.
SerialInv ==
  AbsentOK /\ \A s \in Session : AskOK(s) /\ PlanOK(s) /\ MidOK(s) /\ BehindOK(s)

\* A session that a step leaves alone works on as it did.
LEMMA KeptPlan ==
  ASSUME SerialInv, NEW u \in Session, Kept(u), transactions \subseteq transactions'
  PROVE  AskOK(u)' /\ PlanOK(u)' /\ MidOK(u)'
<1>1. AskOK(u) /\ PlanOK(u) /\ MidOK(u)
  BY DEF SerialInv
<1>2. AskOK(u)'
  BY <1>1 DEF AskOK, Kept
<1>3. Done(u)' = Done(u)
  BY DEF Kept, Done
<1>4. PlanOK(u)'
  BY <1>1, <1>3 DEF PlanOK, Kept
<1>5. Asked(u)' = Asked(u)
  BY DEF Asked, Kept
<1>6. MidOK(u)'
  BY <1>1, <1>5 DEF MidOK, Kept
<1> QED
  BY <1>2, <1>4, <1>6

\* And sees what it saw, because nobody else changes the tables once it has an
\* entry, and nobody changes its rows before.
LEMMA KeptBehind ==
  ASSUME Inv, Inv', SerialInv, NEW u \in Session, Kept(u),
         chainLock = u /\ Done(u) # 0 => UNCHANGED <<volumes, transactions, logs, chain>>
  PROVE  BehindOK(u)'
<1>1. PlanOK(u) /\ MidOK(u) /\ BehindOK(u)
  BY DEF SerialInv
<1>2. Done(u)' = Done(u) /\ Asked(u)' = Asked(u) /\ pc'[u] = pc[u]
  BY DEF Kept, Done, Asked
<1>3. \A r \in wrote[u] : r \in Row /\ rowLock[r] = u /\ volumes'[r] = volumes[r]
  BY DEF Inv, SessionOK, RowsOK, TypeOK, Kept
<1>4. CASE pc[u] \in Holding /\ Done(u) = 0
  <2>1. Seen(u) = volumes
    BY <1>1, <1>4 DEF BehindOK
  <2>2. volumes' = [r \in Row |-> volumes'[r]]
    BY DEF Inv, TypeOK
  <2>3. ASSUME NEW r \in Row PROVE Seen(u)'[r] = volumes'[r]
    <3>1. Seen(u)'[r] = IF pc[u] \in Midway /\ r \in RowsOf(Asked(u)) THEN before[u][r]
                        ELSE IF r \in wrote[u] THEN mine[u][r] ELSE volumes'[r]
      BY <1>2 DEF Seen, View, Kept
    <3>2. Seen(u)[r] = IF pc[u] \in Midway /\ r \in RowsOf(Asked(u)) THEN before[u][r]
                       ELSE IF r \in wrote[u] THEN mine[u][r] ELSE volumes[r]
      BY DEF Seen, View
    <3>3. pc[u] \in Midway /\ r \in RowsOf(Asked(u)) => r \in wrote[u]
      BY <1>1 DEF MidOK
    <3> QED
      BY <1>3, <2>1, <3>1, <3>2, <3>3
  <2>4. Seen(u)' = volumes'
    <3>1. Seen(u)' = [r \in Row |-> Seen(u)'[r]]
      BY DEF Seen
    <3> QED
      BY <2>2, <2>3, <3>1
  <2> QED
    BY <1>2, <1>4, <2>4 DEF BehindOK
<1>5. CASE pc[u] \in Holding /\ Done(u) # 0
  <2>1. PICK bs : Replayed(u, bs)
    BY <1>1, <1>5 DEF BehindOK
  <2>2. chainLock = u /\ chainLock' = u /\ UNCHANGED <<volumes, transactions, logs, chain>>
    BY <1>1, <1>5 DEF PlanOK, Kept
  <2>3. Serial!Books' = Serial!Books
    BY <2>2 DEF Serial!Books
  <2>4. /\ Seen(u)' = Seen(u) /\ LogOf(u)' = LogOf(u)
        /\ ChainView(u)'.lastHash = ChainView(u).lastHash
    BY <1>2, <2>2 DEF Seen, View, LogOf, ChainView, Kept
  <2>5. req'[u] = req[u] /\ items'[u] = items[u]
    BY DEF Kept
  <2>6. Replayed(u, bs)'
    BY <1>2, <2>1, <2>3, <2>4, <2>5 DEF Replayed
  <2> QED
    BY <1>2, <1>5, <2>6 DEF BehindOK
<1> QED
  BY <1>2, <1>4, <1>5 DEF BehindOK

\* A step of its own that writes no entry, and changes no row it sees.
LEMMA GoesOn ==
  ASSUME SerialInv, NEW s \in Session, pc[s] \in Holding, pc'[s] \in Holding,
         UNCHANGED <<volumes, transactions, logs, chain>>,
         req'[s] = req[s], items'[s] = items[s], newLogs'[s] = newLogs[s],
         Done(s)' = Done(s), Seen(s)' = Seen(s),
         ChainView(s)'.lastHash = ChainView(s).lastHash
  PROVE  BehindOK(s)'
<1>1. BehindOK(s)
  BY DEF SerialInv
<1>2. Serial!Books' = Serial!Books /\ LogOf(s)' = LogOf(s)
  BY DEF Serial!Books, LogOf
<1>3. \A bs : Replayed(s, bs) => Replayed(s, bs)'
  BY <1>2 DEF Replayed
<1> QED
  BY <1>1, <1>3 DEF BehindOK

-----------------------------------------------------------------------------
(* One step at a time.                                                     *)

\* The other sessions work on.
LEMMA OthersWork ==
  ASSUME Inv, Inv', SerialInv, NEW s \in Session, \A u \in Session \ {s} : Kept(u),
         transactions \subseteq transactions',
         chainLock = s \/ UNCHANGED <<volumes, transactions, logs, chain>>
  PROVE  \A u \in Session \ {s} : AskOK(u)' /\ PlanOK(u)' /\ MidOK(u)' /\ BehindOK(u)'
BY KeptPlan, KeptBehind

\* A session that is not inside the write path, or has just entered it, has
\* nothing to show.
LEMMA FreshStart ==
  ASSUME Inv', NEW s \in Session, wrote'[s] = {}, pc'[s] \notin Midway \cup {"commit"},
         pc'[s] \in {"find", "materialise"} => item'[s] \in {0, 1},
         pc'[s] \in Holding => pc'[s] = "materialise"
  PROVE  PlanOK(s)' /\ MidOK(s)' /\ BehindOK(s)'
<1>1. MidOK(s)'
  BY DEF MidOK
<1>2. pc'[s] \in Holding => Done(s)' = 0
  BY DEF Done
<1>3. PlanOK(s)'
  BY <1>2 DEF PlanOK
<1>4. Seen(s)' = volumes'
  <2>1. Seen(s)' = [r \in Row |-> volumes'[r]]
    BY DEF Seen, View
  <2> QED
    BY <2>1 DEF Inv, TypeOK
<1> QED
  BY <1>1, <1>2, <1>3, <1>4 DEF BehindOK

\* The end of a transaction, committed or not.
LEMMA EndOthers ==
  ASSUME Inv, NEW s \in Session, EndTransaction(s), Elsewhere(s),
         \A u \in Session \ {s} : todo'[u] = todo[u],
         \A r \in Row : rowLock[r] # s => volumes'[r] = volumes[r]
  PROVE  \A u \in Session \ {s} : Kept(u)
BY EndFacts DEF Kept, Elsewhere

\* Rolled back: s starts over or is done, the tables stay.
LEMMA RollbackKeepsSerial ==
  ASSUME Inv, Inv', SerialInv, NEW s \in Session, EndTransaction(s), Elsewhere(s),
         \A u \in Session \ {s} : todo'[u] = todo[u],
         UNCHANGED <<rows, volumes, transactions, logs, chain>>,
         pc'[s] \notin Midway \cup {"commit"},
         pc'[s] \in {"find", "materialise"} => item'[s] \in {0, 1},
         pc'[s] \in Holding => pc'[s] = "materialise",
         AskOK(s)'
  PROVE  SerialInv'
<1>1. \A u \in Session \ {s} : Kept(u)
  BY EndOthers
<1>2. \A u \in Session \ {s} : AskOK(u)' /\ PlanOK(u)' /\ MidOK(u)' /\ BehindOK(u)'
  BY <1>1, OthersWork
<1>3. PlanOK(s)' /\ MidOK(s)' /\ BehindOK(s)'
  BY EndFacts, FreshStart
<1>4. AbsentOK'
  BY DEF SerialInv, AbsentOK
<1> QED
  BY <1>2, <1>3, <1>4 DEF SerialInv

\* A refusal.
LEMMA RefuseKeepsSerial ==
  ASSUME Inv, Inv', SerialInv, NEW s \in Session, Refuse(s)
  PROVE  SerialInv'
<1>1. /\ EndTransaction(s) /\ Elsewhere(s) /\ pc'[s] = "idle"
      /\ \A u \in Session \ {s} : todo'[u] = todo[u]
      /\ UNCHANGED <<rows, volumes, transactions, logs, chain>>
  BY DEF Refuse, Forget, tables, Elsewhere, Inv, TypeOK, FunctionsOK
<1>2. AskOK(s)'
  BY <1>1 DEF AskOK, Working
<1> QED
  BY <1>1, <1>2, RollbackKeepsSerial DEF Midway, Holding, Working

\* An end that publishes nothing of the log.
LEMMA FinishKeepsSerial ==
  ASSUME Inv, Inv', SerialInv, NEW s \in Session, NEW ids, Finish(s, ids),
         UNCHANGED <<rows, volumes, transactions, logs, chain>>
  PROVE  SerialInv'
<1>1. /\ EndTransaction(s) /\ Elsewhere(s) /\ pc'[s] = "reply"
      /\ \A u \in Session \ {s} : todo'[u] = todo[u]
  BY DEF Finish, call, Elsewhere, Inv, TypeOK, FunctionsOK
<1>2. AskOK(s)'
  BY <1>1 DEF AskOK, Working
<1> QED
  BY <1>1, <1>2, RollbackKeepsSerial DEF Midway, Holding, Working

\* A call answered from the log.
LEMMA AnswerKeepsSerial ==
  ASSUME Inv, Inv', SerialInv, NEW s \in Session, AnswerStored(s)
  PROVE  SerialInv'
<1>1. PICK e \in KeyEntries(req[s].key) :
        \/ Refuse(s)
        \/ Finish(s, Stored(req[s], e)) /\ UNCHANGED tables
  BY DEF AnswerStored
<1> QED
  BY <1>1, RefuseKeepsSerial, FinishKeepsSerial DEF tables

\* A call starts with what it was asked for.
LEMMA EntryAsks ==
  ASSUME NEW q \in Request
  PROVE  /\ EntryPoint(q) \in {"find", "materialise"} => q.kind \in {"commit", "batch"}
         /\ EntryPoint(q) \notin Midway \cup {"commit"}
         /\ EntryPoint(q) \in Holding => EntryPoint(q) = "materialise"
         /\ FirstItem(q) \in {0, 1}
<1>1. q.kind \in {"commit", "batch", "revert", "close"}
  BY RequestAssumption
<1> QED
  BY <1>1 DEF EntryPoint, FirstItem, Midway, Holding, Working

\* An attempt starts again.
LEMMA ContendKeepsSerial ==
  ASSUME Inv, Inv', SerialInv, NEW s \in Session, Contend(s)
  PROVE  SerialInv'
<1>1. CASE Refuse(s)
  BY <1>1, RefuseKeepsSerial
<1>2. CASE EndTransaction(s) /\ Enter(s, req[s]) /\ UNCHANGED <<tables, req>>
  <2>1. /\ UNCHANGED <<rows, volumes, transactions, logs, chain>> /\ req[s] \in Request
        /\ Elsewhere(s) /\ pc'[s] = EntryPoint(req[s]) /\ items'[s] = req[s].items
        /\ item'[s] = FirstItem(req[s]) /\ req'[s] = req[s]
        /\ \A u \in Session \ {s} : todo'[u] = todo[u]
    <3>1. /\ pc' = [pc EXCEPT ![s] = EntryPoint(req[s])]
          /\ items' = [items EXCEPT ![s] = req[s].items]
          /\ item' = [item EXCEPT ![s] = FirstItem(req[s])]
          /\ todo' = [todo EXCEPT ![s] = EntryTodo(req[s])]
          /\ UNCHANGED <<rows, volumes, transactions, logs, chain, req>>
      BY <1>2, Zenon DEF tables, Enter
    <3>2. /\ DOMAIN pc = Session /\ DOMAIN items = Session /\ DOMAIN item = Session
          /\ DOMAIN todo = Session
      BY DEF Inv, TypeOK, FunctionsOK
    <3>3. req[s] \in Request
      <4>1. pc[s] # "idle"
        BY DEF Contend
      <4> QED
        BY <4>1 DEF Inv, SessionOK, CallOK
    <3> QED
      BY <3>1, <3>2, <3>3 DEF Elsewhere
  <2>2. pc'[s] \in {"find", "materialise", "lockTx", "closeRead"}
    BY <2>1, EntryFacts
  <2>3. AskOK(s)'
    BY <2>1, <2>2, EntryAsks DEF AskOK, Working
  <2> QED
    BY <1>2, <2>1, <2>3, EntryAsks, RollbackKeepsSerial
<1> QED
  BY <1>1, <1>2 DEF Contend

\* A step inside a transaction.
LEMMA OwnStep ==
  ASSUME Inv, Inv', SerialInv, NEW s \in Session, \A u \in Session \ {s} : Kept(u),
         UNCHANGED <<rows, volumes, transactions, logs, chain>>,
         AskOK(s)', PlanOK(s)', MidOK(s)', BehindOK(s)'
  PROVE  SerialInv'
<1>1. \A u \in Session \ {s} : AskOK(u)' /\ PlanOK(u)' /\ MidOK(u)' /\ BehindOK(u)'
  BY OthersWork
<1>2. AbsentOK'
  BY DEF SerialInv, AbsentOK
<1> QED
  BY <1>1, <1>2 DEF SerialInv

\* A call begins.
LEMMA BeginKeepsSerial ==
  ASSUME Inv, Inv', SerialInv, NEW s \in Session, NEW q \in Request, Begin(s, q)
  PROVE  SerialInv'
<1> USE DEF tables, locks, writes, Inv, TypeOK, FunctionsOK
<1>1. /\ UNCHANGED <<rows, volumes, transactions, logs, chain, wrote>>
      /\ pc[s] = "idle" /\ pc'[s] = EntryPoint(q) /\ items'[s] = q.items
      /\ item'[s] = FirstItem(q) /\ req'[s] = q
  BY DEF Begin, Enter
<1>2. \A u \in Session \ {s} : Kept(u)
  BY DEF Begin, Enter, Kept
<1>3. wrote'[s] = {}
  BY <1>1 DEF SerialInv, PlanOK, Holding, Working
<1>4. pc'[s] \in {"find", "materialise", "lockTx", "closeRead"}
  BY <1>1, EntryFacts
<1>5. AskOK(s)'
  BY <1>1, <1>4, EntryAsks DEF AskOK, Working
<1>6. PlanOK(s)' /\ MidOK(s)' /\ BehindOK(s)'
  BY <1>1, <1>3, EntryAsks, FreshStart
<1> QED
  BY <1>1, <1>2, <1>5, <1>6, OwnStep

\* The lookup of the key.
LEMMA FindKeepsSerial ==
  ASSUME Inv, Inv', SerialInv, NEW s \in Session, Find(s)
  PROVE  SerialInv'
<1> USE DEF tables, locks, writes, call, Inv, TypeOK, FunctionsOK
<1>1. CASE AnswerStored(s)
  BY <1>1, AnswerKeepsSerial
<1>2. CASE ~AnswerStored(s)
  <2>1. /\ UNCHANGED <<rows, volumes, transactions, logs, chain, wrote, items, item, req>>
        /\ pc[s] = "find" /\ pc'[s] = "materialise"
    BY <1>2 DEF Find
  <2>2. \A u \in Session \ {s} : Kept(u)
    BY <1>2 DEF Find, Kept
  <2>3. wrote'[s] = {} /\ item'[s] \in {0, 1}
    BY <2>1 DEF SerialInv, PlanOK, Holding
  <2>4. AskOK(s)'
    BY <2>1 DEF SerialInv, AskOK, Working
  <2>5. PlanOK(s)' /\ MidOK(s)' /\ BehindOK(s)'
    BY <2>1, <2>3, FreshStart DEF Midway
  <2> QED
    BY <2>1, <2>2, <2>4, <2>5, OwnStep
<1> QED
  BY <1>1, <1>2

\* The transaction to reverse is locked and turned round.
LEMMA LockTransactionKeepsSerial ==
  ASSUME Inv, Inv', SerialInv, NEW s \in Session, LockTransaction(s)
  PROVE  SerialInv'
<1> USE DEF tables, locks, writes, Inv, TypeOK, FunctionsOK
<1>1. CASE Refuse(s)
  BY <1>1, RefuseKeepsSerial
<1>2. CASE ~Refuse(s)
  <2>1. PICK t \in transactions :
          /\ t.id = req[s].target
          /\ items' = [items EXCEPT ![s] =
                         <<[postings |-> ReversePostings(t.postings), ref |-> NoRef]>>]
          /\ todo' = [todo EXCEPT ![s] = RowsOf(ReversePostings(t.postings))]
          /\ pc' = [pc EXCEPT ![s] = "materialise"]
          /\ UNCHANGED <<tables, rowLock, chainLock, writes, req, item, before, posts>>
    BY <1>2 DEF LockTransaction
  <2>2. /\ UNCHANGED <<rows, volumes, transactions, logs, chain, wrote, item, req>>
        /\ pc[s] = "lockTx" /\ pc'[s] = "materialise"
        /\ items'[s] = <<[postings |-> ReversePostings(t.postings), ref |-> NoRef]>>
    BY <2>1 DEF LockTransaction
  <2>3. \A u \in Session \ {s} : Kept(u)
    BY <2>1 DEF Kept
  <2>4. req[s].kind = "revert" /\ item[s] = 1
    BY <2>2 DEF SessionOK, CallOK
  <2>5. wrote'[s] = {} /\ item'[s] = 1
    BY <2>2, <2>4 DEF SerialInv, PlanOK, Holding, Working
  <2>6. AskOK(s)'
    BY <2>1, <2>2, <2>4 DEF AskOK
  <2>7. PlanOK(s)' /\ MidOK(s)' /\ BehindOK(s)'
    BY <2>2, <2>5, FreshStart DEF Midway
  <2> QED
    BY <2>2, <2>3, <2>6, <2>7, OwnStep
<1> QED
  BY <1>1, <1>2

\* A close, and the answer to a call.
LEMMA OutsideKeepsSerial ==
  ASSUME Inv, Inv', SerialInv, NEW s \in Session,
         Reply(s) \/ CloseRead(s) \/ CloseCheck(s) \/ \E r \in Row : CloseLock(s, r)
  PROVE  SerialInv'
<1> USE DEF tables, locks, writes, call, Inv, TypeOK, FunctionsOK
<1>1. CASE Refuse(s)
  BY <1>1, RefuseKeepsSerial
<1>2. CASE ~Refuse(s)
  <2>1. /\ UNCHANGED <<rows, volumes, transactions, logs, chain, wrote>>
        /\ pc[s] \in {"reply", "closeRead", "closeLock"}
    BY <1>2 DEF Reply, CloseRead, CloseCheck, CloseLock
  <2>2. (\A u \in Session \ {s} : Kept(u)) /\ pc'[s] \in {"idle", "closeLock", "closeWrite"}
    <3>1. CASE Reply(s)
      BY <3>1 DEF Reply, Forget, Kept
    <3>2. CASE CloseRead(s)
      BY <3>2 DEF CloseRead, Kept
    <3>3. CASE CloseCheck(s)
      BY <1>2, <3>3 DEF CloseCheck, Kept
    <3>4. CASE \E r \in Row : CloseLock(s, r)
      <4>1. PICK r \in Row : CloseLock(s, r)
        BY <3>4
      <4>2. rowLock[r] = NoSession /\ NoSession \notin Session
        BY <4>1, SessionAssumption DEF CloseLock
      <4> QED
        BY <4>1, <4>2 DEF CloseLock, Kept
    <3> QED
      BY <3>1, <3>2, <3>3, <3>4
  <2>3. wrote'[s] = {}
    BY <2>1 DEF SerialInv, PlanOK, Holding, Working
  <2>4. AskOK(s)'
    BY <2>2 DEF AskOK, Working
  <2>5. PlanOK(s)' /\ MidOK(s)' /\ BehindOK(s)'
    BY <2>2, <2>3, FreshStart DEF Midway, Holding, Working
  <2> QED
    BY <2>1, <2>2, <2>4, <2>5, OwnStep
<1> QED
  BY <1>1, <1>2

\* Writing a closure.
LEMMA CloseWriteKeepsSerial ==
  ASSUME Inv, Inv', SerialInv, NEW s \in Session, CloseWrite(s)
  PROVE  SerialInv'
BY FinishKeepsSerial DEF CloseWrite

\* A step on the way to the next entry.
LEMMA NextStep ==
  ASSUME Inv, Inv', SerialInv, NEW s \in Session, \A u \in Session \ {s} : Kept(u),
         UNCHANGED <<rows, volumes, transactions, logs, chain>>,
         pc[s] \in Holding, pc'[s] \in Holding \ {"commit"},
         req'[s] = req[s], items'[s] = items[s], newLogs'[s] = newLogs[s],
         wrote[s] \subseteq wrote'[s], chainLock = s => chainLock' = s,
         Done(s)' = Done(s), Seen(s)' = Seen(s), MidOK(s)',
         ChainView(s)'.lastHash = ChainView(s).lastHash
  PROVE  SerialInv'
<1>1. AskOK(s) /\ PlanOK(s)
  BY DEF SerialInv
<1>2. AskOK(s)'
  BY <1>1 DEF AskOK, Holding
<1>3. pc'[s] # "find" /\ pc'[s] # "commit" /\ pc'[s] \in Holding
  BY DEF Holding
<1>4. PlanOK(s)'
  BY <1>1, <1>3 DEF PlanOK
<1>5. BehindOK(s)'
  BY <1>3, GoesOn
<1> QED
  BY <1>2, <1>4, <1>5, OwnStep

\* insert ... on conflict do nothing: the row s inserts is the one it saw.
LEMMA MaterialiseKeepsSerial ==
  ASSUME Inv, Inv', SerialInv, NEW s \in Session, NEW r \in Row, MaterialiseRow(s, r)
  PROVE  SerialInv'
<1> USE DEF tables, locks, writes, call, Inv, TypeOK, FunctionsOK
<1>1. /\ UNCHANGED <<rows, volumes, transactions, logs, chain, chainLock, tip, newLogs, newTxs,
                     items, item, req, before, posts>>
      /\ pc[s] = "materialise" /\ pc'[s] \in {"materialise", "lock"}
  BY DEF MaterialiseRow
<1>2. \/ UNCHANGED <<rowLock, wrote, mine>>
      \/ /\ r \notin rows /\ rowLock[r] = NoSession
         /\ rowLock' = [rowLock EXCEPT ![r] = s]
         /\ wrote' = [wrote EXCEPT ![s] = @ \cup {r}]
         /\ mine' = [mine EXCEPT ![s][r] = FreshRow(r)]
  BY DEF MaterialiseRow
<1>3. \A u \in Session \ {s} : pc'[u] = pc[u] /\ todo'[u] = todo[u]
  BY DEF MaterialiseRow
<1>4. \A u \in Session \ {s} : Kept(u)
  BY <1>1, <1>2, <1>3, SessionAssumption DEF Kept
<1>5. wrote[s] \subseteq wrote'[s] /\ \A x \in Row : View(s, x)' = View(s, x)
  <2>1. CASE UNCHANGED <<rowLock, wrote, mine>>
    BY <1>1, <2>1 DEF View
  <2>2. CASE ~UNCHANGED <<rowLock, wrote, mine>>
    <3>1. /\ wrote'[s] = wrote[s] \cup {r} /\ mine'[s][r] = FreshRow(r)
          /\ \A x \in Row \ {r} : mine'[s][x] = mine[s][x]
      BY <1>2, <2>2
    <3>2. r \notin wrote[s]
      BY <1>2, <2>2, SessionAssumption DEF SessionOK, RowsOK
    <3>3. volumes[r] = FreshRow(r)
      BY <1>2, <2>2 DEF SerialInv, AbsentOK
    <3> QED
      BY <1>1, <3>1, <3>2, <3>3 DEF View
  <2> QED
    BY <2>1, <2>2
<1>6. Seen(s)' = Seen(s)
  <2>1. pc[s] \notin Midway /\ pc'[s] \notin Midway
    BY <1>1 DEF Midway
  <2> QED
    BY <1>5, <2>1 DEF Seen
<1>7. Done(s)' = Done(s) /\ ChainView(s)'.lastHash = ChainView(s).lastHash
  BY <1>1 DEF Done, ChainView
<1>8. MidOK(s)'
  BY <1>1 DEF MidOK, Midway
<1>9. pc[s] \in Holding /\ pc'[s] \in Holding \ {"commit"}
  BY <1>1 DEF Holding, Working
<1> QED
  BY <1>1, <1>4, <1>5, <1>6, <1>7, <1>8, <1>9, NextStep

\* A row is locked and read.
LEMMA LockRowKeepsSerial ==
  ASSUME Inv, Inv', SerialInv, NEW s \in Session, NEW r \in Row, LockRow(s, r)
  PROVE  SerialInv'
<1> USE DEF tables, locks, writes, call, Inv, TypeOK, FunctionsOK
<1>1. /\ UNCHANGED <<rows, volumes, transactions, logs, chain, chainLock, tip, newLogs, newTxs,
                     items, req, posts, wrote, mine>>
      /\ pc[s] = "lock" /\ pc'[s] \in {"materialise", "lock", "readClosed"}
      /\ item'[s] = item[s] \/ (item[s] = 0 /\ item'[s] = 1)
  BY DEF LockRow
<1>2. \A u \in Session \ {s} : Kept(u)
  BY SessionAssumption DEF LockRow, Granted, Kept
<1>3. Done(s)' = Done(s) /\ ChainView(s)'.lastHash = ChainView(s).lastHash
  BY <1>1 DEF Done, ChainView
<1>4. pc[s] \notin Midway /\ pc'[s] \notin Midway
  BY <1>1 DEF Midway
<1>5. Seen(s)' = Seen(s) /\ MidOK(s)'
  BY <1>1, <1>4 DEF Seen, View, MidOK
<1>6. pc[s] \in Holding /\ pc'[s] \in Holding \ {"commit"}
  BY <1>1 DEF Holding, Working
<1> QED
  BY <1>1, <1>2, <1>3, <1>5, <1>6, NextStep

\* The closed accounts are read.
LEMMA ReadClosedKeepsSerial ==
  ASSUME Inv, Inv', SerialInv, NEW s \in Session, ReadClosed(s)
  PROVE  SerialInv'
<1> USE DEF tables, locks, writes, call, Inv, TypeOK, FunctionsOK
<1>1. /\ UNCHANGED <<rows, volumes, transactions, logs, chain, chainLock, tip, newLogs, newTxs,
                     items, item, req, posts, wrote, mine>>
      /\ pc[s] = "readClosed" /\ pc'[s] = "apply"
  BY DEF ReadClosed
<1>2. \A u \in Session \ {s} : Kept(u)
  BY DEF ReadClosed, Kept
<1>3. Done(s)' = Done(s) /\ ChainView(s)'.lastHash = ChainView(s).lastHash
  BY <1>1 DEF Done, ChainView
<1>4. pc[s] \notin Midway /\ pc'[s] \notin Midway
  BY <1>1 DEF Midway
<1>5. Seen(s)' = Seen(s) /\ MidOK(s)'
  BY <1>1, <1>4 DEF Seen, View, MidOK
<1>6. pc[s] \in Holding /\ pc'[s] \in Holding \ {"commit"}
  BY <1>1 DEF Holding, Working
<1> QED
  BY <1>1, <1>2, <1>3, <1>5, <1>6, NextStep

\* The next ids are taken, with the ledgers row.
LEMMA AllocateKeepsSerial ==
  ASSUME Inv, Inv', SerialInv, NEW s \in Session, Allocate(s)
  PROVE  SerialInv'
<1> USE DEF tables, locks, writes, call, Inv, TypeOK, FunctionsOK
<1>1. /\ UNCHANGED <<rows, volumes, transactions, logs, chain, newLogs, newTxs,
                     items, item, req, posts, wrote, mine, before>>
      /\ pc[s] = "allocate" /\ pc'[s] = "insert" /\ chainLock' = s
      /\ tip'[s].lastHash = ChainView(s).lastHash
  BY DEF Allocate
<1>2. \A u \in Session \ {s} : Kept(u)
  BY SessionAssumption DEF Allocate, Kept
<1>3. Done(s)' = Done(s) /\ ChainView(s)'.lastHash = ChainView(s).lastHash
  BY <1>1 DEF Done, ChainView
<1>4. pc[s] \in Midway /\ pc'[s] \in Midway /\ Asked(s)' = Asked(s)
  BY <1>1 DEF Midway, Asked
<1>5. Seen(s)' = Seen(s)
  BY <1>1, <1>4 DEF Seen, View
<1>6. MidOK(s)'
  BY <1>1, <1>4 DEF SerialInv, MidOK
<1>7. pc[s] \in Holding /\ pc'[s] \in Holding \ {"commit"}
  BY <1>1 DEF Holding, Working
<1> QED
  BY <1>1, <1>2, <1>3, <1>5, <1>6, <1>7, NextStep

\* The transaction is inserted.
LEMMA InsertKeepsSerial ==
  ASSUME Inv, Inv', SerialInv, NEW s \in Session, InsertTransaction(s)
  PROVE  SerialInv'
<1> USE DEF tables, locks, writes, call, Inv, TypeOK, FunctionsOK
<1>1. CASE Refuse(s)
  BY <1>1, RefuseKeepsSerial
<1>2. CASE ~Refuse(s)
  <2>1. /\ UNCHANGED <<rows, volumes, transactions, logs, chain, chainLock, tip, newLogs,
                       items, item, req, posts, wrote, mine, before>>
        /\ pc[s] = "insert" /\ pc'[s] = "append"
    BY <1>2 DEF InsertTransaction
  <2>2. \A u \in Session \ {s} : Kept(u)
    BY <1>2 DEF InsertTransaction, Kept
  <2>3. Done(s)' = Done(s) /\ ChainView(s)'.lastHash = ChainView(s).lastHash
    BY <2>1 DEF Done, ChainView
  <2>4. pc[s] \in Midway /\ pc'[s] \in Midway /\ Asked(s)' = Asked(s)
    BY <2>1 DEF Midway, Asked
  <2>5. Seen(s)' = Seen(s)
    BY <2>1, <2>4 DEF Seen, View
  <2>6. MidOK(s)'
    BY <2>1, <2>4 DEF SerialInv, MidOK
  <2>7. pc[s] \in Holding /\ pc'[s] \in Holding \ {"commit"}
    BY <2>1 DEF Holding, Working
  <2> QED
    BY <2>1, <2>2, <2>3, <2>5, <2>6, <2>7, NextStep
<1> QED
  BY <1>1, <1>2

\* The update passes the checks on the rows as they stand.
LEMMA ApplyKeepsSerial ==
  ASSUME Inv, Inv', VolInv, SerialInv, NEW s \in Session, Apply(s)
  PROVE  SerialInv'
<1>1. CASE Refuse(s)
  BY <1>1, RefuseKeepsSerial
<1>2. CASE ~Refuse(s)
  <2>1. /\ UNCHANGED <<rows, volumes, transactions, logs, chain, chainLock, rowLock, tip,
                       newLogs, newTxs, items, item, req, todo, before>>
        /\ pc[s] = "apply" /\ pc' = [pc EXCEPT ![s] = "allocate"]
        /\ posts' = [posts EXCEPT ![s] = Settled(s)]
        /\ wrote' = [wrote EXCEPT ![s] = @ \cup RowsOf(Asked(s))]
        /\ mine' = [mine EXCEPT ![s] =
             [r \in Row |-> IF r \in RowsOf(Asked(s)) THEN Updated(s)[r] ELSE @[r]]]
        /\ Accepted(s)
    BY <1>2 DEF Apply, tables, call, locks
  <2>2. /\ pc \in [Session -> Labels] /\ DOMAIN posts = Session /\ wrote \in [Session -> SUBSET Row]
        /\ mine \in [Session -> [Row -> RowValue]]
    BY DEF Inv, TypeOK, FunctionsOK
  <2>3. /\ pc'[s] = "allocate" /\ posts'[s] = Settled(s)
        /\ wrote'[s] = wrote[s] \cup RowsOf(Asked(s))
        /\ \A r \in Row : mine'[s][r] = IF r \in RowsOf(Asked(s)) THEN Updated(s)[r] ELSE mine[s][r]
    BY <2>1, <2>2
  <2>4. \A u \in Session \ {s} : Kept(u)
    BY <2>1, <2>2 DEF Kept
  <2>5. /\ RowsOf(Asked(s)) \subseteq Row
        /\ \A r \in RowsOf(Asked(s)) : before[s][r] = View(s, r)
    BY <2>1, SettledFacts
  <2>6. Done(s)' = Done(s) /\ ChainView(s)'.lastHash = ChainView(s).lastHash /\ Asked(s)' = Asked(s)
    BY <2>1, <2>3 DEF Done, ChainView, Asked
  <2>7. pc[s] \notin Midway /\ pc'[s] \in Midway
    BY <2>1, <2>3 DEF Midway
  <2>8. Seen(s)' = Seen(s)
    <3>1. ASSUME NEW r \in Row PROVE Seen(s)'[r] = Seen(s)[r]
      <4>1. Seen(s)'[r] = IF r \in RowsOf(Asked(s)) THEN before[s][r]
                          ELSE IF r \in wrote'[s] THEN mine'[s][r] ELSE volumes[r]
        BY <2>1, <2>6, <2>7 DEF Seen, View
      <4>2. Seen(s)[r] = IF r \in wrote[s] THEN mine[s][r] ELSE volumes[r]
        BY <2>7 DEF Seen, View
      <4>3. r \in RowsOf(Asked(s)) => before[s][r] = Seen(s)[r]
        BY <2>5, <4>2 DEF View
      <4> QED
        BY <2>3, <4>1, <4>2, <4>3
    <3>2. Seen(s) = [r \in Row |-> Seen(s)[r]] /\ Seen(s)' = [r \in Row |-> Seen(s)'[r]]
      BY DEF Seen
    <3> QED
      BY <3>1, <3>2
  <2>9. MidOK(s)'
    <3>1. ChecksPass(s) /\ before'[s] = before[s]
      BY <2>1 DEF Accepted
    <3>2. /\ ~UnboundedSweep(Asked(s), before[s])
          /\ CheckBalances(before[s], VolumeUpdates(Settled(s)))
      BY <3>1 DEF ChecksPass
    <3>3. \A r \in RowsOf(Asked(s)) :
            mine'[s][r] = AddDelta(before[s][r], VolumeUpdates(Settled(s))[r])
      BY <2>3, <2>5 DEF Updated
    <3> QED
      BY <2>3, <2>6, <3>1, <3>2, <3>3 DEF MidOK, Settled
  <2>10. pc[s] \in Holding /\ pc'[s] \in Holding \ {"commit"}
    BY <2>1, <2>3 DEF Holding, Working
  <2>11. /\ req'[s] = req[s] /\ items'[s] = items[s] /\ newLogs'[s] = newLogs[s]
         /\ wrote[s] \subseteq wrote'[s] /\ chainLock' = chainLock
         /\ UNCHANGED <<rows, volumes, transactions, logs, chain>>
    BY <2>1, <2>3
  <2> QED
    BY <2>4, <2>6, <2>8, <2>9, <2>10, <2>11, NextStep
<1> QED
  BY <1>1, <1>2

-----------------------------------------------------------------------------
(* An entry is a transaction of the serial ledger.                         *)

\* One chain has one tip.
LEMMA OneTip ==
  ASSUME NEW ls, NEW m \in Nat, NEW n \in Nat, NEW g, NEW h, Chained(ls, m, g), Chained(ls, n, h)
  PROVE  g = h
<1>1. m = n
  <2>1. 1..m = 1..n
    BY Zenon DEF Chained
  <2>2. m # 0 => m \in 1..n
    BY <2>1
  <2>3. n # 0 => n \in 1..m
    BY <2>1
  <2> QED
    BY <2>2, <2>3
<1>2. CASE n = 0
  BY <1>1, <1>2 DEF Chained
<1>3. CASE n # 0
  <2>1. n \in 1..n
    BY <1>3
  <2>2. n \in {e.id : e \in ls}
    BY <2>1, Zenon DEF Chained
  <2>3. PICK e \in ls : e.id = n
    BY <2>2
  <2>4. h = e.hash /\ (e.id = m => g = e.hash)
    BY <2>3, Zenon DEF Chained
  <2> QED
    BY <1>1, <2>3, <2>4
<1> QED
  BY <1>2, <1>3

\* A session about to write an entry holds the ledgers row and sees well formed
\* books.
LEMMA AppendFacts ==
  ASSUME Inv, LogInv, VolInv, SerialInv, NEW s \in Session, pc[s] = "append"
  PROVE  /\ chainLock = s /\ item[s] \in 1..Len(items[s]) /\ Len(items[s]) \in Nat
         /\ Books(LogOf(s), UndoneBy(s), tip[s].lastLog - 1, tip[s].lastHash, tip[s].lastTx - 1)
         /\ tip[s].lastLog - 1 \in Nat /\ tip[s].lastTx - 1 \in Nat
         /\ NewTransaction(s).ref # NoRef =>
              \A t \in Logged(LogOf(s)) : t.ref # NewTransaction(s).ref
         /\ item[s] = 1 => newLogs[s] = {}
         /\ Done(s) = item[s] - 1
         /\ Valid(Asked(s)) /\ RowsOf(Asked(s)) \subseteq Row
         /\ DOMAIN items[s] = 1..Len(items[s])
<1>1. CallOK(s) /\ ChainOK(s) /\ pc[s] \in Working \ {"find", "materialise", "lock", "commit"}
  BY DEF Inv, SessionOK, Working
<1>2. chainLock = s
  BY <1>1 DEF ChainOK
<1>3. /\ DOMAIN items[s] = 1..Len(items[s]) /\ Len(items[s]) \in Nat
      /\ item[s] \in 0..Len(items[s]) /\ item[s] # 0
      /\ \A i \in DOMAIN items[s] : WellRowed(items[s][i].postings)
      /\ tip[s].lastLog \in Nat /\ tip[s].lastTx \in Nat
  BY <1>1 DEF CallOK
<1>4. item[s] \in 1..Len(items[s])
  BY <1>3
<1>5. BooksOK(s) /\ ProgressOK(s)
  BY <1>2 DEF LogInv
<1>6. /\ Books(LogOf(s), UndoneBy(s), tip[s].lastLog - 1, tip[s].lastHash, tip[s].lastTx - 1)
      /\ tip[s].lastLog > 0 /\ tip[s].lastTx > 0
      /\ NewTransaction(s).ref # NoRef =>
              \A t \in Logged(LogOf(s)) : t.ref # NewTransaction(s).ref
  BY <1>5 DEF BooksOK
<1>7. item[s] = 1 => newLogs[s] = {}
  BY <1>1, <1>5 DEF ProgressOK
<1>8. Done(s) = item[s] - 1
  BY <1>3 DEF Done
<1>9. Valid(Asked(s)) /\ RowsOf(Asked(s)) \subseteq Row
  BY <1>1, <1>3, <1>4 DEF VolInv, VolumesOK, AskedOK, Asked, WellRowed
<1> QED
  BY <1>2, <1>3, <1>4, <1>6, <1>7, <1>8, <1>9

\* It has replayed what it entered before.
LEMMA CaughtUp ==
  ASSUME Inv, LogInv, VolInv, SerialInv, NEW s \in Session, pc[s] = "append"
  PROVE  \E bs : Replayed(s, bs)
<1>1. BehindOK(s) /\ pc[s] \in Holding
  BY DEF SerialInv, Holding, Working
<1>2. CASE Done(s) # 0
  BY <1>1, <1>2 DEF BehindOK
<1>3. CASE Done(s) = 0
  <2>1. Seen(s) = volumes
    BY <1>1, <1>3 DEF BehindOK
  <2>2. /\ chainLock = s /\ newLogs[s] = {} /\ tip[s].lastLog - 1 \in Nat
        /\ Books(LogOf(s), UndoneBy(s), tip[s].lastLog - 1, tip[s].lastHash, tip[s].lastTx - 1)
    BY <1>3, AppendFacts
  <2>3. LogOf(s) = logs
    BY <2>2 DEF LogOf
  <2>4. /\ Chained(logs, tip[s].lastLog - 1, tip[s].lastHash)
        /\ Chained(logs, chain.lastLog, chain.lastHash)
    BY <2>2, <2>3 DEF Books, LogInv
  <2>5. chain.lastLog \in Nat /\ volumes \in [Row -> RowValue]
    BY DEF Inv, TypeOK
  <2>6. chain.lastHash = tip[s].lastHash
    BY <2>2, <2>4, <2>5, OneTip
  <2> DEFINE bs == [k \in {0} |-> Serial!Books]
  <2>7. Serial!Books = Shown(Seen(s), LogOf(s), ChainView(s).lastHash)
    BY <2>1, <2>2, <2>3, <2>6, BooksShown DEF ChainView
  <2>8. Serial!Books.volumes = volumes
    BY DEF Serial!Books
  <2>9. Replayed(s, bs)
    BY <1>3, <2>5, <2>7, <2>8 DEF Replayed
  <2> QED
    BY <2>9
<1> QED
  BY <1>2, <1>3

\* The entry that s writes is the one the serial ledger records on what s sees.
LEMMA EntryIsRecord ==
  ASSUME Inv, LogInv, VolInv, SerialInv, NEW s \in Session, pc[s] = "append", ~KeyTaken(s)
  PROVE  Enact(req[s], items[s], Shown(Seen(s), LogOf(s), tip[s].lastHash), item[s]) =
           Shown(CommitView(s), LogOf(s) \cup {NewEntry(s)}, NewEntry(s).hash)
<1> DEFINE b == Shown(Seen(s), LogOf(s), tip[s].lastHash)
           it == items[s][item[s]]
           ps == Asked(s)
           key == IF item[s] = 1 THEN req[s].key ELSE NoKey
           ik == IF item[s] = 1 /\ req[s].key # NoKey THEN IkHash(req[s]) ELSE NoTag
           tag == BatchTag(req[s])
           undoes == IF req[s].kind = "revert" THEN req[s].target ELSE 0
           data == EntryData(b, it, tag, undoes)
           L == LogOf(s)
<1>1. /\ b.ok = TRUE /\ b.volumes = Seen(s) /\ b.transactions = Logged(L) /\ b.logs = L
      /\ b.hash = tip[s].lastHash
  BY DEF Shown
<1>2. /\ posts[s] = ResolveUpTo(ps, before[s])
      /\ ~UnboundedSweep(ps, before[s])
      /\ CheckBalances(before[s], VolumeUpdates(posts[s]))
      /\ RowsOf(ps) \subseteq wrote[s]
      /\ \A r \in RowsOf(ps) : mine[s][r] = AddDelta(before[s][r], VolumeUpdates(posts[s])[r])
  BY DEF SerialInv, MidOK, Midway
<1>3. Valid(ps) /\ RowsOf(ps) \subseteq Row
  BY AppendFacts
<1>4. \A r \in Row : Seen(s)[r] = IF r \in RowsOf(ps) THEN before[s][r] ELSE View(s, r)
  BY DEF Seen, Midway
<1>5. \A r \in RowsOf(ps) : Seen(s)[r] = before[s][r]
  BY <1>3, <1>4
<1>6. Paid(b, it) = posts[s] /\ ~UnboundedSweep(ps, Seen(s)) /\ it.postings = ps
  <2>1. it.postings = ps
    BY DEF Asked
  <2>2. /\ ResolveUpTo(ps, Seen(s)) = ResolveUpTo(ps, before[s])
        /\ UnboundedSweep(ps, Seen(s)) <=> UnboundedSweep(ps, before[s])
    BY <1>5, SameResolved
  <2> QED
    BY <1>1, <1>2, <2>1, <2>2 DEF Paid
<1>7. Plain(posts[s]) /\ RowsOf(posts[s]) = RowsOf(ps)
  <2>1. before[s] \in [Row -> RowValue]
    BY DEF Inv, TypeOK
  <2>2. \A r \in RowsOf(ps) : Balance(before[s][r]) \in Int
    BY <1>3, <2>1 DEF RowValue, Balance
  <2> QED
    BY <1>2, <1>3, <2>2, ResolveIsPlain
<1>8. CheckBalances(Seen(s), VolumeUpdates(posts[s]))
  <2>1. DOMAIN VolumeUpdates(posts[s]) = RowsOf(ps)
    BY <1>7, PlainUpdates
  <2> QED
    BY <1>2, <1>5, <2>1, SameChecked
<1> HIDE DEF b, it, ps, key, ik, tag, undoes, data, L
<1>9. Left(b, it) = PostCommitVolumes(s)
  <2>1. Left(b, it) = [r \in RowsOf(ps) |-> AddDelta(Seen(s)[r], VolumeUpdates(posts[s])[r])]
    BY <1>1, <1>6, <1>7 DEF Left
  <2>2. PostCommitVolumes(s) = [r \in RowsOf(ps) |-> AddDelta(before[s][r], VolumeUpdates(posts[s])[r])]
    BY DEF PostCommitVolumes, ps
  <2> QED
    BY <1>5, <2>1, <2>2
<1>10. Cardinality(L) + 1 = tip[s].lastLog /\ Cardinality(Logged(L)) + 1 = tip[s].lastTx
  <2>1. /\ Books(L, UndoneBy(s), tip[s].lastLog - 1, tip[s].lastHash, tip[s].lastTx - 1)
        /\ tip[s].lastLog - 1 \in Nat /\ tip[s].lastTx - 1 \in Nat
    BY AppendFacts DEF L
  <2>2. Cardinality(L) = tip[s].lastLog - 1
    BY <2>1, NumberedSize DEF Books, Chained
  <2>3. Cardinality(Logged(L)) = tip[s].lastTx - 1
    BY <2>1, NumberedSize DEF Books, Numbered
  <2>4. tip[s].lastLog \in Nat /\ tip[s].lastTx \in Nat
    BY DEF Inv, SessionOK, CallOK
  <2> QED
    BY <2>2, <2>3, <2>4
<1>11. data = NewEntry(s).data /\ data.tx = NewTransaction(s)
  <2>1. [id |-> Cardinality(b.transactions) + 1, postings |-> Paid(b, it), ref |-> it.ref,
         tag |-> tag, pcv |-> Left(b, it)] = NewTransaction(s)
    BY <1>1, <1>6, <1>9, <1>10 DEF NewTransaction, it, tag
  <2> QED
    BY <2>1 DEF NewEntry, EntryData, data, undoes
<1>12. /\ NewEntry(s).id = Cardinality(L) + 1 /\ NewEntry(s).hash = Append(b.hash, data)
       /\ key = EntryKey(s)
  BY <1>1, <1>10, <1>11 DEF NewEntry, ChainHash, EntryKey, key
<1>13. NewEntry(s) = [id |-> Cardinality(b.logs) + 1, data |-> data, hash |-> Append(b.hash, data),
                      key |-> key, ikHash |-> ik]
  <2>1. (IF EntryKey(s) = NoKey THEN NoTag ELSE IkHash(req[s])) = ik
    BY DEF EntryKey, ik
  <2> QED
    BY <1>1, <1>10, <1>11, <1>12, <2>1 DEF NewEntry, ChainHash
<1>14. Allowed(b, it, key) = TRUE
  <2>1. it.ref # NoRef => \A t \in Logged(L) : t.ref # it.ref
    BY AppendFacts DEF NewTransaction, it, L
  <2>2. key # NoKey => \A e \in L : e.key # key
    <3>1. key # NoKey => item[s] = 1 /\ KeyEntries(key) = {} /\ newLogs[s] = {}
      BY <1>12, AppendFacts DEF KeyTaken, key
    <3> QED
      BY <3>1 DEF KeyEntries, L, LogOf
  <2> QED
    BY <1>1, <1>6, <1>8, <2>1, <2>2 DEF Allowed
<1>15. [r \in Row |-> IF r \in RowsOf(Paid(b, it)) THEN Left(b, it)[r] ELSE b.volumes[r]] =
         CommitView(s)
  <2>1. ASSUME NEW r \in Row
        PROVE  (IF r \in RowsOf(Paid(b, it)) THEN Left(b, it)[r] ELSE b.volumes[r]) = View(s, r)
    <3>1. CASE r \in RowsOf(ps)
      <4>1. PostCommitVolumes(s)[r] = AddDelta(before[s][r], VolumeUpdates(posts[s])[r])
        BY <3>1 DEF PostCommitVolumes, ps
      <4>2. View(s, r) = mine[s][r]
        BY <1>2, <3>1 DEF View
      <4> QED
        BY <1>2, <1>6, <1>7, <1>9, <3>1, <4>1, <4>2
    <3>2. CASE r \notin RowsOf(ps)
      BY <1>1, <1>4, <1>6, <1>7, <3>2
    <3> QED
      BY <3>1, <3>2
  <2> QED
    BY <2>1 DEF CommitView
<1>16. Logged(L) \cup {data.tx} = Logged(L \cup {NewEntry(s)})
  BY <1>11 DEF Logged
<1>17. Serial!Record(b, it, key, ik, tag, undoes) =
         [ok |-> Allowed(b, it, key),
          volumes |-> [r \in Row |-> IF r \in RowsOf(Paid(b, it)) THEN Left(b, it)[r]
                                     ELSE b.volumes[r]],
          transactions |-> b.transactions \cup {data.tx},
          logs |-> b.logs \cup {[id |-> Cardinality(b.logs) + 1, data |-> data,
                                 hash |-> Append(b.hash, data), key |-> key, ikHash |-> ik]},
          hash |-> Append(b.hash, data)]
  BY RecordIs DEF data
<1>18. Serial!Record(b, it, key, ik, tag, undoes) =
         Shown(CommitView(s), L \cup {NewEntry(s)}, NewEntry(s).hash)
  BY <1>1, <1>12, <1>13, <1>14, <1>15, <1>16, <1>17 DEF Shown
<1> QED
  BY <1>18 DEF Enact, b, it, key, ik, tag, undoes, L

\* The entry is written.
LEMMA AppendKeepsSerial ==
  ASSUME Inv, Inv', LogInv, VolInv, SerialInv, NEW s \in Session, AppendLog(s)
  PROVE  SerialInv'
<1> USE DEF tables, locks, call, Inv, TypeOK, FunctionsOK
<1>1. CASE KeyTaken(s)
  <2>1. /\ EndTransaction(s) /\ pc' = [pc EXCEPT ![s] = "race"]
        /\ UNCHANGED <<rows, volumes, transactions, logs, chain, req, items, item, todo>>
    BY <1>1 DEF AppendLog
  <2>2. Elsewhere(s) /\ pc'[s] = "race"
    BY <2>1 DEF Elsewhere
  <2>3. AskOK(s)'
    BY <2>2 DEF AskOK, Working
  <2> QED
    BY <2>1, <2>2, <2>3, RollbackKeepsSerial DEF Midway, Holding, Working
<1>2. CASE ~KeyTaken(s)
  <2> DEFINE k == item[s]
             b == Shown(Seen(s), LogOf(s), tip[s].lastHash)
             c == Shown(CommitView(s), LogOf(s) \cup {NewEntry(s)}, NewEntry(s).hash)
  <2>1. /\ UNCHANGED <<rows, volumes, transactions, logs, chain, rowLock, chainLock, wrote, mine,
                       newTxs, req, items, before, posts>>
        /\ pc[s] = "append"
        /\ newLogs' = [newLogs EXCEPT ![s] = @ \cup {NewEntry(s)}]
        /\ tip' = [tip EXCEPT ![s].lastHash = NewEntry(s).hash]
    BY <1>2 DEF AppendLog
  <2>2. \/ /\ k < Len(items[s]) /\ item' = [item EXCEPT ![s] = k + 1]
           /\ pc' = [pc EXCEPT ![s] = "materialise"]
           /\ todo' = [todo EXCEPT ![s] = ItemRows(items[s], k + 1)]
        \/ /\ ~(k < Len(items[s])) /\ pc' = [pc EXCEPT ![s] = "commit"] /\ UNCHANGED <<item, todo>>
    BY <1>2 DEF AppendLog
  <2>3. \A u \in Session \ {s} : Kept(u)
    BY <2>1, <2>2 DEF Kept
  <2>4. chainLock = s /\ k \in 1..Len(items[s]) /\ Len(items[s]) \in Nat /\ Done(s) = k - 1
    BY <2>1, AppendFacts
  <2>5. \/ pc'[s] = "materialise" /\ item'[s] = k + 1
        \/ pc'[s] = "commit" /\ item'[s] = k /\ k = Len(items[s])
    BY <2>2, <2>4
  <2>6. Done(s)' = k /\ k # 0
    BY <2>4, <2>5 DEF Done
  <2>7. pc'[s] \notin Midway /\ pc'[s] \in Holding
    BY <2>5 DEF Midway, Holding, Working
  <2>8. /\ Seen(s)' = CommitView(s) /\ LogOf(s)' = LogOf(s) \cup {NewEntry(s)}
        /\ ChainView(s)'.lastHash = NewEntry(s).hash
    <3>1. newLogs'[s] = newLogs[s] \cup {NewEntry(s)}
      BY <2>1
    <3>2. tip'[s] = [tip[s] EXCEPT !.lastHash = NewEntry(s).hash]
      BY <2>1
    <3>3. tip[s] = [lastTx |-> tip[s].lastTx, lastLog |-> tip[s].lastLog, lastHash |-> tip[s].lastHash]
      BY DEF SessionOK, CallOK
    <3>4. tip'[s].lastHash = NewEntry(s).hash
      BY <3>2, <3>3
    <3>5. Seen(s)' = CommitView(s)
      BY <2>1, <2>7 DEF Seen, View, CommitView
    <3>6. LogOf(s)' = LogOf(s) \cup {NewEntry(s)}
      BY <2>1, <3>1 DEF LogOf
    <3>7. ChainView(s)' = tip'[s]
      BY <2>1, <2>4 DEF ChainView
    <3> QED
      BY <3>4, <3>5, <3>6, <3>7
  <2>9. Enact(req[s], items[s], b, k) = c
    BY <1>2, <2>1, EntryIsRecord
  <2>10. PICK bs : Replayed(s, bs)
    BY <2>1, CaughtUp
  <2>11. bs[k - 1] = b
    BY <2>4, <2>10 DEF Replayed, ChainView
  <2> DEFINE longer == [j \in 0..k |-> IF j = k THEN c ELSE bs[j]]
  <2>12. CommitView(s) \in [Row -> RowValue] /\ c.volumes = CommitView(s)
    BY DEF CommitView, View, Shown
  <2> HIDE DEF b, c, k
  <2>13. PICK ds : ds[0] = Serial!Books /\ ds[k] = c /\ \A j \in 0..(k - 1) : ds[j] = bs[j]
    <3>1. /\ longer[0] = Serial!Books /\ longer[k] = c
          /\ \A j \in 0..(k - 1) : longer[j] = bs[j]
      BY <2>4, <2>10 DEF Replayed
    <3> HIDE DEF longer
    <3> QED
      BY <3>1
  <2>14. Replayed(s, ds)'
    <3>1. Serial!Books' = Serial!Books
      BY <2>1 DEF Serial!Books
    <3>2. ASSUME NEW j \in 1..k PROVE ds[j] = Enact(req[s], items[s], ds[j - 1], j)
      <4>1. CASE j = k
        <5>1. k - 1 \in 0..(k - 1)
          BY <2>4
        <5>2. ds[k - 1] = b
          BY <2>11, <2>13, <5>1
        <5> QED
          BY <2>9, <2>13, <4>1, <5>2
      <4>2. CASE j # k
        <5>1. j \in 1..Done(s) /\ j \in 0..(k - 1) /\ j - 1 \in 0..(k - 1)
          BY <2>4, <4>2
        <5> QED
          BY <2>10, <2>13, <5>1 DEF Replayed
      <4> QED
        BY <4>1, <4>2
    <3>3. ASSUME NEW j \in 0..k PROVE ds[j].volumes \in [Row -> RowValue]
      <4>1. CASE j = k
        BY <2>12, <2>13, <4>1
      <4>2. CASE j # k
        <5>1. j \in 0..Done(s) /\ j \in 0..(k - 1)
          BY <2>4, <4>2
        <5> QED
          BY <2>10, <2>13, <5>1 DEF Replayed
      <4> QED
        BY <4>1, <4>2
    <3>4. ds[k] = Shown(Seen(s)', LogOf(s)', ChainView(s)'.lastHash)
      BY <2>8, <2>13 DEF c
    <3> QED
      BY <2>1, <2>6, <2>13, <3>1, <3>2, <3>3, <3>4 DEF Replayed
  <2>15. BehindOK(s)'
    BY <2>6, <2>14 DEF BehindOK
  <2>16. MidOK(s)'
    BY <2>7 DEF MidOK
  <2>17. AskOK(s)'
    <3>1. pc[s] \in Working /\ AskOK(s)
      BY <2>1 DEF SerialInv, Working
    <3> QED
      BY <2>1, <3>1 DEF AskOK
  <2>18. PlanOK(s)'
    <3>1. PlanOK(s) /\ MidOK(s)
      BY DEF SerialInv
    <3>2. ASSUME NEW j \in 1..k PROVE RowsOf(items[s][j].postings) \subseteq wrote[s]
      <4>1. CASE j = k
        BY <2>1, <3>1, <4>1 DEF MidOK, Midway, Asked, k
      <4>2. CASE j # k
        <5>1. j \in 1..Done(s) /\ Done(s) # 0 /\ pc[s] \in Holding
          BY <2>1, <2>4, <4>2 DEF Holding, Working
        <5> QED
          BY <3>1, <5>1 DEF PlanOK
      <4> QED
        BY <4>1, <4>2
    <3>3. chainLock' = s
      BY <2>1, <2>4
    <3> QED
      BY <2>1, <2>5, <2>6, <2>7, <3>2, <3>3 DEF PlanOK
  <2>19. UNCHANGED <<rows, volumes, transactions, logs, chain>>
    BY <2>1
  <2> QED
    BY <2>3, <2>15, <2>16, <2>17, <2>18, <2>19, OwnStep
<1> QED
  BY <1>1, <1>2

-----------------------------------------------------------------------------
(* The tables change.                                                      *)

\* COMMIT publishes the rows s holds, while it holds the ledgers row.
LEMMA CommitKeepsSerial ==
  ASSUME Inv, Inv', SerialInv, NEW s \in Session, CommitTx(s)
  PROVE  SerialInv'
<1>1. CASE Refuse(s)
  BY <1>1, RefuseKeepsSerial
<1>2. CASE ~Refuse(s)
  <2>1. /\ pc[s] = "commit" /\ rows' = rows \cup wrote[s] /\ volumes' = CommitView(s)
        /\ transactions \subseteq transactions' /\ Finish(s, {t.id : t \in newTxs[s]})
    BY <1>2 DEF CommitTx
  <2>2. /\ EndTransaction(s) /\ Elsewhere(s) /\ pc'[s] = "reply"
        /\ \A u \in Session \ {s} : todo'[u] = todo[u]
    BY <2>1 DEF Finish, call, Elsewhere, Inv, TypeOK
  <2>3. chainLock = s /\ \A r \in wrote[s] : rowLock[r] = s
    BY <2>1 DEF Inv, SessionOK, ChainOK, RowsOK
  <2>4. \A r \in Row : r \notin wrote[s] => volumes'[r] = volumes[r]
    BY <2>1 DEF CommitView, View
  <2>5. \A u \in Session \ {s} : Kept(u)
    BY <2>2, <2>3, <2>4, EndOthers
  <2>6. \A u \in Session \ {s} : AskOK(u)' /\ PlanOK(u)' /\ MidOK(u)' /\ BehindOK(u)'
    BY <2>1, <2>3, <2>5, OthersWork
  <2>7. AskOK(s)'
    BY <2>2 DEF AskOK, Working
  <2>8. PlanOK(s)' /\ MidOK(s)' /\ BehindOK(s)'
    BY <2>2, EndFacts, FreshStart DEF Midway, Holding, Working
  <2>9. AbsentOK'
    BY <2>1, <2>4 DEF SerialInv, AbsentOK
  <2> QED
    BY <2>6, <2>7, <2>8, <2>9 DEF SerialInv
<1> QED
  BY <1>1, <1>2

\* A row that nobody holds changes its permissions.
LEMMA PolicyKeepsSerial ==
  ASSUME Inv, Inv', VolInv, SerialInv, NEW r \in Row, rowLock[r] = NoSession,
         rows' = rows \cup {r}, \A x \in Row \ {r} : volumes'[x] = volumes[x],
         UNCHANGED <<chain, transactions, logs, rowLock, chainLock, pc, req, items, item,
                     todo, before, posts, wrote, mine, tip, newTxs, newLogs>>
  PROVE  SerialInv'
<1>1. AbsentOK'
  BY DEF SerialInv, AbsentOK
<1>2. \A u \in Session : Kept(u)
  BY SessionAssumption DEF Kept
<1>3. ASSUME NEW u \in Session PROVE AskOK(u)' /\ PlanOK(u)' /\ MidOK(u)' /\ BehindOK(u)'
  <2>1. AskOK(u)' /\ PlanOK(u)' /\ MidOK(u)'
    BY <1>2, KeptPlan
  <2>2. CASE ~(pc[u] \in Holding /\ Done(u) # 0)
    <3>1. pc[u] \notin Holding => BehindOK(u)'
      BY DEF BehindOK
    <3>2. Done(u) = 0 => BehindOK(u)'
      BY <1>2, KeptBehind
    <3> QED
      BY <2>1, <2>2, <3>1, <3>2
  <2>3. CASE pc[u] \in Holding /\ Done(u) # 0
    <3>1. AskOK(u) /\ PlanOK(u) /\ MidOK(u) /\ BehindOK(u) /\ pc[u] \in Working
      BY <2>3 DEF SerialInv, Holding
    <3>2. PICK bs : Replayed(u, bs)
      BY <2>3, <3>1 DEF BehindOK
    <3>3. r \notin wrote[u]
      BY SessionAssumption DEF Inv, SessionOK, RowsOK
    <3>4. volumes \in [Row -> RowValue] /\ volumes' \in [Row -> RowValue]
      BY DEF Inv, TypeOK
    <3>5. /\ Done(u)' = Done(u) /\ Asked(u)' = Asked(u) /\ LogOf(u)' = LogOf(u)
          /\ ChainView(u)' = ChainView(u)
      BY DEF Done, Asked, LogOf, ChainView
    <3>6. Done(u) \in 1..Len(items[u]) /\ DOMAIN items[u] = 1..Len(items[u]) /\ Len(items[u]) \in Nat
      <4>1. /\ DOMAIN items[u] = 1..Len(items[u]) /\ Len(items[u]) \in Nat
            /\ item[u] \in 0..Len(items[u])
        BY <3>1 DEF Inv, SessionOK, CallOK
      <4> QED
        BY <2>3, <4>1 DEF Done
    <3> DEFINE v == volumes'[r]
               moved == [j \in 0..Done(u) |-> Moved(bs[j], r, v)]
    <3>7. PICK cs : \A j \in 0..Done(u) : cs[j] = Moved(bs[j], r, v)
      <4>1. \A j \in 0..Done(u) : moved[j] = Moved(bs[j], r, v)
        OBVIOUS
      <4> HIDE DEF moved
      <4> QED
        BY <4>1
    <3>8. cs[0] = Serial!Books'
      <4>1. 0 \in 0..Done(u) /\ bs[0] = Serial!Books
        BY <3>2, <3>6 DEF Replayed
      <4>2. [x \in Row |-> IF x = r THEN v ELSE volumes[x]] = volumes'
        BY <3>4
      <4> DEFINE h == IF logs = {} THEN <<>>
                      ELSE (CHOOSE e \in logs : \A f \in logs : f.id <= e.id).hash
      <4>3. /\ Serial!Books = [ok |-> TRUE, volumes |-> volumes, transactions |-> transactions,
                               logs |-> logs, hash |-> h]
            /\ Serial!Books' = [ok |-> TRUE, volumes |-> volumes', transactions |-> transactions,
                                logs |-> logs, hash |-> h]
        BY DEF Serial!Books
      <4> HIDE DEF h, v
      <4>4. Moved(Serial!Books, r, v) = Serial!Books'
        BY <4>2, <4>3 DEF Moved
      <4> QED
        BY <3>7, <4>1, <4>4
    <3>9. ASSUME NEW j \in 1..Done(u) PROVE cs[j] = Enact(req[u], items[u], cs[j - 1], j)
      <4>1. j \in 0..Done(u) /\ j - 1 \in 0..Done(u) /\ j \in DOMAIN items[u]
        BY <3>6
      <4>2. bs[j] = Enact(req[u], items[u], bs[j - 1], j) /\ bs[j - 1].volumes \in [Row -> RowValue]
        BY <3>2, <4>1 DEF Replayed
      <4>3. Valid(items[u][j].postings) /\ RowsOf(items[u][j].postings) \subseteq Row
        BY <3>1, <4>1 DEF VolInv, VolumesOK, AskedOK, Inv, SessionOK, CallOK, WellRowed
      <4>4. r \notin RowsOf(items[u][j].postings)
        BY <2>3, <3>1, <3>3 DEF PlanOK
      <4>5. Enact(req[u], items[u], Moved(bs[j - 1], r, v), j) =
              Moved(Enact(req[u], items[u], bs[j - 1], j), r, v)
        BY <4>2, <4>3, <4>4, RecordFrame DEF Enact
      <4> QED
        BY <3>7, <4>1, <4>2, <4>5
    <3>10. ASSUME NEW j \in 0..Done(u) PROVE cs[j].volumes \in [Row -> RowValue]
      <4>1. bs[j].volumes \in [Row -> RowValue]
        BY <3>2 DEF Replayed
      <4> HIDE DEF v
      <4>2. cs[j] = Moved(bs[j], r, v)
        BY <3>7
      <4>3. cs[j].volumes = [x \in Row |-> IF x = r THEN v ELSE bs[j].volumes[x]]
        BY <4>2 DEF Moved
      <4> QED
        BY <3>4, <4>1, <4>3 DEF v
    <3>11. cs[Done(u)] = Shown(Seen(u)', LogOf(u)', ChainView(u)'.lastHash)
      <4>1. /\ Done(u) \in 0..Done(u)
            /\ bs[Done(u)] = Shown(Seen(u), LogOf(u), ChainView(u).lastHash)
        BY <3>2, <3>6 DEF Replayed
      <4>2. Seen(u)' = [x \in Row |-> IF x = r THEN v ELSE Seen(u)[x]]
        <5>1. pc[u] \in Midway => r \notin RowsOf(Asked(u))
          BY <3>1, <3>3 DEF MidOK
        <5>2. ASSUME NEW x \in Row PROVE Seen(u)'[x] = IF x = r THEN v ELSE Seen(u)[x]
          <6>1. Seen(u)'[x] = IF pc[u] \in Midway /\ x \in RowsOf(Asked(u)) THEN before[u][x]
                              ELSE IF x \in wrote[u] THEN mine[u][x] ELSE volumes'[x]
            BY <3>5 DEF Seen, View
          <6>2. Seen(u)[x] = IF pc[u] \in Midway /\ x \in RowsOf(Asked(u)) THEN before[u][x]
                             ELSE IF x \in wrote[u] THEN mine[u][x] ELSE volumes[x]
            BY DEF Seen, View
          <6> QED
            BY <3>3, <5>1, <6>1, <6>2
        <5>3. Seen(u)' = [x \in Row |-> Seen(u)'[x]]
          BY DEF Seen
        <5> HIDE DEF v
        <5> QED
          BY <5>2, <5>3
      <4>3. Moved(Shown(Seen(u), LogOf(u), ChainView(u).lastHash), r, v) =
              Shown(Seen(u)', LogOf(u), ChainView(u).lastHash)
        BY <4>2 DEF Moved, Shown
      <4> QED
        BY <3>5, <3>7, <4>1, <4>3
    <3>12. Replayed(u, cs)'
      BY <3>5, <3>8, <3>9, <3>10, <3>11 DEF Replayed
    <3> QED
      BY <2>1, <2>3, <3>5, <3>12 DEF BehindOK
  <2> QED
    BY <2>2, <2>3
<1> QED
  BY <1>1, <1>3 DEF SerialInv

\* An operator's statement.
LEMMA OperatorKeepsSerial ==
  ASSUME Inv, Inv', VolInv, SerialInv, Operator
  PROVE  SerialInv'
<1> USE DEF locks, writes, call
<1>1. ASSUME NEW r \in PolicyRow, NEW allow \in BOOLEAN,
             SetAllowNegative(r, allow) \/ SetAllowPositive(r, allow)
      PROVE  SerialInv'
  <2>1. r \in Row /\ volumes \in [Row -> RowValue]
    BY PolicyAssumption DEF Inv, TypeOK
  <2>2. \A x \in Row \ {r} : volumes'[x] = volumes[x]
    BY <1>1, <2>1 DEF SetAllowNegative, SetAllowPositive
  <2> QED
    BY <1>1, <2>1, <2>2, PolicyKeepsSerial DEF SetAllowNegative, SetAllowPositive, RowFree
<1>2. ASSUME NEW a \in Account, Reopen(a) PROVE SerialInv'
  <2>1. UNCHANGED <<rows, volumes, transactions, logs, chain>> /\ \A u \in Session : Kept(u)
    BY <1>2 DEF Reopen, Kept
  <2>2. AbsentOK'
    BY <2>1 DEF SerialInv, AbsentOK
  <2>3. \A u \in Session : AskOK(u)' /\ PlanOK(u)' /\ MidOK(u)' /\ BehindOK(u)'
    BY <2>1, KeptPlan, KeptBehind
  <2> QED
    BY <2>2, <2>3 DEF SerialInv
<1> QED
  BY <1>1, <1>2 DEF Operator

\* A session's own step.
LEMMA StepKeepsSerial ==
  ASSUME Inv, Inv', LogInv, VolInv, SerialInv, NEW s \in Session, Step(s)
  PROVE  SerialInv'
<1>1. CASE Find(s) \/ Race(s)
  BY <1>1, FindKeepsSerial, AnswerKeepsSerial DEF Race
<1>2. ASSUME NEW r \in Row, MaterialiseRow(s, r) \/ LockRow(s, r) PROVE SerialInv'
  BY <1>2, MaterialiseKeepsSerial, LockRowKeepsSerial
<1>3. CASE ReadClosed(s) \/ Apply(s) \/ Allocate(s) \/ InsertTransaction(s) \/ AppendLog(s)
  BY <1>3, ReadClosedKeepsSerial, ApplyKeepsSerial, AllocateKeepsSerial, InsertKeepsSerial,
     AppendKeepsSerial
<1>4. CASE CommitTx(s) \/ DryRun(s) \/ LockTransaction(s) \/ CloseWrite(s)
  BY <1>4, CommitKeepsSerial, RefuseKeepsSerial, LockTransactionKeepsSerial,
     CloseWriteKeepsSerial DEF DryRun
<1>5. CASE Reply(s) \/ CloseRead(s) \/ CloseCheck(s) \/ \E r \in Row : CloseLock(s, r)
  BY <1>5, OutsideKeepsSerial
<1> QED
  BY <1>1, <1>2, <1>3, <1>4, <1>5 DEF Step

\* Every step of the system.
LEMMA StepSerialInv ==
  ASSUME Inv, Inv', LogInv, VolInv, SerialInv, [Next]_vars
  PROVE  SerialInv'
<1>1. ASSUME NEW s \in Session, NEW q \in Request, Begin(s, q) PROVE SerialInv'
  BY <1>1, BeginKeepsSerial
<1>2. ASSUME NEW s \in Session, Step(s) PROVE SerialInv'
  BY <1>2, StepKeepsSerial
<1>3. ASSUME NEW s \in Session, Crash(s) \/ Contend(s) PROVE SerialInv'
  BY <1>3, RefuseKeepsSerial, ContendKeepsSerial DEF Crash
<1>4. CASE Operator
  BY <1>4, OperatorKeepsSerial
<1>5. CASE UNCHANGED vars
  <2>1. UNCHANGED <<rows, volumes, transactions, logs, chain>> /\ \A u \in Session : Kept(u)
    BY <1>5 DEF vars, tables, locks, writes, call, Kept
  <2>2. AbsentOK'
    BY <2>1 DEF SerialInv, AbsentOK
  <2>3. \A u \in Session : AskOK(u)' /\ PlanOK(u)' /\ MidOK(u)' /\ BehindOK(u)'
    BY <2>1, KeptPlan, KeptBehind
  <2> QED
    BY <2>2, <2>3 DEF SerialInv
<1> QED
  BY <1>1, <1>2, <1>3, <1>4, <1>5 DEF Next

\* An empty ledger.
LEMMA InitSerialInv == Init => SerialInv
<1> SUFFICES ASSUME Init PROVE SerialInv
  OBVIOUS
<1>1. AbsentOK
  BY DEF Init, AbsentOK, FreshRows
<1>2. ASSUME NEW s \in Session PROVE AskOK(s) /\ PlanOK(s) /\ MidOK(s) /\ BehindOK(s)
  <2>1. pc[s] = "idle" /\ wrote[s] = {}
    BY DEF Init
  <2> QED
    BY <2>1 DEF AskOK, PlanOK, MidOK, BehindOK, Working, Holding, Midway
<1> QED
  BY <1>1, <1>2 DEF SerialInv

\* The invariant of the refinement holds throughout.
LEMMA SerialInvHolds == Spec => []SerialInv
<1>1. Init => SerialInv
  BY InitSerialInv
<1>2. Inv /\ Inv' /\ LogInv /\ VolInv /\ SerialInv /\ [Next]_vars => SerialInv'
  BY StepSerialInv
<1> QED
  BY <1>1, <1>2, InvHolds, LogInvHolds, VolInvHolds, PTL DEF Spec

-----------------------------------------------------------------------------
(* The refinement, step by step.                                           *)

\* An item of a commit or a batch.
LEMMA PostIsEnact ==
  ASSUME NEW q, q.kind \in {"commit", "batch"}, NEW b, NEW k
  PROVE  Serial!PostItem(q, b, k) = Enact(q, q.items, b, k)
<1>1. Serial!IkHash(q) = IkHash(q)
  BY DEF Serial!IkHash, IkHash
<1>2. (IF k = 1 /\ q.key # NoKey THEN q.key ELSE NoKey) = IF k = 1 THEN q.key ELSE NoKey
  OBVIOUS
<1>3. (IF q.kind = "revert" THEN q.target ELSE 0) = 0
  OBVIOUS
<1>4. Serial!PostItem(q, b, k) =
        Serial!Record(b, q.items[k], IF k = 1 /\ q.key # NoKey THEN q.key ELSE NoKey,
                      IF k = 1 /\ q.key # NoKey THEN IkHash(q) ELSE NoTag,
                      IF q.kind = "batch" /\ q.key # NoKey THEN IkHash(q) ELSE NoTag, 0)
  BY <1>1, Zenon DEF Serial!PostItem
<1>5. Enact(q, q.items, b, k) =
        Serial!Record(b, q.items[k], IF k = 1 THEN q.key ELSE NoKey,
                      IF k = 1 /\ q.key # NoKey THEN IkHash(q) ELSE NoTag, BatchTag(q), 0)
  BY <1>3, Zenon DEF Enact
<1>6. BatchTag(q) = IF q.kind = "batch" /\ q.key # NoKey THEN IkHash(q) ELSE NoTag
  BY DEF BatchTag
<1> QED
  BY <1>2, <1>4, <1>5, <1>6

\* COMMIT is one call of the serial ledger.
LEMMA CommitIsSerial ==
  ASSUME Inv, LogInv, VolInv, SerialInv, NEW s \in Session, CommitTx(s), ~Refuse(s)
  PROVE  Serial!Next
<1> DEFINE q == req[s]
           n == Len(items[s])
<1>1. /\ pc[s] = "commit" /\ ~q.dry /\ volumes' = CommitView(s)
      /\ transactions' = transactions \cup newTxs[s] /\ logs' = logs \cup newLogs[s]
      /\ reverted' = reverted \cup Undone(q)
  BY DEF CommitTx
<1>2. pc[s] \in Working /\ pc[s] \in Holding /\ pc[s] \notin Midway
  BY <1>1 DEF Working, Holding, Midway
<1>3. /\ DOMAIN items[s] = 1..n /\ n \in Nat \ {0} /\ q \in Request /\ chainLock = s
  BY <1>1, <1>2 DEF Inv, SessionOK, CallOK, ChainOK
<1>4. BooksOK(s) /\ ProgressOK(s) /\ AskOK(s) /\ PlanOK(s) /\ BehindOK(s)
  BY <1>3 DEF LogInv, SerialInv
<1>5. Done(s) = n
  BY <1>1, <1>4 DEF PlanOK, Done
<1>6. PICK bs : Replayed(s, bs)
  BY <1>2, <1>3, <1>4, <1>5 DEF BehindOK
<1>7. /\ bs[0] = Serial!Books
      /\ \A k \in 1..n : bs[k] = Enact(q, items[s], bs[k - 1], k)
      /\ bs[n] = Shown(Seen(s), LogOf(s), ChainView(s).lastHash)
  BY <1>5, <1>6 DEF Replayed
<1>8. Serial!Become(bs[n])
  <2>1. Seen(s) = CommitView(s)
    BY <1>2 DEF Seen, CommitView
  <2>2. transactions' = Logged(LogOf(s)) /\ logs' = LogOf(s)
    BY <1>1, <1>4 DEF BooksOK, TxsOf, LogOf
  <2>3. /\ bs[n].ok = TRUE /\ bs[n].volumes = CommitView(s)
        /\ bs[n].transactions = Logged(LogOf(s)) /\ bs[n].logs = LogOf(s)
    BY <1>7, <2>1 DEF Shown
  <2> QED
    BY <1>1, <2>2, <2>3 DEF Serial!Become
<1>9. q.kind \in {"commit", "batch", "revert"}
  BY <1>2, <1>3, <1>4, RequestAssumption DEF AskOK
<1> HIDE DEF q, n
<1>10. CASE q.kind \in {"commit", "batch"}
  <2>1. items[s] = q.items
    BY <1>2, <1>4, <1>10 DEF AskOK, q
  <2>2. \A k \in 1..n : bs[k] = Serial!PostItem(q, bs[k - 1], k)
    BY <1>7, <1>10, <2>1, PostIsEnact
  <2>3. n \in Nat /\ DOMAIN q.items = 1..n
    BY <1>3, <2>1
  <2>4. Serial!Posted(q) = bs[n]
    BY <1>7, <2>2, <2>3, PostedAlong
  <2>5. reverted' = reverted
    BY <1>1, <1>10 DEF Undone
  <2>6. Serial!Post(q)
    BY <1>1, <1>8, <1>10, <2>4, <2>5, Zenon DEF Serial!Post
  <2> QED
    BY <1>3, <2>6 DEF Serial!Next
<1>11. CASE q.kind = "revert"
  <2>1. PICK t \in transactions :
          /\ t.id = q.target
          /\ items[s] = <<[postings |-> ReversePostings(t.postings), ref |-> NoRef]>>
    BY <1>2, <1>4, <1>11 DEF AskOK, q
  <2> DEFINE inverse == [postings |-> ReversePostings(t.postings), ref |-> NoRef]
  <2>2. n = 1 /\ t.id \notin reverted /\ items[s][1] = inverse
    BY <1>2, <1>4, <1>11, <2>1 DEF ProgressOK, q, n
  <2>3. q.key = NoKey
    BY <1>3, <1>11, RequestAssumption
  <2>4. bs[1] = Enact(q, items[s], Serial!Books, 1)
    BY <1>7, <2>2
  <2> HIDE DEF inverse
  <2>5. bs[1] = Serial!Record(Serial!Books, inverse, NoKey, NoTag, NoTag, t.id)
    BY <1>11, <2>1, <2>2, <2>3, <2>4 DEF Enact, BatchTag
  <2>6. inverse = [postings |-> Serial!ReversePostings(t.postings), ref |-> NoRef]
    BY SerialReverse DEF inverse
  <2>7. reverted' = reverted \cup {t.id}
    BY <1>1, <1>11, <2>1 DEF Undone
  <2>8. Serial!Become(Serial!Record(Serial!Books, inverse, NoKey, NoTag, NoTag, t.id))
    BY <1>8, <2>2, <2>5
  <2>9. Serial!RevertTransaction(t)
    BY <2>2, <2>6, <2>7, <2>8, Zenon DEF Serial!RevertTransaction
  <2> QED
    BY <2>9 DEF Serial!Next
<1> QED
  BY <1>9, <1>10, <1>11

\* A policy change is one too.
LEMMA PolicyIsSerial ==
  ASSUME Inv, NEW r \in PolicyRow, NEW allow \in BOOLEAN,
         SetAllowNegative(r, allow) \/ SetAllowPositive(r, allow)
  PROVE  Serial!Next
<1>1. r \in Row /\ volumes \in [Row -> RowValue]
  BY PolicyAssumption DEF Inv, TypeOK
<1>2. volumes[r] \in RowValue /\ UNCHANGED <<transactions, reverted, logs>>
  BY <1>1 DEF SetAllowNegative, SetAllowPositive
<1>3. PICK up \in BOOLEAN, down \in BOOLEAN :
        volumes' = [volumes EXCEPT ![r].allowPositive = up, ![r].allowNegative = down]
  <2>1. CASE SetAllowNegative(r, allow)
    <3>1. volumes' = [volumes EXCEPT ![r].allowNegative = allow]
      BY <2>1 DEF SetAllowNegative
    <3>2. volumes[r].allowPositive \in BOOLEAN
      BY <1>2 DEF RowValue
    <3>3. [volumes[r] EXCEPT !.allowNegative = allow] =
            [volumes[r] EXCEPT !.allowPositive = volumes[r].allowPositive, !.allowNegative = allow]
      BY <1>2 DEF RowValue
    <3>4. volumes' = [volumes EXCEPT ![r].allowPositive = volumes[r].allowPositive,
                                     ![r].allowNegative = allow]
      BY <1>1, <3>1, <3>3
    <3> QED
      BY <3>2, <3>4
  <2>2. CASE SetAllowPositive(r, allow)
    <3>1. volumes' = [volumes EXCEPT ![r].allowPositive = allow,
                                     ![r].allowNegative = @ /\ r \in rows]
      BY <2>2 DEF SetAllowPositive
    <3> DEFINE down == volumes[r].allowNegative /\ r \in rows
    <3>2. down \in BOOLEAN
      OBVIOUS
    <3>3. volumes' = [volumes EXCEPT ![r].allowPositive = allow, ![r].allowNegative = down]
      BY <1>1, <1>2, <3>1 DEF RowValue
    <3> QED
      BY <3>2, <3>3
  <2> QED
    BY <2>1, <2>2
<1>4. Serial!SetPolicy(r, up, down)
  BY <1>2, <1>3 DEF Serial!SetPolicy
<1> QED
  BY <1>4 DEF Serial!Next

\* The other steps do not show.
LEMMA StepIsSerial ==
  ASSUME Inv, LogInv, VolInv, SerialInv, [Next]_vars
  PROVE  Serial!Next \/ UNCHANGED <<volumes, transactions, reverted, logs>>
<1> USE DEF tables
<1> DEFINE Hidden == UNCHANGED <<volumes, transactions, reverted, logs>>
<1>1. ASSUME NEW s \in Session, NEW q \in Request, Begin(s, q) PROVE Hidden
  BY <1>1 DEF Begin
<1>2. ASSUME NEW s \in Session, Refuse(s) PROVE Hidden
  BY <1>2 DEF Refuse
<1>3. ASSUME NEW s \in Session, AnswerStored(s) PROVE Hidden
  BY <1>2, <1>3 DEF AnswerStored
<1>4. ASSUME NEW s \in Session, Step(s) PROVE Serial!Next \/ Hidden
  <2>1. CASE Refuse(s)
    BY <1>2, <2>1
  <2>2. CASE ~Refuse(s)
    <3>1. CASE Find(s) \/ Race(s)
      BY <1>3, <3>1 DEF Find, Race
    <3>2. ASSUME NEW r \in Row, MaterialiseRow(s, r) \/ LockRow(s, r) PROVE Hidden
      BY <3>2 DEF MaterialiseRow, LockRow
    <3>3. CASE ReadClosed(s) \/ Apply(s) \/ Allocate(s) \/ InsertTransaction(s)
      BY <2>2, <3>3 DEF ReadClosed, Apply, Allocate, InsertTransaction
    <3>4. CASE AppendLog(s)
      BY <3>4 DEF AppendLog
    <3>5. CASE CommitTx(s)
      BY <2>2, <3>5, CommitIsSerial
    <3>6. CASE DryRun(s) \/ Reply(s)
      BY <2>2, <3>6 DEF DryRun, Reply
    <3>7. CASE LockTransaction(s)
      BY <2>2, <3>7 DEF LockTransaction
    <3>8. CASE CloseRead(s) \/ CloseCheck(s) \/ CloseWrite(s)
      BY <2>2, <3>8 DEF CloseRead, CloseCheck, CloseWrite
    <3>9. ASSUME NEW r \in Row, CloseLock(s, r) PROVE Hidden
      BY <3>9 DEF CloseLock
    <3> QED
      BY <1>4, <3>1, <3>2, <3>3, <3>4, <3>5, <3>6, <3>7, <3>8, <3>9 DEF Step
  <2> QED
    BY <2>1, <2>2
<1>5. ASSUME NEW s \in Session, Crash(s) \/ Contend(s) PROVE Hidden
  BY <1>2, <1>5 DEF Crash, Contend
<1>6. CASE Operator
  <2>1. ASSUME NEW a \in Account, Reopen(a) PROVE Hidden
    BY <2>1 DEF Reopen
  <2> QED
    BY <1>6, <2>1, PolicyIsSerial DEF Operator
<1>7. CASE UNCHANGED vars
  BY <1>7 DEF vars
<1> QED
  BY <1>1, <1>4, <1>5, <1>6, <1>7 DEF Next

\* Concurrent commits are serialisable: whatever interleaves, crashes or is
\* retried, the committed tables only ever change by one whole commit, batch,
\* reversal or policy change of the serial ledger, checked against the state it
\* changes (applyTransaction under the locks of lockVolumes and allocate).
THEOREM CommitImplementsLedger == Spec => Serialisable
<1>1. Init => Serial!Init
  BY Zenon DEF Init, Serial!Init, FreshRows, Row, Serial!Row, FreshRow, Serial!FreshRow
<1>2. Inv /\ LogInv /\ VolInv /\ SerialInv /\ [Next]_vars => [Serial!Next]_(Serial!ledgerVars)
  BY StepIsSerial DEF Serial!ledgerVars
<1> QED
  BY <1>1, <1>2, InvHolds, LogInvHolds, VolInvHolds, SerialInvHolds, PTL
     DEF Spec, Serialisable, Serial!Spec
=============================================================================
