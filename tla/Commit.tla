------------------------------- MODULE Commit -------------------------------
(***************************************************************************)
(* The write path of one ledger: storage/commit.go, bulk.go, revert.go,    *)
(* volumes.go, allocate.go, log.go, rows.go, retry.go, policy.go and        *)
(* closure.go, against the PostgreSQL tables of migrations/, at the default *)
(* isolation level (read committed).                                       *)
(*                                                                         *)
(* A session is one goroutine running one store call on one connection.    *)
(* It steps statement by statement.  What it writes stays its own (wrote,  *)
(* mine, tip, newTxs, newLogs) until COMMIT; a plain read sees committed    *)
(* tables only; a locked row is released at COMMIT or ROLLBACK.             *)
(*                                                                         *)
(* Row locks on accounts (the bookkeeping upsert of queueAccounts) and the *)
(* moves of queueMoves are not here: nothing below reads them.             *)
(***************************************************************************)
EXTENDS Postings

CONSTANTS Session, NoSession,
          Key, NoKey,        \* idempotency keys
          Ref, NoRef,        \* caller references
          Request,           \* the calls clients make, validated
          Rank,              \* the sort order of rows: account, then asset
          PolicyRow,         \* bound: rows whose policy an operator changes
          MaxAttempts,       \* maxAttempts of commit.go
          MaxRequests,       \* bound: calls begun in a behaviour
          NoTag

Item == [postings : Seq(ValidPosting), ref : {NoRef} \cup Ref]

ASSUME SessionAssumption == NoSession \notin Session
ASSUME RankAssumption ==
  /\ Rank \in [Row -> Nat]
  /\ \A q, r \in Row : Rank[q] = Rank[r] => q = r
ASSUME PolicyAssumption == PolicyRow \subseteq Row
ASSUME BoundAssumption == MaxAttempts \in Nat \ {0} /\ MaxRequests \in Nat
ASSUME RequestAssumption ==
  \A q \in Request :
    /\ q.kind \in {"commit", "batch", "revert", "close"}
    /\ q.key \in {NoKey} \cup Key
    /\ q.dry \in BOOLEAN
    /\ q.kind \in {"commit", "batch"} => q.items \in Seq(Item) /\ q.items # <<>>
    /\ q.kind = "commit" => Len(q.items) = 1
    /\ q.kind = "revert" => q.target \in Nat /\ q.key = NoKey /\ ~q.dry
    /\ q.kind = "close" => q.target \in Account \ {World} /\ q.key = NoKey /\ ~q.dry
ASSUME TagAssumption == \A q \in Request : <<q.kind, q.items>> # NoTag

VARIABLES
  \* committed tables
  rows,          \* accounts_volumes: the rows that exist
  volumes,       \* and their values (FreshRow when absent)
  closed,        \* accounts.closed
  chain,         \* the ledgers row: last_tx_id, last_log_id, last_log_hash
  transactions,
  reverted,      \* ids with reverted_at set
  logs,
  \* row locks
  rowLock,       \* accounts_volumes: row -> holder
  chainLock,     \* the ledgers row: its holder
  txLock,        \* session -> the transactions row it holds, 0 for none
  \* one call per session
  pc, req, attempt, items, item, todo, before, shut, posts,
  wrote, mine, tip, newTxs, newLogs, answer,
  \* bounds and history
  begun,         \* calls begun so far
  answers,       \* what keyed calls were told: key, input hash, transaction ids
  holders        \* of the rows of an account when its close read them

tables == <<rows, volumes, closed, chain, transactions, reverted, logs>>
locks == <<rowLock, chainLock, txLock>>
writes == <<wrote, mine, tip, newTxs, newLogs>>
call == <<req, attempt, items, item>>
history == <<begun, answers, holders>>
vars == <<tables, locks, writes, call, pc, todo, before, shut, posts,
          answer, history>>

EmptyChain == [lastTx |-> 0, lastLog |-> 0, lastHash |-> <<>>]
FreshRows == [r \in Row |-> FreshRow(r)]
NoRequest == [kind |-> "none"]

-----------------------------------------------------------------------------
(* What the database holds and shows.                                      *)

TxIds == {t.id : t \in transactions}

\* A row as session s sees it: its own uncommitted version, else the committed.
View(s, r) == IF r \in wrote[s] THEN mine[s][r] ELSE volumes[r]

\* Mutant: the counters an earlier item of the batch has advanced are not seen.
ChainViewStale(s) == chain

\* The ledgers row as s sees it.
ChainView(s) == IF chainLock = s THEN tip[s] ELSE chain

\* ChainHash: an ideal hash, the sequence of everything it covers.
ChainHash(previous, data) == Append(previous, data)

\* idempotencyHash and batchIdempotencyHash: the caller's inputs, never the
\* key.  A single commit and a batch marshal to different shapes.
IkHash(q) == <<q.kind, q.items>>

\* Triggers and column types of accounts_volumes on an update from old to new:
\* counters are numbers, only increase, and a balance that moves ends in bounds.
RowAccepts(old, new) ==
  /\ new \in RowValue
  /\ new.input >= old.input
  /\ new.output >= old.output
  /\ (new.input = old.input /\ new.output = old.output) \/ InBounds(new)

\* giro_conservation, deferred to COMMIT: over the rows there are, every asset's
\* balances sum to zero.
Conserved(vols, existing) ==
  \A x \in Asset :
    LET held == AssetRows(x, existing) IN SumOver(Balances(vols, held), held) = 0

-----------------------------------------------------------------------------
(* The rows the current phase locks.  A batch first locks the union of its  *)
(* items (item 0, lockBatch), then runs each item like a commit.           *)

ItemRows(its, i) ==
  IF i = 0 THEN UNION {RowsOf(its[j].postings) : j \in DOMAIN its}
  ELSE RowsOf(its[i].postings)

First(r, S) == r \in S /\ \A q \in S : Rank[r] <= Rank[q]

\* Where the database transaction of a call starts, after BEGIN.
EntryPoint(q) ==
  IF q.kind = "revert" THEN "lockTx"
  ELSE IF q.kind = "close" THEN "closeRead"
  ELSE IF q.key # NoKey THEN "find"
  ELSE "materialise"

FirstItem(q) == IF q.kind = "batch" THEN 0 ELSE 1

EntryTodo(q) ==
  IF EntryPoint(q) = "materialise" THEN ItemRows(q.items, FirstItem(q)) ELSE {}

\* Mutant: the lock outlives the transaction.
FreedLater(holder, s) == holder

\* A lock after s has let go of its own.
Freed(holder, s) == IF holder = s THEN NoSession ELSE holder

\* COMMIT or ROLLBACK releases every lock s holds and discards its writes.
EndTransaction(s) ==
  /\ rowLock' = [r \in Row |-> Freed(rowLock[r], s)]
  /\ chainLock' = Freed(chainLock, s)
  /\ txLock' = [txLock EXCEPT ![s] = 0]
  /\ wrote' = [wrote EXCEPT ![s] = {}]
  /\ mine' = [mine EXCEPT ![s] = FreshRows]
  /\ tip' = [tip EXCEPT ![s] = EmptyChain]
  /\ newTxs' = [newTxs EXCEPT ![s] = {}]
  /\ newLogs' = [newLogs EXCEPT ![s] = {}]
  /\ before' = [before EXCEPT ![s] = FreshRows]
  /\ shut' = [shut EXCEPT ![s] = {}]
  /\ posts' = [posts EXCEPT ![s] = <<>>]
  /\ holders' = [u \in Session |-> IF u = s THEN {} ELSE holders[u] \ {s}]

\* The session is free for another call.
Forget(s) ==
  /\ pc' = [pc EXCEPT ![s] = "idle"]
  /\ req' = [req EXCEPT ![s] = NoRequest]
  /\ attempt' = [attempt EXCEPT ![s] = 0]
  /\ items' = [items EXCEPT ![s] = <<>>]
  /\ item' = [item EXCEPT ![s] = 0]
  /\ todo' = [todo EXCEPT ![s] = {}]
  /\ answer' = [answer EXCEPT ![s] = {}]

\* The call ends with an error and everything it did is rolled back.
Refuse(s) ==
  /\ EndTransaction(s)
  /\ Forget(s)
  /\ UNCHANGED <<tables, begun, answers>>

\* The transaction is over and these are the ids the caller will be told.
Finish(s, ids) ==
  /\ EndTransaction(s)
  /\ pc' = [pc EXCEPT ![s] = "reply"]
  /\ answer' = [answer EXCEPT ![s] = ids]
  /\ UNCHANGED <<call, todo, begun, answers>>

\* The database transaction restarts from its entry point.
Enter(s, q) ==
  /\ pc' = [pc EXCEPT ![s] = EntryPoint(q)]
  /\ items' = [items EXCEPT ![s] = q.items]
  /\ item' = [item EXCEPT ![s] = FirstItem(q)]
  /\ todo' = [todo EXCEPT ![s] = EntryTodo(q)]

-----------------------------------------------------------------------------
Init ==
  /\ rows = {}
  /\ volumes = FreshRows
  /\ closed = {}
  /\ chain = EmptyChain
  /\ transactions = {}
  /\ reverted = {}
  /\ logs = {}
  /\ rowLock = [r \in Row |-> NoSession]
  /\ chainLock = NoSession
  /\ txLock = [s \in Session |-> 0]
  /\ pc = [s \in Session |-> "idle"]
  /\ req = [s \in Session |-> NoRequest]
  /\ attempt = [s \in Session |-> 0]
  /\ items = [s \in Session |-> <<>>]
  /\ item = [s \in Session |-> 0]
  /\ todo = [s \in Session |-> {}]
  /\ before = [s \in Session |-> FreshRows]
  /\ shut = [s \in Session |-> {}]
  /\ posts = [s \in Session |-> <<>>]
  /\ wrote = [s \in Session |-> {}]
  /\ mine = [s \in Session |-> FreshRows]
  /\ tip = [s \in Session |-> EmptyChain]
  /\ newTxs = [s \in Session |-> {}]
  /\ newLogs = [s \in Session |-> {}]
  /\ answer = [s \in Session |-> {}]
  /\ begun = 0
  /\ answers = {}
  /\ holders = [s \in Session |-> {}]

\* A client makes a call, possibly one it has made before.
Begin(s, q) ==
  /\ pc[s] = "idle"
  /\ begun < MaxRequests
  /\ begun' = begun + 1
  /\ req' = [req EXCEPT ![s] = q]
  /\ Enter(s, q)
  /\ UNCHANGED <<tables, locks, writes, attempt, before, shut, posts, answer,
                 answers, holders>>

-----------------------------------------------------------------------------
(* The idempotency lookup.                                                 *)

KeyEntries(k) == {e \in logs : e.key = k}

\* Mutant: a replayed batch is answered with its first transaction only.
StoredFirst(q, e) == {e.data.tx.id}

\* findByIdempotencyKey returns the transaction of the entry it found,
\* findBatchByIdempotencyKey every transaction tagged with the same hash.
Stored(q, e) ==
  IF q.kind = "commit" THEN {e.data.tx.id}
  ELSE {t.id : t \in {u \in transactions : u.tag = IkHash(q)}}

\* The entry under the key decides: a mismatch, or the stored answer.
AnswerStored(s) ==
  \E e \in KeyEntries(req[s].key) :
    IF e.ikHash # IkHash(req[s]) THEN Refuse(s)   \* ErrIdempotencyKeyMismatch
    ELSE Finish(s, Stored(req[s], e)) /\ UNCHANGED tables

\* The fast path for a replayed request.
Find(s) ==
  /\ pc[s] = "find"
  /\ \/ AnswerStored(s)
     \/ /\ KeyEntries(req[s].key) = {}
        /\ pc' = [pc EXCEPT ![s] = "materialise"]
        /\ todo' = [todo EXCEPT ![s] = ItemRows(items[s], item[s])]
        /\ UNCHANGED <<tables, locks, writes, call, before, shut, posts,
                       answer, history>>

\* idempotencyRace: the unique index caught the loser, whose transaction the
\* server has already aborted; a second transaction reads the winner's entry.
Race(s) ==
  /\ pc[s] = "race"
  /\ AnswerStored(s)

-----------------------------------------------------------------------------
(* lockVolumes.                                                            *)

\* insert ... on conflict do nothing, one row at a time in sorted order: a
\* committed row is left alone, another session's uncommitted row is waited
\* for, an absent one becomes ours.
MaterialiseRow(s, r) ==
  /\ pc[s] = "materialise"
  /\ First(r, todo[s])
  /\ \/ /\ r \in rows \cup wrote[s]
        /\ UNCHANGED <<rowLock, wrote, mine>>
     \/ /\ r \notin rows /\ rowLock[r] = NoSession
        /\ rowLock' = [rowLock EXCEPT ![r] = s]
        /\ wrote' = [wrote EXCEPT ![s] = @ \cup {r}]
        /\ mine' = [mine EXCEPT ![s][r] = FreshRow(r)]
  /\ IF todo[s] = {r}
     THEN /\ pc' = [pc EXCEPT ![s] = "lock"]
          /\ todo' = [todo EXCEPT ![s] = ItemRows(items[s], item[s])]
     ELSE /\ todo' = [todo EXCEPT ![s] = @ \ {r}]
          /\ UNCHANGED pc
  /\ UNCHANGED <<tables, chainLock, txLock, tip, newTxs, newLogs, call,
                 before, shut, posts, answer, history>>

\* Mutant: a select without for update.
GrantedAtOnce(s, r) == TRUE

\* A row lock is granted when it is free, or ours already.
Granted(s, r) == rowLock[r] \in {NoSession, s}

\* select ... order by address, asset for update: each row is waited for and
\* read as it stands when its lock is granted.
LockRow(s, r) ==
  /\ pc[s] = "lock"
  /\ First(r, todo[s])
  /\ Granted(s, r)
  /\ rowLock' = [rowLock EXCEPT ![r] = s]
  /\ before' = [before EXCEPT ![s][r] = View(s, r)]
  /\ IF todo[s] # {r}
     THEN /\ todo' = [todo EXCEPT ![s] = @ \ {r}]
          /\ UNCHANGED <<pc, item>>
     ELSE IF item[s] = 0
     THEN /\ pc' = [pc EXCEPT ![s] = "materialise"]
          /\ item' = [item EXCEPT ![s] = 1]
          /\ todo' = [todo EXCEPT ![s] = ItemRows(items[s], 1)]
     ELSE /\ pc' = [pc EXCEPT ![s] = "readClosed"]
          /\ todo' = [todo EXCEPT ![s] = {}]
          /\ UNCHANGED item
  /\ UNCHANGED <<tables, chainLock, txLock, writes, req, attempt, items, shut,
                 posts, answer, history>>

\* The third statement of the batch: which of these accounts are closed, read
\* without a lock.
ReadClosed(s) ==
  /\ pc[s] = "readClosed"
  /\ LET touched == {r[1] : r \in ItemRows(items[s], item[s])}
     IN  shut' = [shut EXCEPT ![s] = touched \cap closed]
  /\ pc' = [pc EXCEPT ![s] = "apply"]
  /\ UNCHANGED <<tables, locks, writes, call, todo, before, posts, answer, history>>

-----------------------------------------------------------------------------
(* The rest of applyTransaction.                                           *)

\* The postings of the current item as the caller gave them, and as resolved
\* against the locked rows.
Asked(s) == items[s][item[s]].postings
Settled(s) == ResolveUpTo(Asked(s), before[s])

\* Mutant: the deltas are those of the postings as asked.
UpdatedAsked(s) ==
  LET updates == VolumeUpdates(Asked(s))
  IN  [r \in RowsOf(Asked(s)) |-> AddDelta(View(s, r), updates[r])]

\* The updated rows: the database adds each delta to the version s sees.
Updated(s) ==
  LET updates == VolumeUpdates(Settled(s))
  IN  [r \in RowsOf(Asked(s)) |-> AddDelta(View(s, r), updates[r])]

\* The checks in Go: ErrUnboundedSweep, ErrAccountClosed, ErrInsufficientFunds.
ChecksPass(s) ==
  /\ ~UnboundedSweep(Asked(s), before[s])
  /\ shut[s] = {}
  /\ CheckBalances(before[s], VolumeUpdates(Settled(s)))

\* The row triggers of the update.
TriggersPass(s) == \A r \in RowsOf(Asked(s)) : RowAccepts(View(s, r), Updated(s)[r])

\* Mutant: neither the code nor the database looks at the balances.
AcceptedUnchecked(s) == ~UnboundedSweep(Asked(s), before[s]) /\ shut[s] = {}

Accepted(s) == ChecksPass(s) /\ TriggersPass(s)

\* Resolve, check, then add the deltas.  The checks read what was locked, the
\* update adds to what is there.
Apply(s) ==
  /\ pc[s] = "apply"
  /\ IF ~Accepted(s) THEN Refuse(s)
     ELSE /\ posts' = [posts EXCEPT ![s] = Settled(s)]
          /\ wrote' = [wrote EXCEPT ![s] = @ \cup RowsOf(Asked(s))]
          /\ mine' = [mine EXCEPT ![s] =
               [r \in Row |-> IF r \in RowsOf(Asked(s)) THEN Updated(s)[r] ELSE @[r]]]
          /\ pc' = [pc EXCEPT ![s] = "allocate"]
          /\ UNCHANGED <<tables, locks, tip, newTxs, newLogs, call, todo, before,
                         shut, answer, history>>

\* One statement takes both ids and the chain tip, and locks the ledgers row.
Allocate(s) ==
  /\ pc[s] = "allocate"
  /\ chainLock \in {NoSession, s}
  /\ chainLock' = s
  /\ tip' = [tip EXCEPT ![s] = [lastTx |-> ChainView(s).lastTx + 1,
                                lastLog |-> ChainView(s).lastLog + 1,
                                lastHash |-> ChainView(s).lastHash]]
  /\ pc' = [pc EXCEPT ![s] = "insert"]
  /\ UNCHANGED <<tables, rowLock, txLock, wrote, mine, newTxs, newLogs, call,
                 todo, before, shut, posts, answer, history>>

\* Mutant: the post commit volumes are those of the postings as asked.
PostCommitVolumesAsked(s) ==
  LET updates == VolumeUpdates(Asked(s))
  IN  [r \in RowsOf(Asked(s)) |-> AddDelta(before[s][r], updates[r])]

\* postCommitVolumes: computed from the locked rows, not read back.
PostCommitVolumes(s) ==
  LET updates == VolumeUpdates(posts[s])
  IN  [r \in RowsOf(Asked(s)) |-> AddDelta(before[s][r], updates[r])]

BatchTag(q) == IF q.kind = "batch" /\ q.key # NoKey THEN IkHash(q) ELSE NoTag

\* The transaction as it is stored: postings as they moved, the reference, and
\* the batch tag of a keyed batch.
NewTransaction(s) ==
  [id |-> tip[s].lastTx,
   postings |-> posts[s],
   ref |-> items[s][item[s]].ref,
   tag |-> BatchTag(req[s]),
   pcv |-> PostCommitVolumes(s)]

\* insertTransaction: the reference is unique per ledger.
InsertTransaction(s) ==
  /\ pc[s] = "insert"
  /\ IF /\ items[s][item[s]].ref # NoRef
        /\ \E t \in transactions \cup newTxs[s] : t.ref = items[s][item[s]].ref
     THEN Refuse(s)   \* ErrDuplicateReference
     ELSE /\ newTxs' = [newTxs EXCEPT ![s] = @ \cup {NewTransaction(s)}]
          /\ pc' = [pc EXCEPT ![s] = "append"]
          /\ UNCHANGED <<tables, locks, wrote, mine, tip, newLogs, call, todo,
                         before, shut, posts, answer, history>>

\* The key goes on the first entry of the call only.
EntryKey(s) == IF item[s] = 1 THEN req[s].key ELSE NoKey

NewEntry(s) ==
  LET data == [tx |-> NewTransaction(s),
               undoes |-> IF req[s].kind = "revert" THEN req[s].target ELSE 0]
  IN  [id |-> tip[s].lastLog, data |-> data,
       hash |-> ChainHash(tip[s].lastHash, data),
       key |-> EntryKey(s),
       ikHash |-> IF EntryKey(s) = NoKey THEN NoTag ELSE IkHash(req[s])]

\* Mutant: no unique index on the key.
KeyNeverTaken(s) == FALSE

\* The unique index on (ledger, idempotency_key).
KeyTaken(s) == EntryKey(s) # NoKey /\ KeyEntries(EntryKey(s)) # {}

\* appendLog: the entry and the chain tip in one statement.  A taken key is a
\* unique violation, which aborts the transaction.
AppendLog(s) ==
  /\ pc[s] = "append"
  /\ IF KeyTaken(s)
     THEN /\ EndTransaction(s)
          /\ pc' = [pc EXCEPT ![s] = "race"]
          /\ UNCHANGED <<tables, call, todo, answer, begun, answers>>
     ELSE /\ newLogs' = [newLogs EXCEPT ![s] = @ \cup {NewEntry(s)}]
          /\ tip' = [tip EXCEPT ![s].lastHash = NewEntry(s).hash]
          /\ IF item[s] < Len(items[s])
             THEN /\ item' = [item EXCEPT ![s] = @ + 1]
                  /\ pc' = [pc EXCEPT ![s] = "materialise"]
                  /\ todo' = [todo EXCEPT ![s] = ItemRows(items[s], item[s] + 1)]
             ELSE /\ pc' = [pc EXCEPT ![s] = "commit"]
                  /\ UNCHANGED <<item, todo>>
          /\ UNCHANGED <<tables, locks, wrote, mine, newTxs, req, attempt, items,
                         before, shut, posts, answer, history>>

-----------------------------------------------------------------------------
(* The end of a call.                                                      *)

\* The volumes as they will stand.
CommitView(s) == [r \in Row |-> View(s, r)]

Undone(q) == IF q.kind = "revert" THEN {q.target} ELSE {}

\* COMMIT: the deferred conservation trigger, then everything at once.
CommitTx(s) ==
  /\ pc[s] = "commit"
  /\ ~req[s].dry
  /\ IF ~Conserved(CommitView(s), rows \cup wrote[s]) THEN Refuse(s)
     ELSE /\ rows' = rows \cup wrote[s]
          /\ volumes' = CommitView(s)
          /\ chain' = tip[s]
          /\ transactions' = transactions \cup newTxs[s]
          /\ reverted' = reverted \cup Undone(req[s])
          /\ logs' = logs \cup newLogs[s]
          /\ Finish(s, {t.id : t \in newTxs[s]})
          /\ UNCHANGED closed

\* DryRun: the same path, rolled back; the answer is what would have happened.
DryRun(s) ==
  /\ pc[s] = "commit"
  /\ req[s].dry
  /\ Refuse(s)

\* The caller learns the outcome.
Reply(s) ==
  /\ pc[s] = "reply"
  /\ Forget(s)
  /\ answers' = IF req[s].key = NoKey THEN answers
                ELSE answers \cup {[key |-> req[s].key, ikHash |-> IkHash(req[s]),
                                    ids |-> answer[s]]}
  /\ UNCHANGED <<tables, locks, writes, before, shut, posts, begun, holders>>

\* The process or its connection dies, or the caller gives up waiting: the
\* server rolls back what was not committed and nobody learns the outcome.
Crash(s) ==
  /\ pc[s] # "idle"
  /\ Refuse(s)

\* Mutant: one attempt too many.
MayRetryOnceMore(s) == attempt[s] < MaxAttempts

MayRetry(s) == attempt[s] + 1 < MaxAttempts

\* The database reports a deadlock or serialization failure: the attempt is
\* rolled back and the loop starts again from the top, up to maxAttempts.
Contend(s) ==
  /\ pc[s] \in {"find", "lockTx", "materialise", "lock", "readClosed", "apply",
                "allocate", "insert", "append", "commit"}
  /\ IF MayRetry(s)
     THEN /\ EndTransaction(s)
          /\ attempt' = [attempt EXCEPT ![s] = @ + 1]
          /\ Enter(s, req[s])
          /\ UNCHANGED <<tables, req, answer, begun, answers>>
     ELSE Refuse(s)   \* ErrContention

-----------------------------------------------------------------------------
(* RevertTransaction: lock the original, refuse a second reversal, commit   *)
(* the inverse through the same path.                                      *)

\* Mutant: reverted_at is not looked at.
NeverReverted(s) == FALSE

AlreadyReverted(s) == req[s].target \in reverted

LockTransaction(s) ==
  /\ pc[s] = "lockTx"
  /\ IF req[s].target \notin TxIds THEN Refuse(s)
     ELSE /\ \A u \in Session \ {s} : txLock[u] # req[s].target
          /\ IF AlreadyReverted(s) THEN Refuse(s)
             ELSE \E t \in transactions :
                    /\ t.id = req[s].target
                    /\ txLock' = [txLock EXCEPT ![s] = t.id]
                    /\ items' = [items EXCEPT ![s] =
                         <<[postings |-> ReversePostings(t.postings), ref |-> NoRef]>>]
                    /\ todo' = [todo EXCEPT ![s] = RowsOf(ReversePostings(t.postings))]
                    /\ pc' = [pc EXCEPT ![s] = "materialise"]
                    /\ UNCHANGED <<tables, rowLock, chainLock, writes, req, attempt,
                                   item, before, shut, posts, answer, history>>

-----------------------------------------------------------------------------
(* Policy and closure.                                                     *)

\* Mutant: the policy changes under a commit that has read it.
RowFreeAlways(r) == TRUE

\* An update waits for whoever holds the row.
RowFree(r) == rowLock[r] = NoSession

\* SetAllowNegative: one autocommitted upsert, which waits for the row.
SetAllowNegative(r, allow) ==
  /\ RowFree(r)
  /\ r[1] = World => allow
  /\ rows' = rows \cup {r}
  /\ volumes' = [volumes EXCEPT ![r].allowNegative = allow]
  /\ UNCHANGED <<closed, chain, transactions, reverted, logs, locks, writes, call,
                 pc, todo, before, shut, posts, answer, history>>

\* SetAllowPositive: the same, but a row it creates takes the column default
\* for allow_negative, which is false whatever the account.
SetAllowPositive(r, allow) ==
  /\ RowFree(r)
  /\ r[1] = World => allow
  /\ rows' = rows \cup {r}
  /\ volumes' = [volumes EXCEPT ![r].allowPositive = allow,
                                ![r].allowNegative = @ /\ r \in rows]
  /\ UNCHANGED <<closed, chain, transactions, reverted, logs, locks, writes, call,
                 pc, todo, before, shut, posts, answer, history>>

AccountRows(a) == {r \in rows : r[1] = a}

\* CloseAccount, first statement: the rows whose committed balance is not zero
\* are the ones selected for update.
CloseRead(s) ==
  /\ pc[s] = "closeRead"
  /\ todo' = [todo EXCEPT ![s] =
       {r \in AccountRows(req[s].target) : Balance(volumes[r]) # 0}]
  /\ holders' = [holders EXCEPT ![s] =
       {u \in Session : \E r \in Row : r[1] = req[s].target /\ rowLock[r] = u}]
  /\ pc' = [pc EXCEPT ![s] = "closeLock"]
  /\ UNCHANGED <<tables, locks, writes, call, before, shut, posts, answer,
                 begun, answers>>

\* Each selected row is waited for in order of asset, locked, and looked at
\* again: one that is zero by then is left out of the result.
CloseLock(s, r) ==
  /\ pc[s] = "closeLock"
  /\ First(r, todo[s])
  /\ rowLock[r] = NoSession
  /\ rowLock' = [rowLock EXCEPT ![r] = s]
  /\ before' = [before EXCEPT ![s][r] = volumes[r]]
  /\ todo' = [todo EXCEPT ![s] = @ \ {r}]
  /\ UNCHANGED <<tables, chainLock, txLock, writes, call, pc, shut, posts, answer,
                 history>>

CloseCheck(s) ==
  /\ pc[s] = "closeLock"
  /\ todo[s] = {}
  /\ IF \E r \in Row : rowLock[r] = s /\ Balance(before[s][r]) # 0
     THEN Refuse(s)
     ELSE /\ pc' = [pc EXCEPT ![s] = "closeWrite"]
          /\ UNCHANGED <<tables, locks, writes, call, todo, before, shut, posts,
                         answer, history>>

CloseWrite(s) ==
  /\ pc[s] = "closeWrite"
  /\ closed' = closed \cup {req[s].target}
  /\ Finish(s, {})
  /\ UNCHANGED <<rows, volumes, chain, transactions, reverted, logs>>

\* ReopenAccount, one autocommitted update.
Reopen(a) ==
  /\ a \in closed
  /\ closed' = closed \ {a}
  /\ UNCHANGED <<rows, volumes, chain, transactions, reverted, logs, locks, writes,
                 call, pc, todo, before, shut, posts, answer, history>>

-----------------------------------------------------------------------------
\* What a session does next, without a new call and without a failure.
Step(s) ==
  \/ Find(s) \/ Race(s)
  \/ \E r \in Row : MaterialiseRow(s, r) \/ LockRow(s, r)
  \/ ReadClosed(s) \/ Apply(s) \/ Allocate(s) \/ InsertTransaction(s)
  \/ AppendLog(s) \/ CommitTx(s) \/ DryRun(s) \/ Reply(s)
  \/ LockTransaction(s)
  \/ CloseRead(s) \/ (\E r \in Row : CloseLock(s, r)) \/ CloseCheck(s) \/ CloseWrite(s)

Operator ==
  \/ \E r \in PolicyRow, allow \in BOOLEAN :
       SetAllowNegative(r, allow) \/ SetAllowPositive(r, allow)
  \/ \E a \in Account : Reopen(a)

Next ==
  \/ \E s \in Session : \/ \E q \in Request : Begin(s, q)
                        \/ Step(s)
                        \/ Crash(s)
                        \/ Contend(s)
  \/ Operator

Spec == Init /\ [][Next]_vars

\* A session that can step does: goroutines are scheduled and the database
\* answers.  Nothing obliges a client to call, a process to die, a conflict to
\* be reported or an operator to act.
FairSpec == Spec /\ \A s \in Session : WF_vars(Step(s))

-----------------------------------------------------------------------------
(* Properties.                                                             *)

Labels == {"idle", "find", "race", "lockTx", "materialise", "lock", "readClosed",
           "apply", "allocate", "insert", "append", "commit", "reply",
           "closeRead", "closeLock", "closeWrite"}

TypeOK ==
  /\ rows \subseteq Row
  /\ volumes \in [Row -> RowValue]
  /\ closed \subseteq Account
  /\ chain.lastTx \in Nat /\ chain.lastLog \in Nat
  /\ rowLock \in [Row -> Session \cup {NoSession}]
  /\ chainLock \in Session \cup {NoSession}
  /\ txLock \in [Session -> Nat]
  /\ pc \in [Session -> Labels]
  /\ req \in [Session -> Request \cup {NoRequest}]
  /\ attempt \in [Session -> 0..MaxAttempts - 1]
  /\ item \in [Session -> Nat]
  /\ todo \in [Session -> SUBSET Row]
  /\ before \in [Session -> [Row -> RowValue]]
  /\ shut \in [Session -> SUBSET Account]
  /\ wrote \in [Session -> SUBSET Row]
  /\ mine \in [Session -> [Row -> RowValue]]
  /\ begun \in 0..MaxRequests
  /\ holders \in [Session -> SUBSET Session]

\* Nobody but the holder of its lock has an uncommitted version of a row, and
\* only the holder of the ledgers row has allocated ids (the row locks of
\* lockVolumes and allocate).
WritesAreLocked ==
  \A s \in Session :
    /\ \A r \in wrote[s] : rowLock[r] = s
    /\ pc[s] \in {"insert", "append", "commit"} => chainLock = s
    /\ newTxs[s] # {} \/ newLogs[s] # {} => chainLock = s

\* Between the lock and the write, what a session read is what the row holds:
\* the balance, and the permissions, that checkBalances and resolveUpTo decide
\* on cannot be stale.
CheckedIsCurrent ==
  \A s \in Session : pc[s] \in {"readClosed", "apply"} =>
    \A r \in ItemRows(items[s], item[s]) :
      rowLock[r] = s /\ before[s][r] = View(s, r)

\* Resolving a ceiling keeps every row the transaction named, so the locks are
\* still the right ones, and the deltas applied are the sums of the amounts the
\* transaction records, row by row (resolveUpTo, VolumeUpdates).
UpdatesAreTheSums ==
  \A s \in Session : pc[s] = "apply" => AppliesTheSums(Asked(s), before[s])

\* The rows of s as it locked them are within their bounds: no policy was
\* tightened over a balance.
LockedInBounds(s) == \A r \in RowsOf(Asked(s)) : InBounds(before[s][r])

\* A sweep moves what is there and no more, whatever the postings and the items
\* before it moved: when each UpTo posting runs its source holds what it draws
\* (resolveUpTo's running balances: two sweeps of one account do not both claim
\* the whole balance).
SweepNeverOverdraws ==
  \A s \in Session :
    pc[s] = "apply" /\ LockedInBounds(s) /\ ~UnboundedSweep(Asked(s), before[s])
      => SweepsWhatIsThere(Asked(s), before[s])

\* A sweep without a ceiling leaves its source empty unless a later posting
\* pays into it: "move whatever is there" moves all of it (resolveUpTo).
SweepLeavesNothing ==
  \A s \in Session : pc[s] = "apply" => SweepsAllOfIt(Asked(s), before[s])

\* A reversal committed straight after its original passes the check and gives
\* every account back the balance it had (RevertTransaction on Reverse of the
\* recorded postings).
ReversalRestores ==
  \A s \in Session :
    pc[s] = "apply" /\ LockedInBounds(s) => ReversalUndoes(Asked(s), before[s])

\* The checks in Go are exact: no commit that passes them is then refused by a
\* trigger of the database (monotonic volumes, bounds, conservation).
GuardsNeverFire ==
  \A s \in Session :
    /\ pc[s] = "apply" /\ ChecksPass(s) => TriggersPass(s)
    /\ pc[s] = "commit" => Conserved(CommitView(s), rows \cup wrote[s])

\* No committed step moves a balance to a place its account is not permitted
\* to be, whatever interleaves with it and whenever the permission changed.
NoUnpermittedOverdraw ==
  [][\A r \in Row : Balance(volumes'[r]) # Balance(volumes[r]) => InBounds(volumes'[r])]_vars

Totals(txs, r) ==
  LET touching == {t \in txs : r \in RowsOf(t.postings)}
      in == [t \in touching |-> VolumeUpdates(t.postings)[r].input]
      out == [t \in touching |-> VolumeUpdates(t.postings)[r].output]
  IN  <<SumOver(in, touching), SumOver(out, touching)>>

\* The projection is the log replayed: volumes are the sums of what the log's
\* transactions moved, the transactions are the ones the log holds, and the
\* reverted marks are its reversals (what VerifyProjection looks for).
ProjectionMatchesLog ==
  LET logged == {e.data.tx : e \in logs}
  IN  /\ transactions = logged
      /\ reverted = {e.data.undoes : e \in logs} \ {0}
      /\ \A r \in Row : <<volumes[r].input, volumes[r].output>> = Totals(logged, r)

\* The post commit volumes frozen on a transaction are the replay of every
\* transaction up to its id: commits that ran concurrently got ids in the order
\* in which they saw each other's rows.
PostCommitVolumesAreReplay ==
  \A t \in transactions : \A r \in RowsOf(t.postings) :
    <<t.pcv[r].input, t.pcv[r].output>> = Totals({u \in transactions : u.id <= t.id}, r)

\* VerifyLog finds nothing at any moment: ids run from 1 without a gap or a
\* repeat, each hash chains onto the one before, and the ledgers row holds the
\* tip and both counters.
LogVerifies ==
  /\ {e.id : e \in logs} = 1..chain.lastLog
  /\ \A e, f \in logs : e.id = f.id => e = f
  /\ {t.id : t \in transactions} = 1..chain.lastTx
  /\ \A e \in logs :
       \E previous \in {f.hash : f \in {g \in logs : g.id = e.id - 1}}
                          \cup (IF e.id = 1 THEN {<<>>} ELSE {}) :
         e.hash = ChainHash(previous, e.data)
  /\ \A e \in logs : e.id = chain.lastLog => chain.lastHash = e.hash

\* An idempotency key and a reference take effect at most once, however many
\* times and however concurrently the call is made.
OncePerKey ==
  /\ \A e, f \in logs : e.key = f.key /\ e.key # NoKey => e = f
  /\ \A t, u \in transactions : t.ref = u.ref /\ t.ref # NoRef => t = u

\* Every caller told that a key succeeded was told the same transactions, and
\* they are in the ledger.
AnswersAgree ==
  /\ \A x \in answers : x.ids # {} /\ x.ids \subseteq TxIds
  /\ \A x, y \in answers : x.key = y.key => x.ids = y.ids

\* A transaction is reversed at most once, and a reversal is never itself the
\* product of two.
RevertedOnce ==
  \A e, f \in logs : e.data.undoes = f.data.undoes /\ e.data.undoes # 0 => e = f

\* A call whose key has already taken effect with the same inputs is answered,
\* never refused: "the right answer is the winner's transaction rather than an
\* error" (storage/rows.go).
ReplayIsAnswered ==
  [][\A s \in Session :
       /\ req[s].kind \in {"commit", "batch"} /\ req[s].key # NoKey
       /\ Find(s) \/ Race(s) \/ Apply(s) \/ InsertTransaction(s)
       /\ pc'[s] = "idle"
       => \A e \in KeyEntries(req[s].key) : e.ikHash # IkHash(req[s])]_vars

\* World is created permitted a negative balance and nothing takes that away.
WorldMayGoNegative ==
  \A r \in Row : r[1] = World => volumes[r].allowNegative

\* When a close takes effect, no commit that had taken the account's rows
\* before the close read them is still running: "a commit that has already
\* taken these rows finishes first and its balance is the one seen here".
CloseWaitsForHolders ==
  \A s \in Session : pc[s] = "closeWrite" => holders[s] = {}

\* Every call returns: nobody waits for ever for a lock somebody else holds.
CallsReturn == \A s \in Session : pc[s] # "idle" ~> pc[s] = "idle"

-----------------------------------------------------------------------------
\* Commit implements the serial ledger: identity on the committed tables.
Serial == INSTANCE Ledger

\* Every change of the committed tables is one whole call of the serial
\* ledger, checked against the state it changes: a commit, a batch, a reversal
\* or a policy change, and nothing else ever shows.
Serialisable == Serial!Spec
=============================================================================
