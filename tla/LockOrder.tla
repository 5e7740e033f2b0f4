----------------------------- MODULE LockOrder ------------------------------
(***************************************************************************)
(* The row locks of every operation of the store that holds one lock while  *)
(* it asks for another, and nothing else: who may wait for whom.           *)
(*                                                                         *)
(*   transactions row   lockTransaction, lockTarget                        *)
(*   volume rows        lockVolumes, the select of CloseAccount            *)
(*   ledgers row        allocate, allocateLogID, RecordRecovery            *)
(*   accounts rows      queueAccounts, CloseAccount, account metadata      *)
(*                                                                         *)
(* A session is one database transaction: a list of stages, each a         *)
(* statement that takes a set of locks in sorted order.  Calls that hold   *)
(* nothing while they wait (SetAllowNegative, ReopenAccount and every other *)
(* single autocommitted statement) cannot be part of a deadlock; the policy *)
(* upsert is here only because it creates volume rows.                     *)
(***************************************************************************)
EXTENDS Integers, Sequences, FiniteSets

CONSTANTS Session, NoSession,
          Tx,          \* transactions that can be reverted or tagged
          Account,     \* addresses
          Row,         \* (account, asset) pairs
          AccountOf,   \* row -> account
          Rank,        \* the order of volume rows: address, then asset
          Place,       \* the order of addresses
          Size,        \* more than any rank or place
          Request      \* calls: kind, items (each a set of rows), tx, account

Lock == ({"tx"} \X Tx) \cup ({"row"} \X Row) \cup {<<"chain", 0>>}
          \cup ({"account"} \X Account)

ASSUME SessionAssumption == NoSession \notin Session
ASSUME OrderAssumption ==
  /\ Size \in Nat
  /\ Rank \in [Row -> 0..Size]
  /\ Place \in [Account -> 0..Size]
  /\ AccountOf \in [Row -> Account]
  /\ \A q, r \in Row : Rank[q] = Rank[r] => q = r
  /\ \A a, b \in Account : Place[a] = Place[b] => a = b
ASSUME RequestAssumption ==
  \A q \in Request :
    /\ q.kind \in {"commit", "batch", "revert", "close", "txMetadata",
                   "accountMetadata", "recovery"}
    /\ q.items \in Seq(SUBSET Row)
    /\ q.kind = "batch" => q.items # <<>>
    /\ q.kind \in {"commit", "revert"} => Len(q.items) = 1
    /\ q.tx \in Tx
    /\ q.account \in Account

VARIABLES rows,     \* the volume rows that exist
          holder,   \* lock -> the session that holds it
          stage,    \* session -> the statement it is at
          todo,     \* session -> the locks that statement has yet to take
          item,     \* session -> the item of a batch it is at; 0: all of them
          req       \* session -> its call

vars == <<rows, holder, stage, todo, item, req>>

NoRequest == [kind |-> "none"]

-----------------------------------------------------------------------------
(* What each statement locks.                                              *)

RowLocks(S) == {"row"} \X S

ItemRows(q, i) == IF i = 0 THEN UNION {q.items[j] : j \in DOMAIN q.items} ELSE q.items[i]

StageLocks(q, at, i) ==
  CASE at = "tx" -> {<<"tx", q.tx>>}
    [] at \in {"materialise", "lock"} -> RowLocks(ItemRows(q, i))
    [] at = "chain" -> {<<"chain", 0>>}
    [] at = "accounts" -> {"account"} \X {AccountOf[r] : r \in ItemRows(q, i)}
    [] at \in {"closeAccount", "tagAccount"} -> {<<"account", q.account>>}
    [] OTHER -> {}

FirstStage(q) ==
  CASE q.kind \in {"revert", "txMetadata"} -> "tx"
    [] q.kind \in {"commit", "batch"} -> "materialise"
    [] q.kind = "close" -> "closeRows"
    [] q.kind = "accountMetadata" -> "tagAccount"
    [] OTHER -> "chain"

\* Mutant: a batch locks item by item, as if each were a commit of its own.
FirstItemAlone(q) == 1

FirstItem(q) == IF q.kind = "batch" THEN 0 ELSE 1

\* The statement after this one, and the item it belongs to.  A batch locks
\* the rows of all its items (item 0), then runs each item like a commit.
After(q, at, i) ==
  CASE at = "tx" -> IF q.kind = "revert" THEN <<"materialise", 1>> ELSE <<"chain", i>>
    [] at = "materialise" -> <<"lock", i>>
    [] at = "lock" -> IF i = 0 THEN <<"materialise", 1>> ELSE <<"chain", i>>
    [] at = "chain" -> IF q.kind \in {"commit", "batch", "revert"}
                       THEN <<"accounts", i>> ELSE <<"done", i>>
    [] at = "accounts" -> IF i < Len(q.items) THEN <<"materialise", i + 1>> ELSE <<"done", i>>
    [] at = "closeRows" -> <<"closeAccount", i>>
    [] at = "tagAccount" -> <<"chain", i>>
    [] OTHER -> <<"done", i>>

Key(l) == IF l[1] = "row" THEN Rank[l[2]] ELSE IF l[1] = "account" THEN Place[l[2]] ELSE 0

\* Mutant: locks are taken in whatever order the caller named them.
FirstAsked(l, S) == l \in S

\* Statements take their locks in sorted order.
First(l, S) == l \in S /\ \A k \in S : Key(l) <= Key(k)

-----------------------------------------------------------------------------
Init ==
  /\ rows \in SUBSET Row
  /\ holder = [l \in Lock |-> NoSession]
  /\ stage = [s \in Session |-> "idle"]
  /\ todo = [s \in Session |-> {}]
  /\ item = [s \in Session |-> 0]
  /\ req = [s \in Session |-> NoRequest]

\* A call starts.  A close selects the rows of its account that hold something.
Begin(s, q, selected) ==
  /\ stage[s] = "idle"
  /\ selected \subseteq {r \in rows : q.kind = "close" /\ AccountOf[r] = q.account}
  /\ req' = [req EXCEPT ![s] = q]
  /\ stage' = [stage EXCEPT ![s] = FirstStage(q)]
  /\ item' = [item EXCEPT ![s] = FirstItem(q)]
  /\ todo' = [todo EXCEPT ![s] = IF q.kind = "close" THEN RowLocks(selected)
                                 ELSE StageLocks(q, FirstStage(q), FirstItem(q))]
  /\ UNCHANGED <<rows, holder>>

\* insert ... on conflict do nothing passes over a row that exists, whoever
\* has it locked.
Present(s, l) == stage[s] = "materialise" /\ l[2] \in rows

\* The next lock of the statement, free or already ours.
Acquire(s, l) ==
  /\ First(l, todo[s])
  /\ \/ Present(s, l) /\ UNCHANGED holder
     \/ /\ ~Present(s, l)
        /\ holder[l] \in {NoSession, s}
        /\ holder' = [holder EXCEPT ![l] = s]
  /\ todo' = [todo EXCEPT ![s] = @ \ {l}]
  /\ UNCHANGED <<rows, stage, item, req>>

\* The next statement.
Advance(s) ==
  /\ stage[s] \notin {"idle", "done"}
  /\ todo[s] = {}
  /\ LET to == After(req[s], stage[s], item[s])
     IN  /\ stage' = [stage EXCEPT ![s] = to[1]]
         /\ item' = [item EXCEPT ![s] = to[2]]
         /\ todo' = [todo EXCEPT ![s] = StageLocks(req[s], to[1], to[2])]
  /\ UNCHANGED <<rows, holder, req>>

Release(s) ==
  /\ holder' = [l \in Lock |-> IF holder[l] = s THEN NoSession ELSE holder[l]]
  /\ stage' = [stage EXCEPT ![s] = "idle"]
  /\ todo' = [todo EXCEPT ![s] = {}]
  /\ item' = [item EXCEPT ![s] = 0]
  /\ req' = [req EXCEPT ![s] = NoRequest]

\* COMMIT: the rows it inserted now exist.
Commit(s) ==
  /\ stage[s] = "done"
  /\ rows' = rows \cup {r \in Row : holder[<<"row", r>>] = s}
  /\ Release(s)

\* ROLLBACK, for any reason, at any moment.
Abort(s) ==
  /\ stage[s] # "idle"
  /\ Release(s)
  /\ UNCHANGED rows

\* SetAllowNegative or SetAllowPositive creates the row.
SetPolicy(r) ==
  /\ r \notin rows
  /\ holder[<<"row", r>>] = NoSession
  /\ rows' = rows \cup {r}
  /\ UNCHANGED <<holder, stage, todo, item, req>>

Next ==
  \/ \E s \in Session :
       \/ \E q \in Request, selected \in SUBSET Row : Begin(s, q, selected)
       \/ \E l \in Lock : Acquire(s, l)
       \/ Advance(s) \/ Commit(s) \/ Abort(s)
  \/ \E r \in Row : SetPolicy(r)

Spec == Init /\ [][Next]_vars

-----------------------------------------------------------------------------
(* Properties.                                                             *)

Stages == {"idle", "tx", "materialise", "lock", "chain", "accounts", "closeRows",
           "closeAccount", "tagAccount", "done"}

TypeOK ==
  /\ rows \subseteq Row
  /\ holder \in [Lock -> Session \cup {NoSession}]
  /\ stage \in [Session -> Stages]
  /\ todo \in [Session -> SUBSET Lock]
  /\ item \in [Session -> Nat]
  /\ req \in [Session -> Request \cup {NoRequest}]

(***************************************************************************)
(* The discipline behind the absence of deadlock: what a session may hold   *)
(* while the statement it is at still has locks to take.                   *)
(***************************************************************************)

Money == {"commit", "batch", "revert"}

Holds(s, l) == holder[l] = s

\* The pass that really locks: the rows of a commit, or of a whole batch.  The
\* items of a batch lock them again afterwards.
FirstPass(s) == item[s] = FirstItem(req[s])

\* A stage belongs to its kind of call.
StageOfCall(s) ==
  /\ stage[s] = "idle" => todo[s] = {} /\ \A l \in Lock : ~Holds(s, l)
  /\ stage[s] # "idle" => req[s] \in Request
  /\ stage[s] = "tx" => req[s].kind \in {"revert", "txMetadata"} /\ item[s] = 1
  /\ stage[s] \in {"materialise", "lock", "accounts"} =>
       req[s].kind \in Money /\ item[s] \in FirstItem(req[s])..Len(req[s].items)
  /\ stage[s] = "chain" /\ req[s].kind \in Money => item[s] \in 1..Len(req[s].items)
  /\ stage[s] = "accounts" => item[s] # 0
  /\ stage[s] \in {"closeRows", "closeAccount"} <=> req[s].kind = "close" /\ stage[s] # "done"
  /\ stage[s] # "tagAccount"

\* What a statement has yet to lock.
PendingOfStage(s) ==
  IF stage[s] = "closeRows" THEN todo[s] \subseteq RowLocks(rows)
  ELSE todo[s] \subseteq StageLocks(req[s], stage[s], item[s])

\* A session that waits for a transactions row holds nothing, and one that has
\* just taken it holds nothing else.
TxFirst(s) == stage[s] = "tx" => \A l \in Lock : Holds(s, l) => l[1] = "tx" /\ todo[s] = {}

\* While the rows are inserted, only new rows are held, lower ones first; while
\* they are locked, all of them exist or are held, lower existing ones first.
RowsInOrder(s) ==
  /\ stage[s] = "materialise" /\ FirstPass(s) =>
       /\ \A l \in RowLocks(ItemRows(req[s], item[s])) \ todo[s] : l[2] \in rows \/ Holds(s, l)
       /\ \A l \in RowLocks(Row) : Holds(s, l) =>
            l[2] \notin rows /\ \A k \in todo[s] : Rank[l[2]] < Rank[k[2]]
  /\ stage[s] = "lock" /\ FirstPass(s) =>
       /\ \A l \in todo[s] : l[2] \in rows \/ Holds(s, l)
       /\ \A l \in RowLocks(ItemRows(req[s], item[s])) \ todo[s] : Holds(s, l)
       /\ \A l \in RowLocks(Row) : Holds(s, l) =>
            l[2] \notin rows \/ \A k \in todo[s] : Rank[l[2]] < Rank[k[2]]
  /\ stage[s] = "closeRows" =>
       \A l \in RowLocks(Row) : Holds(s, l) => \A k \in todo[s] : Rank[l[2]] < Rank[k[2]]

\* After the first pass every row of the call is held, so a second pass over
\* some of them never waits.
RowsKept(s) ==
  \/ stage[s] \in {"chain", "accounts"} /\ req[s].kind \in Money
  \/ stage[s] \in {"materialise", "lock"} /\ ~FirstPass(s)
  => \A l \in RowLocks(ItemRows(req[s], FirstItem(req[s]))) : Holds(s, l)

\* The ledgers row comes after the volume rows and before the accounts.
ChainThenAccounts(s) ==
  /\ Holds(s, <<"chain", 0>>) => stage[s] \notin {"tx", "closeRows", "closeAccount"}
  /\ stage[s] \in {"materialise", "lock"} /\ FirstPass(s) => ~Holds(s, <<"chain", 0>>)
  /\ stage[s] = "accounts" => Holds(s, <<"chain", 0>>)
  /\ stage[s] = "chain" /\ todo[s] = {} => Holds(s, <<"chain", 0>>)
  /\ \A a \in Account : Holds(s, <<"account", a>>) =>
       \/ Holds(s, <<"chain", 0>>)
       \/ stage[s] \in {"closeAccount", "done"} /\ todo[s] = {}

\* Every call locks in the order transactions row, new volume rows, existing
\* volume rows, ledgers row, accounts rows (lockVolumes, allocate, queueAccounts).
LockDiscipline ==
  \A s \in Session :
    /\ StageOfCall(s) /\ PendingOfStage(s)
    /\ TxFirst(s) /\ RowsInOrder(s) /\ RowsKept(s) /\ ChainThenAccounts(s)

\* s is stopped at l, which u holds.
WaitsAt(s, l, u) ==
  /\ First(l, todo[s])
  /\ ~Present(s, l)
  /\ holder[l] = u
  /\ u # s

WaitsFor(s, u) == \E l \in Lock : WaitsAt(s, l, u)

\* No set of sessions wait for each other: the database never has a deadlock
\* to break and no commit is ever a deadlock victim, as README.md says of the
\* sorted locks ("makes that impossible rather than merely unlikely").
NoDeadlock ==
  \A S \in (SUBSET Session) \ {{}} :
    \E s \in S : \A u \in S : ~WaitsFor(s, u)
=============================================================================
