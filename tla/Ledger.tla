------------------------------- MODULE Ledger -------------------------------
(***************************************************************************)
(* What the store promises its callers, with no sessions, locks or         *)
(* statements: a ledger on which calls take effect one at a time, each      *)
(* whole, against the balances and permissions of that moment.             *)
(*                                                                         *)
(* Commit is shown to implement this specification, which is the claim     *)
(* that concurrent commits are serialisable in the order of their ids.     *)
(* Closure is not part of the promise: the code reads it without a lock    *)
(* and leaves the race to VerifyClosedAccounts.                            *)
(***************************************************************************)
EXTENDS Postings

CONSTANTS NoKey, NoRef, NoTag,
          Request,      \* the calls clients make
          PolicyRow     \* rows whose policy an operator changes

VARIABLES volumes,      \* row -> value
          transactions,
          reverted,     \* ids of reversed transactions
          logs          \* one entry per transaction, chained

ledgerVars == <<volumes, transactions, reverted, logs>>

IkHash(q) == <<q.kind, q.items>>

Init ==
  /\ volumes = [r \in Row |-> FreshRow(r)]
  /\ transactions = {}
  /\ reverted = {}
  /\ logs = {}

\* The books so far, from which a call is worked out item by item.
Books ==
  [ok |-> TRUE, volumes |-> volumes, transactions |-> transactions, logs |-> logs,
   hash |-> IF logs = {} THEN <<>>
            ELSE (CHOOSE e \in logs : \A f \in logs : f.id <= e.id).hash]

\* One transaction on top of books: refused, or recorded with the next ids.
Record(books, it, key, ikHash, tag, undoes) ==
  LET ps == ResolveUpTo(it.postings, books.volumes)
      updates == VolumeUpdates(ps)
      after == [r \in RowsOf(ps) |-> AddDelta(books.volumes[r], updates[r])]
      tx == [id |-> Cardinality(books.transactions) + 1, postings |-> ps,
             ref |-> it.ref, tag |-> tag, pcv |-> after]
      data == [tx |-> tx, undoes |-> undoes]
      hash == Append(books.hash, data)
  IN  [ok |-> /\ books.ok
              /\ ~UnboundedSweep(it.postings, books.volumes)
              /\ CheckBalances(books.volumes, updates)
              /\ it.ref # NoRef => \A t \in books.transactions : t.ref # it.ref
              /\ key # NoKey => \A e \in books.logs : e.key # key,
       volumes |-> [r \in Row |-> IF r \in RowsOf(ps) THEN after[r] ELSE books.volumes[r]],
       transactions |-> books.transactions \cup {tx},
       logs |-> books.logs \cup {[id |-> Cardinality(books.logs) + 1, data |-> data,
                                  hash |-> hash, key |-> key, ikHash |-> ikHash]},
       hash |-> hash]

Become(books) ==
  /\ books.ok
  /\ volumes' = books.volumes
  /\ transactions' = books.transactions
  /\ logs' = books.logs

\* One item of a call.  The key is recorded on the first entry; a keyed batch
\* tags each member with its input hash.
PostItem(q, books, i) ==
  LET keyed == i = 1 /\ q.key # NoKey
  IN  Record(books, q.items[i],
             IF keyed THEN q.key ELSE NoKey,
             IF keyed THEN IkHash(q) ELSE NoTag,
             IF q.kind = "batch" /\ q.key # NoKey THEN IkHash(q) ELSE NoTag,
             0)

\* The books after every item, in order.
Posted(q) == FoldLeftDomain(LAMBDA books, i : PostItem(q, books, i), Books, q.items)

\* CommitTransaction, and CommitBatch: every item or none.
Post(q) ==
  /\ q.kind \in {"commit", "batch"}
  /\ ~q.dry
  /\ Become(Posted(q))
  /\ UNCHANGED reverted

\* RevertTransaction: the inverse of a transaction not reversed before.
RevertTransaction(t) ==
  LET inverse == [postings |-> ReversePostings(t.postings), ref |-> NoRef]
  IN  /\ t \in transactions
      /\ t.id \notin reverted
      /\ Become(Record(Books, inverse, NoKey, NoTag, NoTag, t.id))
      /\ reverted' = reverted \cup {t.id}

\* An operator changes a permission; no balance moves.
SetPolicy(r, up, down) ==
  /\ volumes' = [volumes EXCEPT ![r].allowPositive = up, ![r].allowNegative = down]
  /\ UNCHANGED <<transactions, reverted, logs>>

Next ==
  \/ \E q \in Request : Post(q)
  \/ \E t \in transactions : RevertTransaction(t)
  \/ \E r \in PolicyRow, up, down \in BOOLEAN : SetPolicy(r, up, down)

Spec == Init /\ [][Next]_ledgerVars
=============================================================================
