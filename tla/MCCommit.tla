------------------------------ MODULE MCCommit ------------------------------
(***************************************************************************)
(* Small instances of Commit: three accounts in one asset, and the calls    *)
(* each run lets its clients make.                                         *)
(***************************************************************************)
EXTENDS Commit

MCSymmetry == Permutations(Session)

\* The order of addresses, then assets, as text.
AccountOrder == <<"a", "b", "world">>
MCRank == [r \in Row |-> CHOOSE i \in DOMAIN AccountOrder : AccountOrder[i] = r[1]]

Move(from, to, n) ==
  [source |-> from, destination |-> to, asset |-> "usd", amount |-> n, upTo |-> FALSE]
Sweep(from, to, n) ==
  [source |-> from, destination |-> to, asset |-> "usd", amount |-> n, upTo |-> TRUE]

One(ps, ref) == <<[postings |-> ps, ref |-> ref]>>

Call(kind, its, key, target, dry) ==
  [kind |-> kind, items |-> its, key |-> key, target |-> target, dry |-> dry]

Pay(ps) == Call("commit", One(ps, NoRef), NoKey, 0, FALSE)
KeyedPay(key, ps, ref) == Call("commit", One(ps, ref), key, 0, FALSE)
Revert(id) == Call("revert", <<>>, NoKey, id, FALSE)
Close(a) == Call("close", <<>>, NoKey, a, FALSE)
Batch(key, its) == Call("batch", its, key, 0, FALSE)

Deposit == Pay(<<Move("world", "a", 2)>>)

\* Contended balances: deposits, payments both ways between two accounts, a
\* credit swept out again by sweeps that feed each other, a flow through an
\* account, a batch that spends what it brings, a reversal and a dry run, while
\* an operator changes a policy and closes and reopens an account.
MoneyCalls ==
  {Deposit,
   Pay(<<Move("a", "b", 2)>>),
   Pay(<<Move("b", "a", 1), Move("a", "world", 1)>>),
   Pay(<<Move("world", "a", 1), Sweep("a", "b", NoAmount), Sweep("a", "b", 2)>>),
   Batch(NoKey, <<[postings |-> <<Move("world", "b", 1)>>, ref |-> NoRef],
                  [postings |-> <<Move("b", "a", 1)>>, ref |-> NoRef]>>),
   Call("commit", One(<<Move("a", "b", 1)>>, NoRef), NoKey, 0, TRUE),
   Revert(1), Close("b")}

MoneyPolicy == {<<"b", "usd">>}
NoPolicy == {}

\* Keyed calls and batches: a payment under a key, the key with another amount,
\* a batch under a second key, a batch over the same rows in another order, and
\* the reversal of whatever came first.
KeyedCalls ==
  {KeyedPay("k1", <<Move("world", "a", 2)>>, NoRef),
   KeyedPay("k1", <<Move("world", "a", 1)>>, NoRef),
   Batch("k2", <<[postings |-> <<Move("world", "b", 2)>>, ref |-> NoRef],
                 [postings |-> <<Move("b", "a", 1)>>, ref |-> "r1"]>>),
   Batch(NoKey, <<[postings |-> <<Move("world", "a", 1)>>, ref |-> "r1"],
                  [postings |-> <<Move("a", "b", 2)>>, ref |-> NoRef]>>),
   Revert(1)}

\* One payment that carries a key and a reference, sent twice.
ReplayCalls == {KeyedPay("k1", <<Move("world", "a", 2)>>, "r1")}

\* The same batch under two keys.
TwinCalls ==
  {Batch(k, <<[postings |-> <<Move("world", "a", 1)>>, ref |-> NoRef]>>) : k \in Key}

\* A deposit, and the closing of the account it pays into.
CloseCalls == {Deposit, Close("a")}

WorldPolicy == {<<"world", "usd">>}
=============================================================================
