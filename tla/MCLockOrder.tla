---------------------------- MODULE MCLockOrder -----------------------------
(***************************************************************************)
(* Three sessions over two accounts, one of them in two assets.            *)
(***************************************************************************)
EXTENDS LockOrder, TLC

MCSymmetry == Permutations(Session)

MCAccountOf == [r \in Row |-> IF r = "b-usd" THEN "b" ELSE "a"]
MCRank == [r \in Row |-> CASE r = "a-eur" -> 0 [] r = "a-usd" -> 1 [] OTHER -> 2]
MCPlace == [a \in Account |-> IF a = "a" THEN 0 ELSE 1]

Call(kind, its) == [kind |-> kind, items |-> its, tx |-> 1, account |-> "a"]

\* Every kind of call that moves money, closes an account, or annotates a
\* transaction.
MoneyCalls ==
  {Call("commit", <<{"a-usd", "b-usd"}>>),
   Call("commit", <<{"a-eur"}>>),
   Call("batch", <<{"b-usd"}, {"a-eur", "a-usd"}>>),
   Call("revert", <<{"a-usd", "b-usd"}>>),
   Call("close", <<>>),
   Call("txMetadata", <<>>),
   Call("recovery", <<>>)}

\* A commit and a write of account metadata.
MetadataCalls ==
  {Call("commit", <<{"a-usd"}>>), Call("accountMetadata", <<>>)}
=============================================================================
