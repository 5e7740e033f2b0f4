------------------------------ MODULE MCRecon ------------------------------
(***************************************************************************)
(* Two sources that both saw one deposit; two bank lines under one         *)
(* reference that each add up to the same two movements, so that a pass    *)
(* can plan rows that collide with each other.                             *)
(***************************************************************************)
EXTENDS Recon

L(s, rec, dir, amt) ==
  [source |-> s, record |-> rec, reference |-> "A", asset |-> "USD",
   direction |-> dir, amount |-> amt, valid |-> TRUE]

\* 1, 2: the deposit and the fee together; 3: the chain's view of the deposit.
MCLineOf ==
  [l \in Line |->
     CASE l = 1 -> L("bank", 1, "in", 5)
       [] l = 2 -> L("bank", 2, "unknown", 5)
       [] l = 3 -> L("chain", 1, "in", 3)]

V(t, side, edge, amt) ==
  [tx |-> t, asset |-> "USD", isSource |-> side, boundary |-> edge, amount |-> amt]

MCMoveOf ==
  [m \in Move |->
     CASE m = 1 -> V("t1", TRUE, TRUE, 3)
       [] m = 2 -> V("t1", FALSE, FALSE, 3)
       [] m = 3 -> V("t2", TRUE, TRUE, 2)]

MCTxRef == [t \in Tx |-> IF t = "t1" THEN "A" ELSE NoRef]

MCTagsOf == [t \in Tx |-> IF t = "t1" THEN {} ELSE {"A", NoRef}]

MCFeed == [s \in {"bank", "chain"} |-> IF s = "bank" THEN <<1, 2>> ELSE <<3>>]
=============================================================================
