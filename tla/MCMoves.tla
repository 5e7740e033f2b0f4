------------------------------ MODULE MCMoves -------------------------------
(***************************************************************************)
(* Two accounts in two assets, payments in either asset on either of two    *)
(* dates, one that flows through an account, and a batch that is backdated  *)
(* behind its own first item.                                              *)
(***************************************************************************)
EXTENDS Moves

MCSymmetry == Permutations(Session)

Pay(from, to, x, n) ==
  [source |-> from, destination |-> to, asset |-> x, amount |-> n, upTo |-> FALSE]

On(ps, d) == [postings |-> ps, date |-> d]

MCRequest ==
  {<<On(<<Pay("b", "a", x, 1)>>, d)>> : x \in Asset, d \in Date}
    \cup {<<On(<<Pay("a", "b", "usd", 2), Pay("b", "a", "usd", 1)>>, 1)>>,
          <<On(<<Pay("b", "a", "usd", 1)>>, 2), On(<<Pay("a", "a", "usd", 2)>>, 1)>>}
=============================================================================
