----------------------------- MODULE MCPostings -----------------------------
(***************************************************************************)
(* Every small transaction against every small set of locked rows, taken   *)
(* through the arithmetic of applyTransaction, and the result compared     *)
(* with definitions that do not go through the code's loops.               *)
(***************************************************************************)
EXTENDS Postings

CONSTANTS MaxLen,      \* bound: postings in a transaction
          MaxAmount,   \* bound: size guard on an amount
          MaxHeld      \* bound: starting balance of an account

VARIABLES ps,       \* the request's postings, as the caller gave them
          before,   \* the locked rows
          result    \* what applyTransaction decides; "none" until it has run

vars == <<ps, before, result>>

AnyPosting == [source : Account, destination : Account, asset : Asset,
               amount : (-1..MaxAmount + 1) \cup {NoAmount}, upTo : BOOLEAN]

\* Longer lists are drawn from the well-formed postings only.
GoodPosting == {p \in AnyPosting : WellFormed(p, MaxAmount)}

Lists == UNION {[1..n -> GoodPosting] : n \in 2..MaxLen}
           \cup [1..1 -> AnyPosting]

\* Rows as they can stand: in bounds, and world alone permitted below zero.
Held(r) ==
  IF r[1] = World THEN {FreshRow(r)}
  ELSE {[FreshRow(r) EXCEPT !.input = n] : n \in 0..MaxHeld}
         \cup {[FreshRow(r) EXCEPT !.allowPositive = FALSE]}

Init ==
  /\ ps \in Lists
  /\ before \in {f \in [Row -> UNION {Held(r) : r \in Row}] :
                   \A r \in Row : f[r] \in Held(r)}
  /\ result = "none"

\* CommitTransaction's decision: validate, resolve, check.
Decide ==
  /\ result = "none"
  /\ result' =
       IF Validate(ps, MaxAmount) # 0 THEN "invalid"
       ELSE IF UnboundedSweep(ps, before) THEN "unbounded"
       ELSE IF CheckBalances(before, VolumeUpdates(ResolveUpTo(ps, before)))
       THEN "accepted" ELSE "refused"
  /\ UNCHANGED <<ps, before>>

Done == result # "none" /\ UNCHANGED vars

Next == Decide \/ Done

Spec == Init /\ [][Next]_vars

-----------------------------------------------------------------------------
Decided == result \in {"accepted", "refused"}

-----------------------------------------------------------------------------
\* Resolving a ceiling keeps every (account, asset) pair, so the locks taken
\* before it are still the right ones, and the deltas that are then applied
\* are the sums of the recorded amounts row by row: what is written to
\* accounts_volumes is what the transaction says moved, and it only ever
\* increases a counter.
UpdatesAreTheSums == Decided => AppliesTheSums(ps, before)

\* A sweep moves what is there and no more: when each UpTo posting runs, its
\* source holds what it draws, so a transaction whose bounded sources are
\* drawn on by UpTo postings alone is never refused for lack of funds
\* (resolveUpTo's running balances; two sweeps of one account do not both
\* claim the whole balance).
SweepNeverOverdraws == Decided => SweepsWhatIsThere(ps, before)

\* A sweep without a ceiling leaves its source empty unless a later posting
\* pays into it: "move whatever is there" moves all of it.
SweepLeavesNothing == Decided => SweepsAllOfIt(ps, before)

\* A reversal committed straight after its original is accepted whenever the
\* original was, and gives every account back the balance it had
\* (RevertTransaction on Reverse of the recorded postings).
ReversalRestores == result = "accepted" => ReversalUndoes(ps, before)
=============================================================================
