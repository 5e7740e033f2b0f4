------------------------------ MODULE Postings ------------------------------
(***************************************************************************)
(* The pure arithmetic of a transaction: ledger/posting.go,                *)
(* ledger/volumes.go and the checks of storage/commit.go that run between  *)
(* locking the volume rows and writing them.                               *)
(*                                                                         *)
(* A posting is one movement of value.  A transaction is a sequence of     *)
(* them.  A row is an (account, asset) pair of accounts_volumes; its value *)
(* is what lockVolumes returns for it (type "locked" in volumes.go) without *)
(* the closed mark, which is a fact about the account.                     *)
(***************************************************************************)
EXTENDS Integers, Sequences, FiniteSets, SequencesExt

CONSTANTS Account,   \* valid addresses
          Asset,     \* valid asset codes
          World,     \* the boundary account
          NoAmount   \* a nil *big.Int

ASSUME WorldIsAccount == World \in Account
ASSUME NilIsNoNumber == NoAmount \notin Int

Row == Account \X Asset

Posting == [source : Account, destination : Account, asset : Asset,
            amount : {NoAmount} \cup Int, upTo : BOOLEAN]

\* The postings that Validate lets through, whatever the size guard: an amount
\* that is not negative, or a sweep without a ceiling.
ValidPosting ==
  {p \in Posting : IF p.amount = NoAmount THEN p.upTo ELSE p.amount >= 0}

\* The postings that resolveUpTo leaves: plain amounts.
PlainPosting == {p \in Posting : p.amount \in Nat /\ ~p.upTo}

RowValue == [input : Nat, output : Nat,
             allowNegative : BOOLEAN, allowPositive : BOOLEAN]

SourceRow(p) == <<p.source, p.asset>>
DestinationRow(p) == <<p.destination, p.asset>>

\* The (account, asset) pairs a transaction names, and therefore locks.
RowsOf(ps) == {SourceRow(ps[i]) : i \in DOMAIN ps}
                \cup {DestinationRow(ps[i]) : i \in DOMAIN ps}

Balance(v) == v.input - v.output

\* What the numbers w gives the members of a set add up to.
SumOver(w, S) == MapThenSumSet(LAMBDA x : w[x], S)

\* The rows of one asset, and the balances of some rows.
AssetRows(x, D) == {r \in D : r[2] = x}
Balances(vols, D) == [r \in D |-> Balance(vols[r])]

\* What an absent row stands for: no volume, and world alone may go negative.
FreshRow(r) == [input |-> 0, output |-> 0,
                allowNegative |-> r[1] = World, allowPositive |-> TRUE]

-----------------------------------------------------------------------------
(* Validate: the index of the first invalid posting, 0 when all are valid. *)
(* Addresses, assets and the size guard are membership in the sets above   *)
(* and in 0..MaxAmount.                                                    *)

WellFormed(p, MaxAmount) ==
  /\ p.source \in Account
  /\ p.destination \in Account
  /\ p.asset \in Asset
  /\ p.amount = NoAmount => p.upTo
  /\ p.amount # NoAmount => p.amount \in 0..MaxAmount

Validate(ps, MaxAmount) ==
  LET bad == {i \in DOMAIN ps : ~WellFormed(ps[i], MaxAmount)}
  IN  IF bad = {} THEN 0 ELSE CHOOSE i \in bad : \A j \in bad : i <= j

HasUpTo(ps) == \E i \in DOMAIN ps : ps[i].upTo

\* Mutant: the order is reversed and the sides are not.
ReverseOrderOnly(ps) == [i \in 1..Len(ps) |-> ps[Len(ps) + 1 - i]]

\* Swaps the sides of every posting and the order of the list; the result is
\* a list of plain amounts.
ReversePostings(ps) ==
  [i \in 1..Len(ps) |->
     LET p == ps[Len(ps) + 1 - i]
     IN  [source |-> p.destination, destination |-> p.source,
          asset |-> p.asset, amount |-> p.amount, upTo |-> FALSE]]

-----------------------------------------------------------------------------
(* VolumeUpdates: one delta per row, accumulated posting by posting.  A    *)
(* ceiling-less UpTo posting contributes nothing until it is resolved.     *)

NoDelta == [input |-> 0, output |-> 0]

DeltaAmount(p) == IF p.amount = NoAmount THEN 0 ELSE p.amount

\* Mutant: a later posting overwrites what an earlier one put in.
AccumulateOverwrites(deltas, p) ==
  LET out == [deltas EXCEPT ![SourceRow(p)].output = @ + DeltaAmount(p)]
  IN  [out EXCEPT ![DestinationRow(p)].input = DeltaAmount(p)]

AccumulatePosting(deltas, p) ==
  LET out == [deltas EXCEPT ![SourceRow(p)].output = @ + DeltaAmount(p)]
  IN  [out EXCEPT ![DestinationRow(p)].input = @ + DeltaAmount(p)]

VolumeUpdates(ps) ==
  FoldLeft(AccumulatePosting, [r \in RowsOf(ps) |-> NoDelta], ps)

-----------------------------------------------------------------------------
(* resolveUpTo: every ceiling becomes the figure the locked rows allow.    *)

\* A source permitted a negative balance holds no determinate amount.
UnboundedSweep(ps, before) ==
  \E i \in DOMAIN ps : ps[i].upTo /\ before[SourceRow(ps[i])].allowNegative

\* Mutant: a missing ceiling is taken for a ceiling of zero.
ResolvedAmountNilIsZero(p, running) ==
  LET held == running[SourceRow(p)]
      available == IF held < 0 THEN 0 ELSE held
  IN  IF ~p.upTo THEN p.amount
      ELSE IF DeltaAmount(p) < available THEN DeltaAmount(p)
      ELSE available

\* What one posting moves, given the running balances when it runs.
ResolvedAmount(p, running) ==
  LET held == running[SourceRow(p)]
      available == IF held < 0 THEN 0 ELSE held
  IN  IF ~p.upTo THEN p.amount
      ELSE IF p.amount # NoAmount /\ p.amount < available THEN p.amount
      ELSE available

\* Mutant: every ceiling is resolved against the balance at the start.
ResolveFromStart(acc, p) ==
  [acc EXCEPT !.amounts = Append(@, ResolvedAmount(p, acc.running))]

\* acc is the running balances and the amounts decided so far.
ResolvePosting(acc, p) ==
  LET amount == ResolvedAmount(p, acc.running)
      drawn == [acc.running EXCEPT ![SourceRow(p)] = @ - amount]
  IN  [running |-> [drawn EXCEPT ![DestinationRow(p)] = @ + amount],
       amounts |-> Append(acc.amounts, amount)]

ResolvedAmounts(ps, before) ==
  FoldLeft(ResolvePosting,
           [running |-> [r \in RowsOf(ps) |-> Balance(before[r])],
            amounts |-> <<>>],
           ps).amounts

ResolveUpTo(ps, before) ==
  IF ~HasUpTo(ps) THEN ps
  ELSE LET amounts == ResolvedAmounts(ps, before)
       IN  [i \in 1..Len(ps) |->
              [source |-> ps[i].source, destination |-> ps[i].destination,
               asset |-> ps[i].asset, amount |-> amounts[i], upTo |-> FALSE]]

-----------------------------------------------------------------------------
(* checkBalances: no row may end outside a bound it is not permitted to    *)
(* cross.  The final state is what is checked, never an intermediate one.  *)

AddDelta(v, d) == [v EXCEPT !.input = @ + d.input, !.output = @ + d.output]

InBounds(v) ==
  /\ v.input < v.output => v.allowNegative
  /\ v.input > v.output => v.allowPositive

\* Mutant: the upper bound is forgotten.
CheckBalancesBelowOnly(before, updates) ==
  \A r \in DOMAIN updates :
    LET after == AddDelta(before[r], updates[r])
    IN  after.input < after.output => after.allowNegative

CheckBalances(before, updates) ==
  \A r \in DOMAIN updates : InBounds(AddDelta(before[r], updates[r]))

-----------------------------------------------------------------------------
(* What the arithmetic promises of a transaction ps against the locked     *)
(* rows, said with sums over the list instead of the code's loops.         *)

\* What a list of plain amounts puts into, and takes out of, a row.
Amounts(ps) == [i \in DOMAIN ps |-> ps[i].amount]
Into(ps, r) ==
  SumOver(Amounts(ps), {i \in DOMAIN ps : DestinationRow(ps[i]) = r})
OutOf(ps, r) ==
  SumOver(Amounts(ps), {i \in DOMAIN ps : SourceRow(ps[i]) = r})

BalanceAfter(before, ps, r) == Balance(before[r]) + Into(ps, r) - OutOf(ps, r)

\* One delta for each row the caller named: what is paid in and drawn out.
AppliesTheSums(ps, before) ==
  LET resolved == ResolveUpTo(ps, before)
      updates == VolumeUpdates(resolved)
  IN  /\ updates \in [RowsOf(ps) -> [input : Nat, output : Nat]]
      /\ \A r \in RowsOf(ps) :
           updates[r] = [input |-> Into(resolved, r), output |-> OutOf(resolved, r)]

\* A sweep draws at most what its source holds when it runs, and a source that
\* only sweeps draw on does not end below zero.
SweepsWhatIsThere(ps, before) ==
  LET resolved == ResolveUpTo(ps, before)
  IN  \A i \in DOMAIN ps : ps[i].upTo =>
        LET src == SourceRow(ps[i])
            held == BalanceAfter(before, SubSeq(resolved, 1, i - 1), src)
        IN  /\ resolved[i].amount <= (IF held < 0 THEN 0 ELSE held)
            /\ (\A j \in DOMAIN ps : SourceRow(ps[j]) = src => ps[j].upTo)
                 => BalanceAfter(before, resolved, src) >= 0

\* A sweep without a ceiling, and nothing paid in from then on, leaves nothing.
SweepsAllOfIt(ps, before) ==
  LET resolved == ResolveUpTo(ps, before)
  IN  \A i \in DOMAIN ps :
        /\ ps[i].upTo /\ ps[i].amount = NoAmount
        /\ \A j \in i..Len(ps) : DestinationRow(ps[j]) # SourceRow(ps[i])
        => BalanceAfter(before, resolved, SourceRow(ps[i])) <= 0

\* The reversal passes the balance check and restores every balance.
ReversalUndoes(ps, before) ==
  LET resolved == ResolveUpTo(ps, before)
      updates == VolumeUpdates(resolved)
      after == [r \in RowsOf(ps) |-> AddDelta(before[r], updates[r])]
      undo == VolumeUpdates(ReversePostings(resolved))
  IN  /\ CheckBalances(after, undo)
      /\ \A r \in RowsOf(ps) :
           Balance(AddDelta(after[r], undo[r])) = Balance(before[r])
=============================================================================
