# Giro: a TLA+ verification project

Giro is a double-entry ledger: Go code over PostgreSQL at read committed. Its
promise is that money is conserved, no account goes where it is not permitted
to go, a request takes effect once, and the whole history can be replayed from
an append-only, hash-chained log. This directory models the code that keeps
that promise, checks it with TLC on small instances and proves part of it with
TLAPS for all instances. Paths below are relative to `src/`.

## 1. The system

| part | state | operations | what makes it correct |
|---|---|---|---|
| posting arithmetic (`ledger/`) | none | `Validate`, `VolumeUpdates`, `Reverse`, and `resolveUpTo`, `checkBalances` of `storage/commit.go` | deltas are the sums of what moved; a sweep takes what is there; a reversal undoes |
| commit path (`storage/commit.go`, `volumes.go`, `allocate.go`, `log.go`, `rows.go`, `retry.go`) | `accounts_volumes`, `ledgers`, `transactions`, `logs` | `CommitTransaction` | no stale check, no overdraw, one serial order, projection = replay of the log, once per key |
| batches (`bulk.go`) | the same | `CommitBatch` | all or none; items see each other; replay answers with the same transactions |
| reversals (`revert.go`) | `reverted_at` | `RevertTransaction` | at most one reversal |
| policy (`policy.go`, `cmd/giro/account.go`) | `allow_negative`, `allow_positive` | `SetAllowNegative`, `SetAllowPositive` | a commit is judged by the policy its row has when it commits |
| closure (`closure.go`) | `accounts.closed` | `CloseAccount`, `ReopenAccount` | a close waits for commits in flight |
| database guards (`migrations/`) | triggers, unique indexes | on update, at COMMIT | never the first to object |
| metadata (`metadata.go`) | `metadata` columns, log entries | set and delete, on transactions and accounts | lock order; the log replays to the rows; one entry per change |
| moves (`moves.go`, `effective.go`, `statement.go`, `page.go`) | `moves` | insert, shift later moves, point-in-time reads, paged statements | two exact histories, one frozen; no page loses a move |
| recovery (`recovery.go`, `cmd/giro/recover.go`) | log counters, tips kept by operators | `ChainTip`, `CheckTip`, `RecordRecovery`, `VerifyLog` | no id is reissued; a gap is declared; a lost entry is noticed |
| verification (`verify.go`, `verify_runs.go`) | `verification_runs` | `VerifyProjection`, `VerifyConservation`, recording | a clean audit is worth having; a false alarm passes |
| reconciliation (`recon/`), asset registry (`assets.go`) | `recon_sources`, `recon_records`, `recon_matches`, `assets` | `Register`, `Pull`/`Ingest`, `Match`, `Unmatched`, `CompareBalance` | a line is paired once, on evidence that names the move, never twice for a source; a retried file arrives whole |
| migrations (`migrate/`) | `schema_migrations`, an advisory lock | `Run`, `RequireUpToDate`, `Status` | the history is the schema; nobody serves a schema it was not built for; no run waits for its own waiters |
| HTTP API, start-up (`internal/api`, `cmd/giro`) | connection pools, requests in flight | the handlers, SIGTERM, boot | a payment is made once however often it is asked for; a request ends |
| FX (`fx/`), observability (`obs/`), reads (`storage/read.go`) | none, or own tables | | not modelled (section 5) |

Components meet in the database. Every writer is one goroutine with one
transaction; they exclude each other by row locks taken in a fixed order
(a `transactions` row, volume rows sorted by address and asset, the `ledgers`
row, `accounts` rows) and see each other's committed rows at every statement.
The hard behaviours are therefore interleavings at statement granularity;
values read under one lock and used under another; retries, replays and
crashes around COMMIT; lock order; backdating; a restore that silently takes
the counters back; statements of one check or one matching pass that each read
a snapshot of their own; connections of a pool that are held while another is
asked for; and releases that meet on one schema. `PROJECT.json` lists them as hazards, each at its
line, with the properties aimed at it.

## 2. The modules

`Postings` - the arithmetic as operators over integers, and what it promises of
a transaction, said with sums over the list instead of the code's loops
(`AppliesTheSums`, `SweepsWhatIsThere`, `SweepsAllOfIt`, `ReversalUndoes`).
`Commit` says them of every transaction a session is about to write, on the rows
it has locked (`UpdatesAreTheSums`, `SweepNeverOverdraws`, `SweepLeavesNothing`,
`ReversalRestores`), and `PostingsProofs` proves them of every valid list.
`MCPostings` drives the operators alone through every small transaction.
`ValidPosting` is what `Validate` lets through, whatever
the size guard; `PlainPosting` what `resolveUpTo` leaves.

`Commit` - the write path of one ledger. A session is one store call on one
connection, and steps statement by statement:

| `pc` | action | code |
|---|---|---|
| idle | `Begin` | `CommitTransaction`, `CommitBatch`, `RevertTransaction`, `CloseAccount` |
| find | `Find` | the fast path, `findByIdempotencyKey` and its batch twin |
| lockTx | `LockTransaction` | `lockTransaction`, `ErrAlreadyReverted`, `Reverse` |
| materialise | `MaterialiseRow` | `insert ... on conflict do nothing`, row by row |
| lock | `LockRow` | `select ... for update`, row by row |
| readClosed | `ReadClosed` | the third statement of `lockVolumes` |
| apply | `Apply` | `resolveUpTo`, `checkClosed`, `checkBalances`, `applyVolumes` and its triggers |
| allocate, insert, append | `Allocate`, `InsertTransaction`, `AppendLog` | `allocate`, `insertTransaction`, `appendLog` |
| race | `Race` | `idempotencyRace`, `batchIdempotencyRace` |
| commit | `CommitTx`, `DryRun` | COMMIT with the deferred conservation trigger, or rollback |
| reply | `Reply` | the caller learns the outcome |
| closeRead, closeLock, closeWrite | `CloseRead`, `CloseLock`, `CloseCheck`, `CloseWrite` | `CloseAccount` |

`Contend` is a deadlock or serialization error reported by the server at any
statement, after which the attempt starts over, up to `maxAttempts`; `Crash` is
the death of the process or the end of the caller's context, also after COMMIT
and before the answer. `SetAllowNegative`, `SetAllowPositive` and `Reopen` are
the operator's single statements. Uncommitted writes are per-session (`wrote`,
`mine`, `tip`, `newTxs`, `newLogs`), so visibility is explicit. A batch is its
`lockBatch` pass (`item = 0`) followed by its items. The hash is ideal: the
sequence of everything it covers. The value of an absent row is what the commit
path would insert, `FreshRow`. The deferred trigger sums over the rows there
are (`Conserved`), those the transaction has inserted included.

`Ledger` - the abstract specification: calls take effect one at a time and
whole, against the balances and permissions of that moment. `Commit` implements
it under the identity mapping on the committed tables (`Serialisable`). A batch
is worked out item by item, each on the books the one before left (`Posted`).

`LockOrder` - only locks: for every call that holds one while asking for
another, the statements it goes through and what each takes. `Advance` and
`After` are the order of the statements, `Present` is `on conflict do nothing`
passing over an existing row. It covers metadata and recovery, which `Commit`
leaves out.

`Moves` - moves and the two histories. The locks of the commit path are
coarsened to one step (their interleaving is `Commit`'s subject); the early
read of the effective volumes, the allocation, the insert and shift, COMMIT and
rollback are separate. Its calls carry postings as `queueMoves` gets them,
with sweeps resolved to plain amounts. `ListMoves` is a reader that pages through a statement.
`nextSeq` is a sequence: a rollback leaves a gap.

`Recovery` - the log, backups and restores, recorded tips, the check and the
resume, with `RecordRecovery` split where the code looks before it locks.

`Audit` - a commit is one step, as it is for every reader. `Call`,
`LockAndMerge`, `CommitMetadata` and `Rollback` are the four metadata calls
(`mutateMetadata` with `lockAndMerge`, `lockAndDeleteKey` or the upsert of
`SetAccountMetadata`): the row is locked, what is on it decides whether there
is anything to change, and the entry is appended in the step that commits.
`VerifyConservation`, `ReplayLog`, `StoredVolumes` and `VerifyTransactions` are
the statements of one audit, each reading the tables as they are by then;
`Permit` leaves the zero rows the log never hears of, and `Tamper` edits rows
past the triggers, which is what an audit is there to find.

`Recon` - `Register`, `RegisterAsset`, `Pull` (fetch, and validation of every
line), `Stage` (one line, its own transaction, the foreign keys to the source
and the asset registry), `IngestFails`; `Book` and `Tag` are the ledger as far
as matching reads it; `BeginExact`, `BeginConsolidated` and `EndStatement` are
the two statements of `Match` that write, a statement reading when it begins
and writing, or failing at the unique index, when it ends. Any number of passes
overlap, and `Tag` sets, replaces or removes a reference at any moment: the
metadata calls lock the transaction's row, which matching only reads. The
history variable `withdrawn` remembers the unpaired lines that a `Tag` took a
movement from while an open statement was about to pair them with it
(`Undermined`). `Picks` is the `distinct on`, which takes the first record of a move
whatever its source; ids of two sources may tie, and then either is picked.

`Pairing` - the abstract specification of matching: lines are paired, once and
for good, with moves their evidence names at that moment, that no other line of
their source has, and that add up if there are several. Of a line in
`withdrawn` it promises less: what the line was paired with stays, and no other
line of its source has it. The refinement mapping
(`Promised` in `Recon`) gives `named` the moves that the reference, asset,
boundary and direction of a staged line select, and `pairs` the rows of
`recon_matches`; the work queue, the rules, the overlapping passes and the
counters are what it hides. `Total`, the sum of a set of moves, is a parameter.

`Migrate` - processes of several releases against one database. `Run`,
`BeginTry`, `EndTry`, `GiveUp`, `CreateTable`, `LoadApplied`, `Execute`,
`CommitTx`, `Built`, `Record`, `StatementFails`, `Finish` and `ReleaseLock` are
the statements of `giro migrate up` (a migration with the no-transaction
directive goes through `Built` and `Record`, others through `CommitTx`);
`Boot`, `TableExists` and `CheckSchema` are the check `giro serve` makes; a
process dies at any statement. `waitsFor` is what an index built concurrently
waits for: the statements that run when it starts, a runner's attempt at the
lock included.

`Service` - requests of clients that lose answers and send again, also while
an earlier attempt is under way, against processes with a bounded pool that are
killed, stopped and restarted. The commit path is reduced to where it holds
connections and where it looks at the key: `Handle` (`requireKey`), `Begin`,
`Find`, `ApplyTransaction`, `AppendLog`, `IdempotencyRace` and `Reread` with the
second connection, `CommitTx`, `CommitBreaks` (COMMIT whose outcome is not
known), `Reply`, `HangUp`; `Stop` and `Exit` are SIGTERM as `serve.go` handles
it. A request that is cancelled, killed or cut off at COMMIT gives its
connection back at once, while the server has the COMMIT in hand (`cut`) and
keeps the ledgers row locked until it carries it out or drops it (`Settle`).
The history variable `wonAt` is the process that served the winner of a key.

`PostingsProofs`, `CommitProofs`, `LockOrderProofs`, `RecoveryProofs`,
`MigrateProofs`, `ServiceProofs`, `ReconProofs`, `MovesProofs` - the proofs
(section 4). `MC*` modules give constants their values.

Definitions are named after the functions they translate; `PROJECT.json`'s
`map` gives the lines. Definitions commented *Mutant* are deliberately broken
variants: each property is shown to fail when its mutant replaces the original.

## 3. What the runs check

Passing runs:

| run | instance | shows |
|---|---|---|
| `commit_money` | 2 sessions, 3 calls out of 8 kinds (a deposit, payments both ways, a credit swept out by two sweeps, a flow through an account, a batch that spends what it brings, a reversal, a dry run, a close), policy changes on one row | `UpdatesAreTheSums`, `SweepNeverOverdraws`, `SweepLeavesNothing`, `ReversalRestores`, `CheckedIsCurrent`, `GuardsNeverFire`, `ProjectionMatchesLog`, `PostCommitVolumesAreReplay`, `RevertedOnce`, `NoUnpermittedOverdraw`, `Serialisable` |
| `commit_keyed` | 2 sessions, 3 calls out of keyed payments (one a mismatch), keyed and unkeyed batches over the same rows in opposite order, a reversal; 2 attempts each | `OncePerKey`, `AnswersAgree`, `LogVerifies`, and `CallsReturn` under fairness |
| `lock_order` | 3 sessions, 2 accounts, 3 rows, any subset of them existing, 7 kinds of call | `LockDiscipline`, `NoDeadlock` |
| `moves` | 2 sessions, 4 transactions, 2 assets, 2 dates, a backdated batch, pages of one move | `EffectiveIsReplay`, `FrozenIsReplay`, `HistoryIsFrozen`, `StatementIsComplete` |
| `recovery` | 2 operators, 4 writes, 2 tips, 2 restores | `LogVerifies`, `CountersAgree`, `OkMeansNothingRecordedIsLost`, `RecordedIdsKeepTheirMeaning` |
| `audit` | 2 accounts, 2 transactions, 2 sessions with 2 metadata changes on an account and a transaction (one key, two values), 1 edit behind the log's back | `CleanIsSound`, `MetadataIsReplay`, and `AlarmsPass` under fairness |
| `recon` | 2 sources, 3 lines, 3 moves of 2 transactions, a reference given at the booking and changed later, 2 overlapping matchers, 1 failed ingest; two lines that add up to the same two moves, a third that wants one of them | `PairsAsPromised` (the refinement), `MatchesAreWhole`, and `LoneCandidateIsSettled`, `FileArrives` under fairness |
| `migrate` | 2 processes, 4 starts, 6 releases: the first, the next, a branch without the index, an edited file, a version twice, one with the index numbered earlier | `HistoryIsTheSchema`, `ServingMatchesSchema`, and `LockedRunsEnd` under fairness |
| `service` | 2 processes, 2 connections each, 2 requests in flight, 3 sends of 4 intents (a payment, its preview and a rival under one key, one without a key), 1 stop or crash | `PaidOnce`, `VerdictsHold`, `LosersLeaveAConnection`, and `RequestsEnd` under fairness |

The bounds. Two sessions are enough for every race in `Commit` that involves a
reader and a writer of one row; three calls let one set the stage (a deposit, a
first use of a key) and two race; a retry bound of 2 lets a retried attempt
race. The conflicts that need three parties are lock cycles, for which
`lock_order` has three sessions and the theorem any number. In `moves`, four
transactions on two dates give a move with something before, something behind
and something of the same date. In `recovery`, four writes and two restores let
a history be lost, rewritten and lost again with two tips recorded on the way.
In `audit`, two commits and an edit fit between any two of the three
statements, which is what it takes for one to hide another, and two changes
race for one row. In `recon`, two passes are enough to collide at the index
and one pass can collide with itself; the two sources want one move. In
`migrate`, four starts let a release die half-way, another find what it left,
and a third boot; the releases are every disagreement `verify` tells apart, and
one it does not: a release in which an abandoned body has a higher version than
what is left to run. In `service`, two requests that share a pool of two
connections are the least that can wedge it, and they do so in the run: two
attempts at a payment lose to one whose COMMIT outlived its request. Three
sends are an attempt, a retry and a rival or a preview. In `recovery`, two
operators at once are enough for both to have found the ledger behind.

`AnswersAgree` passes in `commit_keyed` where no two keys carry the same batch;
`CommitTwins.cfg`, below, has two.

Fairness. `CallsReturn` assumes weak fairness of each session's own steps: the
Go scheduler runs goroutines and the server answers statements. Nothing is
assumed of clients, operators, crashes or reported conflicts. Weak fairness
suffices for waiting because the number of calls is bounded; PostgreSQL queues
waiters, so a stream of calls does not starve one either. `audit` and `recon`
assume that an audit, a pull and a matching pass that ended are made again,
because `deploy/` and `match.go:96-97` have them run on a schedule, and that
one under way goes on; `migrate` that a live runner makes its statements;
`service` that a goroutine that can go on does, that `pool.Close` returns once
connections are back (pgx's pool admits waiters in turn), and that the server
carries out or drops a COMMIT it has in hand. Nobody has to
hang up, tamper, tag, book, restart or fail. Runs that say `CHECK_DEADLOCK
FALSE` stop when their calls, starts or sends are used up. `lock_order` has no
such bound; there a deadlock of the system is the property `NoDeadlock`, since
a rollback is always possible and TLC's own check could not see it.

Runs that are violated, each a disagreement between the code and what its
comments or documents say of it (`findings` in `PROJECT.json` quotes both):

| run | what happens |
|---|---|
| `lock_order_metadata` | account metadata locks `accounts` then `ledgers`, a commit `ledgers` then `accounts`: they deadlock |
| `service_two` | two processes, three requests: every connection of one pool is held by losers whose winner was served by the other. Each waits for a second connection that only another of them could return, until their clients hang up; `rows.go:19-21` has them answered with the winner's transaction. A SIGTERM does not end it, since `pool.Close` waits for the same connections |
| `recon_retag` | a transaction's reference is replaced while a pass has it in its snapshot. A second pass sees another single candidate for the same line, the unique index is on the source and the movement, and the update does not look at `matched_count` again: the line has two rows and a count of one |

`service` and `recon` say what holds nevertheless. A request waits for ever only
in a process that is wedged (`RequestsEnd`), which takes losers to
winners elsewhere: losers to a winner of their own process
never fill it, because the winner had a connection of that pool, and whoever
takes it afterwards finds the key in `Find` and never becomes a loser
(`LosersLeaveAConnection`). A winner whose COMMIT outlived its request counts as
served elsewhere, since its connection is free before the key is visible. And
all evidence is whole, and all pairing as promised, but for the lines in
`withdrawn`.

Six more configurations are kept beside these for reference. Each is run the
same way (`tlc -config X.cfg M`). In all but the first TLC reports a violation:

| configuration, module, property | what happens |
|---|---|
| `MCPostings.cfg`, `MCPostings`, the four promises of `Postings` | passes: every transaction of up to 2 postings, amounts to 2, 3 accounts, sweeps with and without ceiling, every policy |
| `CommitClose.cfg`, `MCCommit`, `CloseWaitsForHolders` | a close selects only rows with a balance for update, so it does not wait for a deposit that holds a zero or new row, and the account is closed with money arriving; `closure.go:51-52` says "a commit that has already taken these rows finishes first and its balance is the one seen here" |
| `CommitReplay.cfg`, `MCCommit`, `ReplayIsAnswered` | a concurrent replay that also carries a reference is refused for the reference before the unique index on the key can say who won |
| `CommitTwins.cfg`, `MCCommit`, `AnswersAgree` | the batch tag leaves the key out: two identical batches under two keys are both returned for either |
| `CommitWorld.cfg`, `MCCommit`, `WorldMayGoNegative` | `SetAllowPositive` on `world` before its row exists creates it not permitted to go negative |
| `RecoveryResume.cfg`, `MCRecovery`, `ResumeLeavesASoundLedgerAlone` | `giro recover resume` on a sound ledger with metadata entries is not a no-op, because the log id stands in for the transaction id |

Two comments are weaker than they read, without a run: the order of a
reversal's postings does not decide its balance check (`revert.go:76-79`; the
verdict depends on the sums), and nothing stops a caller from using the `giro/`
metadata prefix that `ledger/log.go:77-78` says can never collide.

## 4. What is proved

For all values of the constants, under the `ASSUME`s of each module: the
sentinels are distinct from what they stand beside, ranks order the rows
totally, bounds are naturals, and calls are validated (the checks made before
a transaction begins).

`PostingsProofs`. `volumeUpdates` and `resolveUpTo` are loops, in the model folds
over the list; a balance, a tally and a replay are sums over finite sets. The
library's induction theorems take an operator as parameter and cannot be used,
but induction over sets can: `NatSetInduction` (a set of naturals with 0 and
every successor is `Nat`) and `FiniteSetInduction` carry everything here.
With them, a fold is shown to have a run, the sequence of the loop's
intermediate results (`UpdatesRunExists`, `ResolveRunExists`), and a sum to obey
its laws (`SumAdd`, `SumImage`, `SumUnion` and others). Each promise is then an
induction along the run, for lists of any length, amounts of any size and any
rows:

- `UpdatesSumTheAmounts`: `VolumeUpdates` gives each row the sums of what is paid
  in and drawn out, and names no other row (`AppliesTheSums`);
- `TransactionsConserve`: the deltas of a transaction cancel in every asset;
- `SweepsNeverOverdraw`: a sweep draws at most what its source holds at that
  point, and a source only swept from stays at zero or above
  (`SweepsWhatIsThere`, for rows in bounds);
- `SweepsLeaveNothing`: a sweep without a ceiling, with nothing paid in
  afterwards, leaves nothing (`SweepsAllOfIt`);
- `ReversalsRestore`: the reversal passes the balance check on the rows the
  transaction left and restores every balance (`ReversalUndoes`).

They have no specification in them: each speaks of all valid lists and of rows
in any state. `CommitProofs` applies them to the lists and rows of a session.

`CommitProofs`. Neither `TypeOK` nor `CheckedIsCurrent` is inductive. The
invariant `Inv` adds, per session, that the call it works on is well formed and
its items name rows of the ledger (`CallOK`); that a row it has written is
locked by it and in bounds if its balance moved, and that what it has locked so
far it has read as it stands (`RowsOK`, the generalisation of
`CheckedIsCurrent` to the middle of the lock statement); and that ids are
allocated under the lock of the `ledgers` row (`ChainOK`). One lemma per action
shows that it keeps `Inv`; `KeptIsOK` and `EndedIsOK` carry the sessions that
did not step. From it:

- `TypesHold`: `Spec => []TypeOK`;
- `WritesLocked`: uncommitted volumes and ids belong to lock holders;
- `ChecksAreCurrent`: `Spec => []CheckedIsCurrent`;
- `NoOverdraw`: `Spec => NoUnpermittedOverdraw`, since only `CommitTx` changes a
  balance (`OnlyCommitsMove`) and it publishes rows that `Inv` keeps in bounds;
- `UpdatesAlwaysTheSums`, `SweepsAlwaysHeld`, `SweepsAlwaysEmpty` and
  `ReversalsAlwaysRestore`: the arithmetic of `PostingsProofs` at every `Apply`,
  because a session only works on calls that were validated and on rows it has
  read in full.

The log builds on `Inv`. The session that holds the `ledgers` row
extends the log: `Books` says that the committed log together with what this
session has written is chained from its first entry to the counters it will
leave, that its transactions are numbered without gap, and that no key, no
reference and no reversal occurs twice in it. Nobody else can add to the log
while the row is held, so COMMIT publishes well formed books. A reversal needs
a second lock: between `lockTransaction` and the entry, it is the lock on the
`transactions` row that keeps a second reversal out. From `LogInv`:

- `LogAlwaysVerifies`: `Spec => []LogVerifies`;
- `KeysTakeEffectOnce`: `Spec => []OncePerKey`;
- `NothingRevertedTwice`: `Spec => []RevertedOnce`;
- `TablesAlwaysTheLog`: the transactions and reversals in the tables are
  exactly those of the log;
- `AnswersAlwaysAgree`: `Spec => []AnswersAgree`, assuming `NoTwinBatches`.

The last needs `AnswerInv` besides: what a caller is told is a function of the
entry under its key (`Answered`), whether it wrote that entry, found it before
it began, or lost the race for it. For a single call that is the entry's
transaction. For a batch it is every transaction with the batch's tag, so the
tagged transactions must be settled when the entry becomes visible: they are
written by one session before its COMMIT, and no other call can add to them as
long as no second key carries the same batch. `CommitTwins.cfg` shows that the
hypothesis is needed. `TagAssumption` says that a batch's tag is not the mark
of a transaction without one.

The volumes build on both. `TalliedOK` says that every committed row is the
tally of the committed transactions that touch it and that each of them carries
its tally of the time; `VolumesOK` follows one session. What it has written on a
row is the tally of the committed transactions and its own (`WrittenOK`), except
between the update and the insert, when the rows of the item are ahead by just
the delta of its postings (`UpdateOK`). The tally is a sum over a set, so one
more transaction adds its amounts (`SumAdd`), and a session that holds a row is
the only one with transactions on it (`WritesApart`). That each asset sums to
zero over the rows there are then follows transaction by transaction, because
the deltas of one cancel. From `VolInv`:

- `ProjectionAlwaysMatches`: `Spec => []ProjectionMatchesLog`;
- `PostCommitVolumesReplay`: `Spec => []PostCommitVolumesAreReplay`;
- `GuardsAreNeverNeeded`: `Spec => []GuardsNeverFire`, the overdraft trigger from
  `Inv` and the conservation trigger at COMMIT from the sums.

The refinement builds on all three. `SerialInv` says of a session that has
written entries that there is a sequence of books (`Replayed`): the first is
what the serial ledger has now, each next one is what `Ledger` makes of the next
item (`Enact`), and the last is what the session sees, its rows, its log and the
tip of its chain (`Seen` leaves out the update of the item under way). Before
the first entry it sees the committed rows and nothing else (`BehindOK`).
`MidOK` keeps what the checks of the item under way decided until the entry is
written, and `EntryIsRecord` is the heart: the entry that `appendLog` writes,
with the ids allocated, the volumes frozen and the hash chained, is the one
`Ledger` records on those books. What others do in between is of two kinds. A
session with an entry holds the `ledgers` row, so nobody else commits; one
without has nothing to lose by a commit on other rows. An operator's change of
policy waits for no one but the holder of its row, and may fall between two
items of a batch: `RecordFrame` moves it before the first one. `PostedAlong`
turns the sequence into the fold of `Ledger`, so COMMIT is one `Post` or one
`RevertTransaction`, and every other step but a policy change leaves the
committed tables alone:

- `CommitImplementsLedger`: `Spec => Serialisable`.

`LockOrderProofs`. `Inv` is `TypeOK` with `LockDiscipline`. A wait is given a
height (transactions row, new volume rows by rank, existing ones by rank, the
`ledgers` row, `accounts` rows); `HeightsIncrease` shows that whoever is waited
for waits higher, so by well-foundedness no set of sessions waits within
itself. The height of a row depends on whether it is being inserted or
selected, which is why the insert of missing rows before the sorted select does
no harm. Both theorems assume `NoAccountMetadata`, and `lock_order_metadata`
shows that they must.

`RecoveryProofs`. The hash of an entry is ideal, so one hash has one history
behind it (`Agree`); this is why the hash of one entry can vouch for a whole
log. The invariant `IInv` says of the database, of the backup (a beginning of
it) and of what every tip saw that the log verifies with increasing ids
(`LogOK`), and that the counters are where its last entry put them
(`CountersOK`, with `Mark`, the transaction counter an entry vouches for).
`WatermarkOK` relates an operator inside `RecordRecovery` to the tip it looked
at before it locked. `CarefulOK` is the promise about ids, which holds as long
as nothing is written between a restore and the check or the resume that
follows: no entry reuses an id a tip saw (`Keeps`), a checked ledger's counters
are past every tip (`Clear`), and the newest tip is past the older ones
(`Supersedes`), so resuming from it is enough. `GapInv` adds that no watermark
is declared twice: a log that has declared one has its counters past it
(`DeclaredIsPast`), so whoever looks again under the lock appends nothing. From
these: `LogAlwaysVerifies`, `CountersAlwaysAgree`, `OkIsSound` and
`IdsKeepTheirMeaning`, the four invariants of `recovery`.

`MigrateProofs`. While a process has the advisory lock, what it read of
`schema_migrations` is what is there, because every writer has the lock: the
invariant says so at each statement of a run, together with what has been
executed and not yet recorded. `NextUp` is the least pending version, so what
is executed comes after all that is recorded. `HistoryAlwaysTheSchema` and
`ServingAlwaysMatches` follow. The proof corrected the property: that bodies
take effect in version order is false without the exception `Abandoned`. An
index built by a runner that died before recording it is unknown to `verify`,
and a release that numbers its migrations otherwise may then run a lower
version after it; the sixth release of the run does this. The theorems assume
that two files with one version and one checksum are one migration.

`ServiceProofs`. `IInv` relates requests to the books: who is past the lookup
of a key knows what it found, a key once taken keeps its body, and what a
client was told therefore stays right. `NobodyPaidTwice` and
`VerdictsAlwaysHold` assume that keys are required (`~AllowUnkeyed`, the
default of `giro serve`); without it a retry without key pays again, as
`requireKey` says. While a COMMIT is in hand, nobody has the ledgers row and its
key is not taken (`CutOK`), so `Settle` is one more winner. `LosersAlwaysLeaveAConnection`
is the argument of section 3, for any number of processes: when a winner
commits, its losers in its process and it hold different connections, so the
losers are fewer than the pool is wide, and nobody becomes a loser of it later.
It counts only losers to winners of their own process, and `service_two` shows
that it must. The theorems assume that two intents with one key and one body
are one intent.

`ReconProofs`. What a matching statement is about to write was chosen when it
began. For a line not in `withdrawn` the invariant says that each planned row is
still explained by its line, still named by its reference, and blocked by the
unique index if the line has been paired since (`PlanOK`), and that two open
statements with the same line share a move or one of them has already lost one
(`RivalsOK`); so of two overlapping passes at most one writes the line. For any
line it keeps what the index keeps: no two lines of a source on one move.
`EvidenceAlwaysWhole` is `MatchesAreWhole`; `ReconImplementsPairing` is the
refinement `Spec => PairsAsPromised`: an `EndStatement` that passes the index is
a `Pair`, and every other step changes evidence only or nothing. References may
change at any moment; a change that undermines a planned row puts the line in
`withdrawn`, and `recon_retag` shows that such lines must be excepted.

`MovesProofs`. `MovesOK` says what a session may have in hand: moves numbered
past every committed one (`Fresh`), or versions of committed moves that differ
in the effective snapshot only, and only if the session also has a fresh move
of an earlier date on that row (`Rewrites`). Whoever has moves in hand holds
the `ledgers` row, so the committed moves stand still under it and numbers
become visible in order. `HistoryAlwaysFrozen` is that COMMIT publishes just
this. For the statement, `WalkOK` adds to `StatementIsComplete` that what was
shown, and what was there when the walk began, is still where it was:
`CommitKeepsWalk` is the case of a commit between two pages (a fresh move that
ties on the date comes after the cursor, because its number is larger), and
`PageKeepsWalk` that of a page. `InOrderSorts` shows that ordering by the
number of moves before one yields each move exactly once.

For the two histories, `ReplayOK` says that every move a session sees, its own
included, carries the sums of the moves before it on its row: by number for the
frozen snapshot, by date and number for the effective one. `QueuedGoesOn` is the
induction along a transaction's postings, which carries both snapshots on from
what was read; a later date shifted by the sum of what went in before it is the
replay with those moves in it (`WriteKeepsReplay`). The effective volumes were
read before the ledgers row was locked; what makes that safe is that the rows
were locked before. From these:

- `HistoryAlwaysFrozen`: `Spec => HistoryIsFrozen`;
- `StatementAlwaysComplete`: `Spec => []StatementIsComplete`;
- `EffectiveAlwaysReplays`: `Spec => []EffectiveIsReplay`;
- `FrozenAlwaysReplays`: `Spec => []FrozenIsReplay`.

Only model-checked, and why:

- liveness (`CallsReturn`, `AlarmsPass`, `LoneCandidateIsSettled`,
  `FileArrives`, `LockedRunsEnd`, `RequestsEnd`), which is out of the prover's
  reach;
- `MetadataIsReplay` and `CleanIsSound` of `audit`. The replay of metadata is a
  fold whose steps overwrite, and what a clean audit is worth compares three
  snapshots taken at different points of the log; both are inductions along a
  history that the state does not keep, and were left to TLC.

## 5. Not modelled

Addresses, assets, timestamps, payload encodings and metadata values are data
the properties do not tell apart. The append-only and counter triggers refuse
statements the store does not issue. Left out, and why:

- FX (`fx/`): rate arithmetic and a check of it, on rows the commit path wrote.
  Its writes are ordinary batches; what remains is rounding of rationals, which
  a model of small integers would not exercise.
- Reads and aggregation (`storage/read.go`, `observer.go`): queries that change
  nothing. The two whose answer depends on several statements, statements of an
  account and audits, are in `Moves` and `Audit`.
- Recording of audits (`Record`, `--last --max-age`): rows are written one by
  one after the checks. The age test looks at the checks that were recorded, so
  it does not object to one that never was.
- Of reconciliation, `classify`, `Unmatched` and `CompareBalance`, which read;
  of migrations, `Status`, `new`, and an index build that fails half-way and
  leaves an invalid index behind.
- Of the API, decoding and validation of bodies (before any state), the read
  endpoints and middleware; a connection pooler in front of PostgreSQL, which
  would break the session lock of `migrate`.
- `checkAssets` and the registry beyond the foreign key of staged lines;
  database roles; observability: none changes the state above.

What `Recon` makes visible besides `recon_retag`:

- Two lines of one source that add up to the same set collide at the unique
  index, and every later pass ends in the same error before it classifies
  anything. It is in the run; no property forbids it, because `match.go:19-24`
  prefers unmatched to falsely matched.
- `match.go:96-97` says running `Match` twice changes nothing. When two sources
  want one move, `distinct on` serves one of them per pass, so the second run
  does change something (`LoneCandidateIsSettled` needs it).

And `Service`: "insufficient funds" is not the last word on an intent, because
an earlier attempt of the same client may still be in flight and commit later,
so `VerdictsHold` says nothing of it. On SIGTERM `ListenAndServe` returns at
once and only the pool is waited for, so the answer to a committed payment may
be lost; the client learns it by asking again under its key.

## 6. Plan

1. Done: `Postings`, `Commit`, `Ledger`, `LockOrder`, `Moves`, `Recovery`,
   `Audit`, `Pairing` and `Recon`, `Migrate`, `Service`, and the proofs above.
2. Proofs about `Audit`.
3. FX: conversions as postings through clearing accounts, if the rounding rules
   gain state.
