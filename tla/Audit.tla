------------------------------- MODULE Audit -------------------------------
(***************************************************************************)
(* storage/verify.go and storage/metadata.go: an audit of the projection   *)
(* run while the ledger is written to.                                     *)
(*                                                                         *)
(* A commit is one step here, as it is for every reader (the module Commit *)
(* takes it apart).  A change of metadata locks its row, decides whether   *)
(* there is anything to change, and appends to the log in the step that    *)
(* commits: the ledgers row is taken right before and held until then.     *)
(* VerifyProjection reads the log, the volumes and the transactions in     *)
(* three statements, each with a snapshot of its own.  A hand with more    *)
(* privilege than the application may edit rows behind the log's back:     *)
(* finding that out is what an audit is for.                               *)
(***************************************************************************)
EXTENDS Naturals, Sequences, FiniteSets, FiniteSetsExt, SequencesExt, Functions

CONSTANTS
  Account, Key, Value,
  Tagged,       \* the accounts and transactions whose metadata is changed
  Session,      \* connections that change metadata
  None,
  MaxTx,        \* bound: transactions committed
  MaxChanges,   \* bound: calls that change metadata
  MaxTampers    \* bound: edits behind the log's back

ASSUME AuditAssumption ==
  /\ None \notin Session
  /\ Tagged \subseteq Account \cup (1..MaxTx)
  /\ MaxTx \in Nat /\ MaxChanges \in Nat /\ MaxTampers \in Nat

Id == 1..MaxTx

VARIABLES
  log,            \* entries, in order
  volumes,        \* accounts_volumes: the rows there are
  transactions,   \* ids in the transactions table
  accounts,       \* rows of the accounts table
  metadata,       \* metadata[t]: the pairs set on t, as a function
  pc, call,       \* pc[s], call[s]: where session s is, and with what
  pending,        \* pending[s]: the metadata s is about to commit
  rowLock,        \* rowLock[t]: session that holds the row of t
  changes, tampers,
  step,           \* where the audit is
  want, seen,     \* what replayLog made of the log
  conservation,   \* last results, "none" before the first
  projection,
  touched,        \* history: somebody tampered during this audit
  soundThen       \* history: the projection was right at the second statement

tables == <<log, volumes, transactions, accounts, metadata>>
sessions == <<pc, call, pending, rowLock>>
audit == <<step, want, seen, conservation, projection, soundThen>>

vars == <<tables, sessions, audit, touched, changes, tampers>>

Zero == [input |-> 0, output |-> 0]

NoCall == [target |-> None, set |-> <<>>, delete |-> {}]

Init ==
  /\ log = <<>> /\ volumes = <<>> /\ transactions = {} /\ accounts = {}
  /\ metadata = [t \in Tagged |-> <<>>]
  /\ pc = [s \in Session |-> "idle"]
  /\ call = [s \in Session |-> NoCall]
  /\ pending = [s \in Session |-> <<>>]
  /\ rowLock = [t \in Tagged |-> None]
  /\ changes = 0 /\ tampers = 0
  /\ step = "idle" /\ want = <<>> /\ seen = {}
  /\ conservation = "none" /\ projection = "none"
  /\ touched = FALSE /\ soundThen = FALSE

-----------------------------------------------------------------------------
(* Replaying the log.                                                      *)

\* A row that is not there counts as zeros.
Row(rows, a) == IF a \in DOMAIN rows THEN rows[a] ELSE Zero

With(rows, a, v) == [x \in DOMAIN rows \cup {a} |-> IF x = a THEN v ELSE rows[x]]

\* apply: one posting of one unit, on whichever rows exist.
Posted(rows, from, to) ==
  LET debited == With(rows, from, [Row(rows, from) EXCEPT !.output = @ + 1])
  IN  With(debited, to, [Row(debited, to) EXCEPT !.input = @ + 1])

TxEntry(id, from, to) == [type |-> "NEW_TRANSACTION", id |-> id, from |-> from, to |-> to]

TxEntries(entries) == SelectSeq(entries, LAMBDA e : e.type = "NEW_TRANSACTION")

\* replayLog: metadata entries move no value.
ReplayVolumes(entries) ==
  FoldLeft(LAMBDA rows, e : Posted(rows, e.from, e.to), <<>>, TxEntries(entries))

Logged(entries) == {e.id : e \in Range(TxEntries(entries))}

\* metadata || patch, and metadata - key.
Merged(m, patch) ==
  [k \in DOMAIN m \cup DOMAIN patch |-> IF k \in DOMAIN patch THEN patch[k] ELSE m[k]]

Changed(m, c) == Restrict(Merged(m, c.set), (DOMAIN m \cup DOMAIN c.set) \ c.delete)

MetaEntry(c) == [type |-> "METADATA", change |-> c]

\* What a reader who replays the log holds of target t.
ReplayMetadata(entries, t) ==
  FoldLeft(LAMBDA m, e : Changed(m, e.change), <<>>,
           SelectSeq(entries, LAMBDA e : e.type = "METADATA" /\ e.change.target = t))

-----------------------------------------------------------------------------
(* Writers.                                                                *)

\* CommitTransaction: volumes, transaction, accounts and log in one commit,
\* once no change of metadata holds the accounts rows.
Commit(from, to) ==
  LET id == Cardinality(Logged(log)) + 1
  IN  /\ id \in Id
      /\ \A a \in {from, to} \cap Tagged : rowLock[a] = None
      /\ log' = Append(log, TxEntry(id, from, to))
      /\ volumes' = Posted(volumes, from, to)
      /\ transactions' = transactions \cup {id}
      /\ accounts' = accounts \cup {from, to}
      /\ UNCHANGED <<metadata, sessions, audit, touched, changes, tampers>>

\* SetAllowNegative, SetAllowPositive: a zero row the log never hears of.
Permit(a) ==
  /\ a \notin DOMAIN volumes
  /\ volumes' = With(volumes, a, Zero)
  /\ UNCHANGED <<log, transactions, accounts, metadata, sessions, audit, touched,
                 changes, tampers>>

Patch == {[k \in {key} |-> v] : key \in Key, v \in Value}

Calls ==
  [target : Tagged, set : Patch, delete : {{}}]
    \cup [target : Tagged, set : {<<>>}, delete : {{k} : k \in Key}]

Call(s, c) ==
  /\ pc[s] = "idle"
  /\ changes < MaxChanges
  /\ changes' = changes + 1
  /\ pc' = [pc EXCEPT ![s] = "row"]
  /\ call' = [call EXCEPT ![s] = c]
  /\ UNCHANGED <<tables, pending, rowLock, audit, touched, tampers>>

\* A transaction must exist, and so must an account whose key is deleted;
\* setting metadata on an account creates its row.
Exists(c) ==
  \/ c.target \in transactions
  \/ c.target \in accounts
  \/ c.target \in Account /\ c.delete = {}

\* Mutant: an update that does not wait for the row.
RowFreeAlways(s, t) == TRUE

RowFree(s, t) == rowLock[t] = None

\* lockTarget and the guarded update, or the upsert of SetAccountMetadata:
\* what is on the row once it is locked decides whether anything changes.
LockAndMerge(s) ==
  LET c == call[s]
      now == metadata[c.target]
      fresh == c.target \in Account \ accounts
  IN  /\ pc[s] = "row"
      /\ RowFree(s, c.target)
      /\ IF Exists(c) /\ (fresh \/ Changed(now, c) # now)
           THEN /\ rowLock' = [rowLock EXCEPT ![c.target] = s]
                /\ pending' = [pending EXCEPT ![s] = Changed(now, c)]
                /\ pc' = [pc EXCEPT ![s] = "append"]
                /\ call' = call
           ELSE /\ pc' = [pc EXCEPT ![s] = "idle"]
                /\ call' = [call EXCEPT ![s] = NoCall]
                /\ UNCHANGED <<rowLock, pending>>
      /\ UNCHANGED <<tables, audit, touched, changes, tampers>>

Released(s) ==
  /\ pc' = [pc EXCEPT ![s] = "idle"]
  /\ call' = [call EXCEPT ![s] = NoCall]
  /\ pending' = [pending EXCEPT ![s] = <<>>]
  /\ rowLock' = [t \in Tagged |-> IF rowLock[t] = s THEN None ELSE rowLock[t]]

\* allocateLogID, appendLogEntry and commit.
CommitMetadata(s) ==
  LET t == call[s].target
  IN  /\ pc[s] = "append"
      /\ metadata' = [metadata EXCEPT ![t] = pending[s]]
      /\ accounts' = accounts \cup ({t} \cap Account)
      /\ log' = Append(log, MetaEntry(call[s]))
      /\ Released(s)
      /\ UNCHANGED <<volumes, transactions, audit, touched, changes, tampers>>

\* The connection dies or a statement fails: nothing of the call remains.
Rollback(s) ==
  /\ pc[s] \in {"row", "append"}
  /\ Released(s)
  /\ UNCHANGED <<tables, audit, touched, changes, tampers>>

\* An edit past the triggers and the grants: a posting unmade on two rows, a
\* counter raised, a row or a transaction removed.
Doctored ==
  {With(With(volumes, a, [Row(volumes, a) EXCEPT !.output = @ - 1]),
        b, [Row(volumes, b) EXCEPT !.input = @ - 1]) :
     a \in {x \in DOMAIN volumes : volumes[x].output > 0},
     b \in {x \in DOMAIN volumes : volumes[x].input > 0}}
  \cup {With(volumes, a, [Row(volumes, a) EXCEPT !.input = @ + 1]) : a \in Account}
  \cup {Restrict(volumes, DOMAIN volumes \ {a}) : a \in DOMAIN volumes}

Tamper ==
  /\ tampers < MaxTampers
  /\ tampers' = tampers + 1
  /\ touched' = TRUE
  /\ \/ volumes' \in Doctored /\ transactions' = transactions
     \/ /\ volumes' = volumes
        /\ \E id \in transactions : transactions' = transactions \ {id}
  /\ UNCHANGED <<log, accounts, metadata, sessions, audit, changes>>

-----------------------------------------------------------------------------
(* The audit.                                                              *)

\* VerifyConservation: one statement.
Conserved(rows) ==
  LET input(a) == rows[a].input
      output(a) == rows[a].output
  IN  MapThenSumSet(input, DOMAIN rows) = MapThenSumSet(output, DOMAIN rows)

VerifyConservation ==
  /\ step = "idle"
  /\ conservation' = IF Conserved(volumes) THEN "ok" ELSE "finding"
  /\ step' = "log"
  /\ projection' = "none"
  /\ touched' = FALSE /\ soundThen' = FALSE
  /\ UNCHANGED <<tables, sessions, want, seen, changes, tampers>>

ReplayLog ==
  /\ step = "log"
  /\ want' = ReplayVolumes(log)
  /\ seen' = Logged(log)
  /\ step' = "volumes"
  /\ UNCHANGED <<tables, sessions, conservation, projection, soundThen, touched,
                 changes, tampers>>

\* Mutant: a zero row the log does not mention is a finding.
RowAgreesExactly(rows, expected, a) ==
  a \in DOMAIN expected /\ a \in DOMAIN rows /\ rows[a] = expected[a]

\* Missing, extra unless zero, or different.
RowAgrees(rows, expected, a) ==
  IF a \in DOMAIN expected THEN a \in DOMAIN rows /\ rows[a] = expected[a]
                           ELSE rows[a] = Zero

VolumesAgree(rows, expected) ==
  \A a \in DOMAIN rows \cup DOMAIN expected : RowAgrees(rows, expected, a)

Sound == VolumesAgree(volumes, ReplayVolumes(log)) /\ transactions = Logged(log)

\* storedVolumes and the comparison; the first mismatch is returned.
StoredVolumes ==
  /\ step = "volumes"
  /\ want' = <<>>
  /\ IF VolumesAgree(volumes, want)
       THEN /\ step' = "transactions" /\ soundThen' = Sound
            /\ UNCHANGED <<seen, projection>>
       ELSE step' = "idle" /\ projection' = "finding" /\ seen' = {} /\ soundThen' = FALSE
  /\ UNCHANGED <<tables, sessions, conservation, touched, changes, tampers>>

\* Mutant: the ids are compared with the log as it is by then.
TransactionsMatchNow(ids) == transactions = Logged(log)

\* Every id in the table was logged, and there are as many.
TransactionsMatch(ids) ==
  transactions \subseteq ids /\ Cardinality(transactions) = Cardinality(ids)

VerifyTransactions ==
  /\ step = "transactions"
  /\ projection' = IF TransactionsMatch(seen) THEN "ok" ELSE "finding"
  /\ step' = "idle" /\ seen' = {}
  /\ UNCHANGED <<tables, sessions, want, conservation, soundThen, touched,
                 changes, tampers>>

AuditStep == VerifyConservation \/ ReplayLog \/ StoredVolumes \/ VerifyTransactions

Next ==
  \/ \E a, b \in Account : a # b /\ Commit(a, b)
  \/ \E a \in Account : Permit(a)
  \/ \E s \in Session :
       \/ \E c \in Calls : Call(s, c)
       \/ LockAndMerge(s) \/ CommitMetadata(s) \/ Rollback(s)
  \/ Tamper
  \/ AuditStep

\* giro verify is run on a schedule: an audit that ended is made again.
Spec == Init /\ [][Next]_vars /\ WF_vars(AuditStep)

-----------------------------------------------------------------------------
(* Properties.                                                             *)

\* A clean audit is worth having: however many commits ran meanwhile, and
\* whatever was edited beforehand, an audit that nobody tampers with and
\* that reports the projection sound read volumes that are what the log
\* says.  A commit in between cannot cancel an edit out, because its
\* transaction is not among those the first statement saw.
CleanIsSound ==
  step = "idle" /\ projection = "ok" /\ ~touched => soundThen

\* A false alarm does not last: on a ledger nobody tampers with, every audit
\* is clean once the writes stop, zero rows and metadata entries included,
\* and a commit is never taken for a breach of conservation.
AlarmsPass ==
  [](tampers = 0) =>
    /\ [](conservation # "finding")
    /\ <>[](step = "idle" => projection = "ok")

\* The log carries every change of metadata and nothing else: replaying the
\* entries of a target in the order of the log gives the row, and every entry
\* changed something, so a repeated or concurrent identical write leaves none
\* (mutateMetadata, the row lock held to the end).
MetadataIsReplay ==
  /\ \A t \in Tagged : metadata[t] = ReplayMetadata(log, t)
  /\ \A i \in 1..Len(log) : log[i].type = "METADATA" =>
       LET t == log[i].change.target
           before == ReplayMetadata(SubSeq(log, 1, i - 1), t)
       IN  before # ReplayMetadata(SubSeq(log, 1, i), t)
=============================================================================
