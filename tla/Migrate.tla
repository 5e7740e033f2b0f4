------------------------------ MODULE Migrate ------------------------------
(***************************************************************************)
(* migrate/migrate.go: the runner behind "giro migrate up", and the check  *)
(* "giro serve" makes of the schema before it listens.                     *)
(*                                                                         *)
(* Several processes of different releases act on one database.  A         *)
(* process runs the migrations of its release or boots a server, dies at   *)
(* any statement and may be started again.  Each action is one statement,  *)
(* or one transaction where the code opens one.                            *)
(***************************************************************************)
EXTENDS Naturals, Sequences, FiniteSets, SequencesExt

CONSTANTS Process,    \* processes that may run, one at a time each
          Release,    \* builds of giro
          Files,      \* Files[r]: the migrations release r embeds
          None,       \* nobody holds the advisory lock
          MaxStarts   \* bound: how often any process is started

\* A migration is its version, its body (what the checksum stands for) and
\* whether the body carries the no-transaction directive, which is read from
\* the body.
ASSUME FilesAssumption ==
  /\ Files \in [Release -> SUBSET [version : Nat, body : Nat, noTx : BOOLEAN]]
  /\ \A r, s \in Release : \A m \in Files[r], n \in Files[s] :
       m.version = n.version /\ m.body = n.body => m = n
  /\ None \notin Process
  /\ MaxStarts \in Nat

VARIABLES
  holder,    \* session that holds the advisory lock, or None
  created,   \* schema_migrations exists
  history,   \* rows of schema_migrations
  effects,   \* bodies that took effect on the schema, in order
  pc,        \* pc[p]: the statement p is about to make
  release,   \* release[p]: the build p was started from
  todo,      \* todo[p]: pending migrations of p's run
  waitsFor,  \* waitsFor[p]: sessions whose statement p's index build awaits
  starts     \* starts so far

vars == <<holder, created, history, effects, pc, release, todo, waitsFor, starts>>

State == {"down", "poll", "try", "create", "load", "apply", "inTx", "build",
          "record", "unlock", "fail", "done", "failed",
          "boot", "boot2", "serving", "refused"}

Migration == UNION {Files[r] : r \in Release}

TypeOK ==
  /\ holder \in Process \cup {None}
  /\ created \in BOOLEAN
  /\ history \subseteq Migration
  /\ effects \in Seq(Migration)
  /\ pc \in [Process -> State]
  /\ release \in [Process -> Release]
  /\ todo \in [Process -> SUBSET Migration]
  /\ waitsFor \in [Process -> SUBSET Process]
  /\ starts \in 0..MaxStarts

Init ==
  /\ holder = None
  /\ created = FALSE
  /\ history = {}
  /\ effects = <<>>
  /\ pc = [p \in Process |-> "down"]
  /\ release \in [Process -> Release]
  /\ todo = [p \in Process |-> {}]
  /\ waitsFor = [p \in Process |-> {}]
  /\ starts = 0

-----------------------------------------------------------------------------
(* The comparisons between disk and history, in Go.                        *)

Versions(ms) == {m.version : m \in ms}

\* Load: two files with one version cannot be loaded.
Loadable(ms) == \A m, n \in ms : m.version = n.version => m = n

\* Applied with a different body (a checksum that differs).
Drifted(disk, done) ==
  \E m \in disk, d \in done : m.version = d.version /\ m.body # d.body

\* Applied and not among the files.
Missing(disk, done) == Versions(done) \ Versions(disk) # {}

Pending(disk, done) == {m \in disk : m.version \notin Versions(done)}

\* Pending, and sorting before something applied.
OutOfOrder(disk, done) ==
  \E m \in Pending(disk, done), v \in Versions(done) : m.version < v

\* verify: the three disagreements that stop a run before it applies anything.
Verified(disk, done) ==
  ~Drifted(disk, done) /\ ~Missing(disk, done) /\ ~OutOfOrder(disk, done)

\* Mutant: a boot that counts the pending versions and compares no checksum.
MayServeDrifted(disk, done) == Pending(disk, done) = {}

\* RequireUpToDate and checkSchema: drift and pending refuse the boot, a
\* schema that is ahead only warns.
MayServe(disk, done) == ~Drifted(disk, done) /\ Pending(disk, done) = {}

\* The slice is sorted by version, so the next one is the least.
NextUp(ms) == CHOOSE m \in ms : \A n \in ms : m.version <= n.version

\* Mutant: every body is executed and recorded on the bare connection.
InTransactionNever(m) == FALSE

InTransaction(m) == ~m.noTx

-----------------------------------------------------------------------------
(* Statements.                                                             *)

Goto(p, label) == pc' = [pc EXCEPT ![p] = label]

\* A statement of p has ended, and with it the virtual transaction others
\* may be waiting on.
StatementEnds(p) == waitsFor' = [q \in Process |-> waitsFor[q] \ {p}]

\* giro migrate up: Load, then the first attempt at the lock.
Run(p, r) ==
  /\ pc[p] \in {"down", "done", "failed", "refused"}
  /\ starts < MaxStarts
  /\ starts' = starts + 1
  /\ release' = [release EXCEPT ![p] = r]
  /\ Goto(p, IF Loadable(Files[r]) THEN "poll" ELSE "failed")
  /\ UNCHANGED <<holder, created, history, effects, todo, waitsFor>>

\* acquireAdvisoryLock: between two attempts the session holds nothing.
BeginTry(p) ==
  /\ pc[p] = "poll"
  /\ Goto(p, "try")
  /\ UNCHANGED <<holder, created, history, effects, release, todo, waitsFor, starts>>

\* Mutant: pg_advisory_lock, which keeps the session in its statement.
AnswersWhenFree(p) == holder = None

\* pg_try_advisory_lock answers at once, with or without the lock.
Answers(p) == TRUE

EndTry(p) ==
  /\ pc[p] = "try"
  /\ Answers(p)
  /\ IF holder = None THEN holder' = p /\ Goto(p, "create")
                      ELSE holder' = holder /\ Goto(p, "poll")
  /\ StatementEnds(p)
  /\ UNCHANGED <<created, history, effects, release, todo, starts>>

\* lockWait has passed.
GiveUp(p) ==
  /\ pc[p] = "poll"
  /\ Goto(p, "failed")
  /\ UNCHANGED <<holder, created, history, effects, release, todo, waitsFor, starts>>

CreateTable(p) ==
  /\ pc[p] = "create"
  /\ created' = TRUE
  /\ Goto(p, "load")
  /\ UNCHANGED <<holder, history, effects, release, todo, waitsFor, starts>>

\* loadApplied and verify: the run works from this reading to its end.
LoadApplied(p) ==
  LET disk == Files[release[p]]
  IN  /\ pc[p] = "load"
      /\ todo' = [todo EXCEPT ![p] = Pending(disk, history)]
      /\ Goto(p, IF Verified(disk, history) THEN "apply" ELSE "fail")
      /\ UNCHANGED <<holder, created, history, effects, release, waitsFor, starts>>

\* apply, the body inside its transaction, or outside any.  Building an index
\* concurrently waits for the statements that are running when it starts.
Execute(p) ==
  LET m == NextUp(todo[p])
  IN  /\ pc[p] = "apply"
      /\ todo[p] # {}
      /\ IF InTransaction(m)
           THEN Goto(p, "inTx") /\ UNCHANGED waitsFor
           ELSE /\ Goto(p, "build")
                /\ waitsFor' = [waitsFor EXCEPT ![p] = {q \in Process : pc[q] = "try"}]
      /\ UNCHANGED <<holder, created, history, effects, release, todo, starts>>

\* The primary key of schema_migrations refuses a version twice.
Recordable(m) == m.version \notin Versions(history)

\* record and commit: the body and its row become visible together.
CommitTx(p) ==
  LET m == NextUp(todo[p])
  IN  /\ pc[p] = "inTx"
      /\ IF Recordable(m)
           THEN /\ history' = history \cup {m}
                /\ effects' = Append(effects, m)
                /\ todo' = [todo EXCEPT ![p] = @ \ {m}]
                /\ Goto(p, "apply")
           ELSE UNCHANGED <<history, effects, todo>> /\ Goto(p, "fail")
      /\ UNCHANGED <<holder, created, release, waitsFor, starts>>

\* The body outside a transaction has taken effect; nothing records it yet.
Built(p) ==
  /\ pc[p] = "build"
  /\ waitsFor[p] = {}
  /\ effects' = Append(effects, NextUp(todo[p]))
  /\ Goto(p, "record")
  /\ UNCHANGED <<holder, created, history, release, todo, waitsFor, starts>>

Record(p) ==
  LET m == NextUp(todo[p])
  IN  /\ pc[p] = "record"
      /\ IF Recordable(m)
           THEN /\ history' = history \cup {m}
                /\ todo' = [todo EXCEPT ![p] = @ \ {m}]
                /\ Goto(p, "apply")
           ELSE UNCHANGED <<history, todo>> /\ Goto(p, "fail")
      /\ UNCHANGED <<holder, created, effects, release, waitsFor, starts>>

\* A statement is refused (lock_timeout, an SQL error): its transaction is
\* rolled back, the run stops and what it applied before stands.
StatementFails(p) ==
  /\ pc[p] \in {"create", "load", "inTx", "build", "record"}
  /\ Goto(p, "fail")
  /\ waitsFor' = [waitsFor EXCEPT ![p] = {}]
  /\ UNCHANGED <<holder, created, history, effects, release, todo, starts>>

Finish(p) ==
  /\ pc[p] = "apply"
  /\ todo[p] = {}
  /\ Goto(p, "unlock")
  /\ UNCHANGED <<holder, created, history, effects, release, todo, waitsFor, starts>>

\* The deferred releaseAdvisoryLock, on every way out.
ReleaseLock(p) ==
  /\ pc[p] \in {"unlock", "fail"}
  /\ holder' = None
  /\ todo' = [todo EXCEPT ![p] = {}]
  /\ Goto(p, IF pc[p] = "unlock" THEN "done" ELSE "failed")
  /\ UNCHANGED <<created, history, effects, release, waitsFor, starts>>

-----------------------------------------------------------------------------
(* giro serve, and the death of a process.                                 *)

Boot(p, r) ==
  /\ pc[p] \in {"down", "done", "failed", "refused"}
  /\ starts < MaxStarts
  /\ starts' = starts + 1
  /\ release' = [release EXCEPT ![p] = r]
  /\ Goto(p, IF Loadable(Files[r]) THEN "boot" ELSE "refused")
  /\ UNCHANGED <<holder, created, history, effects, todo, waitsFor>>

\* to_regclass: no table means nothing was ever applied.
TableExists(p) ==
  /\ pc[p] = "boot"
  /\ Goto(p, IF created THEN "boot2" ELSE "refused")
  /\ UNCHANGED <<holder, created, history, effects, release, todo, waitsFor, starts>>

CheckSchema(p) ==
  /\ pc[p] = "boot2"
  /\ Goto(p, IF MayServe(Files[release[p]], history) THEN "serving" ELSE "refused")
  /\ UNCHANGED <<holder, created, history, effects, release, todo, waitsFor, starts>>

\* The process or its connection dies: the open transaction is rolled back
\* and the session's advisory lock goes with the session.
Crash(p) ==
  /\ pc[p] \notin {"down", "done", "failed", "refused"}
  /\ holder' = IF holder = p THEN None ELSE holder
  /\ todo' = [todo EXCEPT ![p] = {}]
  /\ waitsFor' = [q \in Process |-> IF q = p THEN {} ELSE waitsFor[q] \ {p}]
  /\ Goto(p, "down")
  /\ UNCHANGED <<created, history, effects, release, starts>>

\* The statements a live runner makes on its own.
RunStep(p) ==
  \/ BeginTry(p) \/ EndTry(p) \/ CreateTable(p) \/ LoadApplied(p)
  \/ Execute(p) \/ CommitTx(p) \/ Built(p) \/ Record(p)
  \/ Finish(p) \/ ReleaseLock(p)

Next ==
  \E p \in Process :
    \/ \E r \in Release : Run(p, r) \/ Boot(p, r)
    \/ RunStep(p)
    \/ GiveUp(p) \/ StatementFails(p)
    \/ TableExists(p) \/ CheckSchema(p)
    \/ Crash(p)

\* A live process makes its statements and the database answers them; that a
\* process is started, gives up or dies is never promised.
Spec ==
  Init /\ [][Next]_vars /\ \A p \in Process : WF_vars(RunStep(p))

-----------------------------------------------------------------------------
(* Properties.                                                             *)

\* The i-th body is one whose runner stopped before it was recorded: no later
\* run knows of it, and if its migration is recorded today it ran again.
Abandoned(i) ==
  /\ effects[i].noTx
  /\ effects[i] \in history => \E k \in (i+1)..Len(effects) : effects[k] = effects[i]

\* schema_migrations tells the truth about the schema, whichever releases
\* ran and wherever they died: what is recorded took effect, what took effect
\* and is not recorded is a no-transaction body whose runner stopped between
\* the two (apply), and bodies took effect in version order, each version
\* once, but for what such runners left behind (Run, verify, the lock).
HistoryIsTheSchema ==
  /\ history \subseteq Range(effects)
  /\ \A m \in Range(effects) \ history : m.noTx
  /\ \A i, j \in 1..Len(effects) :
       i < j => effects[i].version < effects[j].version \/ Abandoned(i)

\* A process that serves finds every migration of its release in the schema,
\* with the body it was built with, for as long as it serves and whatever
\* later releases apply (RequireUpToDate, checkSchema).
ServingMatchesSchema ==
  \A p \in Process : pc[p] = "serving" =>
    Files[release[p]] \subseteq Range(effects) \cap history

\* A run that has the lock ends: it waits for no runner that waits for it,
\* although an index built concurrently waits for the statements of the
\* runners polling for the lock (acquireAdvisoryLock polls, never blocks).
LockedRunsEnd ==
  \A p \in Process :
    (holder = p) ~> (holder # p)
=============================================================================
