---------------------------- MODULE MigrateProofs ----------------------------
(***************************************************************************)
(* Proofs about module Migrate, for any processes, any releases and any    *)
(* migrations they embed.                                                  *)
(*                                                                         *)
(* What makes the history tell the truth is the advisory lock: the run     *)
(* that holds it is the only one that changes history or schema, so the    *)
(* reading verify approved stays right to the end of the run, whoever else *)
(* starts, polls or dies meanwhile.                                        *)
(***************************************************************************)
EXTENDS Migrate, TLAPS, WellFoundedInduction

\* The statements of a session that holds the advisory lock.
Locked == {"create", "load", "apply", "inTx", "build", "record", "unlock", "fail"}

\* The statements of a run that has verified its files against the history.
Applying == {"apply", "inTx", "build", "record"}

\* Every version of a set of migrations is above every recorded one.
Above(ms, done) == \A m \in ms, d \in done : d.version < m.version

\* A run between verify and its end: what it read is still so.
RunOK(p) ==
  /\ pc[p] \in {"poll", "try", "create", "load"} \cup Applying =>
       Loadable(Files[release[p]])
  /\ pc[p] \in Applying =>
       /\ todo[p] = Pending(Files[release[p]], history)
       /\ Above(todo[p], history)
  /\ pc[p] \in {"inTx", "build", "record"} => todo[p] # {}
  /\ pc[p] = "inTx" => ~NextUp(todo[p]).noTx
  /\ pc[p] \in {"build", "record"} => NextUp(todo[p]).noTx
  /\ pc[p] = "record" => effects # <<>> /\ effects[Len(effects)] = NextUp(todo[p])

\* The lock is held by the session that is in one of its statements.
LockOK == \A p \in Process : holder = p <=> pc[p] \in Locked

\* The inductive invariant.
IInv ==
  /\ TypeOK
  /\ LockOK
  /\ \A p \in Process : RunOK(p)
  /\ HistoryIsTheSchema
  /\ \A p \in Process : pc[p] = "serving" => Files[release[p]] \subseteq history

-----------------------------------------------------------------------------
(* Migrations.                                                             *)

LEMMA MigrationFields ==
  \A m \in Migration : m.version \in Nat /\ m.body \in Nat /\ m.noTx \in BOOLEAN
BY FilesAssumption DEF Migration

LEMMA FilesAreMigrations == \A r \in Release : Files[r] \subseteq Migration
BY DEF Migration

\* The slice has a first element.
LEMMA NextUpIsLeast ==
  ASSUME NEW ms, ms \subseteq Migration, ms # {}
  PROVE  NextUp(ms) \in ms /\ \A n \in ms : NextUp(ms).version <= n.version
<1> DEFINE R == OpToRel(<, Nat)
           T == {m.version : m \in ms}
<1>1. T \subseteq Nat /\ T # {}
  BY MigrationFields
<1>2. \A x, y \in Nat : <<y, x>> \in R <=> y < x
  BY DEF OpToRel
<1>3. IsWellFoundedOn(R, Nat)
  BY NatLessThanWellFounded
<1> HIDE DEF R
<1>4. \E x \in T : \A y \in T : ~(<<y, x>> \in R)
  <2> HIDE DEF T
  <2> QED
    BY <1>1, <1>3, WFMin
<1>5. PICK x \in T : \A y \in T : ~(<<y, x>> \in R)
  BY <1>4
<1>6. \A y \in T : x <= y
  <2> SUFFICES ASSUME NEW y \in T PROVE x <= y
    OBVIOUS
  <2>1. x \in Nat /\ y \in Nat
    BY <1>1
  <2>2. ~(y < x)
    BY <1>2, <1>5, <2>1
  <2> QED
    BY <2>1, <2>2
<1>7. PICK m \in ms : m.version = x
  BY <1>5
<1>8. \A n \in ms : m.version <= n.version
  BY <1>6, <1>7
<1> QED
  BY <1>7, <1>8 DEF NextUp

\* With one migration taken from the front the rest is still above the history.
LEMMA TakeNext ==
  ASSUME NEW disk, disk \subseteq Migration, Loadable(disk),
         NEW done, done \subseteq Migration,
         Pending(disk, done) # {}, Above(Pending(disk, done), done)
  PROVE  LET m == NextUp(Pending(disk, done))
         IN  /\ m \in Migration /\ m \in Pending(disk, done)
             /\ m.version \notin Versions(done)
             /\ \A d \in done : d.version < m.version
             /\ Pending(disk, done) \ {m} = Pending(disk, done \cup {m})
             /\ Above(Pending(disk, done) \ {m}, done \cup {m})
<1> DEFINE ms == Pending(disk, done)
           m == NextUp(ms)
<1>1. ms \subseteq disk /\ \A n \in ms : n.version \notin Versions(done)
  BY DEF Pending
<1>2. m \in ms /\ \A n \in ms : m.version <= n.version
  <2> HIDE DEF m
  <2>1. ms \subseteq Migration /\ ms # {}
    BY <1>1
  <2> QED
    BY <2>1, NextUpIsLeast DEF m
<1>3. m \in Migration
  BY <1>1, <1>2
<1> HIDE DEF m
<1>4. \A n \in ms : n # m => m.version < n.version
  <2> SUFFICES ASSUME NEW n \in ms, n # m PROVE m.version < n.version
    OBVIOUS
  <2>1. m.version <= n.version /\ m.version # n.version
    BY <1>1, <1>2 DEF Loadable
  <2>2. m.version \in Nat /\ n.version \in Nat
    BY <1>1, <1>3, MigrationFields
  <2> QED
    BY <2>1, <2>2
<1>5. ms \ {m} = Pending(disk, done \cup {m})
  <2>1. ASSUME NEW n \in disk
        PROVE  n \in ms \ {m} <=> n.version \notin Versions(done \cup {m})
    <3>1. n.version \in Versions(done \cup {m})
            <=> n.version \in Versions(done) \/ n.version = m.version
      BY DEF Versions
    <3>2. n \in ms <=> n.version \notin Versions(done)
      BY DEF Pending
    <3>3. n.version = m.version <=> n = m
      BY <1>1, <1>2 DEF Loadable
    <3> QED
      BY <3>1, <3>2, <3>3
  <2>2. ms \ {m} \subseteq disk
    BY <1>1
  <2> QED
    BY <2>1, <2>2 DEF Pending
<1>6. \A d \in done : d.version < m.version
  BY <1>2 DEF Above
<1>7. Above(ms \ {m}, done \cup {m})
  <2> SUFFICES ASSUME NEW n \in ms \ {m}, NEW d \in done \cup {m}
               PROVE  d.version < n.version
    BY DEF Above
  <2> QED
    BY <1>4 DEF Above
<1>8. m = NextUp(Pending(disk, done))
  BY DEF m
<1> QED
  BY <1>1, <1>2, <1>3, <1>5, <1>6, <1>7, <1>8

-----------------------------------------------------------------------------
(* One process moves.                                                      *)

\* A step of p: it writes history and schema only under the lock, and the
\* lock goes with its place in the code.
LEMMA StepKeeps ==
  ASSUME IInv, TypeOK', NEW p \in Process, NEW l \in State, Goto(p, l),
         \A q \in Process \ {p} : release'[q] = release[q] /\ todo'[q] = todo[q],
         \/ holder' = holder /\ (l \in Locked <=> pc[p] \in Locked)
         \/ holder = None /\ holder' = p /\ l \in Locked
         \/ holder' = (IF holder = p THEN None ELSE holder) /\ l \notin Locked,
         (history' = history /\ effects' = effects) \/ pc[p] \in Locked,
         history \subseteq history',
         HistoryIsTheSchema',
         RunOK(p)',
         l = "serving" => Files[release'[p]] \subseteq history
  PROVE  IInv'
<1>1. /\ pc \in [Process -> State] /\ holder \in Process \cup {None}
      /\ None \notin Process /\ LockOK
  BY FilesAssumption DEF IInv, TypeOK
<1>2. pc'[p] = l /\ \A q \in Process \ {p} : pc'[q] = pc[q]
  BY <1>1 DEF Goto
<1>3. LockOK'
  <2> SUFFICES ASSUME NEW q \in Process PROVE holder' = q <=> pc'[q] \in Locked
    BY DEF LockOK
  <2>1. (holder = q <=> pc[q] \in Locked) /\ (holder = p <=> pc[p] \in Locked)
    BY <1>1 DEF LockOK
  <2>2. CASE q = p
    BY <1>1, <1>2, <2>1, <2>2
  <2>3. CASE q # p
    BY <1>1, <1>2, <2>1, <2>3
  <2> QED
    BY <2>2, <2>3
<1>4. ASSUME NEW q \in Process PROVE RunOK(q)'
  <2>1. CASE q = p
    BY <2>1
  <2>2. CASE q # p
    <3>1. /\ pc'[q] = pc[q] /\ release'[q] = release[q] /\ todo'[q] = todo[q]
          /\ RunOK(q)
      BY <1>2, <2>2 DEF IInv
    <3>2. CASE history' = history /\ effects' = effects
      BY <3>1, <3>2 DEF RunOK
    <3>3. CASE pc[p] \in Locked
      <4>1. pc[q] \notin Locked
        BY <1>1, <2>2, <3>3 DEF LockOK
      <4>2. pc'[q] \notin Applying /\ pc'[q] \notin {"inTx", "build", "record"}
            /\ pc'[q] # "inTx" /\ pc'[q] # "record"
        BY <3>1, <4>1 DEF Locked, Applying
      <4> QED
        BY <3>1, <4>2 DEF RunOK
    <3> QED
      BY <3>2, <3>3
  <2> QED
    BY <2>1, <2>2
<1>5. ASSUME NEW q \in Process, pc'[q] = "serving"
      PROVE  Files[release'[q]] \subseteq history'
  <2>1. CASE q = p
    BY <1>2, <1>5, <2>1
  <2>2. CASE q # p
    BY <1>2, <1>5, <2>2 DEF IInv
  <2> QED
    BY <2>1, <2>2
<1> QED
  BY <1>3, <1>4, <1>5 DEF IInv

\* A step that writes neither history nor schema.
LEMMA QuietKeeps ==
  ASSUME IInv, NEW p \in Process, NEW l \in State, Goto(p, l),
         UNCHANGED <<history, effects>>,
         holder' \in Process \cup {None}, created' \in BOOLEAN,
         release' \in [Process -> Release], todo' \in [Process -> SUBSET Migration],
         waitsFor' \in [Process -> SUBSET Process], starts' \in 0..MaxStarts,
         \A q \in Process \ {p} : release'[q] = release[q] /\ todo'[q] = todo[q],
         \/ holder' = holder /\ (l \in Locked <=> pc[p] \in Locked)
         \/ holder = None /\ holder' = p /\ l \in Locked
         \/ holder' = (IF holder = p THEN None ELSE holder) /\ l \notin Locked,
         RunOK(p)',
         l = "serving" => Files[release'[p]] \subseteq history
  PROVE  IInv'
<1>1. HistoryIsTheSchema'
  BY DEF IInv, HistoryIsTheSchema, Abandoned
<1>2. TypeOK'
  BY DEF IInv, TypeOK, Goto
<1> QED
  BY <1>1, <1>2, StepKeeps

\* What the invariant says of the types, in the form the actions use.
LEMMA Typed ==
  ASSUME IInv
  PROVE  /\ holder \in Process \cup {None} /\ created \in BOOLEAN
         /\ history \subseteq Migration /\ effects \in Seq(Migration)
         /\ pc \in [Process -> State] /\ release \in [Process -> Release]
         /\ todo \in [Process -> SUBSET Migration]
         /\ waitsFor \in [Process -> SUBSET Process] /\ starts \in 0..MaxStarts
         /\ MaxStarts \in Nat /\ LockOK
         /\ \A p \in Process : RunOK(p)
BY FilesAssumption DEF IInv, TypeOK

\* A place in the code that asks nothing of the run.
LEMMA Elsewhere ==
  ASSUME NEW p \in Process, pc \in [Process -> State], NEW l, Goto(p, l),
         l \notin {"poll", "try", "create", "load"} \cup Applying
  PROVE  RunOK(p)'
<1>1. pc'[p] = l
  BY DEF Goto
<1>2. pc'[p] \notin {"poll", "try", "create", "load"} \cup Applying
  BY <1>1
<1>3. pc'[p] \notin Applying /\ pc'[p] \notin {"inTx", "build", "record"}
      /\ pc'[p] # "inTx" /\ pc'[p] # "record"
  BY <1>2 DEF Applying
<1> QED
  BY <1>2, <1>3 DEF RunOK

\* A place before the run has read the history.
LEMMA BeforeLoad ==
  ASSUME NEW p \in Process, pc \in [Process -> State], NEW l, Goto(p, l),
         l \notin Applying, Loadable(Files[release'[p]])
  PROVE  RunOK(p)'
<1>1. pc'[p] = l
  BY DEF Goto
<1>2. pc'[p] \notin Applying /\ pc'[p] \notin {"inTx", "build", "record"}
      /\ pc'[p] # "inTx" /\ pc'[p] # "record"
  BY <1>1 DEF Applying
<1> QED
  BY <1>2 DEF RunOK

\* Starting, of a run or of a server.
LEMMA StartKeeps ==
  ASSUME IInv, NEW p \in Process, NEW r \in Release, Run(p, r) \/ Boot(p, r)
  PROVE  IInv'
<1>1. /\ release' = [release EXCEPT ![p] = r] /\ pc[p] \notin Locked
      /\ UNCHANGED <<holder, created, history, effects, todo, waitsFor>>
      /\ starts < MaxStarts /\ starts' = starts + 1
  BY DEF Run, Boot, Locked
<1>2. PICK l \in {"poll", "failed", "boot", "refused"} :
        Goto(p, l) /\ (l = "poll" => Loadable(Files[r]))
  BY DEF Run, Boot
<1>3. l \in State /\ l \notin Locked /\ l # "serving" /\ l \notin Applying
  BY DEF State, Locked, Applying
<1>4. release'[p] = r /\ \A q \in Process \ {p} : release'[q] = release[q]
  BY <1>1, Typed
<1>5. RunOK(p)'
  <2>1. CASE l = "poll"
    BY <1>2, <1>3, <1>4, <2>1, Typed, BeforeLoad
  <2>2. CASE l # "poll"
    BY <1>2, <1>3, <2>2, Typed, Elsewhere
  <2> QED
    BY <2>1, <2>2
<1>6. starts' \in 0..MaxStarts /\ release' \in [Process -> Release]
  BY <1>1, Typed
<1> QED
  BY <1>1, <1>2, <1>3, <1>4, <1>5, <1>6, Typed, QuietKeeps

\* The attempts at the lock.
LEMMA TryKeeps ==
  ASSUME IInv, NEW p \in Process, BeginTry(p) \/ EndTry(p) \/ GiveUp(p)
  PROVE  IInv'
<1>1. /\ UNCHANGED <<created, history, effects, release, todo, starts>>
      /\ pc[p] \in {"poll", "try"}
      /\ waitsFor' \in [Process -> SUBSET Process]
  BY Typed DEF BeginTry, EndTry, GiveUp, StatementEnds
<1>2. pc[p] \notin Locked /\ Loadable(Files[release[p]])
  BY <1>1, Typed DEF Locked, RunOK
<1>3. PICK l \in {"try", "create", "poll", "failed"} :
        /\ Goto(p, l)
        /\ (l = "create" /\ holder = None /\ holder' = p) \/ (l # "create" /\ holder' = holder)
  <2>1. CASE BeginTry(p)
    BY <2>1 DEF BeginTry
  <2>2. CASE EndTry(p)
    BY <2>2 DEF EndTry
  <2>3. CASE GiveUp(p)
    BY <2>3 DEF GiveUp
  <2> QED
    BY <2>1, <2>2, <2>3
<1>4. l \in State /\ (l \in Locked <=> l = "create") /\ l # "serving" /\ l \notin Applying
  BY DEF State, Locked, Applying
<1>5. RunOK(p)'
  BY <1>1, <1>2, <1>3, <1>4, Typed, BeforeLoad
<1>6. holder' \in Process \cup {None}
  BY <1>3, Typed
<1> QED
  BY <1>1, <1>2, <1>3, <1>4, <1>5, <1>6, Typed, QuietKeeps

\* The table is created, or a statement is refused, or the last is done.
LEMMA UnderLockKeeps ==
  ASSUME IInv, NEW p \in Process, CreateTable(p) \/ StatementFails(p) \/ Finish(p)
  PROVE  IInv'
<1>1. /\ UNCHANGED <<holder, history, effects, release, todo, starts>>
      /\ created' \in BOOLEAN /\ pc[p] \in Locked
      /\ waitsFor' \in [Process -> SUBSET Process]
  BY Typed DEF CreateTable, StatementFails, Finish, Locked
<1>2. PICK l \in {"load", "fail", "unlock"} :
        Goto(p, l) /\ (l = "load" => pc[p] = "create")
  BY DEF CreateTable, StatementFails, Finish
<1>3. l \in State /\ l \in Locked /\ l # "serving" /\ l \notin Applying
  BY DEF State, Locked, Applying
<1>4. RunOK(p)'
  <2>1. CASE l = "load"
    <3>1. Loadable(Files[release'[p]])
      BY <1>1, <1>2, <2>1, Typed DEF RunOK
    <3> QED
      BY <1>2, <1>3, <3>1, Typed, BeforeLoad
  <2>2. CASE l # "load"
    BY <1>2, <1>3, <2>2, Typed, Elsewhere
  <2> QED
    BY <2>1, <2>2
<1> QED
  BY <1>1, <1>2, <1>3, <1>4, Typed, QuietKeeps

\* The way out, and the death of a process.
LEMMA LeaveKeeps ==
  ASSUME IInv, NEW p \in Process, ReleaseLock(p) \/ Crash(p)
  PROVE  IInv'
<1>1. /\ UNCHANGED <<created, history, effects, release, starts>>
      /\ todo' = [todo EXCEPT ![p] = {}]
      /\ waitsFor' \in [Process -> SUBSET Process]
  BY Typed DEF ReleaseLock, Crash
<1>2. PICK l \in {"done", "failed", "down"} : Goto(p, l)
  BY DEF ReleaseLock, Crash
<1>3. /\ l \in State /\ l \notin Locked /\ l # "serving"
      /\ l \notin {"poll", "try", "create", "load"} \cup Applying
  BY DEF State, Locked, Applying
<1>4. holder' = IF holder = p THEN None ELSE holder
  <2>1. CASE ReleaseLock(p)
    <3>1. pc[p] \in Locked
      BY <2>1 DEF ReleaseLock, Locked
    <3>2. holder = p
      BY <3>1, Typed DEF LockOK
    <3> QED
      BY <2>1, <3>2 DEF ReleaseLock
  <2>2. CASE Crash(p)
    BY <2>2 DEF Crash
  <2> QED
    BY <2>1, <2>2
<1>5. RunOK(p)'
  BY <1>2, <1>3, Typed, Elsewhere
<1>6. /\ todo' \in [Process -> SUBSET Migration] /\ holder' \in Process \cup {None}
      /\ \A q \in Process \ {p} : todo'[q] = todo[q]
  BY <1>1, <1>4, Typed
<1> QED
  BY <1>1, <1>2, <1>3, <1>4, <1>5, <1>6, Typed, QuietKeeps

\* verify: what is pending sorts after everything applied.
LEMMA LoadKeeps ==
  ASSUME IInv, NEW p \in Process, LoadApplied(p)
  PROVE  IInv'
<1> DEFINE disk == Files[release[p]]
<1>1. /\ pc[p] = "load" /\ pc[p] \in Locked
      /\ UNCHANGED <<holder, created, history, effects, release, waitsFor, starts>>
      /\ todo' = [todo EXCEPT ![p] = Pending(disk, history)]
  BY DEF LoadApplied, Locked
<1>2. disk \subseteq Migration /\ Loadable(disk)
  BY <1>1, Typed, FilesAreMigrations DEF RunOK
<1>3. /\ todo'[p] = Pending(disk, history) /\ todo' \in [Process -> SUBSET Migration]
      /\ \A q \in Process \ {p} : todo'[q] = todo[q]
  BY <1>1, <1>2, Typed DEF Pending
<1>4. CASE Verified(disk, history)
  <2>1. Goto(p, "apply") /\ pc'[p] = "apply"
    BY <1>4, Typed DEF LoadApplied, Goto
  <2>2. Above(Pending(disk, history), history)
    <3> SUFFICES ASSUME NEW m \in Pending(disk, history), NEW d \in history
                 PROVE  d.version < m.version
      BY DEF Above
    <3>1. m \in disk /\ m.version \notin Versions(history) /\ d.version \in Versions(history)
      BY DEF Pending, Versions
    <3>2. ~(m.version < d.version)
      BY <1>4, <3>1 DEF Verified, OutOfOrder
    <3>3. m.version \in Nat /\ d.version \in Nat
      BY <1>2, <3>1, Typed, MigrationFields
    <3> QED
      BY <3>1, <3>2, <3>3
  <2>3. RunOK(p)'
    BY <1>1, <1>2, <1>3, <2>1, <2>2 DEF RunOK, Applying
  <2>4. "apply" \in State /\ "apply" \in Locked
    BY DEF State, Locked
  <2> QED
    BY <1>1, <1>3, <2>1, <2>3, <2>4, Typed, QuietKeeps
<1>5. CASE ~Verified(disk, history)
  <2>1. Goto(p, "fail")
    BY <1>5 DEF LoadApplied
  <2>2. /\ "fail" \in State /\ "fail" \in Locked
        /\ "fail" \notin {"poll", "try", "create", "load"} \cup Applying
    BY DEF State, Locked, Applying
  <2>3. RunOK(p)'
    BY <2>1, <2>2, Typed, Elsewhere
  <2> QED
    BY <1>1, <1>3, <2>1, <2>2, <2>3, Typed, QuietKeeps
<1> QED
  BY <1>4, <1>5

\* The body is begun, inside its transaction or outside any.
LEMMA ExecuteKeeps ==
  ASSUME IInv, NEW p \in Process, Execute(p)
  PROVE  IInv'
<1> DEFINE m == NextUp(todo[p])
<1>1. /\ pc[p] = "apply" /\ pc[p] \in Locked /\ todo[p] # {}
      /\ UNCHANGED <<holder, created, history, effects, release, todo, starts>>
      /\ waitsFor' \in [Process -> SUBSET Process]
  BY Typed DEF Execute, Locked
<1>2. /\ Loadable(Files[release[p]])
      /\ todo[p] = Pending(Files[release[p]], history) /\ Above(todo[p], history)
  BY <1>1, Typed DEF RunOK, Applying
<1>3. CASE ~m.noTx
  <2>1. Goto(p, "inTx") /\ pc'[p] = "inTx"
    BY <1>3, Typed DEF Execute, InTransaction, Goto
  <2>2. RunOK(p)'
    BY <1>1, <1>2, <1>3, <2>1 DEF RunOK, Applying
  <2>3. "inTx" \in State /\ "inTx" \in Locked
    BY DEF State, Locked
  <2> QED
    BY <1>1, <2>1, <2>2, <2>3, Typed, QuietKeeps
<1>4. CASE m.noTx
  <2>1. Goto(p, "build") /\ pc'[p] = "build"
    BY <1>4, Typed DEF Execute, InTransaction, Goto
  <2>2. RunOK(p)'
    BY <1>1, <1>2, <1>4, <2>1 DEF RunOK, Applying
  <2>3. "build" \in State /\ "build" \in Locked
    BY DEF State, Locked
  <2> QED
    BY <1>1, <2>1, <2>2, <2>3, Typed, QuietKeeps
<1> QED
  BY <1>3, <1>4

\* The two questions of a boot.
LEMMA BootKeeps ==
  ASSUME IInv, NEW p \in Process, TableExists(p) \/ CheckSchema(p)
  PROVE  IInv'
<1>1. /\ pc[p] \in {"boot", "boot2"} /\ pc[p] \notin Locked
      /\ UNCHANGED <<holder, created, history, effects, release, todo, waitsFor, starts>>
  BY DEF TableExists, CheckSchema, Locked
<1>2. PICK l \in {"boot2", "refused", "serving"} :
        Goto(p, l) /\ (l = "serving" => MayServe(Files[release[p]], history))
  BY DEF TableExists, CheckSchema
<1>3. /\ l \in State /\ l \notin Locked
      /\ l \notin {"poll", "try", "create", "load"} \cup Applying
  BY DEF State, Locked, Applying
<1>4. RunOK(p)'
  BY <1>2, <1>3, Typed, Elsewhere
<1>5. ASSUME MayServe(Files[release[p]], history)
      PROVE  Files[release[p]] \subseteq history
  <2> SUFFICES ASSUME NEW m \in Files[release[p]] PROVE m \in history
    OBVIOUS
  <2>1. m \notin Pending(Files[release[p]], history)
    BY <1>5 DEF MayServe
  <2>2. PICK d \in history : d.version = m.version
    BY <2>1 DEF Pending, Versions
  <2>3. m.body = d.body
    BY <1>5, <2>2 DEF MayServe, Drifted
  <2>4. PICK s \in Release : d \in Files[s]
    BY Typed DEF Migration
  <2>5. m = d
    BY <2>2, <2>3, <2>4, Typed, FilesAssumption
  <2> QED
    BY <2>5
<1> QED
  BY <1>1, <1>2, <1>3, <1>4, <1>5, Typed, QuietKeeps

-----------------------------------------------------------------------------
(* The steps that write history and schema.                                *)

\* A body above everything recorded takes effect; when it is recorded with
\* it, or recorded later, the history still tells the truth.
LEMMA BodyKeeps ==
  ASSUME NEW m \in Migration, history \subseteq Migration, effects \in Seq(Migration),
         HistoryIsTheSchema,
         \A d \in history : d.version < m.version,
         effects' = Append(effects, m),
         history' = history \cup {m} \/ (history' = history /\ m.noTx)
  PROVE  HistoryIsTheSchema'
<1> DEFINE n == Len(effects)
<1>1. /\ n \in Nat /\ Len(effects') = n + 1 /\ effects' \in Seq(Migration)
      /\ \A i \in 1..n : effects'[i] = effects[i] /\ effects[i] \in Migration
      /\ effects'[n+1] = m
  OBVIOUS
<1>2. /\ DOMAIN effects = 1..n /\ DOMAIN effects' = 1..(n+1)
  BY <1>1
<1> HIDE DEF n
<1>3. Range(effects') = Range(effects) \cup {m}
  BY <1>1, <1>2 DEF Range
<1>4. history' \subseteq Range(effects')
  BY <1>3 DEF HistoryIsTheSchema
<1>5. ASSUME NEW x \in Range(effects') \ history' PROVE x.noTx
  BY <1>3, <1>5 DEF HistoryIsTheSchema
<1>6. ASSUME NEW i \in 1..(n+1), NEW j \in 1..(n+1), i < j
      PROVE  effects'[i].version < effects'[j].version \/ Abandoned(i)'
  <2>1. i \in 1..n /\ effects'[i] = effects[i] /\ effects[i] \in Range(effects)
    BY <1>1, <1>2, <1>6 DEF Range
  <2>2. ASSUME effects[i].noTx,
               effects[i] \in history => \E k \in (i+1)..n : effects[k] = effects[i]
        PROVE  Abandoned(i)'
    <3> SUFFICES ASSUME effects[i] \in history'
                 PROVE  \E k \in (i+1)..(n+1) : effects'[k] = effects[i]
      BY <1>1, <2>1, <2>2 DEF Abandoned
    <3>1. CASE effects[i] \in history
      <4>1. PICK k \in (i+1)..n : effects[k] = effects[i]
        BY <2>2, <3>1
      <4> QED
        BY <1>1, <2>1, <4>1
    <3>2. CASE effects[i] \notin history
      <4>1. effects[i] = m
        BY <3>2
      <4>2. n + 1 \in (i+1)..(n+1)
        BY <1>1, <2>1
      <4> QED
        BY <1>1, <4>1, <4>2
    <3> QED
      BY <3>1, <3>2
  <2>3. CASE j \in 1..n
    <3>1. effects[i].version < effects[j].version \/ Abandoned(i)
      BY <1>6, <2>1, <2>3 DEF HistoryIsTheSchema, n
    <3>2. CASE Abandoned(i)
      BY <2>2, <3>2 DEF Abandoned, n
    <3> QED
      BY <1>1, <2>1, <2>3, <3>1, <3>2
  <2>4. CASE j = n + 1
    <3>1. CASE effects[i] \in history
      BY <1>1, <2>1, <2>4, <3>1
    <3>2. CASE effects[i] \notin history
      BY <2>1, <2>2, <3>2 DEF HistoryIsTheSchema
    <3> QED
      BY <3>1, <3>2
  <2> QED
    BY <1>1, <1>6, <2>3, <2>4
<1> QED
  BY <1>1, <1>4, <1>5, <1>6 DEF HistoryIsTheSchema

\* What took effect last, outside a transaction, is recorded.
LEMMA RowKeeps ==
  ASSUME NEW m, effects \in Seq(Migration), HistoryIsTheSchema,
         effects # <<>>, effects[Len(effects)] = m,
         effects' = effects, history' = history \cup {m}
  PROVE  HistoryIsTheSchema'
<1>1. m \in Range(effects)
  BY DEF Range
<1>3. history' \subseteq Range(effects') /\ \A x \in Range(effects') \ history' : x.noTx
  BY <1>1 DEF HistoryIsTheSchema
<1>2. ASSUME NEW i \in 1..Len(effects), NEW j \in 1..Len(effects), i < j
      PROVE  effects[i].version < effects[j].version \/ Abandoned(i)'
  <2>1. effects[i].version < effects[j].version \/ Abandoned(i)
    BY <1>2 DEF HistoryIsTheSchema
  <2>2. ASSUME Abandoned(i) PROVE Abandoned(i)'
    <3>1. CASE effects[i] = m
      <4>1. effects[Len(effects)] = m /\ Len(effects) \in (i+1)..Len(effects)
        BY <1>2, <3>1
      <4> QED
        BY <2>2, <3>1, <4>1 DEF Abandoned
    <3>2. CASE effects[i] # m
      BY <2>2, <3>2 DEF Abandoned
    <3> QED
      BY <3>1, <3>2
  <2> QED
    BY <2>1, <2>2
<1> QED
  BY <1>2, <1>3 DEF HistoryIsTheSchema

\* What a run that applies knows of its next migration.
LEMMA NextMigration ==
  ASSUME IInv, NEW p \in Process, pc[p] \in {"inTx", "build", "record"}
  PROVE  LET m == NextUp(todo[p])
         IN  /\ m \in Migration
             /\ Loadable(Files[release[p]])
             /\ todo[p] = Pending(Files[release[p]], history) /\ Above(todo[p], history)
             /\ Recordable(m)
             /\ \A d \in history : d.version < m.version
             /\ todo[p] \ {m} = Pending(Files[release[p]], history \cup {m})
             /\ Above(todo[p] \ {m}, history \cup {m})
<1>1. /\ Loadable(Files[release[p]]) /\ Files[release[p]] \subseteq Migration
      /\ todo[p] = Pending(Files[release[p]], history) /\ Above(todo[p], history)
      /\ todo[p] # {}
  BY Typed, FilesAreMigrations DEF RunOK, Applying
<1> DEFINE disk == Files[release[p]]
           ms == todo[p]
           m == NextUp(ms)
<1>2. ms = Pending(disk, history) /\ disk \subseteq Migration /\ Loadable(disk)
      /\ history \subseteq Migration /\ ms # {} /\ Above(ms, history)
  BY <1>1, Typed
<1> HIDE DEF disk, ms
<1>3. /\ m \in Migration /\ m.version \notin Versions(history)
      /\ \A d \in history : d.version < m.version
      /\ ms \ {m} = Pending(disk, history \cup {m})
      /\ Above(ms \ {m}, history \cup {m})
  BY <1>2, TakeNext
<1> QED
  BY <1>2, <1>3 DEF Recordable, disk, ms

\* A row is written and the run goes on to what is left.
LEMMA RecordedKeeps ==
  ASSUME IInv, NEW p \in Process, pc[p] \in {"inTx", "record"}, NEW m, m = NextUp(todo[p]),
         HistoryIsTheSchema', effects' \in Seq(Migration),
         history' = history \cup {m}, todo' = [todo EXCEPT ![p] = @ \ {m}],
         Goto(p, "apply"), UNCHANGED <<holder, created, release, waitsFor, starts>>
  PROVE  IInv'
<1>1. /\ m \in Migration /\ Loadable(Files[release[p]])
      /\ todo[p] \ {m} = Pending(Files[release[p]], history \cup {m})
      /\ Above(todo[p] \ {m}, history \cup {m})
  BY NextMigration
<1>2. todo'[p] = todo[p] \ {m} /\ \A q \in Process \ {p} : todo'[q] = todo[q]
  BY Typed
<1>3. pc'[p] = "apply"
  BY Typed DEF Goto
<1>4. RunOK(p)'
  BY <1>1, <1>2, <1>3 DEF RunOK, Applying
<1>5. "apply" \in State /\ "apply" \in Locked /\ pc[p] \in Locked
  BY DEF State, Locked
<1>6. TypeOK'
  BY <1>1, <1>5, Typed DEF TypeOK, Goto
<1> QED
  BY <1>2, <1>4, <1>5, <1>6, StepKeeps

\* Body and row become visible together.
LEMMA CommitTxKeeps ==
  ASSUME IInv, NEW p \in Process, CommitTx(p)
  PROVE  IInv'
<1> DEFINE m == NextUp(todo[p])
<1>1. /\ pc[p] = "inTx" /\ m \in Migration /\ Recordable(m)
      /\ \A d \in history : d.version < m.version
  BY NextMigration DEF CommitTx
<1>2. /\ history' = history \cup {m} /\ effects' = Append(effects, m)
      /\ todo' = [todo EXCEPT ![p] = @ \ {m}] /\ Goto(p, "apply")
      /\ UNCHANGED <<holder, created, release, waitsFor, starts>>
  BY <1>1 DEF CommitTx
<1>3. HistoryIsTheSchema /\ history \subseteq Migration /\ effects \in Seq(Migration)
  BY Typed DEF IInv
<1> HIDE DEF m
<1>4. HistoryIsTheSchema' /\ effects' \in Seq(Migration)
  BY <1>1, <1>2, <1>3, BodyKeeps
<1>5. m = NextUp(todo[p])
  BY DEF m
<1> QED
  BY <1>1, <1>2, <1>4, <1>5, RecordedKeeps

\* The body has taken effect and no row says so.
LEMMA BuiltKeeps ==
  ASSUME IInv, NEW p \in Process, Built(p)
  PROVE  IInv'
<1> DEFINE m == NextUp(todo[p])
<1>1. /\ pc[p] = "build" /\ m \in Migration /\ m.noTx /\ todo[p] # {}
      /\ \A d \in history : d.version < m.version
      /\ Loadable(Files[release[p]])
      /\ todo[p] = Pending(Files[release[p]], history) /\ Above(todo[p], history)
  BY Typed, NextMigration DEF Built, RunOK
<1>2. /\ effects' = Append(effects, m) /\ Goto(p, "record")
      /\ UNCHANGED <<holder, created, history, release, todo, waitsFor, starts>>
  BY DEF Built
<1>3. HistoryIsTheSchema /\ history \subseteq Migration /\ effects \in Seq(Migration)
  BY Typed DEF IInv
<1>4. m = NextUp(todo[p])
  OBVIOUS
<1> HIDE DEF m
<1>5. HistoryIsTheSchema'
  BY <1>1, <1>2, <1>3, BodyKeeps
<1>6. effects' \in Seq(Migration) /\ effects' # <<>> /\ effects'[Len(effects')] = m
  BY <1>1, <1>2, <1>3
<1>7. pc'[p] = "record"
  BY <1>2, Typed DEF Goto
<1>8. RunOK(p)'
  BY <1>1, <1>2, <1>4, <1>6, <1>7 DEF RunOK, Applying
<1>9. "record" \in State /\ "record" \in Locked /\ pc[p] \in Locked
  BY <1>1 DEF State, Locked
<1>10. TypeOK'
  BY <1>2, <1>6, <1>9, Typed DEF TypeOK, Goto
<1> QED
  BY <1>2, <1>5, <1>8, <1>9, <1>10, StepKeeps

\* The row of a body outside a transaction.
LEMMA RecordKeeps ==
  ASSUME IInv, NEW p \in Process, Record(p)
  PROVE  IInv'
<1> DEFINE m == NextUp(todo[p])
<1>1. /\ pc[p] = "record" /\ Recordable(m)
      /\ effects # <<>> /\ effects[Len(effects)] = m
  BY Typed, NextMigration DEF Record, RunOK
<1>2. /\ history' = history \cup {m} /\ effects' = effects
      /\ todo' = [todo EXCEPT ![p] = @ \ {m}] /\ Goto(p, "apply")
      /\ UNCHANGED <<holder, created, release, waitsFor, starts>>
  BY <1>1 DEF Record
<1>3. HistoryIsTheSchema /\ effects \in Seq(Migration)
  BY Typed DEF IInv
<1>4. m = NextUp(todo[p])
  OBVIOUS
<1> HIDE DEF m
<1>5. HistoryIsTheSchema' /\ effects' \in Seq(Migration)
  BY <1>1, <1>2, <1>3, RowKeeps
<1> QED
  BY <1>1, <1>2, <1>4, <1>5, RecordedKeeps

-----------------------------------------------------------------------------
(* The theorems.                                                           *)

\* A new database has no history and no lock.
LEMMA InitIInv == Init => IInv
<1> SUFFICES ASSUME Init PROVE IInv
  OBVIOUS
<1>1. TypeOK
  <2>1. created \in BOOLEAN /\ holder \in Process \cup {None} /\ history \subseteq Migration
    BY Zenon DEF Init
  <2>2. effects \in Seq(Migration) /\ starts \in 0..MaxStarts
    BY FilesAssumption DEF Init
  <2>3. /\ pc \in [Process -> State] /\ release \in [Process -> Release]
        /\ todo \in [Process -> SUBSET Migration] /\ waitsFor \in [Process -> SUBSET Process]
    BY DEF Init, State
  <2> QED
    BY <2>1, <2>2, <2>3 DEF TypeOK
<1>2. \A p \in Process : pc[p] = "down" /\ holder # p
  BY FilesAssumption DEF Init
<1>3. LockOK /\ \A p \in Process : RunOK(p)
  BY <1>2 DEF LockOK, Locked, RunOK, Applying
<1>4. HistoryIsTheSchema
  BY DEF Init, HistoryIsTheSchema, Range
<1> QED
  BY <1>1, <1>2, <1>3, <1>4 DEF IInv

\* Every step keeps the invariant.
LEMMA StepIInv == IInv /\ [Next]_vars => IInv'
<1> SUFFICES ASSUME IInv, [Next]_vars PROVE IInv'
  OBVIOUS
<1>1. CASE UNCHANGED vars
  <2>1. TypeOK' /\ LockOK'
    BY <1>1 DEF vars, IInv, TypeOK, LockOK
  <2>2. \A p \in Process : RunOK(p)'
    BY <1>1 DEF vars, IInv, RunOK
  <2>3. HistoryIsTheSchema'
    BY <1>1 DEF vars, IInv, HistoryIsTheSchema, Abandoned
  <2> QED
    BY <1>1, <2>1, <2>2, <2>3 DEF vars, IInv
<1>2. CASE Next
  <2>1. PICK p \in Process :
          \/ \E r \in Release : Run(p, r) \/ Boot(p, r)
          \/ RunStep(p)
          \/ GiveUp(p) \/ StatementFails(p)
          \/ TableExists(p) \/ CheckSchema(p)
          \/ Crash(p)
    BY <1>2 DEF Next
  <2> QED
    BY <2>1, StartKeeps, TryKeeps, UnderLockKeeps, LeaveKeeps, LoadKeeps, ExecuteKeeps,
       BootKeeps, CommitTxKeeps, BuiltKeeps, RecordKeeps DEF RunStep
<1> QED
  BY <1>1, <1>2

LEMMA IInvHolds == Spec => []IInv
BY InitIInv, StepIInv, PTL DEF Spec

\* schema_migrations tells the truth about the schema, whatever releases run
\* and wherever they die (Run, apply, record).
THEOREM HistoryAlwaysTheSchema == Spec => []HistoryIsTheSchema
<1>1. IInv => HistoryIsTheSchema
  BY DEF IInv
<1> QED
  BY <1>1, IInvHolds, PTL

\* Who serves finds its migrations applied for as long as it serves
\* (RequireUpToDate, checkSchema).
THEOREM ServingAlwaysMatches == Spec => []ServingMatchesSchema
<1>1. IInv => ServingMatchesSchema
  BY DEF IInv, ServingMatchesSchema, HistoryIsTheSchema
<1> QED
  BY <1>1, IInvHolds, PTL
=============================================================================
