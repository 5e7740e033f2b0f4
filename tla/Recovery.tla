------------------------------ MODULE Recovery ------------------------------
(***************************************************************************)
(* Surviving a restore: storage/recovery.go, VerifyLog of storage/log.go   *)
(* and cmd/giro/recover.go.                                                *)
(*                                                                         *)
(* The database is one value that a backup copies and a restore replaces,  *)
(* counters included, past every trigger.  Only the tips an operator       *)
(* recorded are out of its reach.  A write is one step here: it holds the  *)
(* ledgers row from the allocation to COMMIT.  RecordRecovery is two, a     *)
(* read without the lock and the rest under it.                            *)
(***************************************************************************)
EXTENDS Integers, Sequences, SequencesExt

CONSTANTS Operator,      \* people running giro recover resume
          NoTip,
          MaxWrites,     \* bound: entries written, lost ones included
          MaxTips,       \* bound: tips recorded
          MaxRestores    \* bound: restores

ASSUME BoundAssumption == MaxWrites \in Nat /\ MaxTips \in Nat /\ MaxRestores \in Nat

VARIABLES
  db,          \* the log in order of id, and the ledgers row
  backup,      \* what a restore would bring back
  tips,        \* recorded tips, newest last, each with the log as it stood
  watermark,   \* operator -> the tip it is resuming from
  unchecked,   \* restored, and not yet checked or resumed
  careful,     \* nothing was written while unchecked
  writes, restores

vars == <<db, backup, tips, watermark, unchecked, careful, writes, restores>>

Empty == [log |-> <<>>, lastTx |-> 0, lastLog |-> 0, lastHash |-> <<>>]

\* ChainHash: an ideal hash, the sequence of everything it covers.
ChainHash(previous, data) == Append(previous, data)

\* insertLog: the entry, chained, and the new tip of the chain.
InsertLog(d, id, tx, data) ==
  LET hash == ChainHash(d.lastHash, data)
  IN  [log |-> Append(d.log, [id |-> id, tx |-> tx, data |-> data, hash |-> hash]),
       lastTx |-> d.lastTx, lastLog |-> d.lastLog, lastHash |-> hash]

-----------------------------------------------------------------------------
(* The checks.                                                             *)

\* declaredGap: an entry may stand after a gap only if it is a RECOVERY entry
\* naming exactly that gap.
Declares(e, expected) ==
  /\ e.data.kind = "RECOVERY"
  /\ e.data.resumedFrom = expected - 1
  /\ e.data.skippedThrough = e.id - 1

\* One step of VerifyLog's walk: an entry against the one it follows.
VerifyEntry(log, i) ==
  LET expected == IF i = 1 THEN 1 ELSE log[i - 1].id + 1
      previous == IF i = 1 THEN <<>> ELSE log[i - 1].hash
  IN  /\ log[i].id = expected \/ Declares(log[i], expected)
      /\ log[i].hash = ChainHash(previous, log[i].data)

VerifyLog(log) == \A i \in DOMAIN log : VerifyEntry(log, i)

\* Mutant: the position is compared, and the hash is not.
CheckTipIdOnly(d, tip) ==
  IF tip.logID = 0 THEN "ok"
  ELSE IF \E e \in Range(d.log) : e.id = tip.logID THEN "ok" ELSE "behind"

CheckTip(d, tip) ==
  LET found == {e \in Range(d.log) : e.id = tip.logID}
  IN  IF tip.logID = 0 THEN "ok"
      ELSE IF found = {} THEN "behind"
      ELSE IF \E e \in found : e.hash = tip.hash THEN "ok" ELSE "forked"

-----------------------------------------------------------------------------
Init ==
  /\ db = Empty
  /\ backup = Empty
  /\ tips = <<>>
  /\ watermark = [o \in Operator |-> NoTip]
  /\ unchecked = FALSE
  /\ careful = TRUE
  /\ writes = 0
  /\ restores = 0

\* A write that nobody has cleared after a restore.
Written ==
  /\ writes < MaxWrites
  /\ writes' = writes + 1
  /\ careful' = (careful /\ ~unchecked)
  /\ UNCHANGED <<backup, tips, watermark, unchecked, restores>>

\* A commit: both counters, and an entry.
CommitTransaction ==
  /\ Written
  /\ LET d == [db EXCEPT !.lastTx = @ + 1, !.lastLog = @ + 1]
     IN  db' = InsertLog(d, d.lastLog, d.lastTx, [kind |-> "NEW_TRANSACTION", nonce |-> writes])

\* A metadata change: an entry, and no transaction id.
SetMetadata ==
  /\ Written
  /\ LET d == [db EXCEPT !.lastLog = @ + 1]
     IN  db' = InsertLog(d, d.lastLog, 0, [kind |-> "SET_METADATA", nonce |-> writes])

Backup ==
  /\ backup # db
  /\ backup' = db
  /\ UNCHANGED <<db, tips, watermark, unchecked, careful, writes, restores>>

\* The data directory is replaced while the server is down: no trigger sees it,
\* and no session outlives it.
Restore ==
  /\ restores < MaxRestores
  /\ db # backup
  /\ db' = backup
  /\ restores' = restores + 1
  /\ unchecked' = TRUE
  /\ watermark' = [o \in Operator |-> NoTip]
  /\ UNCHANGED <<backup, tips, careful, writes>>

\* ChainTip, and what giro recover tip prints of it: the transaction id is not
\* in the text.
RecordTip ==
  /\ Len(tips) < MaxTips
  /\ ~unchecked
  /\ tips' = Append(tips, [logID |-> db.lastLog, hash |-> db.lastHash, seen |-> db.log])
  /\ UNCHANGED <<db, backup, watermark, unchecked, careful, writes, restores>>

\* giro recover check, on the newest tip.
RecoverCheck ==
  /\ unchecked
  /\ tips # <<>> => CheckTip(db, Last(tips)) = "ok"
  /\ unchecked' = FALSE
  /\ UNCHANGED <<db, backup, tips, watermark, careful, writes, restores>>

\* Mutant: a tip has no transaction id, so none is cleared.
WatermarkTxZero(tip) == 0

\* recoverResume: the transaction id is taken to be the log id, which it cannot
\* exceed.
WatermarkTx(tip) == tip.logID

Past(d, tip) == d.lastLog >= tip.logID /\ d.lastTx >= WatermarkTx(tip)

\* Somebody runs giro recover resume with the newest tip; the first look is
\* without a lock.
ResumeRead(o) ==
  /\ watermark[o] = NoTip
  /\ tips # <<>>
  /\ ~Past(db, Last(tips))
  /\ watermark' = [watermark EXCEPT ![o] = Last(tips)]
  /\ UNCHANGED <<db, backup, tips, unchecked, careful, writes, restores>>

\* Mutant: the gap is declared as the ids the restore still had.
RecoveryPayloadShort(d, tip) ==
  [kind |-> "RECOVERY", resumedFrom |-> d.lastLog, skippedThrough |-> tip.logID - 1]

RecoveryPayload(d, tip) ==
  [kind |-> "RECOVERY", resumedFrom |-> d.lastLog, skippedThrough |-> tip.logID]

\* The ledger above the watermark, the gap declared.
Recovered(d, tip) ==
  LET top == IF d.lastLog > tip.logID THEN d.lastLog ELSE tip.logID
      lastTx == IF d.lastTx > WatermarkTx(tip) THEN d.lastTx ELSE WatermarkTx(tip)
  IN  InsertLog([d EXCEPT !.lastTx = lastTx, !.lastLog = top + 1], top + 1, 0,
                RecoveryPayload(d, tip))

\* Mutant: what was read without the lock is not looked at again.
StillShortAlways(o) == TRUE

\* The counters again, read under the lock.
StillShort(o) == ~Past(db, watermark[o])

\* The rest of RecordRecovery, under the lock: looked at again, then appended.
RecordRecovery(o) ==
  /\ watermark[o] # NoTip
  /\ db' = IF StillShort(o) THEN Recovered(db, watermark[o]) ELSE db
  /\ unchecked' = FALSE
  /\ watermark' = [watermark EXCEPT ![o] = NoTip]
  /\ UNCHANGED <<backup, tips, careful, writes, restores>>

Next ==
  \/ CommitTransaction \/ SetMetadata
  \/ Backup \/ Restore
  \/ RecordTip \/ RecoverCheck
  \/ \E o \in Operator : ResumeRead(o) \/ RecordRecovery(o)

Spec == Init /\ [][Next]_vars

-----------------------------------------------------------------------------
(* Properties.                                                             *)

\* VerifyLog accepts every log that the write path, restores and recoveries can
\* produce, in whatever order and however many operators resume at once: the
\* gaps are the declared ones.
LogVerifies == VerifyLog(db.log)

\* Two recoveries of one log are never of one watermark.
DeclaredOnce(log) ==
  \A i, j \in DOMAIN log :
    /\ log[i].data.kind = "RECOVERY" /\ log[j].data.kind = "RECOVERY"
    /\ log[i].data.skippedThrough = log[j].data.skippedThrough
    => i = j

\* Ids are issued in order, the transaction counter never passes the log
\* counter, which is what recoverResume assumes when it takes the log id of a
\* tip for its transaction id, and of two operators who resume at once one
\* declares the gap: "two operators running this at once must not both decide
\* they are the one appending the entry" (storage/recovery.go).
CountersAgree ==
  /\ db.lastTx <= db.lastLog
  /\ \A i \in DOMAIN db.log :
       /\ db.log[i].id <= db.lastLog /\ db.log[i].tx <= db.lastTx
       /\ \A j \in 1..i - 1 : db.log[j].id < db.log[i].id
  /\ DeclaredOnce(db.log)

\* CheckTip says ok exactly when everything that was in the log when the tip
\* was recorded is still there, unchanged: the hash at one id vouches for the
\* whole history behind it.
OkMeansNothingRecordedIsLost ==
  \A t \in Range(tips) : CheckTip(db, t) = "ok" <=> Range(t.seen) \subseteq Range(db.log)

\* If nothing is written between a restore and the check or the resume that
\* follows, an id at or below a recorded tip names what it named then or
\* nothing: neither log ids nor transaction ids are reissued.
RecordedIdsKeepTheirMeaning ==
  careful =>
    \A t \in Range(tips), e \in Range(db.log) :
      \/ e \in Range(t.seen)
      \/ e.id > t.logID /\ \A f \in Range(t.seen) : e.tx # 0 => e.tx # f.tx

\* A ledger that has lost nothing since its newest tip is left alone by giro
\* recover resume: "It is a no-op if the ledger is already past the watermark"
\* (storage/recovery.go).
ResumeLeavesASoundLedgerAlone ==
  [][\A o \in Operator :
       RecordRecovery(o) /\ CheckTip(db, watermark[o]) = "ok" => db' = db]_vars
=============================================================================
