--------------------------- MODULE RecoveryProofs ---------------------------
(***************************************************************************)
(* For any number of operators, writes, tips and restores: the log always   *)
(* verifies, a tip that checks out vouches for the history behind it, and   *)
(* a careful operator never sees an id reissued.                           *)
(***************************************************************************)
EXTENDS Recovery, TLAPS

Data == [kind : {"NEW_TRANSACTION", "SET_METADATA"}, nonce : Nat]
          \cup [kind : {"RECOVERY"}, resumedFrom : Nat, skippedThrough : Nat]

Entry == [id : Nat \ {0}, tx : Nat, data : Data, hash : Seq(Data)]

Database == [log : Seq(Entry), lastTx : Nat, lastLog : Nat, lastHash : Seq(Data)]

Tip == [logID : Nat, hash : Seq(Data), seen : Seq(Entry)]

TypeOK ==
  /\ db \in Database
  /\ backup \in Database
  /\ tips \in Seq(Tip)
  /\ watermark \in [Operator -> Tip \cup {NoTip}]
  /\ unchecked \in BOOLEAN
  /\ careful \in BOOLEAN
  /\ writes \in Nat
  /\ restores \in Nat

\* The transaction counter an entry vouches for.
Mark(e) == IF e.data.kind = "RECOVERY" THEN e.data.skippedThrough ELSE e.tx

\* What an entry says by itself, after w writes: a commit or a change of
\* metadata is marked with a write that has happened, and the place of a
\* recovery entry follows from what it declares.
EntryOK(e, w) ==
  IF e.data.kind = "RECOVERY"
    THEN /\ e.tx = 0
         /\ e.id > e.data.resumedFrom /\ e.id > e.data.skippedThrough
         /\ e.id - 1 \in {e.data.resumedFrom, e.data.skippedThrough}
    ELSE e.data.nonce < w

\* A log on its own: it verifies, ids increase, and a hash is as long as the
\* history it covers.
LogOK(log, w) ==
  /\ VerifyLog(log)
  /\ \A i \in DOMAIN log : EntryOK(log[i], w) /\ Len(log[i].hash) = i
  /\ \A i \in DOMAIN log : \A j \in 1..i - 1 : log[j].id < log[i].id

\* A hash and an id are those of the end of a log.
Ends(log, id, hash) ==
  IF log = <<>> THEN id = 0 /\ hash = <<>>
                ELSE id = log[Len(log)].id /\ hash = log[Len(log)].hash

\* The counters cover the log, and the transaction counter is where some entry
\* has put it.
CountersOK(d) ==
  /\ d.lastTx <= d.lastLog
  /\ \A i \in DOMAIN d.log : d.log[i].tx <= d.lastTx /\ Mark(d.log[i]) <= d.lastTx
  /\ d.lastTx = 0 \/ \E i \in DOMAIN d.log : Mark(d.log[i]) = d.lastTx

DatabaseOK(d, w) ==
  LogOK(d.log, w) /\ Ends(d.log, d.lastLog, d.lastHash) /\ CountersOK(d)

TipOK(t, w) ==
  /\ LogOK(t.seen, w)
  /\ Ends(t.seen, t.logID, t.hash)
  /\ \A i \in DOMAIN t.seen : t.seen[i].tx <= t.logID

\* One hash, one history.
Agree(log, other) ==
  \A i \in DOMAIN log \cap DOMAIN other :
    log[i].hash = other[i].hash => \A j \in 1..i : log[j] = other[j]

\* A restore brings back a beginning of the log.
Begins(log, other) ==
  /\ Len(log) <= Len(other)
  /\ \A i \in DOMAIN log : log[i] = other[i]

\* The counters are past everything the tip saw.
Clear(d, t) ==
  /\ t.logID <= d.lastLog
  /\ \A i \in DOMAIN t.seen : t.seen[i].tx <= d.lastTx

\* An entry does not have an id that meant something else to the tip.
KeepsEntry(e, t) ==
  \/ \E j \in DOMAIN t.seen : e = t.seen[j]
  \/ /\ e.id > t.logID
     /\ \A j \in DOMAIN t.seen : e.tx # 0 => e.tx # t.seen[j].tx

Keeps(d, t) == \A i \in DOMAIN d.log : KeepsEntry(d.log[i], t)

\* Whatever an older tip saw, the newer one is past it.
Supersedes(new, old) ==
  /\ old.logID <= new.logID
  /\ \A i \in DOMAIN old.seen :
       old.seen[i].tx = 0 \/ \E j \in DOMAIN new.seen : old.seen[i].tx <= Mark(new.seen[j])

\* What holds as long as nobody wrote to an unchecked ledger.
CarefulOK ==
  \A n \in DOMAIN tips :
    /\ Keeps(db, tips[n])
    /\ ~unchecked => Clear(db, tips[n])
    /\ Supersedes(tips[Len(tips)], tips[n])

\* Resumes under way work from a tip that was recorded, and while the ledger is
\* unchecked from the newest.
WatermarkOK ==
  \A o \in Operator : watermark[o] # NoTip =>
    /\ \E n \in DOMAIN tips : watermark[o] = tips[n]
    /\ unchecked => watermark[o] = tips[Len(tips)]

TipsOK == \A n \in DOMAIN tips : TipOK(tips[n], writes) /\ Agree(db.log, tips[n].seen)

IInv ==
  /\ TypeOK
  /\ DatabaseOK(db, writes)
  /\ DatabaseOK(backup, writes)
  /\ Begins(backup.log, db.log)
  /\ TipsOK
  /\ WatermarkOK
  /\ careful => CarefulOK

-----------------------------------------------------------------------------
(* Appending to a log.                                                     *)

\* What Append does to the positions of a log.
LEMMA AppendFacts ==
  ASSUME NEW S, NEW L \in Seq(S), NEW e \in S
  PROVE  /\ Append(L, e) \in Seq(S)
         /\ Append(L, e) # <<>>
         /\ Len(L) \in Nat
         /\ DOMAIN L = 1..Len(L)
         /\ Len(Append(L, e)) = Len(L) + 1
         /\ DOMAIN Append(L, e) = 1..Len(L) + 1
         /\ \A i \in 1..Len(L) : Append(L, e)[i] = L[i]
         /\ Append(L, e)[Len(L) + 1] = e
         /\ \A i \in 1..Len(L) : L[i] \in S
OBVIOUS

\* The fields of an entry, which are all there is to it.
LEMMA EntryFields ==
  /\ \A e \in Entry : /\ e.id \in Nat \ {0} /\ e.tx \in Nat
                      /\ e.data \in Data /\ e.hash \in Seq(Data)
                      /\ Mark(e) \in Nat
  /\ \A e, f \in Entry :
       e.id = f.id /\ e.tx = f.tx /\ e.data = f.data /\ e.hash = f.hash => e = f
BY DEF Entry, Mark, Data

\* The fields of a tip.
LEMMA TipFields ==
  \A t \in Tip : /\ t.logID \in Nat /\ t.seen \in Seq(Entry)
                 /\ Len(t.seen) \in Nat /\ DOMAIN t.seen = 1..Len(t.seen)
                 /\ \A i \in DOMAIN t.seen : t.seen[i] \in Entry
<1>1. \A t \in Tip : t.logID \in Nat /\ t.seen \in Seq(Entry)
  BY DEF Tip
<1> QED
  BY <1>1

\* A chain hash determines what it was made from (ChainHash, taken as ideal).
LEMMA HashInjective ==
  ASSUME NEW p \in Seq(Data), NEW q \in Seq(Data), NEW x \in Data, NEW y \in Data,
         ChainHash(p, x) = ChainHash(q, y)
  PROVE  p = q /\ x = y
<1>1. Len(p) + 1 = Len(q) + 1 /\ Len(p) \in Nat /\ Len(q) \in Nat
  BY AppendFacts DEF ChainHash
<1>2. x = y
  BY <1>1, AppendFacts DEF ChainHash
<1>3. ASSUME NEW i \in 1..Len(p)
      PROVE  p[i] = q[i]
  BY <1>1, <1>3, AppendFacts DEF ChainHash
<1> QED
  BY <1>1, <1>2, <1>3

\* An entry that fits the end of a log: its place, its hash and its ids.
Fits(d, e, x, w) ==
  /\ e.id > d.lastLog
  /\ e.id = d.lastLog + 1 \/ Declares(e, d.lastLog + 1)
  /\ e.hash = ChainHash(d.lastHash, e.data)
  /\ EntryOK(e, w)
  /\ x >= d.lastTx /\ x <= e.id
  /\ e.tx <= x /\ Mark(e) <= x
  /\ x = d.lastTx \/ x = Mark(e)

Appended(d, e, x) ==
  [log |-> Append(d.log, e), lastTx |-> x, lastLog |-> e.id, lastHash |-> e.hash]

\* More writes later, a log is still well formed.
LEMMA LogLater ==
  ASSUME NEW L \in Seq(Entry), NEW v \in Nat, NEW w \in Nat, v <= w, LogOK(L, v)
  PROVE  LogOK(L, w)
<1>1. ASSUME NEW i \in DOMAIN L
      PROVE  EntryOK(L[i], w)
  <2>1. L[i] \in Entry /\ EntryOK(L[i], v)
    BY <1>1 DEF LogOK
  <2> QED
    BY <2>1 DEF EntryOK, Entry, Data
<1> QED
  BY <1>1 DEF LogOK

\* insertLog keeps a database well formed.
LEMMA AppendOK ==
  ASSUME NEW d \in Database, NEW v \in Nat, NEW w \in Nat, v <= w,
         DatabaseOK(d, v),
         NEW e \in Entry, NEW x \in Nat, Fits(d, e, x, w)
  PROVE  /\ Appended(d, e, x) \in Database
         /\ DatabaseOK(Appended(d, e, x), w)
<1> DEFINE L == d.log
           M == Append(L, e)
           n == Len(L)
<1>1. L \in Seq(Entry)
  BY DEF Database
<1>2. /\ M \in Seq(Entry) /\ M # <<>> /\ n \in Nat /\ DOMAIN L = 1..n /\ Len(M) = n + 1
      /\ DOMAIN M = 1..n + 1 /\ \A i \in 1..n : M[i] = L[i]
      /\ M[n + 1] = e /\ \A i \in 1..n : L[i] \in Entry
  BY <1>1, AppendFacts
<1>3. LogOK(L, w)
  BY <1>1, LogLater DEF DatabaseOK
<1>4. (n = 0 => d.lastLog = 0 /\ d.lastHash = <<>>)
        /\ (n # 0 => d.lastLog = L[n].id /\ d.lastHash = L[n].hash)
  <2>1. n = 0 <=> L = <<>>
    BY <1>1
  <2> QED
    BY <2>1 DEF DatabaseOK, Ends
<1> DEFINE D == Appended(d, e, x)
<1>0. D = [log |-> M, lastTx |-> x, lastLog |-> e.id, lastHash |-> e.hash]
  BY DEF Appended
<1>a. LogOK(L, w) /\ CountersOK(d) /\ d.log = L
  BY <1>3 DEF DatabaseOK
<1>b. \A i \in 1..n : L[i].id \in Nat /\ L[i].tx \in Nat /\ Mark(L[i]) \in Nat
  BY <1>2 DEF Mark, Entry, Data
<1> HIDE DEF L, M, n, D
<1>5. /\ d.lastHash \in Seq(Data) /\ e.hash \in Seq(Data) /\ e.data \in Data
      /\ d.lastLog \in Nat /\ d.lastTx \in Nat /\ e.id \in Nat /\ e.tx \in Nat
  BY DEF Database, Entry
<1>6. Len(d.lastHash) = n
  BY <1>1, <1>2, <1>3, <1>4 DEF LogOK
<1>7. VerifyLog(M)
  <2> SUFFICES ASSUME NEW i \in 1..n + 1
               PROVE  VerifyEntry(M, i)
    BY <1>2 DEF VerifyLog
  <2>1. CASE i \in 1..n
    <3>1. VerifyEntry(L, i)
      BY <1>2, <1>3, <2>1 DEF LogOK, VerifyLog
    <3>2. M[i] = L[i] /\ (i # 1 => M[i - 1] = L[i - 1])
      BY <1>2, <2>1
    <3> QED
      BY <3>1, <3>2 DEF VerifyEntry
  <2>2. CASE i = n + 1
    <3>1. M[i] = e /\ (i # 1 => M[i - 1] = L[n] /\ n # 0) /\ (i = 1 => n = 0)
      BY <1>2, <2>2
    <3> QED
      BY <3>1, <1>4, <1>5 DEF VerifyEntry, Fits
  <2> QED
    BY <2>1, <2>2, <1>2
<1>8. \A i \in DOMAIN M : EntryOK(M[i], w) /\ Len(M[i].hash) = i
  <2>1. Len(e.hash) = n + 1
    BY <1>5, <1>6, AppendFacts DEF Fits, ChainHash
  <2> QED
    BY <1>2, <1>3, <2>1 DEF LogOK, Fits
<1>9. \A i \in DOMAIN M : \A j \in 1..i - 1 : M[j].id < M[i].id
  <2> SUFFICES ASSUME NEW i \in 1..n + 1, NEW j \in 1..i - 1
               PROVE  M[j].id < M[i].id
    BY <1>2
  <2>1. CASE i \in 1..n
    <3>1. i \in DOMAIN L /\ j \in 1..n /\ M[i] = L[i] /\ M[j] = L[j]
      BY <1>2, <2>1
    <3>2. L[j].id < L[i].id
      BY <1>a, <3>1 DEF LogOK
    <3> QED
      BY <3>1, <3>2
  <2>2. CASE i = n + 1
    <3>1. M[i] = e /\ M[j] = L[j] /\ j \in 1..n /\ n # 0
      BY <1>2, <2>2
    <3>2. L[j].id <= L[n].id
      <4>1. CASE j = n
        BY <4>1, <3>1, <1>b
      <4>2. CASE j # n
        <5>1. n \in DOMAIN L /\ j \in 1..n - 1
          BY <4>2, <3>1, <1>2
        <5>2. L[j].id \in Nat /\ L[n].id \in Nat
          BY <1>b, <1>2, <3>1
        <5> QED
          BY <1>3, <5>1, <5>2 DEF LogOK
      <4> QED
        BY <4>1, <4>2
    <3>3. L[j].id \in Nat
      BY <1>b, <3>1
    <3> QED
      BY <3>1, <3>2, <3>3, <1>4, <1>5 DEF Fits
  <2> QED
    BY <2>1, <2>2, <1>2
<1>10. LogOK(M, w)
  BY <1>7, <1>8, <1>9 DEF LogOK
<1>11. D.log = M /\ D.lastTx = x /\ D.lastLog = e.id /\ D.lastHash = e.hash
  BY <1>0
<1>12. D \in Database
  BY <1>0, <1>2, <1>5 DEF Database
<1>13. Ends(M, e.id, e.hash)
  BY <1>2 DEF Ends
<1>14. CountersOK(D)
  <2>1. ASSUME NEW i \in DOMAIN M
        PROVE  M[i].tx <= x /\ Mark(M[i]) <= x
    <3>1. CASE i \in 1..n
      <4>1. L[i].tx <= d.lastTx /\ Mark(L[i]) <= d.lastTx /\ d.lastTx <= x
        BY <1>2, <1>a, <3>1 DEF CountersOK, Fits
      <4>2. L[i].tx \in Nat /\ Mark(L[i]) \in Nat /\ d.lastTx \in Nat
        BY <3>1, <1>5, <1>b
      <4>3. M[i] = L[i]
        BY <3>1, <1>2
      <4> QED
        BY <4>1, <4>2, <4>3
    <3>2. CASE i = n + 1
      BY <3>2, <1>2 DEF Fits
    <3> QED
      BY <3>1, <3>2, <1>2, <2>1
  <2>2. x = 0 \/ \E i \in DOMAIN M : Mark(M[i]) = x
    <3>1. CASE x = Mark(e)
      BY <1>2, <3>1
    <3>2. CASE x = d.lastTx
      BY <1>2, <1>a, <3>2 DEF CountersOK
    <3> QED
      BY <3>1, <3>2 DEF Fits
  <2> QED
    BY <1>11, <2>1, <2>2 DEF CountersOK, Fits
<1> QED
  BY <1>10, <1>11, <1>12, <1>13, <1>14 DEF DatabaseOK, D

\* An entry that fits the end of one log and has the hash of an entry of
\* another follows the same history, and is the same entry: a write carries its
\* nonce, and a recovery entry says where it stands.
LEMMA AppendAgrees ==
  ASSUME NEW d \in Database, NEW v \in Nat, NEW w \in Nat, DatabaseOK(d, v),
         NEW e \in Entry, NEW x \in Nat, Fits(d, e, x, w),
         e.data.kind # "RECOVERY" => e.data.nonce >= v,
         NEW L \in Seq(Entry), LogOK(L, v), Agree(d.log, L)
  PROVE  Agree(Append(d.log, e), L)
<1> DEFINE K == d.log
           M == Append(K, e)
           n == Len(K)
<1>1. /\ K \in Seq(Entry) /\ n \in Nat /\ DOMAIN K = 1..n /\ DOMAIN M = 1..n + 1
      /\ \A i \in 1..n : M[i] = K[i] /\ K[i] \in Entry
      /\ M[n + 1] = e
  BY AppendFacts DEF Database
<1>2. /\ Len(L) \in Nat /\ DOMAIN L = 1..Len(L)
      /\ \A i \in 1..Len(L) : L[i] \in Entry
  OBVIOUS
<1>3. /\ n = 0 => d.lastHash = <<>>
      /\ n # 0 => d.lastHash = K[n].hash
  BY <1>1 DEF DatabaseOK, Ends
<1>4. d.lastHash \in Seq(Data) /\ e.data \in Data /\ e.hash = ChainHash(d.lastHash, e.data)
  BY DEF Database, Entry, Fits
<1>5. LogOK(K, v) /\ Agree(K, L)
  BY DEF DatabaseOK
<1> HIDE DEF K, M, n
<1> SUFFICES ASSUME NEW i \in DOMAIN M \cap DOMAIN L, M[i].hash = L[i].hash,
                    NEW j \in 1..i
             PROVE  M[j] = L[j]
  BY DEF Agree, M, K
<1>6. CASE i \in 1..n
  <2>1. K[i].hash = L[i].hash /\ i \in DOMAIN K \cap DOMAIN L /\ j \in 1..n
    BY <1>1, <1>6
  <2> QED
    BY <1>1, <1>5, <2>1 DEF Agree
<1>7. CASE i = n + 1
  <2> DEFINE p == IF i = 1 THEN <<>> ELSE L[i - 1].hash
  <2>1. p \in Seq(Data) /\ L[i].data \in Data /\ L[i] \in Entry
    <3>1. L[i] \in Entry /\ (i # 1 => L[i - 1] \in Entry)
      BY <1>1, <1>2, <1>7
    <3> QED
      BY <3>1, EntryFields
  <2>2. L[i].hash = ChainHash(p, L[i].data)
    BY DEF LogOK, VerifyLog, VerifyEntry
  <2>3. ChainHash(p, L[i].data) = ChainHash(d.lastHash, e.data)
    BY <2>2, <1>1, <1>4, <1>7
  <2>4. p = d.lastHash /\ L[i].data = e.data
    <3> HIDE DEF p
    <3> QED
      BY <2>1, <2>3, <1>4, HashInjective
  <2>5. L[i] = e
    <3>1. EntryOK(L[i], v) /\ EntryOK(e, w)
      BY DEF LogOK, Fits
    <3>2. e.data.kind = "RECOVERY"
      <4> SUFFICES ASSUME e.data.kind # "RECOVERY" PROVE FALSE
        OBVIOUS
      <4>1. e.data.nonce \in Nat
        BY <1>4 DEF Data
      <4> QED
        BY <2>4, <3>1, <4>1 DEF EntryOK
    <3>3. e.data.resumedFrom \in Nat /\ e.data.skippedThrough \in Nat
      BY <1>4, <3>2 DEF Data
    <3>4. e.id = L[i].id /\ e.tx = L[i].tx
      <4>1. e.id \in Nat /\ L[i].id \in Nat
        BY <2>1 DEF Entry
      <4> QED
        BY <2>4, <3>1, <3>2, <3>3, <4>1 DEF EntryOK
    <3>5. e.hash = L[i].hash
      BY <1>1, <1>7
    <3> QED
      BY <2>1, <2>4, <3>4, <3>5, EntryFields
  <2>6. CASE j = i
    BY <1>1, <1>7, <2>5, <2>6
  <2>7. CASE j # i
    <3>1. n # 0 /\ j \in 1..n /\ n \in DOMAIN K \cap DOMAIN L /\ i # 1 /\ i - 1 = n
      BY <1>1, <1>2, <1>7, <2>7
    <3>2. K[n].hash = L[n].hash
      BY <1>3, <2>4, <3>1
    <3> QED
      BY <1>1, <1>5, <3>1, <3>2 DEF Agree
  <2> QED
    BY <2>6, <2>7
<1> QED
  BY <1>1, <1>6, <1>7

\* The id at the end of a log is its highest.
LEMMA EndsHigh ==
  ASSUME NEW log \in Seq(Entry), NEW w, LogOK(log, w), NEW id, NEW hash, Ends(log, id, hash),
         NEW i \in DOMAIN log
  PROVE  log[i].id <= id
<1> DEFINE n == Len(log)
<1>1. n \in Nat /\ n \in DOMAIN log /\ i \in 1..n /\ log # <<>> /\ log[i] \in Entry
  OBVIOUS
<1>2. id = log[n].id /\ log[i].id \in Nat /\ log[n].id \in Nat
  BY <1>1, EntryFields DEF Ends
<1>3. i = n \/ i \in 1..n - 1
  BY <1>1
<1>4. i # n => log[i].id < log[n].id
  BY <1>1, <1>3 DEF LogOK
<1> QED
  BY <1>2, <1>4

-----------------------------------------------------------------------------
(* What the invariant says of tips.                                        *)

\* A tip whose hash stands at its id has its whole history in the log, and the
\* other way round (CheckTip).
LEMMA TipVouches ==
  ASSUME NEW d \in Database, NEW w \in Nat, DatabaseOK(d, w),
         NEW t \in Tip, TipOK(t, w), Agree(d.log, t.seen)
  PROVE  CheckTip(d, t) = "ok" <=> \A j \in DOMAIN t.seen : t.seen[j] \in Range(d.log)
<1> DEFINE K == d.log
           L == t.seen
           m == Len(L)
<1>1. /\ K \in Seq(Entry) /\ DOMAIN K = 1..Len(K) /\ Len(K) \in Nat
      /\ \A i \in DOMAIN K : K[i] \in Entry
  BY DEF Database
<1>2. /\ L \in Seq(Entry) /\ DOMAIN L = 1..m /\ m \in Nat
      /\ \A i \in DOMAIN L : L[i] \in Entry /\ L[i].id \in Nat \ {0}
  BY TipFields, EntryFields
<1>3. /\ m = 0 => t.logID = 0
      /\ m # 0 => t.logID = L[m].id /\ t.hash = L[m].hash
  BY <1>2 DEF TipOK, Ends
<1>4. \A i \in DOMAIN K : Len(K[i].hash) = i
  BY DEF DatabaseOK, LogOK
<1>5. \A i \in DOMAIN L : Len(L[i].hash) = i
  BY DEF TipOK, LogOK
<1>6. Range(K) = {K[i] : i \in DOMAIN K}
  BY DEF Range
<1> HIDE DEF K, L, m
<1>7. CASE m = 0
  BY <1>2, <1>3, <1>7 DEF CheckTip, L
<1>8. CASE m # 0
  <2>1. m \in DOMAIN L /\ t.logID # 0
    BY <1>2, <1>3, <1>8
  <2>2. CheckTip(d, t) = "ok" <=> \E i \in DOMAIN K : K[i].id = t.logID /\ K[i].hash = t.hash
    BY <2>1, <1>6 DEF CheckTip, K
  <2>3. ASSUME NEW i \in DOMAIN K, K[i].id = t.logID, K[i].hash = t.hash, NEW j \in DOMAIN L
        PROVE  L[j] \in Range(K)
    <3>1. i = m
      BY <1>3, <1>4, <1>5, <1>8, <2>1, <2>3
    <3>2. K[j] = L[j] /\ j \in DOMAIN K
      <4>1. j \in 1..m /\ m \in DOMAIN K \cap DOMAIN L /\ K[m].hash = L[m].hash
        BY <1>2, <1>3, <1>8, <2>1, <2>3, <3>1
      <4>2. \A k \in 1..m : K[k] = L[k]
        BY <4>1 DEF Agree, K, L
      <4> QED
        BY <1>1, <4>1, <4>2
    <3> QED
      BY <1>6, <3>2
  <2>4. ASSUME \A j \in DOMAIN L : L[j] \in Range(K)
        PROVE  \E i \in DOMAIN K : K[i].id = t.logID /\ K[i].hash = t.hash
    BY <1>3, <1>6, <1>8, <2>1, <2>4
  <2> QED
    BY <2>2, <2>3, <2>4 DEF K, L
<1> QED
  BY <1>7, <1>8

-----------------------------------------------------------------------------
(* The actions.                                                            *)

\* The parts of the invariant that any append keeps.
LEMMA AppendKeeps ==
  ASSUME IInv, NEW e \in Entry, NEW x \in Nat,
         writes' \in Nat, writes <= writes', Fits(db, e, x, writes'),
         e.data.kind # "RECOVERY" => e.data.nonce = writes,
         db' = Appended(db, e, x), UNCHANGED <<backup, tips>>
  PROVE  /\ db' \in Database /\ DatabaseOK(db', writes')
         /\ DatabaseOK(backup', writes')
         /\ Begins(backup'.log, db'.log)
         /\ TipsOK'
<1>1. /\ db \in Database /\ backup \in Database /\ writes \in Nat
      /\ DatabaseOK(db, writes) /\ DatabaseOK(backup, writes)
      /\ Begins(backup.log, db.log) /\ TipsOK
      /\ \A n \in DOMAIN tips : tips[n] \in Tip
  BY DEF IInv, TypeOK
<1>2. db' \in Database /\ DatabaseOK(db', writes')
  BY <1>1, AppendOK
<1>3. db'.log = Append(db.log, e)
  BY DEF Appended
<1>4. DatabaseOK(backup', writes')
  <2>1. backup.log \in Seq(Entry)
    BY <1>1 DEF Database
  <2> QED
    BY <1>1, <2>1, LogLater DEF DatabaseOK
<1>5. Begins(backup'.log, db'.log)
  <2>1. db.log \in Seq(Entry) /\ backup.log \in Seq(Entry)
    BY <1>1 DEF Database
  <2> QED
    BY <1>1, <1>3, <2>1, AppendFacts DEF Begins
<1>6. TipsOK'
  <2> SUFFICES ASSUME NEW n \in DOMAIN tips
               PROVE  TipOK(tips[n], writes') /\ Agree(db'.log, tips[n].seen)
    BY DEF TipsOK
  <2>1. tips[n] \in Tip /\ TipOK(tips[n], writes) /\ Agree(db.log, tips[n].seen)
    BY <1>1 DEF TipsOK
  <2>2. tips[n].seen \in Seq(Entry)
    BY <2>1, TipFields
  <2>3. TipOK(tips[n], writes')
    BY <1>1, <2>1, <2>2, LogLater DEF TipOK
  <2>4. Agree(Append(db.log, e), tips[n].seen)
    <3>1. LogOK(tips[n].seen, writes)
      BY <2>1 DEF TipOK
    <3>2. e.data.kind # "RECOVERY" => e.data.nonce >= writes
      BY <1>1
    <3> QED
      BY <1>1, <2>1, <2>2, <3>1, <3>2, AppendAgrees
  <2> QED
    BY <1>3, <2>3, <2>4
<1> QED
  BY <1>2, <1>4, <1>5, <1>6

\* An entry that keeps the meaning of ids keeps it for the log it is added to.
LEMMA AppendMeans ==
  ASSUME IInv, careful, NEW e \in Entry, NEW x \in Nat, db' = Appended(db, e, x),
         NEW n \in DOMAIN tips, KeepsEntry(e, tips[n])
  PROVE  Keeps(db', tips[n])
<1>1. db.log \in Seq(Entry) /\ Keeps(db, tips[n])
  BY DEF IInv, TypeOK, Database, CarefulOK
<1>2. db'.log = Append(db.log, e)
  BY DEF Appended
<1> QED
  BY <1>1, <1>2, AppendFacts DEF Keeps

\* An id above the counters is new to every tip they are past.
LEMMA ClearMeans ==
  ASSUME NEW d \in Database, NEW t \in Tip, Clear(d, t), NEW e \in Entry,
         e.id > d.lastLog, e.tx = 0 \/ e.tx > d.lastTx
  PROVE  KeepsEntry(e, t)
<1>1. d.lastLog \in Nat /\ d.lastTx \in Nat
  BY DEF Database
<1>2. \A j \in DOMAIN t.seen : t.seen[j].tx \in Nat
  BY TipFields, EntryFields
<1> QED
  BY <1>1, <1>2, TipFields, EntryFields DEF Clear, KeepsEntry

\* Counters that grow stay past what they were past.
LEMMA ClearGrows ==
  ASSUME NEW d \in Database, NEW b \in Database, NEW t \in Tip, Clear(d, t),
         d.lastLog <= b.lastLog, d.lastTx <= b.lastTx
  PROVE  Clear(b, t)
<1>1. /\ d.lastLog \in Nat /\ d.lastTx \in Nat /\ b.lastLog \in Nat /\ b.lastTx \in Nat
  BY DEF Database
<1>2. \A j \in DOMAIN t.seen : t.seen[j].tx \in Nat
  BY TipFields, EntryFields
<1> QED
  BY <1>1, <1>2, TipFields DEF Clear

\* The entry a write appends: a commit takes both ids, a change of metadata one.
WriteEntry(tx, kind) ==
  [id |-> db.lastLog + 1, tx |-> tx, data |-> [kind |-> kind, nonce |-> writes],
   hash |-> ChainHash(db.lastHash, [kind |-> kind, nonce |-> writes])]

\* A write of either kind.
LEMMA WriteKeeps ==
  ASSUME IInv, Written, NEW kind \in {"NEW_TRANSACTION", "SET_METADATA"},
         NEW tx \in Nat, NEW x \in Nat,
         (tx = 0 /\ x = db.lastTx) \/ (tx = db.lastTx + 1 /\ x = tx),
         db' = Appended(db, WriteEntry(tx, kind), x)
  PROVE  IInv'
<1> DEFINE e == WriteEntry(tx, kind)
<1>1. /\ db \in Database /\ DatabaseOK(db, writes) /\ writes \in Nat
      /\ db.lastLog \in Nat /\ db.lastTx \in Nat /\ db.lastHash \in Seq(Data)
      /\ db.lastTx <= db.lastLog
      /\ \A n \in DOMAIN tips : tips[n] \in Tip
  BY DEF IInv, TypeOK, Database, DatabaseOK, CountersOK
<1>2. [kind |-> kind, nonce |-> writes] \in Data
  BY <1>1 DEF Data
<1>3. /\ e.id = db.lastLog + 1 /\ e.tx = tx /\ e.data = [kind |-> kind, nonce |-> writes]
      /\ e.hash = ChainHash(db.lastHash, e.data)
  BY DEF WriteEntry
<1>4. e.hash \in Seq(Data) /\ e.data \in Data
  BY <1>1, <1>2, <1>3, AppendFacts DEF ChainHash
<1>5. e \in Entry
  BY <1>1, <1>3, <1>4 DEF Entry, WriteEntry
<1>6. writes' = writes + 1 /\ UNCHANGED <<backup, tips, watermark, unchecked, restores>>
  BY DEF Written
<1>7. e.data.kind # "RECOVERY" /\ e.data.nonce = writes
  BY <1>3
<1> HIDE DEF e
<1>8. Fits(db, e, x, writes')
  BY <1>1, <1>3, <1>6, <1>7 DEF Fits, EntryOK, Mark
<1>9. db' = Appended(db, e, x)
  BY DEF e
<1>10. /\ db' \in Database /\ DatabaseOK(db', writes')
       /\ DatabaseOK(backup', writes') /\ Begins(backup'.log, db'.log) /\ TipsOK'
  BY <1>1, <1>5, <1>6, <1>7, <1>8, <1>9, AppendKeeps
<1>11. ASSUME careful' PROVE CarefulOK'
  <2>1. careful /\ ~unchecked /\ CarefulOK
    BY <1>11 DEF Written, IInv
  <2> SUFFICES ASSUME NEW n \in DOMAIN tips
               PROVE  /\ Keeps(db', tips[n])
                      /\ Clear(db', tips[n])
                      /\ Supersedes(tips[Len(tips)], tips[n])
    BY <1>6 DEF CarefulOK
  <2>2. Clear(db, tips[n]) /\ tips[n] \in Tip
    BY <1>1, <2>1 DEF CarefulOK
  <2>3. KeepsEntry(e, tips[n])
    BY <1>1, <1>3, <1>5, <2>2, ClearMeans
  <2>4. db'.lastLog = e.id /\ db'.lastTx = x
    BY <1>9 DEF Appended
  <2>5. Clear(db', tips[n])
    BY <1>1, <1>3, <1>10, <2>2, <2>4, ClearGrows
  <2> QED
    BY <1>5, <1>9, <2>1, <2>3, <2>5, AppendMeans DEF CarefulOK
<1>12. WatermarkOK'
  BY <1>6 DEF IInv, WatermarkOK
<1>13. TypeOK'
  BY <1>1, <1>6, <1>10 DEF IInv, TypeOK, Written
<1> QED
  BY <1>10, <1>11, <1>12, <1>13 DEF IInv

\* A commit takes both ids.
LEMMA CommitKeeps == IInv /\ CommitTransaction => IInv'
<1> SUFFICES ASSUME IInv, CommitTransaction PROVE IInv'
  OBVIOUS
<1>1. db \in Database /\ db.lastTx \in Nat
  BY DEF IInv, TypeOK, Database
<1>2. db' = Appended(db, WriteEntry(db.lastTx + 1, "NEW_TRANSACTION"), db.lastTx + 1)
  BY <1>1 DEF CommitTransaction, InsertLog, Appended, WriteEntry, Database
<1> QED
  BY <1>1, <1>2, WriteKeeps DEF CommitTransaction

\* A change of metadata takes a log id only.
LEMMA MetadataKeeps == IInv /\ SetMetadata => IInv'
<1> SUFFICES ASSUME IInv, SetMetadata PROVE IInv'
  OBVIOUS
<1>1. db \in Database /\ db.lastTx \in Nat
  BY DEF IInv, TypeOK, Database
<1>2. db' = Appended(db, WriteEntry(0, "SET_METADATA"), db.lastTx)
  BY <1>1 DEF SetMetadata, InsertLog, Appended, WriteEntry, Database
<1>3. Written /\ 0 \in Nat /\ "SET_METADATA" \in {"NEW_TRANSACTION", "SET_METADATA"}
  BY DEF SetMetadata
<1> QED
  BY <1>1, <1>2, <1>3, WriteKeeps

\* A backup is the database it was taken of.
LEMMA BackupKeeps == IInv /\ Backup => IInv'
<1> SUFFICES ASSUME IInv, Backup PROVE IInv'
  OBVIOUS
<1>1. backup' = db /\ UNCHANGED <<db, tips, watermark, unchecked, careful, writes, restores>>
  BY DEF Backup
<1>2. Begins(db.log, db.log)
  <2>1. db.log \in Seq(Entry)
    BY DEF IInv, TypeOK, Database
  <2> QED
    BY <2>1 DEF Begins
<1>3. TypeOK' /\ DatabaseOK(backup', writes') /\ DatabaseOK(db', writes')
      /\ Begins(backup'.log, db'.log)
  BY <1>1, <1>2 DEF IInv, TypeOK
<1>4. TipsOK' /\ WatermarkOK' /\ (careful' => CarefulOK')
  BY <1>1 DEF IInv, TipsOK, WatermarkOK, CarefulOK
<1> QED
  BY <1>3, <1>4 DEF IInv

\* A restore takes the log back to a beginning of itself.
LEMMA RestoreKeeps == IInv /\ Restore => IInv'
<1> SUFFICES ASSUME IInv, Restore PROVE IInv'
  OBVIOUS
<1>1. /\ db' = backup /\ unchecked' = TRUE /\ watermark' = [o \in Operator |-> NoTip]
      /\ restores' = restores + 1
      /\ UNCHANGED <<backup, tips, careful, writes>>
  BY DEF Restore
<1>2. /\ db \in Database /\ backup \in Database /\ Begins(backup.log, db.log)
      /\ DatabaseOK(backup, writes) /\ TipsOK /\ TypeOK
  BY DEF IInv, TypeOK
<1>3. /\ backup.log \in Seq(Entry) /\ db.log \in Seq(Entry)
      /\ DOMAIN backup.log \subseteq DOMAIN db.log
      /\ \A i \in DOMAIN backup.log : backup.log[i] = db.log[i]
      /\ \A i \in DOMAIN backup.log : \A j \in 1..i : j \in DOMAIN backup.log
  <2>1. backup.log \in Seq(Entry) /\ db.log \in Seq(Entry)
    BY <1>2 DEF Database
  <2> QED
    BY <1>2, <2>1 DEF Begins
<1>4. TypeOK'
  BY <1>1, <1>2 DEF TypeOK
<1>5. Begins(backup'.log, db'.log)
  BY <1>1, <1>3 DEF Begins
<1>6. TipsOK'
  <2> SUFFICES ASSUME NEW n \in DOMAIN tips
               PROVE  TipOK(tips[n], writes) /\ Agree(backup.log, tips[n].seen)
    BY <1>1 DEF TipsOK
  <2>1. TipOK(tips[n], writes) /\ Agree(db.log, tips[n].seen)
    BY <1>2 DEF TipsOK
  <2> QED
    BY <1>3, <2>1 DEF Agree
<1>7. WatermarkOK'
  BY <1>1 DEF WatermarkOK
<1>8. careful' => CarefulOK'
  <2> SUFFICES ASSUME careful, NEW n \in DOMAIN tips
               PROVE  Keeps(backup, tips[n]) /\ Supersedes(tips[Len(tips)], tips[n])
    BY <1>1 DEF CarefulOK
  <2>1. Keeps(db, tips[n]) /\ Supersedes(tips[Len(tips)], tips[n])
    BY DEF IInv, CarefulOK
  <2> QED
    BY <1>3, <2>1 DEF Keeps
<1> QED
  BY <1>1, <1>2, <1>4, <1>5, <1>6, <1>7, <1>8 DEF IInv

\* A tip is recorded of a ledger that nobody doubts: it agrees with the log and
\* supersedes the tips before it.
LEMMA RecordTipKeeps == IInv /\ RecordTip => IInv'
<1> SUFFICES ASSUME IInv, RecordTip PROVE IInv'
  OBVIOUS
<1> DEFINE t == [logID |-> db.lastLog, hash |-> db.lastHash, seen |-> db.log]
           m == Len(tips)
<1>1. /\ tips' = Append(tips, t) /\ ~unchecked
      /\ UNCHANGED <<db, backup, watermark, unchecked, careful, writes, restores>>
  BY DEF RecordTip
<1>2. /\ db \in Database /\ DatabaseOK(db, writes) /\ tips \in Seq(Tip) /\ TypeOK
      /\ db.lastLog \in Nat /\ db.lastTx \in Nat /\ db.log \in Seq(Entry)
      /\ db.lastHash \in Seq(Data)
  BY DEF IInv, TypeOK, Database
<1>3. t \in Tip /\ t.logID = db.lastLog /\ t.hash = db.lastHash /\ t.seen = db.log
  BY <1>2 DEF Tip
<1>4. \A i \in DOMAIN db.log : db.log[i] \in Entry /\ db.log[i].tx \in Nat /\ Mark(db.log[i]) \in Nat
  BY <1>2, EntryFields
<1> HIDE DEF t
<1>5. TipOK(t, writes) /\ Agree(db.log, t.seen)
  <2>1. \A i \in DOMAIN t.seen : t.seen[i].tx <= t.logID
    BY <1>2, <1>3, <1>4 DEF DatabaseOK, CountersOK
  <2> QED
    BY <1>2, <1>3, <2>1 DEF DatabaseOK, TipOK, Agree
<1>6. /\ tips' \in Seq(Tip) /\ m \in Nat /\ DOMAIN tips = 1..m /\ DOMAIN tips' = 1..m + 1
      /\ Len(tips') = m + 1
      /\ \A n \in 1..m : tips'[n] = tips[n] /\ tips[n] \in Tip
      /\ tips'[m + 1] = t
  BY <1>1, <1>2, <1>3, AppendFacts
<1> HIDE DEF m
<1>7. TypeOK'
  BY <1>1, <1>2, <1>6 DEF TypeOK
<1>8. TipsOK'
  <2> SUFFICES ASSUME NEW n \in 1..m + 1
               PROVE  TipOK(tips'[n], writes) /\ Agree(db.log, tips'[n].seen)
    BY <1>1, <1>6 DEF TipsOK
  <2>1. CASE n \in 1..m
    BY <1>6, <2>1 DEF IInv, TipsOK
  <2>2. CASE n = m + 1
    BY <1>5, <1>6, <2>2
  <2> QED
    BY <2>1, <2>2, <1>6
<1>9. WatermarkOK'
  <2> SUFFICES ASSUME NEW o \in Operator, watermark[o] # NoTip
               PROVE  \E n \in DOMAIN tips' : watermark[o] = tips'[n]
    BY <1>1 DEF WatermarkOK
  <2>1. PICK n \in DOMAIN tips : watermark[o] = tips[n]
    BY DEF IInv, WatermarkOK
  <2> QED
    BY <1>6, <2>1
<1>10. ASSUME careful PROVE CarefulOK'
  <2>0. CarefulOK
    BY <1>10 DEF IInv
  <2> SUFFICES ASSUME NEW n \in 1..m + 1
               PROVE  Keeps(db, tips'[n]) /\ Clear(db, tips'[n]) /\ Supersedes(t, tips'[n])
    BY <1>1, <1>6 DEF CarefulOK
  <2>1. Keeps(db, tips'[n]) /\ Clear(db, tips'[n]) /\ tips'[n] \in Tip
    <3>1. CASE n \in 1..m
      BY <1>1, <1>6, <2>0, <3>1 DEF CarefulOK
    <3>2. CASE n = m + 1
      <4>1. Keeps(db, t)
        BY <1>3 DEF Keeps, KeepsEntry
      <4>2. Clear(db, t)
        BY <1>2, <1>3 DEF Clear, DatabaseOK, CountersOK
      <4> QED
        BY <1>3, <1>6, <3>2, <4>1, <4>2
    <3> QED
      BY <3>1, <3>2, <1>6
  <2>2. Supersedes(t, tips'[n])
    <3>1. tips'[n].logID <= t.logID
      BY <1>3, <2>1 DEF Clear
    <3>2. ASSUME NEW i \in DOMAIN tips'[n].seen, tips'[n].seen[i].tx # 0
          PROVE  \E j \in DOMAIN t.seen : tips'[n].seen[i].tx <= Mark(t.seen[j])
      <4>1. tips'[n].seen[i].tx \in Nat /\ tips'[n].seen[i].tx <= db.lastTx
        BY <2>1, <3>2, TipFields, EntryFields DEF Clear
      <4>2. \E j \in DOMAIN db.log : Mark(db.log[j]) = db.lastTx
        BY <1>2, <3>2, <4>1 DEF DatabaseOK, CountersOK
      <4> QED
        BY <1>3, <4>1, <4>2
    <3> QED
      BY <3>1, <3>2 DEF Supersedes
  <2> QED
    BY <2>1, <2>2
<1> QED
  BY <1>1, <1>7, <1>8, <1>9, <1>10 DEF IInv

\* A check that passes leaves the counters past everything any tip saw: the
\* newest tip is in the log, and it is past the others (CheckTip).
LEMMA CheckKeeps == IInv /\ RecoverCheck => IInv'
<1> SUFFICES ASSUME IInv, RecoverCheck PROVE IInv'
  OBVIOUS
<1>1. /\ unchecked' = FALSE /\ (tips # <<>> => CheckTip(db, Last(tips)) = "ok")
      /\ UNCHANGED <<db, backup, tips, watermark, careful, writes, restores>>
  BY DEF RecoverCheck
<1>2. /\ db \in Database /\ DatabaseOK(db, writes) /\ tips \in Seq(Tip) /\ TypeOK
      /\ db.lastLog \in Nat /\ db.lastTx \in Nat /\ db.log \in Seq(Entry) /\ writes \in Nat
      /\ TipsOK
  BY DEF IInv, TypeOK, Database
<1>3. TypeOK' /\ TipsOK' /\ WatermarkOK'
  BY <1>1, <1>2 DEF IInv, TypeOK, TipsOK, WatermarkOK
<1>4. ASSUME careful PROVE CarefulOK'
  <2>1. CarefulOK
    BY <1>4 DEF IInv
  <2> SUFFICES ASSUME NEW n \in DOMAIN tips
               PROVE  Clear(db, tips[n])
    BY <1>1, <2>1 DEF CarefulOK
  <2> DEFINE new == tips[Len(tips)]
             old == tips[n]
  <2>2. /\ tips # <<>> /\ Len(tips) \in DOMAIN tips /\ new \in Tip /\ old \in Tip
        /\ Last(tips) = new
    BY <1>2 DEF Last
  <2>3. Supersedes(new, old)
    BY <2>1 DEF CarefulOK
  <2>4. TipOK(new, writes) /\ Agree(db.log, new.seen) /\ CheckTip(db, new) = "ok"
    BY <1>1, <1>2, <2>2 DEF TipsOK
  <2>5. old.logID \in Nat /\ new.logID \in Nat
        /\ \A i \in DOMAIN old.seen : old.seen[i].tx \in Nat
    BY <2>2, TipFields, EntryFields
  <2>6. new.seen \in Seq(Entry)
        /\ \A j \in DOMAIN new.seen : Mark(new.seen[j]) \in Nat /\ new.seen[j].id \in Nat
    BY <2>2, TipFields, EntryFields
  <2> HIDE DEF new, old
  <2>7. \A j \in DOMAIN new.seen : \E i \in DOMAIN db.log : new.seen[j] = db.log[i]
    BY <1>2, <2>2, <2>4, TipVouches DEF Range
  <2>8. \A j \in DOMAIN new.seen : Mark(new.seen[j]) <= db.lastTx
    BY <1>2, <2>7 DEF DatabaseOK, CountersOK
  <2>9. \A i \in DOMAIN db.log : db.log[i].id <= db.lastLog
    BY <1>2, EndsHigh DEF DatabaseOK
  <2>10. new.logID <= db.lastLog
    <3>1. CASE new.seen = <<>>
      BY <1>2, <2>4, <3>1 DEF TipOK, Ends
    <3>2. CASE new.seen # <<>>
      <4>1. new.logID = new.seen[Len(new.seen)].id /\ Len(new.seen) \in DOMAIN new.seen
        BY <2>4, <2>6, <3>2 DEF TipOK, Ends
      <4> QED
        BY <2>7, <2>9, <4>1
    <3> QED
      BY <3>1, <3>2
  <2>11. \A i \in DOMAIN old.seen : old.seen[i].tx <= db.lastTx
    BY <1>2, <2>3, <2>5, <2>6, <2>8 DEF Supersedes
  <2>12. old.logID <= db.lastLog
    BY <1>2, <2>3, <2>5, <2>10 DEF Supersedes
  <2> QED
    BY <2>11, <2>12 DEF Clear, old
<1> QED
  BY <1>1, <1>3, <1>4 DEF IInv

\* A look without the lock changes what one operator works from.
LEMMA ResumeReadKeeps ==
  ASSUME IInv, NEW o \in Operator, ResumeRead(o)
  PROVE  IInv'
<1>1. /\ tips # <<>> /\ watermark' = [watermark EXCEPT ![o] = Last(tips)]
      /\ UNCHANGED <<db, backup, tips, unchecked, careful, writes, restores>>
  BY DEF ResumeRead
<1>2. tips \in Seq(Tip) /\ TypeOK /\ watermark \in [Operator -> Tip \cup {NoTip}]
  BY DEF IInv, TypeOK
<1>3. Last(tips) = tips[Len(tips)] /\ Len(tips) \in DOMAIN tips /\ Last(tips) \in Tip
  BY <1>1, <1>2 DEF Last
<1>4. TypeOK'
  BY <1>1, <1>2, <1>3 DEF TypeOK
<1>5. WatermarkOK'
  BY <1>1, <1>2, <1>3 DEF IInv, WatermarkOK
<1>6. TipsOK' /\ (careful' => CarefulOK')
  BY <1>1 DEF IInv, TipsOK, CarefulOK
<1> QED
  BY <1>1, <1>4, <1>5, <1>6 DEF IInv

\* The entry of a recovery, and the transaction counter it leaves.
RecoveryEntry(t) ==
  LET top == IF db.lastLog > t.logID THEN db.lastLog ELSE t.logID
  IN  [id |-> top + 1, tx |-> 0, data |-> RecoveryPayload(db, t),
       hash |-> ChainHash(db.lastHash, RecoveryPayload(db, t))]

RecoveryTx(t) == IF db.lastTx > WatermarkTx(t) THEN db.lastTx ELSE WatermarkTx(t)

\* A recovery leaves a gap and declares it, above every id any tip has seen:
\* the tip it works from is the newest, or the ledger is past them all.
LEMMA RecoveryKeeps ==
  ASSUME IInv, NEW o \in Operator, RecordRecovery(o)
  PROVE  IInv'
<1> DEFINE t == watermark[o]
<1>1. /\ t # NoTip /\ db' = (IF Past(db, t) THEN db ELSE Recovered(db, t))
      /\ unchecked' = FALSE /\ watermark' = [watermark EXCEPT ![o] = NoTip]
      /\ UNCHANGED <<backup, tips, careful, writes, restores>>
  BY DEF RecordRecovery, StillShort
<1>2. /\ TypeOK /\ db \in Database /\ db.lastLog \in Nat /\ db.lastTx \in Nat
      /\ db.lastHash \in Seq(Data) /\ writes \in Nat
      /\ tips \in Seq(Tip) /\ DatabaseOK(db, writes) /\ db.lastTx <= db.lastLog
      /\ watermark \in [Operator -> Tip \cup {NoTip}]
  BY DEF IInv, TypeOK, Database, DatabaseOK, CountersOK
<1>3. PICK k \in DOMAIN tips : t = tips[k] /\ (unchecked => t = tips[Len(tips)])
  BY <1>1 DEF IInv, WatermarkOK
<1>4. t \in Tip /\ t.logID \in Nat /\ \A n \in DOMAIN tips : tips[n] \in Tip
  BY <1>2, <1>3, TipFields
<1> DEFINE e == RecoveryEntry(t)
           x == RecoveryTx(t)
<1>5. /\ e.id = (IF db.lastLog > t.logID THEN db.lastLog ELSE t.logID) + 1
      /\ e.tx = 0
      /\ e.data = [kind |-> "RECOVERY", resumedFrom |-> db.lastLog, skippedThrough |-> t.logID]
      /\ e.hash = ChainHash(db.lastHash, e.data)
      /\ x = (IF db.lastTx > t.logID THEN db.lastTx ELSE t.logID)
  BY DEF RecoveryEntry, RecoveryPayload, RecoveryTx, WatermarkTx
<1>6. e \in Entry /\ x \in Nat
  <2>1. e.data \in Data
    BY <1>2, <1>4, <1>5 DEF Data
  <2>2. e.hash \in Seq(Data)
    BY <1>2, <1>5, <2>1, AppendFacts DEF ChainHash
  <2>3. e.id \in Nat \ {0} /\ e.tx \in Nat /\ x \in Nat
    BY <1>2, <1>4, <1>5
  <2>4. e = [id |-> e.id, tx |-> e.tx, data |-> e.data, hash |-> e.hash]
    BY DEF RecoveryEntry
  <2> HIDE DEF e, x
  <2> QED
    BY <2>1, <2>2, <2>3, <2>4 DEF Entry
<1>7. ~Past(db, t) => db' = Appended(db, e, x)
  BY <1>1, <1>2 DEF Recovered, InsertLog, Appended, RecoveryEntry, RecoveryTx, Database
<1>8. Past(db, t) <=> db.lastLog >= t.logID /\ db.lastTx >= t.logID
  BY DEF Past, WatermarkTx
<1> HIDE DEF e, x
<1>9. Fits(db, e, x, writes)
  <2>1. /\ e.data.kind = "RECOVERY" /\ e.data.resumedFrom = db.lastLog
        /\ e.data.skippedThrough = t.logID /\ Mark(e) = t.logID
    BY <1>5 DEF Mark
  <2>2. e.id = db.lastLog + 1 \/ Declares(e, db.lastLog + 1)
    BY <1>2, <1>4, <1>5, <2>1 DEF Declares
  <2>3. EntryOK(e, writes)
    BY <1>2, <1>4, <1>5, <2>1 DEF EntryOK
  <2>4. x >= db.lastTx /\ x <= e.id /\ e.tx <= x /\ Mark(e) <= x /\ (x = db.lastTx \/ x = Mark(e))
        /\ e.id > db.lastLog
    BY <1>2, <1>4, <1>5, <2>1
  <2> QED
    BY <1>5, <2>2, <2>3, <2>4 DEF Fits
<1>10. /\ db' \in Database /\ DatabaseOK(db', writes')
       /\ DatabaseOK(backup', writes') /\ Begins(backup'.log, db'.log) /\ TipsOK'
  <2>1. CASE Past(db, t)
    BY <1>1, <2>1 DEF IInv, TypeOK, TipsOK
  <2>2. CASE ~Past(db, t)
    <3>1. writes' \in Nat /\ writes <= writes' /\ Fits(db, e, x, writes')
      BY <1>1, <1>2, <1>9
    <3>2. e.data.kind = "RECOVERY" /\ UNCHANGED <<backup, tips>>
      BY <1>1, <1>5
    <3> QED
      BY <1>6, <1>7, <2>2, <3>1, <3>2, AppendKeeps
  <2> QED
    BY <2>1, <2>2
<1>11. TypeOK'
  BY <1>1, <1>2, <1>10 DEF TypeOK
<1>12. WatermarkOK'
  BY <1>1, <1>2 DEF IInv, WatermarkOK
<1>13. ASSUME careful PROVE CarefulOK'
  <2>1. CarefulOK
    BY <1>13 DEF IInv
  <2> SUFFICES ASSUME NEW n \in DOMAIN tips
               PROVE  Keeps(db', tips[n]) /\ Clear(db', tips[n])
    BY <1>1, <2>1 DEF CarefulOK
  <2>2. /\ tips[n] \in Tip /\ tips[n].logID \in Nat
        /\ \A i \in DOMAIN tips[n].seen : tips[n].seen[i].tx \in Nat
                                          /\ tips[n].seen[i].tx <= tips[n].logID
    BY <1>4, TipFields, EntryFields DEF IInv, TipsOK, TipOK
  <2>3. db'.lastLog \in Nat /\ db'.lastTx \in Nat
    BY <1>10 DEF Database
  <2>4. /\ db'.lastLog >= db.lastLog /\ db'.lastTx >= db.lastTx
        /\ db'.lastLog >= t.logID /\ db'.lastTx >= t.logID
    <3>1. CASE Past(db, t)
      BY <1>1, <1>2, <1>8, <3>1
    <3>2. CASE ~Past(db, t)
      <4>1. db'.lastLog = e.id /\ db'.lastTx = x
        BY <1>7, <3>2 DEF Appended
      <4> QED
        BY <1>2, <1>4, <1>5, <4>1
    <3> QED
      BY <3>1, <3>2
  <2>5. CASE ~unchecked
    <3>1. Clear(db, tips[n]) /\ Keeps(db, tips[n])
      BY <2>1, <2>5 DEF CarefulOK
    <3>2. Clear(db', tips[n])
      BY <1>2, <1>10, <2>2, <2>4, <3>1, ClearGrows
    <3>3. KeepsEntry(e, tips[n])
      <4>1. e.id > db.lastLog /\ e.tx = 0
        BY <1>2, <1>4, <1>5
      <4> QED
        BY <1>2, <1>6, <2>2, <3>1, <4>1, ClearMeans
    <3>4. Keeps(db', tips[n])
      BY <1>1, <1>6, <1>7, <1>13, <3>1, <3>3, AppendMeans
    <3> QED
      BY <3>2, <3>4
  <2>6. CASE unchecked
    <3>1. tips[n].logID <= t.logID /\ Keeps(db, tips[n])
      BY <1>3, <2>1, <2>6 DEF CarefulOK, Supersedes
    <3>2. Clear(db', tips[n])
      BY <1>4, <2>2, <2>3, <2>4, <3>1 DEF Clear
    <3>3. KeepsEntry(e, tips[n])
      BY <1>2, <1>4, <1>5, <2>2, <3>1 DEF KeepsEntry
    <3>4. Keeps(db', tips[n])
      BY <1>1, <1>6, <1>7, <1>13, <3>1, <3>3, AppendMeans
    <3> QED
      BY <3>2, <3>4
  <2> QED
    BY <2>5, <2>6
<1> QED
  BY <1>1, <1>10, <1>11, <1>12, <1>13 DEF IInv

-----------------------------------------------------------------------------
(* The theorems.                                                           *)

\* A new ledger is well formed (CreateLedger).
LEMMA InitIInv == Init => IInv
<1> SUFFICES ASSUME Init PROVE IInv
  OBVIOUS
<1>1. Empty \in Database /\ Empty.log = <<>> /\ Empty.lastTx = 0 /\ Empty.lastLog = 0
      /\ Empty.lastHash = <<>>
  BY DEF Empty, Database
<1>2. DatabaseOK(Empty, 0)
  BY <1>1 DEF DatabaseOK, LogOK, VerifyLog, Ends, CountersOK
<1>3. Begins(<<>>, <<>>)
  BY DEF Begins
<1>4. TypeOK
  <2>1. tips \in Seq(Tip) /\ watermark \in [Operator -> Tip \cup {NoTip}]
    BY DEF Init
  <2>2. unchecked \in BOOLEAN /\ careful \in BOOLEAN
    BY Zenon DEF Init
  <2>3. writes \in Nat /\ restores \in Nat /\ db \in Database /\ backup \in Database
    BY <1>1 DEF Init
  <2> QED
    BY <2>1, <2>2, <2>3 DEF TypeOK
<1>5. TipsOK /\ WatermarkOK /\ CarefulOK
  BY DEF Init, TipsOK, WatermarkOK, CarefulOK
<1> QED
  BY <1>1, <1>2, <1>3, <1>4, <1>5 DEF Init, IInv

\* Every step keeps the invariant.
LEMMA StepIInv == IInv /\ [Next]_vars => IInv'
<1> SUFFICES ASSUME IInv, [Next]_vars PROVE IInv'
  OBVIOUS
<1>1. CASE UNCHANGED vars
  BY <1>1 DEF vars, IInv, TypeOK, TipsOK, WatermarkOK, CarefulOK
<1>2. CASE Next
  BY <1>2, CommitKeeps, MetadataKeeps, BackupKeeps, RestoreKeeps, RecordTipKeeps,
     CheckKeeps, ResumeReadKeeps, RecoveryKeeps DEF Next
<1> QED
  BY <1>1, <1>2

LEMMA IInvHolds == Spec => []IInv
BY InitIInv, StepIInv, PTL DEF Spec

\* An entry that declares no watermark the log has declared.
LEMMA AppendOnce ==
  ASSUME NEW log \in Seq(Entry), NEW e \in Entry, DeclaredOnce(log),
         e.data.kind = "RECOVERY" =>
           \A i \in DOMAIN log : log[i].data.kind = "RECOVERY" =>
             log[i].data.skippedThrough # e.data.skippedThrough
  PROVE  DeclaredOnce(Append(log, e))
<1>1. /\ DOMAIN Append(log, e) = 1..Len(log) + 1 /\ DOMAIN log = 1..Len(log)
      /\ \A i \in 1..Len(log) : Append(log, e)[i] = log[i]
      /\ Append(log, e)[Len(log) + 1] = e
      /\ Len(log) \in Nat
  BY AppendFacts
<1> DEFINE l == Append(log, e)
<1> SUFFICES ASSUME NEW i \in DOMAIN l, NEW j \in DOMAIN l,
                    l[i].data.kind = "RECOVERY", l[j].data.kind = "RECOVERY",
                    l[i].data.skippedThrough = l[j].data.skippedThrough
             PROVE  i = j
  BY DEF DeclaredOnce
<1> HIDE DEF l
<1>2. CASE i \in DOMAIN log /\ j \in DOMAIN log
  BY <1>1, <1>2 DEF DeclaredOnce, l
<1>3. CASE i = Len(log) + 1 \/ j = Len(log) + 1
  BY <1>1, <1>3 DEF l
<1> QED
  BY <1>1, <1>2, <1>3 DEF l

\* A log that has declared a watermark is past it, so whoever looks again under
\* the lock declares nothing.
LEMMA DeclaredIsPast ==
  ASSUME IInv, NEW t \in Tip, NEW i \in DOMAIN db.log, db.log[i].data.kind = "RECOVERY",
         db.log[i].data.skippedThrough = t.logID
  PROVE  Past(db, t)
<1>1. /\ db.log \in Seq(Entry) /\ LogOK(db.log, writes) /\ CountersOK(db)
      /\ Ends(db.log, db.lastLog, db.lastHash)
      /\ db.lastLog \in Nat /\ db.lastTx \in Nat
  BY DEF IInv, TypeOK, Database, DatabaseOK
<1>2. t.logID \in Nat /\ db.log[i].id \in Nat
  BY <1>1, TipFields, EntryFields
<1>3. db.lastTx >= t.logID
  BY <1>1, <1>2 DEF CountersOK, Mark
<1>4. db.log[i].id > t.logID /\ db.log[i].id <= db.lastLog
  BY <1>1, EndsHigh DEF LogOK, EntryOK
<1> QED
  BY <1>1, <1>2, <1>3, <1>4 DEF Past, WatermarkTx

GapInv == DeclaredOnce(db.log) /\ DeclaredOnce(backup.log)

LEMMA StepGapInv == IInv /\ GapInv /\ [Next]_vars => GapInv'
<1> SUFFICES ASSUME IInv, GapInv, [Next]_vars PROVE GapInv'
  OBVIOUS
<1>1. /\ db \in Database /\ db.log \in Seq(Entry) /\ db.lastLog \in Nat /\ db.lastTx \in Nat
      /\ db' \in Database /\ db'.log \in Seq(Entry)
  BY StepIInv DEF IInv, TypeOK, Database
<1>2. ASSUME NEW e, db'.log = Append(db.log, e),
             e.data.kind = "RECOVERY" =>
               \A i \in DOMAIN db.log : db.log[i].data.kind = "RECOVERY" =>
                 db.log[i].data.skippedThrough # e.data.skippedThrough
      PROVE  DeclaredOnce(db'.log)
  <2>1. /\ Len(db.log) + 1 \in DOMAIN db'.log /\ db'.log[Len(db.log) + 1] = e
    BY <1>1, <1>2
  <2>2. e \in Entry
    BY <1>1, <2>1
  <2>3. DeclaredOnce(db.log) /\ db.log \in Seq(Entry)
    BY <1>1 DEF GapInv
  <2>4. DeclaredOnce(Append(db.log, e))
    <3> HIDE DEF DeclaredOnce
    <3> QED
      BY <1>2, <2>2, <2>3, AppendOnce
  <2> QED
    BY <1>2, <2>4
<1>3. CASE CommitTransaction \/ SetMetadata
  <2>1. backup' = backup
    BY <1>3 DEF CommitTransaction, SetMetadata, Written
  <2>2. /\ CommitTransaction =>
             db' = Appended(db, WriteEntry(db.lastTx + 1, "NEW_TRANSACTION"), db.lastTx + 1)
        /\ SetMetadata => db' = Appended(db, WriteEntry(0, "SET_METADATA"), db.lastTx)
    BY <1>1 DEF CommitTransaction, SetMetadata, InsertLog, Appended, WriteEntry, Database
  <2>3. ASSUME NEW tx, NEW kind \in {"NEW_TRANSACTION", "SET_METADATA"}, NEW lastTx,
               db' = Appended(db, WriteEntry(tx, kind), lastTx)
        PROVE  DeclaredOnce(db'.log)
    <3>1. db'.log = Append(db.log, WriteEntry(tx, kind))
      BY <2>3 DEF Appended
    <3>2. WriteEntry(tx, kind).data.kind # "RECOVERY"
      BY DEF WriteEntry
    <3> QED
      BY <1>2, <3>1, <3>2
  <2>4. DeclaredOnce(db'.log)
    BY <1>3, <2>2, <2>3
  <2> QED
    BY <2>1, <2>4 DEF GapInv
<1>4. CASE Backup \/ Restore
  BY <1>4 DEF GapInv, Backup, Restore
<1>5. CASE RecordTip \/ RecoverCheck \/ UNCHANGED vars
  BY <1>5 DEF GapInv, RecordTip, RecoverCheck, vars
<1>6. ASSUME NEW o \in Operator, ResumeRead(o)
      PROVE  GapInv'
  BY <1>6 DEF GapInv, ResumeRead
<1>7. ASSUME NEW o \in Operator, RecordRecovery(o)
      PROVE  GapInv'
  <2> DEFINE t == watermark[o]
             e == RecoveryEntry(t)
  <2>1. t \in Tip /\ backup' = backup
    BY <1>7 DEF IInv, TypeOK, RecordRecovery
  <2>2. CASE ~StillShort(o)
    BY <1>7, <2>1, <2>2 DEF RecordRecovery, GapInv
  <2>3. CASE StillShort(o)
    <3>1. db'.log = Append(db.log, e)
      BY <1>1, <1>7, <2>3 DEF RecordRecovery, Recovered, InsertLog, RecoveryEntry, Database
    <3>2. e.data.skippedThrough = t.logID
      BY DEF RecoveryEntry, RecoveryPayload
    <3>3. \A i \in DOMAIN db.log : db.log[i].data.kind = "RECOVERY" =>
            db.log[i].data.skippedThrough # t.logID
      BY <2>1, <2>3, DeclaredIsPast DEF StillShort
    <3> HIDE DEF e, t
    <3> QED
      BY <1>2, <2>1, <3>1, <3>2, <3>3 DEF GapInv
  <2> QED
    BY <2>2, <2>3
<1> QED
  BY <1>3, <1>4, <1>5, <1>6, <1>7 DEF Next

LEMMA GapInvHolds == Spec => []GapInv
<1>1. Init => GapInv
  BY DEF Init, Empty, GapInv, DeclaredOnce
<1> QED
  BY <1>1, StepGapInv, IInvHolds, PTL DEF Spec

\* VerifyLog accepts every log the write path, restores and any number of
\* concurrent recoveries can produce.
THEOREM LogAlwaysVerifies == Spec => []LogVerifies
<1>1. IInv => LogVerifies
  BY DEF IInv, DatabaseOK, LogOK, LogVerifies
<1> QED
  BY <1>1, IInvHolds, PTL

\* Ids are issued in order, the transaction counter never passes the log
\* counter, and no watermark is declared twice (allocate, RecordRecovery).
THEOREM CountersAlwaysAgree == Spec => []CountersAgree
<1>1. IInv /\ GapInv => CountersAgree
  <2> SUFFICES ASSUME IInv, GapInv PROVE CountersAgree
    OBVIOUS
  <2>1. /\ db.log \in Seq(Entry) /\ LogOK(db.log, writes) /\ CountersOK(db)
        /\ Ends(db.log, db.lastLog, db.lastHash) /\ db.lastLog \in Nat
    BY DEF IInv, TypeOK, Database, DatabaseOK
  <2>2. ASSUME NEW i \in DOMAIN db.log
        PROVE  db.log[i].id <= db.lastLog
    BY <2>1, <2>2, EndsHigh
  <2> QED
    BY <2>1, <2>2 DEF CountersAgree, CountersOK, LogOK, GapInv
<1> QED
  BY <1>1, IInvHolds, GapInvHolds, PTL

\* CheckTip says ok exactly when everything the tip saw is still in the log.
THEOREM OkIsSound == Spec => []OkMeansNothingRecordedIsLost
<1>1. IInv => OkMeansNothingRecordedIsLost
  <2> SUFFICES ASSUME IInv, NEW n \in DOMAIN tips
               PROVE  CheckTip(db, tips[n]) = "ok" <=> Range(tips[n].seen) \subseteq Range(db.log)
    BY DEF OkMeansNothingRecordedIsLost, Range
  <2>1. /\ db \in Database /\ writes \in Nat /\ DatabaseOK(db, writes) /\ tips[n] \in Tip
        /\ TipOK(tips[n], writes) /\ Agree(db.log, tips[n].seen)
    BY DEF IInv, TypeOK, TipsOK
  <2>2. Range(tips[n].seen) \subseteq Range(db.log)
          <=> \A j \in DOMAIN tips[n].seen : tips[n].seen[j] \in Range(db.log)
    BY DEF Range
  <2> QED
    BY <2>1, <2>2, TipVouches
<1> QED
  BY <1>1, IInvHolds, PTL

\* A careful operator never sees an id reissued, neither a log id nor a
\* transaction id, whatever is restored and however many resume at once.
THEOREM IdsKeepTheirMeaning == Spec => []RecordedIdsKeepTheirMeaning
<1>1. IInv => RecordedIdsKeepTheirMeaning
  BY DEF IInv, CarefulOK, Keeps, KeepsEntry, RecordedIdsKeepTheirMeaning, Range
<1> QED
  BY <1>1, IInvHolds, PTL
=============================================================================
