---------------------------- MODULE ServiceProofs ----------------------------
(***************************************************************************)
(* Proofs about module Service, for any intents, processes, requests and   *)
(* pool sizes: nobody is paid twice, what a client was told stays true,    *)
(* and the losers of races for a key leave their process a connection.     *)
(*                                                                         *)
(* The key is looked at under the ledgers row, which the request keeps     *)
(* until COMMIT: between the unique index and the commit nobody else can   *)
(* take the key, and a key once taken keeps its body for ever.             *)
(***************************************************************************)
EXTENDS Service, TLAPS, FiniteSetTheorems, FunctionTheorems

-----------------------------------------------------------------------------
(* The inductive invariant.                                                *)

Place == {"idle", "asked", "begin", "find", "apply", "append", "race", "reread",
          "commit", "reply"}

What == {"created", "preview", "rejected", "declined", "failed"}

Body == {BodyOf[i] : i \in Intent}

RequestType ==
  /\ pc \in [Request -> Place]
  /\ wants \in [Request -> Intent \cup {None}]
  /\ at \in [Request -> Process \cup {None}]
  /\ conns \in [Request -> {0, 1, 2}]
  /\ answer \in [Request -> What \cup {None}]
  /\ ledgerLock \in Request \cup {None}

BooksType ==
  /\ paid \in [Intent -> Nat]
  /\ keys \in [UsedKeys -> Body \cup {None}]
  /\ wonAt \in [UsedKeys -> Process \cup {None}]

TypeOK ==
  /\ RequestType
  /\ BooksType
  /\ told \in [Intent -> SUBSET (What \cup {None})]
  /\ cut \in Intent \cup {None}

\* What an answer commits the ledger to, in terms that no later step changes.
Verdict(i, what) ==
  /\ what = "created" =>
       /\ i \notin Dry
       /\ KeyOf[i] = NoKey => AllowUnkeyed
       /\ KeyOf[i] # NoKey => keys[KeyOf[i]] = BodyOf[i]
  /\ what = "rejected" =>
       /\ KeyOf[i] = NoKey => ~AllowUnkeyed
       /\ KeyOf[i] # NoKey => keys[KeyOf[i]] \notin {None, BodyOf[i]}

\* Where a request is decides what it holds and what it knows of its key.
RequestOK(r) ==
  /\ pc[r] # "idle" => wants[r] \in Intent /\ at[r] \in Process
  /\ pc[r] \in {"idle", "asked", "begin", "reply"} => conns[r] = 0
  /\ pc[r] \in {"find", "apply", "append", "race", "commit"} => conns[r] = 1
  /\ ledgerLock = r <=> pc[r] \in {"append", "commit"}
  /\ pc[r] \notin {"idle", "asked", "reply"} => RequireKey(wants[r])
  /\ pc[r] \in {"find", "race", "reread"} => KeyOf[wants[r]] # NoKey
  /\ pc[r] \in {"race", "reread"} => Stored(r) # None
  /\ pc[r] = "commit" /\ KeyOf[wants[r]] # NoKey => Stored(r) = None
  /\ pc[r] = "reply" => Verdict(wants[r], answer[r])

\* A key stands for the one payment made under it.
KeyOK(i) ==
  /\ i \in Dry => paid[i] = 0
  /\ KeyOf[i] = NoKey /\ ~AllowUnkeyed => paid[i] = 0
  /\ KeyOf[i] # NoKey =>
       /\ paid[i] \in {0, 1}
       /\ paid[i] = 1 => keys[KeyOf[i]] = BodyOf[i]
       /\ keys[KeyOf[i]] = BodyOf[i] /\ i \notin Dry => paid[i] = 1

RequestsOK == RequestType /\ \A r \in Request : RequestOK(r)

BooksOK == BooksType /\ \A i \in Intent : KeyOK(i)

ToldOK ==
  /\ told \in [Intent -> SUBSET (What \cup {None})]
  /\ \A i \in Intent : \A what \in told[i] : Verdict(i, what)

\* A COMMIT nobody waits for keeps the ledgers row, and its key is free.
CutOK ==
  /\ cut \in Intent \cup {None}
  /\ cut # None =>
       /\ ledgerLock = None /\ cut \notin Dry
       /\ KeyOf[cut] = NoKey => AllowUnkeyed
       /\ KeyOf[cut] # NoKey => keys[KeyOf[cut]] = None

IInv == RequestsOK /\ BooksOK /\ ToldOK /\ CutOK

-----------------------------------------------------------------------------
(* What every step leaves alone.                                           *)

\* A key once taken keeps its body.
KeysStay == \A k \in UsedKeys : keys[k] # None => keys'[k] = keys[k]

\* The other requests do not move.
Others(S) ==
  \A u \in Request \ S :
    /\ pc'[u] = pc[u] /\ wants'[u] = wants[u] /\ at'[u] = at[u]
    /\ conns'[u] = conns[u] /\ answer'[u] = answer[u]
    /\ ledgerLock' = u <=> ledgerLock = u

\* A verdict, once true, stays true.
LEMMA VerdictStays ==
  ASSUME BooksOK, KeysStay, NEW i \in Intent, NEW what, Verdict(i, what)
  PROVE  Verdict(i, what)'
<1>1. KeyOf[i] # NoKey => KeyOf[i] \in UsedKeys
  BY DEF UsedKeys
<1>2. BodyOf[i] # None
  BY ServiceAssumption
<1>3. QED
  BY <1>1, <1>2 DEF Verdict, KeysStay

\* A request that does not move stays right, as long as nobody takes a key
\* while it is between the unique index and COMMIT.
LEMMA OthersKeep ==
  ASSUME RequestsOK, BooksOK, KeysStay, NEW S, Others(S),
         NEW u \in Request \ S, pc[u] = "commit" => keys' = keys
  PROVE  RequestOK(u)'
<1>1. RequestOK(u)
  BY DEF RequestsOK
<1>2. /\ pc'[u] = pc[u] /\ wants'[u] = wants[u] /\ at'[u] = at[u]
      /\ conns'[u] = conns[u] /\ answer'[u] = answer[u]
      /\ ledgerLock' = u <=> ledgerLock = u
  BY DEF Others
<1>3. CASE pc[u] = "idle"
  BY <1>1, <1>2, <1>3 DEF RequestOK
<1>4. CASE pc[u] # "idle"
  <2>1. wants[u] \in Intent
    BY <1>1, <1>4 DEF RequestOK
  <2>2. KeyOf[wants[u]] # NoKey => KeyOf[wants[u]] \in UsedKeys
    BY <2>1 DEF UsedKeys
  <2>3. pc[u] \in {"race", "reread"} => Stored(u)' # None
    BY <1>1, <1>2, <2>2 DEF RequestOK, Stored, KeysStay
  <2>4. pc[u] = "commit" /\ KeyOf[wants[u]] # NoKey => Stored(u)' = None
    BY <1>1, <1>2 DEF RequestOK, Stored
  <2>5. pc[u] = "reply" => Verdict(wants[u], answer[u])'
    <3>1. CASE pc[u] = "reply"
      <4>1. Verdict(wants[u], answer[u])
        BY <1>1, <3>1 DEF RequestOK
      <4> DEFINE i == wants[u]
                 what == answer[u]
      <4>2. /\ i \in Intent
            /\ Verdict(i, what)
            /\ i' = i /\ what' = what
        BY <4>1, <2>1, <1>2
      <4> HIDE DEF i, what
      <4>3. Verdict(i, what)'
        BY <4>2, VerdictStays
      <4>4. QED
        BY <4>3 DEF i, what
    <3>2. QED
      BY <3>1
  <2>6. RequireKey(wants[u])' <=> RequireKey(wants[u])
    BY <1>2 DEF RequireKey
  <2>7. QED
    BY <1>1, <1>2, <2>3, <2>4, <2>5, <2>6 DEF RequestOK
<1>5. QED
  BY <1>3, <1>4

-----------------------------------------------------------------------------
(* The moves the actions are built from.                                   *)

LEMMA NoneIsNobody == None \notin Request
  BY ServiceAssumption

LEMMA BooksKeep ==
  ASSUME BooksOK, UNCHANGED <<paid, keys, wonAt>>
  PROVE  BooksOK' /\ KeysStay
  BY DEF BooksOK, BooksType, KeyOK, KeysStay

LEMMA ToldKeeps ==
  ASSUME BooksOK, ToldOK, KeysStay, UNCHANGED told
  PROVE  ToldOK'
<1>1. ASSUME NEW i \in Intent, NEW what \in told[i]
      PROVE  Verdict(i, what)'
  BY <1>1, VerdictStays DEF ToldOK
<1>2. QED
  BY <1>1 DEF ToldOK

\* Nobody locks the ledgers row while a COMMIT is out.
LEMMA CutStays ==
  ASSUME CutOK, UNCHANGED <<keys, cut>>,
         ledgerLock' = ledgerLock \/ ledgerLock' = None \/ cut = None
  PROVE  CutOK'
  BY DEF CutOK

\* A request that is gone may leave its COMMIT behind.
LEMMA CutBegins ==
  ASSUME IInv, NEW r \in Request, pc[r] = "commit", wants[r] \notin Dry,
         cut' = wants[r], keys' = keys, NEW gone, r \in gone, ledgerLock' = Unlocked(gone)
  PROVE  CutOK'
<1>1. /\ wants[r] \in Intent /\ ledgerLock = r /\ RequireKey(wants[r])
      /\ KeyOf[wants[r]] # NoKey => keys[KeyOf[wants[r]]] = None
  BY DEF IInv, RequestsOK, RequestOK, Stored
<1>2. ledgerLock' = None
  BY <1>1 DEF Unlocked
<1>3. QED
  BY <1>1, <1>2 DEF CutOK, RequireKey

LEMMA VanishKeeps ==
  ASSUME RequestsOK, BooksOK, NEW gone \in SUBSET Request, Vanish(gone), keys' = keys
  PROVE  RequestsOK'
<1>1. KeysStay
  BY DEF KeysStay
<1>2. Others(gone)
  BY NoneIsNobody DEF Others, Vanish, Unlocked
<1>3. RequestType'
  <2>1. pc' \in [Request -> Place] /\ answer' \in [Request -> What \cup {None}]
    BY DEF RequestsOK, RequestType, Vanish, Place
  <2>2. wants' \in [Request -> Intent \cup {None}] /\ at' \in [Request -> Process \cup {None}]
    BY DEF RequestsOK, RequestType, Vanish
  <2>3. conns' \in [Request -> {0, 1, 2}] /\ ledgerLock' \in Request \cup {None}
    BY DEF RequestsOK, RequestType, Vanish, Unlocked
  <2>4. QED
    BY <2>1, <2>2, <2>3 DEF RequestType
<1>4. ASSUME NEW u \in Request
      PROVE  RequestOK(u)'
  <2>1. CASE u \in gone
    <3>1. pc'[u] = "idle" /\ conns'[u] = 0
      BY <2>1 DEF Vanish
    <3>2. ledgerLock' # u
      BY <2>1, NoneIsNobody DEF Vanish, Unlocked
    <3>3. QED
      BY <3>1, <3>2 DEF RequestOK
  <2>2. CASE u \notin gone
    BY <1>1, <1>2, <2>2, OthersKeep
  <2>3. QED
    BY <2>1, <2>2
<1>5. QED
  BY <1>3, <1>4 DEF RequestsOK

\* An answer is safe to give when what it commits the ledger to holds.
LEMMA AnswerKeeps ==
  ASSUME RequestsOK, BooksOK, KeysStay, NEW r \in Request, NEW what \in What,
         Answer(r, what), pc[r] # "idle", Verdict(wants[r], what)',
         \A u \in Request \ {r} : pc[u] = "commit" => keys' = keys
  PROVE  RequestsOK'
<1>1. wants[r] \in Intent /\ at[r] \in Process
  BY DEF RequestsOK, RequestOK
<1>2. Others({r})
  BY NoneIsNobody DEF Others, Answer, Go, Unlocked, RequestsOK, RequestType
<1>3. RequestType'
  <2>1. pc' \in [Request -> Place] /\ answer' \in [Request -> What \cup {None}]
    BY DEF RequestsOK, RequestType, Answer, Go, Place
  <2>2. wants' = wants /\ at' = at
    BY DEF Answer
  <2>3. conns' \in [Request -> {0, 1, 2}] /\ ledgerLock' \in Request \cup {None}
    BY DEF RequestsOK, RequestType, Answer, Unlocked
  <2>4. QED
    BY <2>1, <2>2, <2>3 DEF RequestsOK, RequestType
<1>4. ASSUME NEW u \in Request
      PROVE  RequestOK(u)'
  <2>1. CASE u = r
    <3>1. /\ pc'[u] = "reply" /\ conns'[u] = 0 /\ answer'[u] = what
          /\ wants' = wants /\ at' = at
      BY <2>1 DEF Answer, Go, RequestsOK, RequestType
    <3>2. ledgerLock' # u
      BY <2>1, NoneIsNobody DEF Answer, Unlocked
    <3>3. Verdict(wants[u], answer[u])'
      BY <2>1, <3>1 DEF Verdict
    <3>4. QED
      BY <1>1, <2>1, <3>1, <3>2, <3>3 DEF RequestOK
  <2>2. CASE u # r
    BY <1>2, <2>2, OthersKeep
  <2>3. QED
    BY <2>1, <2>2
<1>5. QED
  BY <1>3, <1>4 DEF RequestsOK

\* A request moves on by itself.
LEMMA MoveKeeps ==
  ASSUME RequestsOK, BooksOK, NEW r \in Request, NEW where \in Place, NEW n \in {0, 1, 2},
         Go(r, where), conns' = [conns EXCEPT ![r] = n], UNCHANGED <<wants, at, answer, keys>>,
         ledgerLock' \in Request \cup {None},
         \A u \in Request \ {r} : ledgerLock' = u <=> ledgerLock = u,
         RequestOK(r)'
  PROVE  RequestsOK'
<1>1. Others({r}) /\ KeysStay
  BY DEF Others, Go, RequestsOK, RequestType, KeysStay
<1>2. RequestType'
  BY DEF RequestsOK, RequestType, Go
<1>3. \A u \in Request \ {r} : RequestOK(u)'
  BY <1>1, OthersKeep
<1>4. QED
  BY <1>2, <1>3 DEF RequestsOK

-----------------------------------------------------------------------------
(* One step per action.                                                    *)

LEMMA InitOK == Init => IInv
<1> SUFFICES ASSUME Init PROVE IInv
  OBVIOUS
<1> USE DEF Init, Idle
<1>1. RequestType
  BY DEF RequestType, Place
<1>2. \A r \in Request : RequestOK(r)
  BY NoneIsNobody DEF RequestOK
<1>3. BooksType
  BY DEF BooksType
<1>4. ASSUME NEW i \in Intent
      PROVE  KeyOK(i)
  <2>1. KeyOf[i] # NoKey => KeyOf[i] \in UsedKeys
    BY DEF UsedKeys
  <2>2. BodyOf[i] # None
    BY ServiceAssumption
  <2>3. QED
    BY <2>1, <2>2 DEF KeyOK
<1>5. ToldOK
  BY DEF ToldOK
<1>6. CutOK
  BY DEF CutOK
<1>7. QED
  BY <1>1, <1>2, <1>3, <1>4, <1>5, <1>6 DEF IInv, RequestsOK, BooksOK

LEMMA SendKeeps ==
  ASSUME IInv, NEW r \in Request, NEW i \in Intent, NEW p \in Process, Send(r, i, p)
  PROVE  IInv'
<1>1. RequestsOK /\ BooksOK /\ ToldOK
  BY DEF IInv
<1>2. BooksOK' /\ KeysStay
  BY <1>1, BooksKeep DEF Send, books
<1>3. ToldOK'
  BY <1>1, <1>2, ToldKeeps DEF Send
<1>4. Others({r})
  BY <1>1 DEF Others, Send, Go, RequestsOK, RequestType
<1>5. RequestType'
  BY <1>1 DEF Send, Go, RequestsOK, RequestType, Place
<1>6. RequestOK(r)'
  BY <1>1 DEF Send, Go, RequestsOK, RequestType, RequestOK
<1>7. \A u \in Request \ {r} : RequestOK(u)'
  BY <1>1, <1>2, <1>4, OthersKeep DEF Send, books
<1>8. CutOK'
  BY CutStays DEF IInv, Send, books
<1>9. QED
  BY <1>2, <1>3, <1>5, <1>6, <1>7, <1>8 DEF IInv, RequestsOK

LEMMA ReplyKeeps ==
  ASSUME IInv, NEW r \in Request, Reply(r)
  PROVE  IInv'
<1>1. RequestsOK /\ BooksOK /\ ToldOK
  BY DEF IInv
<1>2. BooksOK' /\ KeysStay
  BY <1>1, BooksKeep DEF Reply, books
<1>3. RequestsOK'
  BY <1>1, VanishKeeps DEF Reply, books
<1>4. ToldOK'
  <2>1. CASE told' = told
    BY <1>1, <1>2, <2>1, ToldKeeps
  <2>2. CASE told' = [told EXCEPT ![wants[r]] = @ \cup {answer[r]}]
    <3>1. wants[r] \in Intent /\ answer[r] \in What \cup {None}
      BY <1>1 DEF Reply, RequestsOK, RequestOK, RequestType
    <3>2. Verdict(wants[r], answer[r])
      BY <1>1 DEF Reply, RequestsOK, RequestOK
    <3>3. told' \in [Intent -> SUBSET (What \cup {None})]
      BY <1>1, <2>2, <3>1 DEF ToldOK
    <3>4. ASSUME NEW i \in Intent, NEW what \in told'[i]
          PROVE  Verdict(i, what)
      BY <1>1, <2>2, <3>1, <3>2 DEF ToldOK
    <3>5. ASSUME NEW i \in Intent, NEW what \in told'[i]
          PROVE  Verdict(i, what)'
      BY <1>1, <1>2, <3>4, VerdictStays
    <3>6. QED
      BY <3>3, <3>5 DEF ToldOK
  <2>3. QED
    BY <2>1, <2>2 DEF Reply
<1>5. CutOK'
  BY CutStays DEF IInv, Reply, Vanish, Unlocked, books
<1>6. QED
  BY <1>2, <1>3, <1>4, <1>5 DEF IInv

\* Every other step that takes no key leaves the books and the clients alone.
LEMMA QuietCut ==
  ASSUME IInv, RequestsOK', CutOK', UNCHANGED <<paid, keys, wonAt, told>>
  PROVE  IInv'
  BY BooksKeep, ToldKeeps DEF IInv

LEMMA QuietStep ==
  ASSUME IInv, RequestsOK', UNCHANGED <<paid, keys, wonAt, cut, told>>,
         ledgerLock' = ledgerLock \/ ledgerLock' = None \/ cut = None
  PROVE  IInv'
  BY QuietCut, CutStays DEF IInv

LEMMA CutOffKeeps ==
  ASSUME IInv, NEW gone \in SUBSET Request, Vanish(gone), CutOff(gone),
         UNCHANGED <<paid, keys, wonAt, told>>
  PROVE  IInv'
<1>1. RequestsOK'
  BY VanishKeeps DEF IInv
<1>2. ledgerLock' = Unlocked(gone)
  BY DEF Vanish
<1>3. CASE cut' = cut
  BY <1>1, <1>2, <1>3, QuietStep DEF Unlocked
<1>4. CASE \E r \in gone : pc[r] = "commit" /\ wants[r] \notin Dry /\ cut' = wants[r]
  <2>1. PICK r \in gone : pc[r] = "commit" /\ wants[r] \notin Dry /\ cut' = wants[r]
    BY <1>4
  <2>2. CutOK'
    BY <1>2, <2>1, CutBegins
  <2>3. QED
    BY <1>1, <2>2, QuietCut
<1>5. QED
  BY <1>3, <1>4 DEF CutOff

LEMMA HangUpKeeps ==
  ASSUME IInv, NEW r \in Request, HangUp(r)
  PROVE  IInv'
  BY CutOffKeeps DEF HangUp, books

LEMMA ProcessKeeps ==
  ASSUME IInv, NEW p \in Process, Stop(p) \/ Exit(p) \/ Crash(p) \/ Restart(p)
  PROVE  IInv'
<1>1. UNCHANGED <<paid, keys, wonAt, told>>
  BY DEF Stop, Exit, Crash, Restart, books
<1>2. Served(p) \in SUBSET Request
  BY DEF Served
<1>3. CASE Stop(p) \/ Restart(p)
  <2>1. UNCHANGED <<pc, wants, at, conns, answer, ledgerLock, cut>>
    BY <1>3 DEF Stop, Restart, requests
  <2>2. RequestsOK'
    BY <1>1, <2>1 DEF IInv, RequestsOK, RequestType, RequestOK, Stored, Verdict, RequireKey
  <2>3. QED
    BY <1>1, <2>1, <2>2, QuietStep
<1>4. CASE Exit(p)
  <2>1. Vanish(Served(p)) /\ cut' = cut
    BY <1>4 DEF Exit
  <2>2. QED
    BY <1>1, <1>2, <2>1, CutOffKeeps DEF CutOff
<1>5. CASE Crash(p)
  BY <1>1, <1>2, <1>5, CutOffKeeps DEF Crash
<1>6. QED
  BY <1>3, <1>4, <1>5

\* An answer that leaves the ledger as it is.
LEMMA QuietAnswer ==
  ASSUME IInv, NEW r \in Request, NEW what \in What, Answer(r, what), pc[r] # "idle",
         Verdict(wants[r], what), UNCHANGED <<paid, keys, wonAt, cut>>
  PROVE  IInv'
<1>1. Verdict(wants[r], what)'
  BY DEF Answer, Verdict
<1>2. KeysStay
  BY DEF KeysStay
<1>3. RequestsOK'
  BY <1>1, <1>2, AnswerKeeps DEF IInv
<1>4. QED
  BY <1>3, QuietStep DEF Answer, Unlocked

LEMMA HandleKeeps ==
  ASSUME IInv, NEW r \in Request, Handle(r)
  PROVE  IInv'
<1>1. /\ RequestsOK /\ BooksOK /\ RequestType /\ RequestOK(r)
      /\ pc[r] = "asked" /\ UNCHANGED <<paid, keys, wonAt, cut>>
  BY DEF IInv, RequestsOK, Handle, books
<1>2. CASE RequireKey(wants[r])
  <2>1. /\ Go(r, "begin")
        /\ UNCHANGED <<wants, at, conns, answer, ledgerLock, told>>
    BY <1>2 DEF Handle
  <2>2. conns' = [conns EXCEPT ![r] = 0]
    BY <1>1, <2>1 DEF RequestType, RequestOK
  <2>3. RequestOK(r)'
    BY <1>1, <1>2, <2>1 DEF RequestType, RequestOK, Go, RequireKey
  <2>4. RequestsOK'
    BY <1>1, <2>1, <2>2, <2>3, MoveKeeps DEF Place, RequestType
  <2>5. QED
    BY <1>1, <2>1, <2>4, QuietStep
<1>3. CASE ~RequireKey(wants[r])
  <2>1. Answer(r, "rejected")
    BY <1>3 DEF Handle
  <2>2. Verdict(wants[r], "rejected")
    BY <1>3 DEF RequireKey, Verdict
  <2>3. QED
    BY <1>1, <2>1, <2>2, QuietAnswer DEF What
<1>4. QED
  BY <1>2, <1>3

LEMMA BeginKeeps ==
  ASSUME IInv, NEW r \in Request, Begin(r)
  PROVE  IInv'
<1>1. /\ RequestsOK /\ BooksOK /\ RequestType /\ RequestOK(r)
      /\ pc[r] = "begin" /\ UNCHANGED <<paid, keys, wonAt, cut>>
  BY DEF IInv, RequestsOK, Begin, Acquire, books
<1>2. CASE state[at[r]] = "up"
  <2> DEFINE where == IF KeyOf[wants[r]] = NoKey THEN "apply" ELSE "find"
  <2>1. /\ Go(r, where) /\ conns' = [conns EXCEPT ![r] = conns[r] + 1]
        /\ UNCHANGED <<wants, at, answer, ledgerLock, told>>
    BY <1>2 DEF Begin, Acquire
  <2>2. conns' = [conns EXCEPT ![r] = 1]
    BY <1>1, <2>1 DEF RequestType, RequestOK
  <2>3. RequestOK(r)'
    BY <1>1, <2>1, <2>2 DEF RequestType, RequestOK, Go, RequireKey
  <2>4. RequestsOK'
    BY <1>1, <2>1, <2>2, <2>3, MoveKeeps DEF Place, RequestType
  <2>5. QED
    BY <1>1, <2>1, <2>4, QuietStep
<1>3. CASE state[at[r]] # "up"
  <2>1. Answer(r, "failed")
    BY <1>3 DEF Begin, Acquire
  <2>2. QED
    BY <1>1, <2>1, QuietAnswer DEF What, Verdict
<1>4. QED
  BY <1>2, <1>3

LEMMA IdempotencyRaceKeeps ==
  ASSUME IInv, NEW r \in Request, IdempotencyRace(r)
  PROVE  IInv'
<1>1. /\ RequestsOK /\ BooksOK /\ RequestType /\ RequestOK(r)
      /\ pc[r] = "race" /\ UNCHANGED <<paid, keys, wonAt, cut>>
  BY DEF IInv, RequestsOK, IdempotencyRace, Acquire, books
<1>2. CASE state[at[r]] = "up"
  <2>1. /\ Go(r, "reread") /\ conns' = [conns EXCEPT ![r] = conns[r] + 1]
        /\ UNCHANGED <<wants, at, answer, ledgerLock, told>>
    BY <1>2 DEF IdempotencyRace, Acquire
  <2>2. conns' = [conns EXCEPT ![r] = 2]
    BY <1>1, <2>1 DEF RequestType, RequestOK
  <2>3. RequestOK(r)'
    BY <1>1, <2>1, <2>2 DEF RequestType, RequestOK, Go, RequireKey, Stored
  <2>4. RequestsOK'
    BY <1>1, <2>1, <2>2, <2>3, MoveKeeps DEF Place, RequestType
  <2>5. QED
    BY <1>1, <2>1, <2>4, QuietStep
<1>3. CASE state[at[r]] # "up"
  <2>1. Answer(r, "failed")
    BY <1>3 DEF IdempotencyRace, Acquire
  <2>2. QED
    BY <1>1, <2>1, QuietAnswer DEF What, Verdict
<1>4. QED
  BY <1>2, <1>3

\* An entry under the key answers the request, as it did the first time.
LEMMA StoredAnswer ==
  ASSUME IInv, NEW r \in Request, pc[r] \in {"find", "reread"}, Stored(r) # None,
         AnswerStored(r)
  PROVE  IInv'
<1>1. RequestOK(r) /\ KeyOf[wants[r]] # NoKey
  BY DEF IInv, RequestsOK, RequestOK
<1> DEFINE what == IF SameBody(r) THEN Outcome(r) ELSE "rejected"
<1>2. Verdict(wants[r], what)
  BY <1>1 DEF Verdict, SameBody, Outcome, Stored
<1>3. what \in What
  BY DEF What, Outcome
<1>4. Answer(r, what) /\ UNCHANGED <<paid, keys, wonAt, cut>>
  BY DEF AnswerStored, books
<1> HIDE DEF what
<1>5. QED
  BY <1>2, <1>3, <1>4, QuietAnswer

LEMMA FindKeeps ==
  ASSUME IInv, NEW r \in Request, Find(r)
  PROVE  IInv'
<1>1. /\ RequestsOK /\ BooksOK /\ RequestType /\ RequestOK(r) /\ pc[r] = "find"
  BY DEF IInv, RequestsOK, Find
<1>2. CASE Found(r)
  BY <1>1, <1>2, StoredAnswer DEF Find, Found
<1>3. CASE ~Found(r)
  <2>1. /\ Go(r, "apply") /\ UNCHANGED <<wants, at, conns, answer, ledgerLock>>
        /\ UNCHANGED <<paid, keys, wonAt, cut, told>>
    BY <1>3 DEF Find, books
  <2>2. conns' = [conns EXCEPT ![r] = 1]
    BY <1>1, <2>1 DEF RequestType, RequestOK
  <2>3. RequestOK(r)'
    BY <1>1, <2>1 DEF RequestType, RequestOK, Go, RequireKey
  <2>4. RequestsOK'
    BY <1>1, <2>1, <2>2, <2>3, MoveKeeps DEF Place, RequestType
  <2>5. QED
    BY <2>1, <2>4, QuietStep
<1>4. QED
  BY <1>2, <1>3

LEMMA RereadKeeps ==
  ASSUME IInv, NEW r \in Request, Reread(r)
  PROVE  IInv'
  BY StoredAnswer DEF Reread, IInv, RequestsOK, RequestOK

LEMMA ApplyTransactionKeeps ==
  ASSUME IInv, NEW r \in Request, ApplyTransaction(r)
  PROVE  IInv'
<1>1. /\ RequestsOK /\ BooksOK /\ RequestType /\ RequestOK(r)
      /\ pc[r] = "apply" /\ ledgerLock = None /\ cut = None
      /\ UNCHANGED <<paid, keys, wonAt, cut>>
  BY DEF IInv, RequestsOK, ApplyTransaction, books
<1>2. CASE Answer(r, "declined")
  BY <1>1, <1>2, QuietAnswer DEF What, Verdict
<1>3. CASE /\ ledgerLock' = r /\ Go(r, "append")
           /\ UNCHANGED <<wants, at, conns, answer, told>>
  <2>1. conns' = [conns EXCEPT ![r] = 1]
    BY <1>1, <1>3 DEF RequestType, RequestOK
  <2>2. RequestOK(r)'
    BY <1>1, <1>3 DEF RequestType, RequestOK, Go, RequireKey
  <2>3. RequestsOK'
    BY <1>1, <1>3, <2>1, <2>2, MoveKeeps, NoneIsNobody DEF Place
  <2>4. QED
    BY <1>1, <1>3, <2>3, QuietStep
<1>4. QED
  BY <1>2, <1>3 DEF ApplyTransaction

LEMMA AppendLogKeeps ==
  ASSUME IInv, NEW r \in Request, AppendLog(r)
  PROVE  IInv'
<1>1. /\ RequestsOK /\ BooksOK /\ RequestType /\ RequestOK(r)
      /\ pc[r] = "append" /\ UNCHANGED <<wants, at, conns, answer>>
      /\ UNCHANGED <<paid, keys, wonAt, cut, told>>
  BY DEF IInv, RequestsOK, AppendLog, books
<1> DEFINE loses == KeyOf[wants[r]] # NoKey /\ Stored(r) # None
           where == IF loses THEN "race" ELSE "commit"
<1>2. Go(r, where) /\ ledgerLock' = IF loses THEN None ELSE ledgerLock
  BY DEF AppendLog
<1>3. ledgerLock = r /\ conns' = [conns EXCEPT ![r] = 1]
  BY <1>1 DEF RequestType, RequestOK
<1>4. RequestOK(r)'
  <2>1. pc'[r] = where
    BY <1>1, <1>2 DEF Go, RequestType
  <2>2. CASE loses
    BY <1>1, <1>2, <2>1, <2>2, NoneIsNobody DEF RequestOK, RequireKey, Stored
  <2>3. CASE ~loses
    BY <1>1, <1>2, <1>3, <2>1, <2>3 DEF RequestOK, RequireKey, Stored
  <2>4. QED
    BY <2>2, <2>3
<1>5. where \in Place
  BY DEF Place
<1>6. /\ ledgerLock' \in Request \cup {None}
      /\ \A u \in Request \ {r} : ledgerLock' = u <=> ledgerLock = u
  BY <1>1, <1>2, <1>3, NoneIsNobody DEF RequestType
<1> HIDE DEF where
<1>7. RequestsOK'
  BY <1>1, <1>2, <1>3, <1>4, <1>5, <1>6, MoveKeeps
<1>8. QED
  BY <1>1, <1>2, <1>7, QuietStep

-----------------------------------------------------------------------------
(* COMMIT.                                                                 *)

\* A payment whose key is free is the first under it.
LEMMA WrittenKeeps ==
  ASSUME BooksOK, NEW i \in Intent, i \notin Dry, NEW p \in Process \cup {None}, Written(i, p),
         KeyOf[i] = NoKey => AllowUnkeyed, KeyOf[i] # NoKey => keys[KeyOf[i]] = None
  PROVE  /\ BooksOK' /\ KeysStay
         /\ KeyOf[i] # NoKey => keys'[KeyOf[i]] = BodyOf[i]
<1>1. /\ i \in Intent /\ i \notin Dry /\ Written(i, p)
      /\ KeyOf[i] = NoKey => AllowUnkeyed
      /\ KeyOf[i] # NoKey => keys[KeyOf[i]] = None
  OBVIOUS
<1>2. BooksType /\ \A j \in Intent : KeyOK(j)
  BY DEF BooksOK
<1>3. \A j \in Intent : KeyOf[j] # NoKey => KeyOf[j] \in UsedKeys
  BY DEF UsedKeys
<1>4. BooksType'
  <2>1. paid' \in [Intent -> Nat]
    BY <1>1, <1>2 DEF BooksType, Written
  <2>2. keys' \in [UsedKeys -> Body \cup {None}]
    BY <1>1, <1>2, <1>3 DEF BooksType, Written, Body
  <2>3. wonAt' \in [UsedKeys -> Process \cup {None}]
    BY <1>1, <1>2, <1>3 DEF BooksType, Written
  <2>4. QED
    BY <2>1, <2>2, <2>3 DEF BooksType
<1>5. KeysStay
  BY <1>1, <1>2, <1>3 DEF KeysStay, Written, BooksType
<1>6. KeyOf[i] # NoKey => keys'[KeyOf[i]] = BodyOf[i]
  BY <1>1, <1>2, <1>3 DEF Written, BooksType
<1>7. ASSUME NEW j \in Intent
      PROVE  KeyOK(j)'
  <2>1. KeyOK(j) /\ BodyOf[j] # None /\ BodyOf[i] # None
    BY <1>1, <1>2, ServiceAssumption
  <2>2. CASE j = i
    <3>1. paid'[j] = paid[j] + 1 /\ paid[j] \in Nat
      BY <1>1, <1>2, <2>2 DEF Written, BooksType
    <3>2. KeyOf[j] # NoKey => paid[j] = 0
      BY <1>1, <2>1, <2>2 DEF KeyOK
    <3>3. QED
      BY <1>1, <1>6, <2>2, <3>1, <3>2 DEF KeyOK
  <2>3. CASE j # i
    <3>1. paid'[j] = paid[j]
      BY <1>1, <1>2, <2>3 DEF Written, BooksType
    <3>2. CASE KeyOf[j] = NoKey
      BY <2>1, <3>1, <3>2 DEF KeyOK
    <3>3. CASE KeyOf[j] # NoKey /\ KeyOf[j] # KeyOf[i]
      <4>1. keys'[KeyOf[j]] = keys[KeyOf[j]]
        BY <1>1, <1>2, <1>3, <3>3 DEF Written, BooksType
      <4>2. QED
        BY <2>1, <3>1, <4>1 DEF KeyOK
    <3>4. CASE KeyOf[j] # NoKey /\ KeyOf[j] = KeyOf[i]
      <4>1. keys[KeyOf[j]] = None
        BY <1>1, <3>4
      <4>2. paid[j] = 0
        BY <2>1, <3>4, <4>1 DEF KeyOK
      <4>3. j \notin Dry => BodyOf[j] # BodyOf[i]
        BY <1>1, <2>3, <3>4, ServiceAssumption
      <4>4. keys'[KeyOf[j]] = BodyOf[i]
        BY <1>6, <3>4
      <4>5. QED
        BY <3>1, <4>2, <4>3, <4>4 DEF KeyOK
    <3>5. QED
      BY <3>2, <3>3, <3>4
  <2>4. QED
    BY <2>2, <2>3
<1>8. BooksOK'
  BY <1>4, <1>7 DEF BooksOK
<1>9. QED
  BY <1>5, <1>6, <1>8

\* The ledgers row keeps everybody else from being between the unique index
\* and COMMIT.
LEMMA OneAtCommit ==
  ASSUME IInv, NEW r \in Request, pc[r] = "commit", NEW u \in Request \ {r}
  PROVE  pc[u] # "commit"
  BY DEF IInv, RequestsOK, RequestOK

LEMMA CommitTxKeeps ==
  ASSUME IInv, NEW r \in Request, CommitTx(r)
  PROVE  IInv'
<1>1. pc[r] = "commit" /\ Answer(r, Outcome(r)) /\ cut' = cut
  BY DEF CommitTx
<1>2. /\ wants[r] \in Intent /\ at[r] \in Process
      /\ KeyOf[wants[r]] = NoKey /\ wants[r] \notin Dry => AllowUnkeyed
      /\ KeyOf[wants[r]] # NoKey => keys[KeyOf[wants[r]]] = None
      /\ cut = None
  BY <1>1, NoneIsNobody DEF IInv, CutOK, RequestsOK, RequestOK, RequireKey, Stored
<1>3. CASE wants[r] \in Dry
  <2>1. Outcome(r) = "preview" /\ UNCHANGED <<paid, keys, wonAt>>
    BY <1>3 DEF CommitTx, Outcome, books
  <2>2. QED
    BY <1>1, <2>1, QuietAnswer DEF What, Verdict
<1>4. CASE wants[r] \notin Dry
  <2>1. Outcome(r) = "created" /\ Written(wants[r], at[r])
    BY <1>4 DEF CommitTx, Outcome
  <2>2. /\ BooksOK' /\ KeysStay
        /\ KeyOf[wants[r]] # NoKey => keys'[KeyOf[wants[r]]] = BodyOf[wants[r]]
    BY <1>2, <1>4, <2>1, WrittenKeeps DEF IInv
  <2>3. Verdict(wants[r], "created")'
    BY <1>1, <1>2, <1>4, <2>2 DEF Verdict, Answer
  <2>4. RequestsOK'
    BY <1>1, <2>1, <2>2, <2>3, OneAtCommit, AnswerKeeps DEF IInv, What
  <2>5. ToldOK'
    BY <1>1, <2>2, ToldKeeps DEF IInv, Answer
  <2>6. CutOK'
    BY <1>1, <1>2 DEF CutOK
  <2>7. QED
    BY <2>2, <2>4, <2>5, <2>6 DEF IInv
<1>5. QED
  BY <1>3, <1>4

LEMMA CommitBreaksKeeps ==
  ASSUME IInv, NEW r \in Request, CommitBreaks(r)
  PROVE  IInv'
<1>1. /\ pc[r] = "commit" /\ wants[r] \notin Dry /\ Answer(r, "failed")
      /\ cut' = wants[r] /\ UNCHANGED <<paid, keys, wonAt>>
  BY DEF CommitBreaks, books
<1>2. KeysStay /\ Verdict(wants[r], "failed")'
  BY <1>1 DEF KeysStay, Verdict
<1>3. RequestsOK'
  BY <1>1, <1>2, AnswerKeeps DEF IInv, What
<1>4. CutOK'
  <2>1. ledgerLock' = Unlocked({r})
    BY <1>1 DEF Answer
  <2>2. QED
    BY <1>1, <2>1, CutBegins
<1>5. QED
  BY <1>1, <1>3, <1>4, QuietCut DEF Answer

\* The COMMIT nobody waits for is carried out while nobody else is between the
\* unique index and COMMIT.
LEMMA SettleKeeps ==
  ASSUME IInv, Settle
  PROVE  IInv'
<1>1. /\ RequestsOK /\ BooksOK /\ ToldOK /\ CutOK
      /\ cut # None /\ cut' = None
      /\ UNCHANGED <<pc, wants, at, conns, answer, ledgerLock, told>>
  BY DEF IInv, Settle, requests
<1>2. CutOK'
  BY <1>1 DEF CutOK
<1>3. BooksOK' /\ KeysStay
  <2>1. CASE Written(cut, None)
    BY <1>1, <2>1, WrittenKeeps DEF CutOK
  <2>2. CASE UNCHANGED books
    BY <1>1, <2>2, BooksKeep DEF books
  <2>3. QED
    BY <2>1, <2>2 DEF Settle
<1>4. RequestsOK'
  <2>1. Others({}) /\ RequestType'
    BY <1>1 DEF Others, RequestsOK, RequestType
  <2>2. ASSUME NEW u \in Request
        PROVE  pc[u] # "commit"
    BY <1>1, NoneIsNobody DEF CutOK, RequestsOK, RequestOK
  <2>3. ASSUME NEW u \in Request
        PROVE  RequestOK(u)'
    <3>1. u \in Request \ {}
      OBVIOUS
    <3>2. QED
      BY <1>1, <1>3, <2>1, <2>2, <3>1, OthersKeep
  <2>4. QED
    BY <2>1, <2>3 DEF RequestsOK
<1>5. ToldOK'
  BY <1>1, <1>3, ToldKeeps
<1>6. QED
  BY <1>2, <1>3, <1>4, <1>5 DEF IInv

LEMMA NextKeeps == IInv /\ [Next]_vars => IInv'
<1> SUFFICES ASSUME IInv, [Next]_vars PROVE IInv'
  OBVIOUS
<1>1. ASSUME NEW r \in Request, NEW i \in Intent, NEW p \in Process, Send(r, i, p)
      PROVE  IInv'
  BY <1>1, SendKeeps
<1>2. ASSUME NEW r \in Request, Serve(r)
      PROVE  IInv'
  BY <1>2, HandleKeeps, BeginKeeps, FindKeeps, ApplyTransactionKeeps, AppendLogKeeps,
     IdempotencyRaceKeeps, RereadKeeps, CommitTxKeeps, ReplyKeeps DEF Serve
<1>3. ASSUME NEW r \in Request, CommitBreaks(r)
      PROVE  IInv'
  BY <1>3, CommitBreaksKeeps
<1>4. ASSUME NEW r \in Request, HangUp(r)
      PROVE  IInv'
  BY <1>4, HangUpKeeps
<1>5. ASSUME NEW p \in Process, Stop(p) \/ Exit(p) \/ Crash(p) \/ Restart(p)
      PROVE  IInv'
  BY <1>5, ProcessKeeps
<1>6. CASE Settle
  BY <1>6, SettleKeeps
<1>7. CASE UNCHANGED vars
  BY <1>7 DEF vars, requests, books, IInv, RequestsOK, RequestType, RequestOK, Stored,
              Verdict, BooksOK, BooksType, KeyOK, ToldOK, CutOK
<1>8. QED
  BY <1>1, <1>2, <1>3, <1>4, <1>5, <1>6, <1>7 DEF Next

LEMMA AlwaysIInv == Spec => []IInv
  BY InitOK, NextKeeps, PTL DEF Spec

\* Nobody is paid twice, whatever is lost, repeated, broken or killed, as long
\* as the operator does not allow writes without a key (requireKey, commitOnce,
\* the unique index on the key).
THEOREM NobodyPaidTwice ==
  ASSUME ~AllowUnkeyed
  PROVE  Spec => []PaidOnce
<1>1. IInv => PaidOnce
  <2> SUFFICES ASSUME IInv PROVE PaidOnce
    OBVIOUS
  <2>1. \A i \in Intent : KeyOK(i) /\ paid[i] \in Nat
    BY DEF IInv, BooksOK, BooksType
  <2>2. ASSUME NEW i \in Intent
        PROVE  paid[i] <= IF i \in Dry THEN 0 ELSE 1
    BY <2>1 DEF KeyOK
  <2>3. ASSUME NEW i \in Intent, NEW j \in Intent, KeyOf[i] = KeyOf[j], KeyOf[i] # NoKey,
               paid[i] # 0, paid[j] # 0
        PROVE  i = j
    <3>1. keys[KeyOf[i]] = BodyOf[i] /\ keys[KeyOf[j]] = BodyOf[j]
      BY <2>1, <2>3 DEF KeyOK
    <3>2. i \notin Dry /\ j \notin Dry
      BY <2>1, <2>3 DEF KeyOK
    <3>3. QED
      BY <2>3, <3>1, <3>2, ServiceAssumption
  <2>4. QED
    BY <2>2, <2>3 DEF PaidOnce
<1>2. QED
  BY <1>1, AlwaysIInv, PTL

\* What a client was told stays true: a payment it heard of was made exactly
\* once, and a request rejected for its key never moves money (createTransaction,
\* commitBatch, findByIdempotencyKey).
THEOREM VerdictsAlwaysHold ==
  ASSUME ~AllowUnkeyed
  PROVE  Spec => []VerdictsHold
<1>1. IInv => VerdictsHold
  <2> SUFFICES ASSUME IInv, NEW i \in Intent
               PROVE  /\ "created" \in told[i] => paid[i] = 1
                      /\ "rejected" \in told[i] => paid[i] = 0
    BY DEF VerdictsHold
  <2>1. KeyOK(i) /\ BodyOf[i] # None
    BY ServiceAssumption DEF IInv, BooksOK
  <2>2. \A what \in told[i] : Verdict(i, what)
    BY DEF IInv, ToldOK
  <2>3. QED
    BY <2>1, <2>2 DEF KeyOK, Verdict
<1>2. QED
  BY <1>1, AlwaysIInv, PTL

-----------------------------------------------------------------------------
(* The pool.  A request with a connection that will find its key taken is a *)
(* loser, now or later.  The losers of a winner in their own process all    *)
(* held a connection beside the winner's when it committed, and nobody      *)
(* becomes one of them later, because whoever takes a connection then looks *)
(* the key up first.  A winner elsewhere, or one whose COMMIT was left      *)
(* behind, held none of theirs.                                             *)

IsLoser(r) ==
  /\ pc[r] \in {"apply", "append", "race"}
  /\ KeyOf[wants[r]] # NoKey
  /\ Stored(r) # None

WonBy(r) == wonAt[KeyOf[wants[r]]]

Losers(p) == {r \in Served(p) : IsLoser(r) /\ WonBy(r) = p}

PoolOK == \A p \in Process : Held(p) <= MaxConns /\ Cardinality(Losers(p)) < MaxConns

\* A step that gives no connection out and makes no loser.
Sheds ==
  \A r \in Request :
    /\ conns'[r] = 0 \/ (at'[r] = at[r] /\ conns'[r] = conns[r])
    /\ IsLoser(r)' => IsLoser(r) /\ at'[r] = at[r] /\ WonBy(r)' = WonBy(r)

LEMMA PoolFinite ==
  /\ \A p : IsFiniteSet(Out(p)) /\ IsFiniteSet(Losers(p))
  /\ \A p : Cardinality(Out(p)) \in Nat /\ Cardinality(Losers(p)) \in Nat
<1>1. IsFiniteSet(Request)
  BY ServiceAssumption
<1>2. IsFiniteSet({1, 2})
  <2>1. IsFiniteSet({1} \cup {2})
    BY FS_Singleton, FS_AddElement
  <2>2. {1, 2} = {1} \cup {2}
    OBVIOUS
  <2>3. QED
    BY <2>1, <2>2
<1>3. IsFiniteSet(Request \X {1, 2})
  BY <1>1, <1>2, FS_Product
<1>4. ASSUME NEW p
      PROVE  IsFiniteSet(Out(p)) /\ IsFiniteSet(Losers(p))
  <2>1. Out(p) \in SUBSET (Request \X {1, 2}) /\ Losers(p) \in SUBSET Request
    BY DEF Out, Losers, Served
  <2>2. QED
    BY <1>1, <1>3, <2>1, FS_Subset
<1>5. QED
  BY <1>4, FS_CardinalityType

LEMMA LosersKeep ==
  ASSUME NEW p,
         \A r \in Request : r \in Losers(p)' => r \in Losers(p),
         Cardinality(Losers(p)) < MaxConns
  PROVE  (Cardinality(Losers(p)) < MaxConns)'
<1>1. Losers(p)' \in SUBSET Losers(p)
  BY DEF Losers, Served
<1>2. Cardinality(Losers(p)') <= Cardinality(Losers(p)) /\ Cardinality(Losers(p)') \in Nat
  BY <1>1, PoolFinite, FS_Subset, FS_CardinalityType
<1>3. MaxConns \in Nat /\ Cardinality(Losers(p)) \in Nat
  BY ServiceAssumption, PoolFinite
<1>4. Cardinality(Losers(p)') < MaxConns
  BY <1>2, <1>3
<1>5. QED
  BY <1>4

LEMMA HeldKeeps ==
  ASSUME NEW p,
         \A r \in Request : conns'[r] = 0 \/ (at'[r] = at[r] /\ conns'[r] = conns[r]),
         Held(p) <= MaxConns
  PROVE  (Held(p) <= MaxConns)'
<1>1. Out(p)' \in SUBSET Out(p)
  BY DEF Out
<1>2. Cardinality(Out(p)') <= Cardinality(Out(p)) /\ Cardinality(Out(p)') \in Nat
  BY <1>1, PoolFinite, FS_Subset, FS_CardinalityType
<1>3. MaxConns \in Nat /\ Cardinality(Out(p)) \in Nat
  BY ServiceAssumption, PoolFinite
<1>4. Cardinality(Out(p)') <= MaxConns
  BY <1>2, <1>3 DEF Held
<1>5. QED
  BY <1>4 DEF Held

LEMMA ShedKeeps ==
  ASSUME PoolOK, Sheds
  PROVE  PoolOK'
<1>1. ASSUME NEW p \in Process
      PROVE  (Held(p) <= MaxConns)' /\ (Cardinality(Losers(p)) < MaxConns)'
  <2>1. \A r \in Request : r \in Losers(p)' => r \in Losers(p)
    BY DEF Sheds, Losers, Served
  <2>2. QED
    BY <2>1, HeldKeeps, LosersKeep DEF PoolOK, Sheds
<1>2. QED
  BY <1>1 DEF PoolOK

LEMMA VanishSheds ==
  ASSUME NEW gone \in SUBSET Request, Vanish(gone), UNCHANGED <<keys, wonAt>>
  PROVE  Sheds
<1>1. ASSUME NEW u \in Request, u \in gone
      PROVE  conns'[u] = 0 /\ ~IsLoser(u)'
  BY <1>1 DEF Vanish, IsLoser
<1>2. ASSUME NEW u \in Request, u \notin gone
      PROVE  /\ pc'[u] = pc[u] /\ wants'[u] = wants[u] /\ at'[u] = at[u]
             /\ conns'[u] = conns[u] /\ (IsLoser(u)' => IsLoser(u)) /\ WonBy(u)' = WonBy(u)
  BY <1>2 DEF Vanish, IsLoser, Stored, WonBy
<1>3. QED
  BY <1>1, <1>2 DEF Sheds

LEMMA AnswerSheds ==
  ASSUME RequestsOK, NEW r \in Request, NEW what, Answer(r, what), UNCHANGED <<keys, wonAt>>
  PROVE  Sheds
<1>1. conns'[r] = 0 /\ ~IsLoser(r)'
  BY DEF Answer, Go, RequestsOK, RequestType, IsLoser
<1>2. ASSUME NEW u \in Request, u # r
      PROVE  /\ pc'[u] = pc[u] /\ wants'[u] = wants[u] /\ at'[u] = at[u]
             /\ conns'[u] = conns[u] /\ (IsLoser(u)' => IsLoser(u)) /\ WonBy(u)' = WonBy(u)
  BY <1>2 DEF Answer, Go, RequestsOK, RequestType, IsLoser, Stored, WonBy
<1>3. QED
  BY <1>1, <1>2 DEF Sheds

\* The steps of a request that keep its connections.
LEMMA MoveSheds ==
  ASSUME RequestsOK, NEW r \in Request, NEW where, Go(r, where),
         UNCHANGED <<wants, at, conns, keys, wonAt>>, IsLoser(r)' => IsLoser(r)
  PROVE  Sheds
<1>1. ASSUME NEW u \in Request, u # r
      PROVE  IsLoser(u)' <=> IsLoser(u)
  BY <1>1 DEF Go, RequestsOK, RequestType, IsLoser, Stored
<1>2. QED
  BY <1>1 DEF Sheds, WonBy

\* A connection is given out only while the pool has one, and never to
\* somebody who becomes a loser by it.
LEMMA AcquireKeeps ==
  ASSUME RequestsOK, PoolOK, NEW r \in Request, NEW where, Acquire(r, where),
         pc[r] \in {"begin", "race"}, where = "apply" => KeyOf[wants[r]] = NoKey,
         where \in {"apply", "find", "reread"}
  PROVE  PoolOK'
<1>0. keys' = keys /\ wonAt' = wonAt /\ RequestType /\ RequestOK(r)
  BY DEF Acquire, RequestsOK, books
<1>1. CASE state[at[r]] # "up"
  <2>1. Answer(r, "failed")
    BY <1>1 DEF Acquire
  <2>2. QED
    BY <1>0, <2>1, AnswerSheds, ShedKeeps
<1>2. CASE state[at[r]] = "up"
  <2>1. /\ conns' = [conns EXCEPT ![r] = conns[r] + 1]
        /\ Go(r, where) /\ UNCHANGED <<wants, at>>
        /\ Cardinality(Out(at[r])) < MaxConns
    BY <1>2 DEF Acquire, Held
  <2>2. ASSUME NEW u \in Request
        PROVE  IsLoser(u)' => IsLoser(u) /\ at'[u] = at[u] /\ WonBy(u)' = WonBy(u)
    BY <1>0, <2>1 DEF Go, RequestType, IsLoser, Stored, WonBy
  <2>3. ASSUME NEW p \in Process
        PROVE  (Held(p) <= MaxConns)'
    <3>1. CASE p # at[r]
      <4>1. Out(p)' = Out(p)
        BY <1>0, <2>1, <3>1 DEF Out, RequestType
      <4>2. QED
        BY <4>1 DEF PoolOK, Held
    <3>2. CASE p = at[r]
      <4> DEFINE c == <<r, conns[r] + 1>>
      <4>1. conns[r] \in {0, 1, 2}
        BY <1>0 DEF RequestType
      <4>2. ASSUME NEW d \in Out(p)'
            PROVE  d \in Out(p) \cup {c}
        <5>1. /\ d \in Request \X {1, 2} /\ at[d[1]] = p /\ d[2] <= conns'[d[1]]
          BY <2>1 DEF Out
        <5>2. CASE d[1] # r
          BY <1>0, <2>1, <5>1, <5>2 DEF Out, RequestType
        <5>3. CASE d[1] = r
          <6>1. conns'[r] = conns[r] + 1
            BY <1>0, <2>1 DEF RequestType
          <6>2. d[2] <= conns[r] \/ d[2] = conns[r] + 1
            BY <4>1, <5>1, <5>3, <6>1
          <6>3. d = <<d[1], d[2]>>
            BY <5>1
          <6>4. QED
            BY <5>1, <5>3, <6>2, <6>3 DEF Out
        <5>4. QED
          BY <5>2, <5>3
      <4>3. Out(p)' \in SUBSET (Out(p) \cup {c})
        BY <4>2
      <4>4. /\ IsFiniteSet(Out(p) \cup {c})
            /\ Cardinality(Out(p) \cup {c}) <= Cardinality(Out(p)) + 1
        <5> HIDE DEF c
        <5>1. IsFiniteSet(Out(p)) /\ Cardinality(Out(p)) \in Nat
          BY PoolFinite
        <5>2. /\ IsFiniteSet(Out(p) \cup {c})
              /\ Cardinality(Out(p) \cup {c}) =
                   IF c \in Out(p) THEN Cardinality(Out(p)) ELSE Cardinality(Out(p)) + 1
          BY <5>1, FS_AddElement
        <5>3. QED
          BY <5>1, <5>2
      <4>5. Cardinality(Out(p)') <= Cardinality(Out(p) \cup {c})
        <5> HIDE DEF c
        <5>1. QED
          BY <4>3, <4>4, FS_Subset
      <4>6. /\ Cardinality(Out(p) \cup {c}) \in Nat
            /\ Cardinality(Out(p)') \in Nat
        <5> HIDE DEF c
        <5>1. QED
          BY <4>3, <4>4, FS_Subset, FS_CardinalityType
      <4>7. Cardinality(Out(p)) < MaxConns /\ Cardinality(Out(p)) \in Nat /\ MaxConns \in Nat
        BY <2>1, <3>2, PoolFinite, ServiceAssumption
      <4> HIDE DEF c
      <4>8. Cardinality(Out(p)') <= MaxConns
        BY <4>4, <4>5, <4>6, <4>7
      <4>9. QED
        BY <4>8 DEF Held
    <3>3. QED
      BY <3>1, <3>2
  <2>4. ASSUME NEW p \in Process
        PROVE  \A u \in Request : u \in Losers(p)' => u \in Losers(p)
    BY <2>2 DEF Losers, Served
  <2>5. QED
    BY <2>3, <2>4, LosersKeep DEF PoolOK
<1>3. QED
  BY <1>1, <1>2

\* A key taken elsewhere makes nobody a loser of a winner here.
LEMMA WonElsewhere ==
  ASSUME RequestsOK, BooksOK, NEW i \in Intent, NEW q, Written(i, q), NEW p \in Process, p # q,
         NEW u \in Request, u \in Losers(p)',
         pc'[u] = pc[u] /\ wants'[u] = wants[u] /\ at'[u] = at[u]
  PROVE  u \in Losers(p)
<1>1. /\ pc[u] \in {"apply", "append", "race"} /\ at[u] = p
      /\ KeyOf[wants[u]] # NoKey
      /\ keys'[KeyOf[wants[u]]] # None /\ wonAt'[KeyOf[wants[u]]] = p
  BY DEF Losers, Served, IsLoser, Stored, WonBy
<1>2. wants[u] \in Intent /\ KeyOf[wants[u]] \in UsedKeys
  BY <1>1 DEF RequestsOK, RequestOK, UsedKeys
<1>3. keys \in [UsedKeys -> Body \cup {None}] /\ wonAt \in [UsedKeys -> Process \cup {None}]
  BY DEF BooksOK, BooksType
<1>4. KeyOf[wants[u]] # KeyOf[i]
  BY <1>1, <1>2, <1>3 DEF Written
<1>5. /\ keys'[KeyOf[wants[u]]] = keys[KeyOf[wants[u]]]
      /\ wonAt'[KeyOf[wants[u]]] = wonAt[KeyOf[wants[u]]]
  BY <1>2, <1>3, <1>4 DEF Written
<1>6. QED
  BY <1>1, <1>5 DEF Losers, Served, IsLoser, Stored, WonBy

\* The losers of a key hold a connection each, and so did the winner.
LEMMA WinnerHadOne ==
  ASSUME IInv, PoolOK, NEW r \in Request, NEW what, pc[r] = "commit", Answer(r, what),
         Written(wants[r], at[r])
  PROVE  PoolOK'
<1>1. RequestsOK /\ RequestType
  BY DEF IInv, RequestsOK
<1>2. ASSUME NEW p \in Process
      PROVE  (Held(p) <= MaxConns)'
  BY <1>1, HeldKeeps DEF PoolOK, Answer, RequestType
<1>3. ASSUME NEW p \in Process, p = at[r]
      PROVE  (Cardinality(Losers(p)) < MaxConns)'
  <2> DEFINE L == Losers(p)'
             f == [u \in L \cup {r} |-> <<u, 1>>]
  <2>1. at[r] = p /\ conns[r] = 1
    BY <1>1, <1>3 DEF RequestsOK, RequestOK
  <2>2. ASSUME NEW u \in L
        PROVE  u \in Request /\ u # r /\ at[u] = p /\ conns[u] = 1
    <3>1. u \in Request /\ at'[u] = p /\ pc'[u] \in {"apply", "append", "race"}
      BY <2>2 DEF Losers, Served, IsLoser
    <3>2. u # r /\ pc'[u] = pc[u] /\ at'[u] = at[u]
      BY <1>1, <3>1 DEF Answer, Go, RequestType
    <3>3. RequestOK(u)
      BY <1>1, <3>1 DEF RequestsOK
    <3>4. QED
      BY <3>1, <3>2, <3>3 DEF RequestOK
  <2>3. \A u \in L \cup {r} : <<u, 1>> \in Out(p)
    BY <2>1, <2>2 DEF Out
  <2>4. f \in Injection(L \cup {r}, Out(p))
    <3>1. f \in [L \cup {r} -> Out(p)]
      BY <2>3
    <3>2. \A u, v \in L \cup {r} : f[u] = f[v] => u = v
      OBVIOUS
    <3> HIDE DEF f
    <3>3. QED
      BY <3>1, <3>2, Fun_IsInj
  <2>5. IsFiniteSet(L \cup {r}) /\ Cardinality(L \cup {r}) <= Cardinality(Out(p))
    <3> HIDE DEF f, L
    <3>1. QED
      BY <2>4, PoolFinite, FS_Injection
  <2>6. L \in SUBSET (L \cup {r}) /\ r \notin L
    BY <2>2
  <2> HIDE DEF L, f
  <2>7. IsFiniteSet(L) /\ Cardinality(L) \in Nat
    BY <2>5, <2>6, FS_Subset, FS_CardinalityType
  <2>8. Cardinality(L \cup {r}) = Cardinality(L) + 1
    BY <2>6, <2>7, FS_AddElement
  <2>9. Cardinality(Out(p)) <= MaxConns /\ Cardinality(Out(p)) \in Nat /\ MaxConns \in Nat
    BY PoolFinite, ServiceAssumption DEF PoolOK, Held
  <2>10. Cardinality(L) < MaxConns
    BY <2>5, <2>7, <2>8, <2>9
  <2>11. QED
    BY <2>10 DEF L
<1>4. ASSUME NEW p \in Process, p # at[r]
      PROVE  (Cardinality(Losers(p)) < MaxConns)'
  <2>1. ASSUME NEW u \in Request, u \in Losers(p)'
        PROVE  u \in Losers(p)
    <3>1. u # r
      BY <1>1, <2>1 DEF Losers, IsLoser, Answer, Go, RequestType
    <3>2. pc'[u] = pc[u] /\ wants'[u] = wants[u] /\ at'[u] = at[u]
      BY <1>1, <3>1 DEF Answer, Go, RequestType
    <3>3. wants[r] \in Intent /\ BooksOK
      BY <1>1 DEF IInv, RequestsOK, RequestOK
    <3>4. QED
      BY <1>1, <1>4, <2>1, <3>2, <3>3, WonElsewhere
  <2>2. QED
    BY <2>1, LosersKeep DEF PoolOK
<1>5. QED
  BY <1>2, <1>3, <1>4 DEF PoolOK

LEMMA SettleKeepsPool ==
  ASSUME IInv, PoolOK, Settle
  PROVE  PoolOK'
<1>1. /\ RequestsOK /\ BooksOK /\ cut \in Intent
      /\ UNCHANGED <<pc, wants, at, conns>>
  BY DEF IInv, CutOK, Settle, requests
<1>2. ASSUME NEW p \in Process
      PROVE  (Held(p) <= MaxConns)'
  BY <1>1, HeldKeeps DEF PoolOK
<1>3. ASSUME NEW p \in Process, NEW u \in Request, u \in Losers(p)'
      PROVE  u \in Losers(p)
  <2>1. CASE Written(cut, None)
    <3>1. p # None
      BY ServiceAssumption
    <3>2. pc'[u] = pc[u] /\ wants'[u] = wants[u] /\ at'[u] = at[u]
      BY <1>1
    <3>3. QED
      BY <1>1, <1>3, <2>1, <3>1, <3>2, WonElsewhere
  <2>2. CASE UNCHANGED books
    BY <1>1, <1>3, <2>2 DEF books, Losers, Served, IsLoser, Stored, WonBy
  <2>3. QED
    BY <2>1, <2>2 DEF Settle
<1>4. QED
  BY <1>2, <1>3, LosersKeep DEF PoolOK

LEMMA ServeKeepsPool ==
  ASSUME IInv, PoolOK, NEW r \in Request, Serve(r) \/ CommitBreaks(r) \/ HangUp(r)
  PROVE  PoolOK'
<1>0. RequestsOK /\ RequestType /\ RequestOK(r)
  BY DEF IInv, RequestsOK
<1>1. CASE Handle(r)
  <2>1. CASE RequireKey(wants[r])
    <3>1. Go(r, "begin") /\ UNCHANGED <<wants, at, conns, keys, wonAt>>
      BY <1>1, <2>1 DEF Handle, books
    <3>2. ~IsLoser(r)'
      BY <1>0, <3>1 DEF Go, RequestType, IsLoser
    <3>3. QED
      BY <1>0, <3>1, <3>2, MoveSheds, ShedKeeps
  <2>2. CASE ~RequireKey(wants[r])
    BY <1>0, <1>1, <2>2, AnswerSheds, ShedKeeps DEF Handle, books
  <2>3. QED
    BY <2>1, <2>2
<1>2. CASE Begin(r)
  BY <1>0, <1>2, AcquireKeeps DEF Begin
<1>3. CASE IdempotencyRace(r)
  BY <1>0, <1>3, AcquireKeeps DEF IdempotencyRace
<1>4. CASE Find(r)
  <2>1. CASE Found(r)
    BY <1>0, <1>4, <2>1, AnswerSheds, ShedKeeps DEF Find, AnswerStored, books
  <2>2. CASE ~Found(r)
    <3>1. Go(r, "apply") /\ UNCHANGED <<wants, at, conns, keys, wonAt>>
      BY <1>4, <2>2 DEF Find, books
    <3>2. ~IsLoser(r)'
      BY <2>2, <3>1 DEF IsLoser, Found, Stored
    <3>3. QED
      BY <1>0, <3>1, <3>2, MoveSheds, ShedKeeps
  <2>3. QED
    BY <2>1, <2>2
<1>5. CASE ApplyTransaction(r)
  <2>1. CASE Answer(r, "declined")
    BY <1>0, <1>5, <2>1, AnswerSheds, ShedKeeps DEF ApplyTransaction, books
  <2>2. CASE Go(r, "append") /\ UNCHANGED <<wants, at, conns>>
    <3>1. pc[r] = "apply" /\ keys' = keys /\ wonAt' = wonAt
      BY <1>5 DEF ApplyTransaction, books
    <3>2. IsLoser(r)' => IsLoser(r)
      BY <2>2, <3>1 DEF IsLoser, Stored
    <3>3. QED
      BY <1>0, <2>2, <3>1, <3>2, MoveSheds, ShedKeeps
  <2>3. QED
    BY <1>5, <2>1, <2>2 DEF ApplyTransaction
<1>6. CASE AppendLog(r)
  <2> DEFINE where == IF KeyOf[wants[r]] # NoKey /\ Stored(r) # None THEN "race" ELSE "commit"
  <2>1. pc[r] = "append" /\ Go(r, where) /\ UNCHANGED <<wants, at, conns, keys, wonAt>>
    BY <1>6 DEF AppendLog, books
  <2>2. IsLoser(r)' => IsLoser(r)
    BY <2>1 DEF IsLoser, Stored
  <2> HIDE DEF where
  <2>3. QED
    BY <1>0, <2>1, <2>2, MoveSheds, ShedKeeps
<1>7. CASE Reread(r)
  BY <1>0, <1>7, AnswerSheds, ShedKeeps DEF Reread, AnswerStored, books
<1>8. CASE CommitTx(r)
  <2>1. CASE wants[r] \in Dry
    BY <1>0, <1>8, <2>1, AnswerSheds, ShedKeeps DEF CommitTx, books
  <2>2. CASE wants[r] \notin Dry
    BY <1>8, <2>2, WinnerHadOne DEF CommitTx
  <2>3. QED
    BY <2>1, <2>2
<1>9. CASE CommitBreaks(r)
  BY <1>0, <1>9, AnswerSheds, ShedKeeps DEF CommitBreaks, books
<1>10. CASE Reply(r) \/ HangUp(r)
  BY <1>10, VanishSheds, ShedKeeps DEF Reply, HangUp, books
<1>11. QED
  BY <1>1, <1>2, <1>3, <1>4, <1>5, <1>6, <1>7, <1>8, <1>9, <1>10 DEF Serve

LEMMA OthersKeepPool ==
  ASSUME IInv, PoolOK,
         \/ \E r \in Request, i \in Intent, p \in Process : Send(r, i, p)
         \/ \E p \in Process : Stop(p) \/ Exit(p) \/ Crash(p) \/ Restart(p)
         \/ UNCHANGED vars
  PROVE  PoolOK'
<1>1. ASSUME NEW r \in Request, NEW i \in Intent, NEW p \in Process, Send(r, i, p)
      PROVE  Sheds
  <2>1. conns'[r] = 0 /\ pc'[r] = "asked"
    BY <1>1 DEF IInv, RequestsOK, RequestType, RequestOK, Send, Go
  <2>2. ASSUME NEW u \in Request, u # r
        PROVE  /\ at'[u] = at[u] /\ conns'[u] = conns[u]
               /\ IsLoser(u)' <=> IsLoser(u)
               /\ WonBy(u)' = WonBy(u)
    BY <1>1, <2>2 DEF IInv, RequestsOK, RequestType, Send, Go, IsLoser, Stored, WonBy, books
  <2>3. QED
    BY <2>1, <2>2 DEF Sheds, IsLoser
<1>2. ASSUME NEW p \in Process, Exit(p) \/ Crash(p)
      PROVE  Sheds
  <2>1. /\ Served(p) \in SUBSET Request /\ Vanish(Served(p))
        /\ UNCHANGED <<keys, wonAt>>
    BY <1>2 DEF Served, Exit, Crash, books
  <2>2. QED
    BY <2>1, VanishSheds
<1>3. ASSUME UNCHANGED <<pc, wants, at, conns, keys, wonAt>>
      PROVE  Sheds
  BY <1>3 DEF Sheds, IsLoser, Stored, WonBy
<1>4. ASSUME NEW p \in Process, Stop(p) \/ Restart(p)
      PROVE  Sheds
  BY <1>3, <1>4 DEF Stop, Restart, requests, books
<1>5. CASE UNCHANGED vars
  BY <1>3, <1>5, ShedKeeps DEF vars, requests, books
<1>6. QED
  BY <1>1, <1>2, <1>4, <1>5, ShedKeeps

\* The losers of races for a key whose winners were served by their own process
\* never hold its whole pool between them, however many processes there are and
\* whatever the size of the pools: one of the connections they wait for was the
\* winner's and cannot become another loser's (commitOnce, idempotencyRace).
\* Losers to winners elsewhere are not counted, and can hold a whole pool.
THEOREM LosersAlwaysLeaveAConnection == Spec => []LosersLeaveAConnection
<1>1. Init => PoolOK
  <2> SUFFICES ASSUME Init, NEW p \in Process
               PROVE  Held(p) <= MaxConns /\ Cardinality(Losers(p)) < MaxConns
    BY DEF PoolOK
  <2>1. Out(p) = {} /\ Losers(p) = {}
    BY DEF Init, Idle, Out, Losers, IsLoser, Served
  <2>2. QED
    BY <2>1, FS_EmptySet, ServiceAssumption DEF Held
<1>2. IInv /\ PoolOK /\ [Next]_vars => PoolOK'
  BY ServeKeepsPool, SettleKeepsPool, OthersKeepPool DEF Next
<1>3. IInv /\ PoolOK => LosersLeaveAConnection
  <2> SUFFICES ASSUME IInv, PoolOK, NEW p \in Process
               PROVE  Cardinality({r \in Losing(p) : wonAt[KeyOf[wants[r]]] = p}) < MaxConns
    BY DEF LosersLeaveAConnection
  <2> DEFINE R == {r \in Losing(p) : wonAt[KeyOf[wants[r]]] = p}
  <2>1. R \in SUBSET Losers(p)
    BY DEF Losers, Losing, Served, IsLoser, WonBy, IInv, RequestsOK, RequestOK
  <2> HIDE DEF R
  <2>2. Cardinality(R) <= Cardinality(Losers(p)) /\ Cardinality(R) \in Nat
    BY <2>1, PoolFinite, FS_Subset, FS_CardinalityType
  <2>3. Cardinality(Losers(p)) < MaxConns /\ Cardinality(Losers(p)) \in Nat /\ MaxConns \in Nat
    BY PoolFinite, ServiceAssumption DEF PoolOK
  <2>4. Cardinality(R) < MaxConns
    BY <2>2, <2>3
  <2>5. QED
    BY <2>4 DEF R
<1>4. QED
  BY <1>1, <1>2, <1>3, AlwaysIInv, PTL DEF Spec
=============================================================================
