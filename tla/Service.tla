------------------------------ MODULE Service ------------------------------
(***************************************************************************)
(* The HTTP API in front of the commit path: internal/api, cmd/giro/serve  *)
(* and the connection pool, with clients that lose answers and ask again.  *)
(*                                                                         *)
(* A request is one goroutine of one server process.  The commit path is   *)
(* reduced to where it holds a connection and where it looks at the key    *)
(* (the module Commit takes the rest apart): BEGIN on a connection of the  *)
(* pool, the lookup, the work under the ledgers row, the unique index, the *)
(* second connection of the loser, COMMIT.  The server aborts the          *)
(* transaction of the loser at the violation, so a loser holds connections *)
(* and no lock.  A COMMIT whose request is gone is the server's to carry   *)
(* out or to drop, with the ledgers row locked until then.  A transaction  *)
(* and a batch take the same steps.                                        *)
(***************************************************************************)
EXTENDS Naturals, FiniteSets

CONSTANTS
  Intent,        \* what clients want done
  BodyOf,        \* the transaction or batch an intent asks for, hashed under its key
  KeyOf,         \* the Idempotency-Key header of an intent, or NoKey
  NoKey,
  Dry,           \* intents sent with dryRun=true
  Process,       \* server processes on one database
  Request,       \* bound: requests in flight
  None,
  MaxConns,      \* connections of a pool
  AllowUnkeyed,  \* --allow-unkeyed-writes
  MaxSends,      \* bound: requests sent
  MaxStops       \* bound: crashes and shutdowns

\* All the server sees of an intent is its key, its body and dryRun: two
\* writes that agree in them are one intent, sent again.
ASSUME ServiceAssumption ==
  /\ DOMAIN KeyOf = Intent /\ DOMAIN BodyOf = Intent /\ Dry \subseteq Intent
  /\ \A i, j \in Intent \ Dry :
       KeyOf[i] = KeyOf[j] /\ KeyOf[i] # NoKey /\ BodyOf[i] = BodyOf[j] => i = j
  /\ \A i \in Intent : BodyOf[i] # None
  /\ None \notin Intent \cup Process \cup Request
  /\ IsFiniteSet(Request)
  /\ MaxConns \in Nat \ {0} /\ AllowUnkeyed \in BOOLEAN
  /\ MaxSends \in Nat /\ MaxStops \in Nat

VARIABLES
  pc, wants, at,  \* of a request: where it is, its intent, the process that serves it
  conns,          \* connections it holds
  answer,         \* what it will say
  ledgerLock,     \* request that holds the ledgers row
  cut,            \* intent whose COMMIT is at the server and its request gone
  paid,           \* paid[i]: committed transactions made by intent i
  keys,           \* logs: idempotency key -> the body it was used with
  wonAt,          \* history: key -> the process whose request committed it
  state,          \* of a process: up, stopping, down
  told,           \* told[i]: the answers that reached the client of i
  sends, stops

requests == <<pc, wants, at, conns, answer>>
books == <<paid, keys, wonAt>>
vars == <<requests, ledgerLock, cut, books, state, told, sends, stops>>

UsedKeys == {KeyOf[i] : i \in Intent} \ {NoKey}

Idle ==
  /\ pc = [r \in Request |-> "idle"]
  /\ wants = [r \in Request |-> None]
  /\ at = [r \in Request |-> None]
  /\ conns = [r \in Request |-> 0]
  /\ answer = [r \in Request |-> None]

Init ==
  /\ Idle
  /\ ledgerLock = None /\ cut = None
  /\ paid = [i \in Intent |-> 0]
  /\ keys = [k \in UsedKeys |-> None]
  /\ wonAt = [k \in UsedKeys |-> None]
  /\ state = [p \in Process |-> "up"]
  /\ told = [i \in Intent |-> {}]
  /\ sends = 0 /\ stops = 0

-----------------------------------------------------------------------------
(* The pool of a process, and the end of a request.                        *)

Served(p) == {r \in Request : at[r] = p}

\* The connections a request of p has out: none, that of its transaction, and
\* the second one of a loser.
Out(p) == {c \in Request \X {1, 2} : at[c[1]] = p /\ c[2] <= conns[c[1]]}

Held(p) == Cardinality(Out(p))

\* Mutant: the ledgers row stays locked when a request ends.
UnlockedNever(gone) == ledgerLock

\* COMMIT and ROLLBACK free the ledgers row.
Unlocked(gone) == IF ledgerLock \in gone THEN None ELSE ledgerLock

Go(r, where) == pc' = [pc EXCEPT ![r] = where]

\* The store call is over and its deferred rollbacks have returned every
\* connection; writeJSON or writeError is next.
Answer(r, what) ==
  /\ Go(r, "reply")
  /\ answer' = [answer EXCEPT ![r] = what]
  /\ conns' = [conns EXCEPT ![r] = 0]
  /\ ledgerLock' = Unlocked({r})
  /\ UNCHANGED <<wants, at, state, told, sends, stops>>

\* The requests are gone, and the locks and connections they held with them.
Vanish(gone) ==
  /\ pc' = [r \in Request |-> IF r \in gone THEN "idle" ELSE pc[r]]
  /\ wants' = [r \in Request |-> IF r \in gone THEN None ELSE wants[r]]
  /\ at' = [r \in Request |-> IF r \in gone THEN None ELSE at[r]]
  /\ conns' = [r \in Request |-> IF r \in gone THEN 0 ELSE conns[r]]
  /\ answer' = [r \in Request |-> IF r \in gone THEN None ELSE answer[r]]
  /\ ledgerLock' = Unlocked(gone)

\* What the requests were doing is rolled back, but for a COMMIT that is on
\* its way.
CutOff(gone) ==
  \/ cut' = cut
  \/ \E r \in gone : pc[r] = "commit" /\ wants[r] \notin Dry /\ cut' = wants[r]

-----------------------------------------------------------------------------
(* Clients.                                                                *)

Final == {"created", "preview", "rejected", "declined"}

\* A client sends until it is told something other than "internal error",
\* to any process that listens, without waiting for an earlier attempt.  One
\* free request is as good as another.
Send(r, i, p) ==
  /\ pc[r] = "idle" /\ state[p] = "up"
  /\ r = CHOOSE u \in Request : pc[u] = "idle"
  /\ told[i] \cap Final = {}
  /\ sends < MaxSends
  /\ sends' = sends + 1
  /\ Go(r, "asked")
  /\ wants' = [wants EXCEPT ![r] = i]
  /\ at' = [at EXCEPT ![r] = p]
  /\ UNCHANGED <<conns, answer, ledgerLock, cut, books, state, told, stops>>

\* The client hears the answer, or its connection is gone by then.
Reply(r) ==
  /\ pc[r] = "reply"
  /\ Vanish({r})
  /\ \/ told' = [told EXCEPT ![wants[r]] = @ \cup {answer[r]}]
     \/ told' = told
  /\ UNCHANGED <<cut, books, state, sends, stops>>

\* The client hangs up and the request's context is cancelled.
HangUp(r) ==
  /\ pc[r] \notin {"idle", "reply"}
  /\ Vanish({r})
  /\ CutOff({r})
  /\ UNCHANGED <<books, state, told, sends, stops>>

-----------------------------------------------------------------------------
(* createTransaction and commitBatch.                                      *)

\* Mutant: a write without a key is let through.
RequireKeyNever(i) == TRUE

\* requireKey: a key, a dry run, or an operator who said so.
RequireKey(i) == AllowUnkeyed \/ KeyOf[i] # NoKey \/ i \in Dry

Handle(r) ==
  /\ pc[r] = "asked"
  /\ IF RequireKey(wants[r])
       THEN Go(r, "begin") /\ UNCHANGED <<wants, at, conns, answer, ledgerLock, state,
                                          told, sends, stops>>
       ELSE Answer(r, "rejected")
  /\ UNCHANGED <<cut, books>>

\* pool.Begin, once the pool's semaphore admits it: a pool being closed
\* refuses then and not before.
Acquire(r, next) ==
  /\ Held(at[r]) < MaxConns
  /\ IF state[at[r]] = "up"
       THEN /\ conns' = [conns EXCEPT ![r] = @ + 1]
            /\ Go(r, next)
            /\ UNCHANGED <<wants, at, answer, ledgerLock, state, told, sends, stops>>
       ELSE Answer(r, "failed")
  /\ UNCHANGED <<cut, books>>

Begin(r) ==
  /\ pc[r] = "begin"
  /\ Acquire(r, IF KeyOf[wants[r]] = NoKey THEN "apply" ELSE "find")

Stored(r) == keys[KeyOf[wants[r]]]

Outcome(r) == IF wants[r] \in Dry THEN "preview" ELSE "created"

\* Mutant: an entry under the key is an answer, whatever request it was for.
SameBodyAlways(r) == TRUE

\* The idempotency hash covers the body: a dry run hashes like the write it
\* previews.
SameBody(r) == Stored(r) = BodyOf[wants[r]]

\* findByIdempotencyKey found an entry: the stored transaction, or a mismatch.
AnswerStored(r) ==
  /\ Answer(r, IF SameBody(r) THEN Outcome(r) ELSE "rejected")
  /\ UNCHANGED <<cut, books>>

\* Mutant: the fast path is taken out.
FoundNever(r) == FALSE

Found(r) == Stored(r) # None

Find(r) ==
  /\ pc[r] = "find"
  /\ IF Found(r) THEN AnswerStored(r)
     ELSE Go(r, "apply") /\ UNCHANGED <<wants, at, conns, answer, ledgerLock, cut,
                                        books, state, told, sends, stops>>

\* applyTransaction: the rows and the ledgers row are waited for, and the
\* balances may decline it.
ApplyTransaction(r) ==
  /\ pc[r] = "apply"
  /\ ledgerLock = None /\ cut = None
  /\ \/ /\ ledgerLock' = r
        /\ Go(r, "append")
        /\ UNCHANGED <<wants, at, conns, answer, state, told, sends, stops>>
     \/ Answer(r, "declined")
  /\ UNCHANGED <<cut, books>>

\* appendLog: the unique index on the key catches the loser, whose
\* transaction and locks end there.
AppendLog(r) ==
  LET loses == KeyOf[wants[r]] # NoKey /\ Stored(r) # None
  IN  /\ pc[r] = "append"
      /\ Go(r, IF loses THEN "race" ELSE "commit")
      /\ ledgerLock' = IF loses THEN None ELSE ledgerLock
      /\ UNCHANGED <<wants, at, conns, answer, cut, books, state, told, sends, stops>>

\* idempotencyRace, batchIdempotencyRace: a second connection while the first
\* waits for its deferred rollback.
IdempotencyRace(r) == pc[r] = "race" /\ Acquire(r, "reread")

Reread(r) == pc[r] = "reread" /\ AnswerStored(r)

\* The payment of i is in the books, committed at process p.
Written(i, p) ==
  /\ paid' = [paid EXCEPT ![i] = @ + 1]
  /\ IF KeyOf[i] = NoKey THEN UNCHANGED <<keys, wonAt>>
     ELSE /\ keys' = [keys EXCEPT ![KeyOf[i]] = BodyOf[i]]
          /\ wonAt' = [wonAt EXCEPT ![KeyOf[i]] = p]

\* A dry run is rolled back.
CommitTx(r) ==
  /\ pc[r] = "commit"
  /\ Answer(r, Outcome(r))
  /\ IF wants[r] \in Dry THEN UNCHANGED books ELSE Written(wants[r], at[r])
  /\ UNCHANGED cut

\* The connection to the database breaks under COMMIT: "commit: %w" becomes
\* a 500, and the connection's place in the pool is free at once.
CommitBreaks(r) ==
  /\ pc[r] = "commit" /\ wants[r] \notin Dry
  /\ Answer(r, "failed")
  /\ cut' = wants[r]
  /\ UNCHANGED books

\* The server carries the COMMIT out that nobody waits for, or never got it.
Settle ==
  /\ cut # None
  /\ cut' = None
  /\ Written(cut, None) \/ UNCHANGED books
  /\ UNCHANGED <<requests, ledgerLock, state, told, sends, stops>>

Serve(r) ==
  \/ Handle(r) \/ Begin(r) \/ Find(r) \/ ApplyTransaction(r) \/ AppendLog(r)
  \/ IdempotencyRace(r) \/ Reread(r) \/ CommitTx(r) \/ Reply(r)

-----------------------------------------------------------------------------
(* Processes.                                                              *)

\* SIGTERM: Shutdown makes ListenAndServe return at once, and the deferred
\* pool.Close waits for the connections that are out, not for the answers.
Stop(p) ==
  /\ state[p] = "up" /\ stops < MaxStops
  /\ stops' = stops + 1
  /\ state' = [state EXCEPT ![p] = "stopping"]
  /\ UNCHANGED <<requests, ledgerLock, cut, books, told, sends>>

Exit(p) ==
  /\ state[p] = "stopping" /\ Held(p) = 0
  /\ state' = [state EXCEPT ![p] = "down"]
  /\ Vanish(Served(p))
  /\ UNCHANGED <<cut, books, told, sends, stops>>

Crash(p) ==
  /\ state[p] # "down" /\ stops < MaxStops
  /\ stops' = stops + 1
  /\ state' = [state EXCEPT ![p] = "down"]
  /\ Vanish(Served(p))
  /\ CutOff(Served(p))
  /\ UNCHANGED <<books, told, sends>>

Restart(p) ==
  /\ state[p] = "down"
  /\ state' = [state EXCEPT ![p] = "up"]
  /\ UNCHANGED <<requests, ledgerLock, cut, books, told, sends, stops>>

Next ==
  \/ \E r \in Request :
       \/ \E i \in Intent, p \in Process : Send(r, i, p)
       \/ Serve(r) \/ CommitBreaks(r) \/ HangUp(r)
  \/ Settle
  \/ \E p \in Process : Stop(p) \/ Exit(p) \/ Crash(p) \/ Restart(p)

\* A goroutine that can go on does, the pool admits those who wait in turn,
\* and the server does not keep a COMMIT for ever.  Nobody has to hang up, and
\* nothing has to break.
Spec ==
  /\ Init /\ [][Next]_vars
  /\ WF_vars(Settle)
  /\ \A r \in Request : WF_vars(Serve(r))
  /\ \A p \in Process : WF_vars(Exit(p))

-----------------------------------------------------------------------------
(* Properties.                                                             *)

\* Nobody is paid twice: with unkeyed writes refused, however often answers
\* are lost, requests sent again side by side, connections broken under
\* COMMIT and processes killed, an intent moves money at most once, two
\* intents under one key move it once between them, and a preview never does
\* (requireKey, the unique index on the key).
PaidOnce ==
  /\ \A i \in Intent : paid[i] <= IF i \in Dry THEN 0 ELSE 1
  /\ \A i, j \in Intent :
       KeyOf[i] = KeyOf[j] /\ KeyOf[i] # NoKey /\ paid[i] # 0 /\ paid[j] # 0 => i = j

\* What a client was told stays true: a payment it was told of was made, by
\* this very request, and one that was rejected for its key never will be.
VerdictsHold ==
  \A i \in Intent :
    /\ "created" \in told[i] => paid[i] = 1
    /\ "rejected" \in told[i] => paid[i] = 0

\* The losers of races for a key that wait for a second connection.
Losing(p) == {r \in Served(p) : pc[r] = "race"}

\* The losers whose winners were served by their own process never hold a
\* whole pool between them, however many processes there are: the winner had
\* a connection too, and whoever takes it afterwards finds the key
\* (commitOnce, the lookup before the insert; idempotencyRace, the second
\* connection).
LosersLeaveAConnection ==
  \A p \in Process :
    Cardinality({r \in Losing(p) : wonAt[KeyOf[wants[r]]] = p}) < MaxConns

\* Every connection of p is with a loser who waits for one more.
Wedged(p) == Cardinality(Losing(p)) >= MaxConns

\* Every request ends, the losers of a race with the answer of the winner,
\* unless its process is wedged: nothing else keeps one waiting for ever, not
\* the pool, the ledgers row, a COMMIT nobody waits for, another process or
\* the pool being closed (commitOnce and commitBatchOnce, whose deferred
\* rollback returns what they hold; idempotencyRace; serveCommand).
RequestsEnd ==
  \A r \in Request : pc[r] # "idle" ~> (pc[r] = "idle" \/ \E p \in Process : at[r] = p /\ Wedged(p))

\* What idempotencyRace says of a loser: "the right answer is the winner's
\* transaction rather than an error", so every request ends.
EveryRequestEnds == \A r \in Request : pc[r] # "idle" ~> pc[r] = "idle"
=============================================================================
