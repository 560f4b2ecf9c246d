----------------------------- MODULE Registration -----------------------------
(***************************************************************************)
(* A handler that registers a user, as the services built on the library   *)
(* do: Hasher.Hash, then InTx with a row of a unique key and a message     *)
(* enqueued beside it, which the outbox then delivers as OutboxContract    *)
(* promises.  Requests of one key are a retry or a double submission.      *)
(* Logins share the hasher: Hasher.Verify and no transaction.              *)
(***************************************************************************)
EXTENDS Password, PgTx

CONSTANT Logins  \* the requests that only verify a password

ASSUME LoginsAssumption == Logins \subseteq Requests

VARIABLE delivered  \* [Requests -> BOOLEAN], the receiver has the message

vars == <<hashVars, txVars, dbVars, ctxDone, delivered>>

\* The outbox, with the table of PgTx for its state.
Contract == INSTANCE OutboxContract WITH Ids <- Requests, state <- outbox

Init ==
    /\ HashInit
    /\ TxInit
    /\ ctxDone = [r \in Requests |-> FALSE]
    /\ delivered = [r \in Requests |-> FALSE]

-------------------------------------------------------------------------------
Over(r) ==
    \/ hash[r] \in {"busy", "failed"}
    \/ hash[r] = "ok" /\ r \in Logins
    \/ tx[r] = "over"

\* A request arrives and its handler calls Hash or Verify.
Arrive(r) ==
    /\ hash[r] = "none"
    /\ hash' = [hash EXCEPT ![r] = "asks"]
    /\ UNCHANGED <<waiters, used, txVars, dbVars, ctxDone, delivered>>

Hashing(r) ==
    /\ HashStep(r, IF r \in Logins THEN VerifyResults ELSE HashResults)
    /\ UNCHANGED <<txVars, dbVars, ctxDone, delivered>>

\* The password is hashed and the handler calls InTx.
CallInTx(r) ==
    /\ r \notin Logins
    /\ hash[r] = "ok" /\ tx[r] = "none"
    /\ tx' = [tx EXCEPT ![r] = "begin"]
    /\ UNCHANGED <<hashVars, answer, conn, cut, session, wrote, dbVars, ctxDone,
                   delivered>>

InTxStep(r) ==
    /\ Progress(r) \/ Misfortune(r) \/ ServerStep(r)
    /\ UNCHANGED <<hashVars, ctxDone, delivered>>

\* The deadline of the request passes, or its client goes away.
Cancel(r) ==
    /\ hash[r] # "none" /\ ~Over(r)
    /\ ~ctxDone[r]
    /\ ctxDone' = [ctxDone EXCEPT ![r] = TRUE]
    /\ UNCHANGED <<hashVars, txVars, dbVars, delivered>>

\* The outbox works on what is in its table.
OutboxStep ==
    /\ \/ \E r \in Requests : Contract!Deliver(r) \/ Contract!Resolve(r)
       \/ \E S \in SUBSET Requests : S # {} /\ Contract!Purge(S)
    /\ UNCHANGED <<hashVars, txVars, rowOf, ctxDone>>

Next ==
    \/ \E r \in Requests :
        Arrive(r) \/ Hashing(r) \/ CallInTx(r) \/ InTxStep(r) \/ Cancel(r)
    \/ OutboxStep

\* argon2 ends, the pool and the locks of PostgreSQL serve their waiters in
\* turn, the server notices closed connections, and the outbox keeps its
\* contract.  No client has to give up and nothing has to fail.
Fairness ==
    /\ \A r \in Requests :
        /\ WF_vars(Hashing(r))
        /\ WF_vars(CallInTx(r))
        /\ SF_vars(Progress(r) /\ UNCHANGED <<hashVars, ctxDone, delivered>>)
        /\ WF_vars(ServerStep(r) /\ UNCHANGED <<hashVars, ctxDone, delivered>>)
        /\ WF_vars(Contract!Resolve(r)
                   /\ UNCHANGED <<hashVars, txVars, rowOf, ctxDone>>)

Spec == Init /\ [][Next]_vars /\ Fairness

-------------------------------------------------------------------------------
\* What the client is told fits what is in the database, whatever is cut off
\* when: row and message are there together or not at all; they are there if
\* InTx returned nil, and never will be if fn failed or panicked.  Only an
\* error of Commit leaves both possible.
AnswerMatchesDatabase ==
    \A r \in Requests :
        LET stored == rowOf[KeyOf[r]] = r
        IN  /\ stored <=> outbox[r] # "new"
            /\ answer[r] = "nil" => stored
            /\ answer[r] \in {"refused", "panic"} => ~stored

\* No more hashes run at once than the semaphore has slots, each of which
\* costs 64 MB: giving up in the queue frees nothing that was not held.
HashesBounded ==
    Cardinality({r \in Requests : hash[r] = "works"}) <= Slots

\* When InTx has returned, its connection is back in the pool and the transaction
\* is over on the server, unless the connection broke under a statement or the
\* context ended before COMMIT was sent: that it ended inside fn, or in its error
\* path, leaves no lock that a retry of the client would have to wait for.
NothingHeldOnReturn ==
    /\ Cardinality(InUse) <= MaxConns
    /\ \A r \in Requests : tx[r] = "over" =>
        /\ ~conn[r]
        /\ \/ session[r] = "none" /\ wrote[r] = {}
           \/ cut[r] = "broken"
           \/ cut[r] = "dropped" /\ answer[r] = "commitError"

\* Every request is answered, also if its context never ends: no slot of the
\* hasher, no connection and no lock on a key stays with a request that is over.
EveryRequestEnds == \A r \in Requests : hash[r] = "asks" ~> Over(r)

\* A registration that is in the database has its message delivered or given up
\* on, also if its client was told of an error.
MessageFollows ==
    \A r \in Requests : rowOf[KeyOf[r]] = r ~> outbox[r] \in {"failed", "gone"}

===============================================================================
