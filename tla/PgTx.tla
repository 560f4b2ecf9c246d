--------------------------------- MODULE PgTx ---------------------------------
(***************************************************************************)
(* InTx and runTx of package postgresql, around a function that inserts a  *)
(* row with a unique key and calls outbox.Enqueue, as the producer of a    *)
(* message does.  pgx, its pool and the server are the environment: a      *)
(* statement that is interrupted closes the connection, the server notices *)
(* later, and a COMMIT that is cut off may still be carried out.           *)
(***************************************************************************)
EXTENDS Contexts, Integers, FiniteSets

CONSTANTS
    Keys, KeyOf,      \* the unique key that each inserts
    NoTx,             \* not in Requests
    RequestedConns,   \* POSTGRES_MAX_CONNS
    DefaultConns      \* its default

\* withDefaults.
MaxConns == IF RequestedConns = 0 THEN DefaultConns ELSE RequestedConns

\* Open refuses other values.
Validate == MaxConns > 0

ASSUME PoolAssumption ==
    RequestedConns \in Int /\ DefaultConns \in Nat \ {0} /\ Validate

ASSUME KeysAssumption == KeyOf \in [Requests -> Keys] /\ NoTx \notin Requests

VARIABLES
    tx,       \* [Requests -> TxStates], where InTx is
    answer,   \* [Requests -> Answers], what InTx returns, once it is decided
    conn,     \* [Requests -> BOOLEAN], a connection of the pool is taken
    cut,      \* [Requests -> Cuts], whether and why that connection is closed
    session,  \* [Requests -> Sessions], the transaction as the server sees it
    wrote,    \* [Requests -> SUBSET {"row", "message"}], in that transaction
    rowOf,    \* [Keys -> Requests \cup {NoTx}], the committed rows
    outbox    \* [Requests -> STRING], the message of t: "new" until it is committed

dbVars == <<rowOf, outbox>>
txVars == <<tx, answer, conn, cut, session, wrote>>

TxStates == {"none", "begin", "insert", "enqueue", "commit", "rollback", "over"}
Answers == {"none", "nil", "refused", "commitError", "panic"}

\* "broken": under a statement, by the end of the context or by the network;
\* "dropped": by pgx, because the context had ended before anything was sent.
Cuts == {"no", "broken", "dropped"}

\* "committing": the server has COMMIT and nobody hears what becomes of it.
Sessions == {"none", "open", "aborted", "committing"}

TxInit ==
    /\ tx = [t \in Requests |-> "none"]
    /\ answer = [t \in Requests |-> "none"]
    /\ conn = [t \in Requests |-> FALSE]
    /\ cut = [t \in Requests |-> "no"]
    /\ session = [t \in Requests |-> "none"]
    /\ wrote = [t \in Requests |-> {}]
    /\ rowOf = [k \in Keys |-> NoTx]
    /\ outbox = [t \in Requests |-> "new"]

-------------------------------------------------------------------------------
(* The server *)

\* Other transactions that hold the key of t: an INSERT of it waits for them.
Holders(t) ==
    {u \in Requests \ {t} : KeyOf[u] = KeyOf[t] /\ "row" \in wrote[u]}

\* What t wrote becomes visible, all at once.
Applied(t) ==
    /\ rowOf' = [rowOf EXCEPT ![KeyOf[t]] = IF "row" \in wrote[t] THEN t ELSE @]
    /\ outbox' = [outbox EXCEPT ![t] = IF "message" \in wrote[t] THEN "pending"
                                                               ELSE @]

SessionEnds(t) ==
    /\ session' = [session EXCEPT ![t] = "none"]
    /\ wrote' = [wrote EXCEPT ![t] = {}]

\* The server notices that the connection is gone and rolls back.
ServerNotices(t) ==
    /\ cut[t] # "no"
    /\ session[t] \in {"open", "aborted"}
    /\ SessionEnds(t)
    /\ UNCHANGED <<tx, answer, conn, cut, dbVars>>

\* A COMMIT that was cut off is carried out, or it never reached the server.
ServerDecides(t) ==
    /\ session[t] = "committing"
    /\ \/ Applied(t)
       \/ UNCHANGED dbVars
    /\ SessionEnds(t)
    /\ UNCHANGED <<tx, answer, conn, cut>>

-------------------------------------------------------------------------------
(* InTx *)

InUse == {t \in Requests : conn[t]}

\* InTx goes on to its deferred function with what it will return.
Leave(t, result) ==
    /\ tx' = [tx EXCEPT ![t] = "rollback"]
    /\ answer' = [answer EXCEPT ![t] = result]

\* Begin: a connection of the pool is free.
Begin(t) ==
    /\ tx[t] = "begin"
    /\ Cardinality(InUse) < MaxConns
    /\ conn' = [conn EXCEPT ![t] = TRUE]
    /\ session' = [session EXCEPT ![t] = "open"]
    /\ tx' = [tx EXCEPT ![t] = "insert"]
    /\ UNCHANGED <<answer, cut, wrote, dbVars>>

\* Begin fails: the context ends, or no connection can be had.
BeginFails(t) ==
    /\ tx[t] = "begin"
    /\ tx' = [tx EXCEPT ![t] = "over"]
    /\ answer' = [answer EXCEPT ![t] = "refused"]
    /\ UNCHANGED <<conn, cut, session, wrote, dbVars>>

Usable(t) == session[t] = "open" /\ cut[t] = "no"

\* fn inserts its row.
Insert(t) ==
    /\ tx[t] = "insert"
    /\ Usable(t)
    /\ Holders(t) = {} /\ rowOf[KeyOf[t]] = NoTx
    /\ wrote' = [wrote EXCEPT ![t] = {"row"}]
    /\ tx' = [tx EXCEPT ![t] = "enqueue"]
    /\ UNCHANGED <<answer, conn, cut, session, dbVars>>

\* The key is taken: the statement fails, and with it the transaction.  fn
\* returns the error, or goes on as if it had not seen it.
InsertConflicts(t) ==
    /\ tx[t] = "insert"
    /\ Usable(t)
    /\ Holders(t) = {} /\ rowOf[KeyOf[t]] # NoTx
    /\ session' = [session EXCEPT ![t] = "aborted"]
    /\ \/ Leave(t, "refused")
       \/ tx' = [tx EXCEPT ![t] = "enqueue"] /\ UNCHANGED answer
    /\ UNCHANGED <<conn, cut, wrote, dbVars>>

\* Slip: an error of Enqueue is dropped.
EnqueueLost(t) ==
    /\ tx[t] = "enqueue"
    /\ Usable(t)
    /\ tx' = [tx EXCEPT ![t] = "commit"]
    /\ UNCHANGED <<answer, conn, cut, session, wrote, dbVars>>

\* Enqueue on the transaction; fn returns nil.
Enqueue(t) ==
    /\ tx[t] = "enqueue"
    /\ Usable(t)
    /\ wrote' = [wrote EXCEPT ![t] = @ \cup {"message"}]
    /\ tx' = [tx EXCEPT ![t] = "commit"]
    /\ UNCHANGED <<answer, conn, cut, session, dbVars>>

\* A statement in a failed transaction or on a closed connection fails; fn
\* returns the error, or nil in spite of it.
StatementFails(t) ==
    /\ tx[t] \in {"insert", "enqueue"}
    /\ ~Usable(t)
    /\ \/ Leave(t, "refused")
       \/ tx' = [tx EXCEPT ![t] = "commit"] /\ UNCHANGED answer
    /\ UNCHANGED <<conn, cut, session, wrote, dbVars>>

\* fn returns an error of its own or panics, between any two statements.
FnFails(t) ==
    /\ tx[t] \in {"insert", "enqueue"}
    /\ \E result \in {"refused", "panic"} : Leave(t, result)
    /\ UNCHANGED <<conn, cut, session, wrote, dbVars>>

\* The context ends while a statement runs, or the network fails: pgx closes
\* the connection.
Interrupted(t) ==
    /\ tx[t] \in {"insert", "enqueue", "commit", "rollback"}
    /\ conn[t] /\ cut[t] = "no"
    /\ cut' = [cut EXCEPT ![t] = "broken"]
    /\ UNCHANGED <<tx, answer, conn, session, wrote, dbVars>>

\* Commit releases the connection to the pool, whatever its result; what comes
\* after it in runTx finds the transaction closed.
CommitReturns(t, result) ==
    /\ tx' = [tx EXCEPT ![t] = "over"]
    /\ answer' = [answer EXCEPT ![t] = result]
    /\ conn' = [conn EXCEPT ![t] = FALSE]

\* The server commits and says so.
Commit(t) ==
    /\ tx[t] = "commit"
    /\ Usable(t) /\ ~ctxDone[t]
    /\ Applied(t)
    /\ SessionEnds(t)
    /\ CommitReturns(t, "nil")
    /\ UNCHANGED cut

\* Slip: the answer of the server to COMMIT is not looked at.
CommitUnread(t) ==
    /\ tx[t] = "commit"
    /\ session[t] = "aborted" /\ cut[t] = "no" /\ ~ctxDone[t]
    /\ SessionEnds(t)
    /\ CommitReturns(t, "nil")
    /\ UNCHANGED <<cut, dbVars>>

\* COMMIT of a failed transaction: the server answers ROLLBACK.
CommitRollsBack(t) ==
    /\ tx[t] = "commit"
    /\ session[t] = "aborted" /\ cut[t] = "no" /\ ~ctxDone[t]
    /\ SessionEnds(t)
    /\ CommitReturns(t, "commitError")
    /\ UNCHANGED <<cut, dbVars>>

\* The context is done or the connection closed: nothing is sent, and the
\* connection, inside a transaction, is closed.
CommitNotSent(t) ==
    /\ tx[t] = "commit"
    /\ ctxDone[t] \/ cut[t] # "no"
    /\ cut' = [cut EXCEPT ![t] = IF @ = "no" THEN "dropped" ELSE @]
    /\ CommitReturns(t, "commitError")
    /\ UNCHANGED <<session, wrote, dbVars>>

\* COMMIT is sent and its answer does not come before the context ends or the
\* connection breaks.
CommitUnknown(t) ==
    /\ tx[t] = "commit"
    /\ Usable(t)
    /\ session' = [session EXCEPT ![t] = "committing"]
    /\ cut' = [cut EXCEPT ![t] = "broken"]
    /\ CommitReturns(t, "commitError")
    /\ UNCHANGED <<wrote, dbVars>>

\* Slip: ROLLBACK is given the context of the caller; if that is done, nothing is
\* sent and pgx closes the connection.
RollbackInherits(t) ==
    /\ tx[t] = "rollback"
    /\ tx' = [tx EXCEPT ![t] = "over"]
    /\ conn' = [conn EXCEPT ![t] = FALSE]
    /\ IF cut[t] # "no" \/ ctxDone[t]
       THEN /\ cut' = [cut EXCEPT ![t] = IF @ = "no" THEN "dropped" ELSE @]
            /\ UNCHANGED <<session, wrote>>
       ELSE SessionEnds(t) /\ UNCHANGED cut
    /\ UNCHANGED <<answer, dbVars>>

\* The deferred Rollback, with a context that does not end: the transaction is
\* over on the server when InTx returns, unless its connection is closed.
Rollback(t) ==
    /\ tx[t] = "rollback"
    /\ tx' = [tx EXCEPT ![t] = "over"]
    /\ conn' = [conn EXCEPT ![t] = FALSE]
    /\ IF cut[t] # "no" THEN UNCHANGED <<session, wrote>> ELSE SessionEnds(t)
    /\ UNCHANGED <<answer, cut, dbVars>>

\* The steps that the code takes by itself once it can.
Progress(t) ==
    \/ Begin(t)
    \/ Insert(t) \/ InsertConflicts(t) \/ Enqueue(t) \/ StatementFails(t)
    \/ Commit(t) \/ CommitRollsBack(t) \/ CommitNotSent(t)
    \/ Rollback(t)

\* The failures that may come in between.
Misfortune(t) ==
    BeginFails(t) \/ FnFails(t) \/ Interrupted(t) \/ CommitUnknown(t)

ServerStep(t) == ServerNotices(t) \/ ServerDecides(t)

===============================================================================
