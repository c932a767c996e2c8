------------------------------- MODULE Outbox -------------------------------
(***************************************************************************)
(* Enqueueing with an idempotency key, alone or inside the application's   *)
(* own transaction: enqueue_idempotent, enqueue_idempotent_in_tx and       *)
(* broadcast_idempotent of storage.rs over PostgreSQL, enqueue_idempotent  *)
(* and broadcast_idempotent of backends/sqlite.rs. Calls fail, transactions*)
(* roll back, answers get lost, and the application calls again.           *)
(*                                                                         *)
(* A key here is a pair of an endpoint and an idempotency key: a broadcast *)
(* has one for each enabled endpoint, a send one only.                     *)
(***************************************************************************)
EXTENDS Naturals, FiniteSets

CONSTANTS
    Calls,       \* what the application wants to send, each with its key
    Keys,
    KeysOf,      \* the keys a call covers
    InTx,        \* calls that PostgreSQL applications make inside a
                 \* transaction with a business write
    NoRow,       \* no answer for the key yet
    MaxTries     \* bound on how often the application makes a call

ASSUME OutboxAssumption ==
    /\ KeysOf \in [Calls -> SUBSET Keys]
    /\ InTx \subseteq Calls
    /\ MaxTries \in Nat \ {0}

VARIABLES
    backend,    \* "postgres" or "sqlite", for good
    cleanups,   \* whether delivered and dead rows are cleaned up, for good
    rows,       \* the table: keyed rows, committed or of an open transaction
    accepted,   \* history: the rows that were ever committed
    business,   \* history: calls whose transaction was ever committed
    pc,         \* how far each call is
    left,       \* the keys it has still to enqueue
    got,        \* the row it has for each of its keys
    tries       \* how often the application has made it

vars == <<backend, cleanups, rows, accepted, business, pc, left, got, tries>>

\* A row is named by the call, and the try of it, whose INSERT made it.
RowIds == [key : Keys, by : Calls, try : 1..MaxTries]

TypeOK ==
    /\ backend \in {"postgres", "sqlite"}
    /\ cleanups \in BOOLEAN
    /\ rows \subseteq [id : RowIds, committed : BOOLEAN]
    /\ accepted \subseteq RowIds
    /\ business \subseteq InTx
    /\ pc \in [Calls -> {"idle", "sending", "inserting", "reading", "sent", "done", "failed"}]
    /\ left \in [Calls -> SUBSET Keys]
    /\ got \in [Calls -> [Keys -> RowIds \cup {NoRow}]]
    /\ tries \in [Calls -> 0..MaxTries]

Nothing == [k \in Keys |-> NoRow]

Init ==
    /\ backend \in {"postgres", "sqlite"}
    /\ cleanups \in BOOLEAN
    /\ rows = {}
    /\ accepted = {}
    /\ business = {}
    /\ pc = [c \in Calls |-> "idle"]
    /\ left = [c \in Calls |-> {}]
    /\ got = [c \in Calls |-> Nothing]
    /\ tries = [c \in Calls |-> 0]

-----------------------------------------------------------------------------
RowsWith(k)  == {r \in rows : r.id.key = k}
Own(c)       == {r \in rows : r.id.by = c /\ ~r.committed}
NewRow(c, k) == [key |-> k, by |-> c, try |-> tries[c]]

InTransaction(c) == backend = "postgres" /\ c \in InTx

GoTo(c, step) == pc' = [pc EXCEPT ![c] = step]

\* The call begins, in a transaction that has already made its business write
\* if it is one of InTx; a later try of it begins in the same way.
Begin(c) ==
    /\ pc[c] \in {"idle", "done", "failed"}
    /\ tries[c] < MaxTries
    /\ GoTo(c, "sending")
    /\ left' = [left EXCEPT ![c] = KeysOf[c]]
    /\ got' = [got EXCEPT ![c] = Nothing]
    /\ tries' = [tries EXCEPT ![c] = @ + 1]
    /\ UNCHANGED <<rows, accepted, business>>

\* What the transaction of the call has inserted becomes visible.
CommitRows(c) ==
    /\ rows' = (rows \ Own(c)) \cup {[r EXCEPT !.committed = TRUE] : r \in Own(c)}
    /\ accepted' = accepted \cup {r.id : r \in Own(c)}

\* Any statement fails, a deadlock is broken or the process dies: what is not
\* committed goes.
FailCall(c) ==
    /\ pc[c] \in {"sending", "inserting", "reading", "sent"}
    /\ GoTo(c, "failed")
    /\ rows' = rows \ Own(c)
    /\ left' = [left EXCEPT ![c] = {}]
    /\ UNCHANGED <<accepted, business, got, tries>>

-----------------------------------------------------------------------------
(* PostgreSQL: INSERT ... ON CONFLICT DO UPDATE ... RETURNING.              *)

\* A wrong form of the next definition: conflicts are not looked for.
InsertAnyway(c, k) ==
    /\ backend = "postgres"
    /\ pc[c] = "sending"
    /\ k \in left[c]
    /\ left' = [left EXCEPT ![c] = @ \ {k}]
    /\ rows' = rows \cup {[id |-> NewRow(c, k), committed |-> FALSE]}
    /\ got' = [got EXCEPT ![c][k] = NewRow(c, k)]
    /\ UNCHANGED <<accepted, business, pc, tries>>

\* Another: a row that is in the way is taken for the answer even while its
\* transaction is open.
TakeUncommitted(c, k) ==
    /\ backend = "postgres"
    /\ pc[c] = "sending"
    /\ k \in left[c]
    /\ left' = [left EXCEPT ![c] = @ \ {k}]
    /\ \/ /\ RowsWith(k) = {}
          /\ rows' = rows \cup {[id |-> NewRow(c, k), committed |-> FALSE]}
          /\ got' = [got EXCEPT ![c][k] = NewRow(c, k)]
       \/ /\ UNCHANGED rows
          /\ \E r \in RowsWith(k) : got' = [got EXCEPT ![c][k] = r.id]
    /\ UNCHANGED <<accepted, business, pc, tries>>

\* One row of the statement, in an open transaction. While the row in the way
\* is another transaction's, the unique index makes this one wait.
Upsert(c, k) ==
    /\ backend = "postgres"
    /\ pc[c] = "sending"
    /\ k \in left[c]
    /\ \A r \in RowsWith(k) : r.committed
    /\ left' = [left EXCEPT ![c] = @ \ {k}]
    /\ \/ /\ RowsWith(k) = {}
          /\ rows' = rows \cup {[id |-> NewRow(c, k), committed |-> FALSE]}
          /\ got' = [got EXCEPT ![c][k] = NewRow(c, k)]
       \/ /\ UNCHANGED rows
          /\ \E r \in RowsWith(k) : got' = [got EXCEPT ![c][k] = r.id]
    /\ UNCHANGED <<accepted, business, pc, tries>>

\* Wrong forms of the next definition: a statement of the application's
\* transaction commits on its own, and a statement on its own does not.
UpsertedAtOnce(c) ==
    /\ backend = "postgres"
    /\ pc[c] = "sending"
    /\ left[c] = {}
    /\ GoTo(c, IF InTransaction(c) THEN "sent" ELSE "done")
    /\ CommitRows(c)
    /\ UNCHANGED <<business, left, got, tries>>

UpsertedInTx(c) ==
    /\ backend = "postgres"
    /\ pc[c] = "sending"
    /\ left[c] = {}
    /\ GoTo(c, "sent")
    /\ UNCHANGED <<rows, accepted, business, left, got, tries>>

\* The statement has gone through all its rows: on its own it commits.
Upserted(c) ==
    /\ backend = "postgres"
    /\ pc[c] = "sending"
    /\ left[c] = {}
    /\ IF InTransaction(c)
       THEN GoTo(c, "sent") /\ UNCHANGED <<rows, accepted>>
       ELSE GoTo(c, "done") /\ CommitRows(c)
    /\ UNCHANGED <<business, left, got, tries>>

\* The application commits its transaction.
Commit(c) ==
    /\ pc[c] = "sent"
    /\ GoTo(c, "done")
    /\ CommitRows(c)
    /\ business' = business \cup {c}
    /\ UNCHANGED <<left, got, tries>>

-----------------------------------------------------------------------------
(* SQLite: SELECT, INSERT OR IGNORE, SELECT, each on its own. "left" keeps  *)
(* the key in hand until the call has a row for it.                        *)

Answer(c, k) ==
    /\ \E r \in RowsWith(k) : got' = [got EXCEPT ![c][k] = r.id]
    /\ left' = [left EXCEPT ![c] = @ \ {k}]
    /\ GoTo(c, IF left[c] = {k} THEN "done" ELSE "sending")

\* A broadcast enqueues for one endpoint after the other: the key in hand is
\* the same one through the three statements.
InHand(c) == CHOOSE k \in left[c] : TRUE

Look(c) ==
    /\ backend = "sqlite"
    /\ pc[c] = "sending"
    /\ left[c] # {}
    /\ \/ Answer(c, InHand(c))
       \/ /\ RowsWith(InHand(c)) = {}
          /\ GoTo(c, "inserting")
          /\ UNCHANGED <<left, got>>
    /\ UNCHANGED <<rows, accepted, business, tries>>

InsertOrIgnore(c) ==
    /\ pc[c] = "inserting"
    /\ GoTo(c, "reading")
    /\ IF RowsWith(InHand(c)) = {}
       THEN /\ rows' = rows \cup {[id |-> NewRow(c, InHand(c)), committed |-> TRUE]}
            /\ accepted' = accepted \cup {NewRow(c, InHand(c))}
       ELSE UNCHANGED <<rows, accepted>>
    /\ UNCHANGED <<business, left, got, tries>>

\* fetch_one: an error if the row has been cleaned up meanwhile.
ReadBack(c) ==
    /\ pc[c] = "reading"
    /\ \/ Answer(c, InHand(c))
       \/ /\ RowsWith(InHand(c)) = {}
          /\ GoTo(c, "failed")
          /\ left' = [left EXCEPT ![c] = {}]
          /\ UNCHANGED got
    /\ UNCHANGED <<rows, accepted, business, tries>>

-----------------------------------------------------------------------------
\* An open transaction holds the row that its DO UPDATE has touched.
Locked(r) ==
    /\ backend = "postgres"
    /\ \E c \in Calls : pc[c] \in {"sending", "sent"} /\ got[c][r.id.key] = r.id

\* The event was delivered or buried, grew old and is deleted.
Remove(r) ==
    /\ cleanups
    /\ r \in rows
    /\ r.committed
    /\ ~Locked(r)
    /\ rows' = rows \ {r}
    /\ UNCHANGED <<accepted, business, pc, left, got, tries>>

Send(c) ==
    \/ Begin(c)
    \/ \E k \in Keys : Upsert(c, k)
    \/ Upserted(c) \/ Commit(c)
    \/ Look(c) \/ InsertOrIgnore(c) \/ ReadBack(c)

Next ==
    /\ \/ \E c \in Calls : Send(c) \/ FailCall(c)
       \/ \E r \in rows : Remove(r)
    /\ UNCHANGED <<backend, cleanups>>

Spec == Init /\ [][Next]_vars

-----------------------------------------------------------------------------
(* Properties.                                                             *)

\* A call that has returned has got a row for each of its keys that was really
\* committed: none was the row of a transaction that then rolled back.
AnswersAreCommitted ==
    \A c \in Calls :
        pc[c] = "done" => \A k \in KeysOf[c] : got[c][k] \in accepted

\* The outbox: an event of a transaction is accepted only together with its
\* business write (no phantom events), and a business write only if there is
\* an accepted event for each of its keys (no silent drops).
WrittenTogether ==
    /\ \A i \in accepted : InTransaction(i.by) => i.by \in business
    /\ \A c \in business : \A k \in KeysOf[c] : \E i \in accepted : i.key = k

\* However often the application tries, concurrently and after whatever
\* failures, a key is accepted once, as long as its row is not cleaned up.
NeverDuplicates ==
    ~cleanups => \A i, j \in accepted : i.key = j.key => i = j

-----------------------------------------------------------------------------
(* The inductive invariant behind the theorems of OutboxProofs.            *)

Active == {"sending", "inserting", "reading", "sent"}

\* An answer that has been given to a call is right for its key and committed,
\* or it is the call's own row and will be committed with it.
Settled(c, k) ==
    /\ got[c][k] \in RowIds
    /\ got[c][k].key = k
    /\ \/ got[c][k] \in accepted
       \/ /\ pc[c] \in {"sending", "sent"}
          /\ [id |-> got[c][k], committed |-> FALSE] \in Own(c)

\* Where a call is tells what it has open and what it has got so far.
CallsFollowSteps ==
    \A c \in Calls :
        /\ pc[c] # "idle" => tries[c] > 0
        /\ pc[c] \in {"inserting", "reading"} => backend = "sqlite" /\ left[c] # {}
        /\ pc[c] = "sent" => InTransaction(c)
        /\ pc[c] \in {"sent", "done"} => left[c] = {}
        /\ pc[c] \in Active \cup {"done"} => \A k \in KeysOf[c] \ left[c] : Settled(c, k)

\* The unique index holds over open transactions too, and only a transaction
\* that is open has rows that are not committed.
RowsAreUnique ==
    /\ \A r, s \in rows : r.id.key = s.id.key => r = s
    /\ \A r \in rows : r.committed => r.id \in accepted
    /\ \A r \in rows : ~r.committed =>
          backend = "postgres" /\ pc[r.id.by] \in {"sending", "sent"}
    /\ ~cleanups => \A i \in accepted : [id |-> i, committed |-> TRUE] \in rows

OutboxInv == TypeOK /\ CallsFollowSteps /\ RowsAreUnique /\ WrittenTogether
=============================================================================
