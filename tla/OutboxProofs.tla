---------------------------- MODULE OutboxProofs ----------------------------
(***************************************************************************)
(* Proofs about Outbox, for every set of calls and keys, every assignment  *)
(* of keys to calls, every choice of the calls that are transactional, and *)
(* any number of tries.                                                    *)
(***************************************************************************)
EXTENDS Outbox, TLAPS

USE OutboxAssumption DEF OutboxAssumption

\* Every row, answer and counter keeps its type, whatever fails.
LEMMA TypeInit == Init => TypeOK
  BY DEF Init, TypeOK, Nothing

\* The row a call inserts, while it is under way, has a proper name.
LEMMA NewRowType ==
    ASSUME TypeOK, CallsFollowSteps, NEW c \in Calls, pc[c] \in Active, NEW k \in Keys
    PROVE  NewRow(c, k) \in RowIds
<1>1. tries[c] \in 1..MaxTries
    BY DEF TypeOK, CallsFollowSteps, Active
<1> QED BY <1>1 DEF NewRow, RowIds

\* The key in hand is one that is left.
LEMMA InHandIsLeft ==
    ASSUME TypeOK, NEW c \in Calls, left[c] # {}
    PROVE  InHand(c) \in left[c] /\ InHand(c) \in Keys
  BY DEF TypeOK, InHand

\* A row that is inserted has a row's type.
LEMMA InsertType ==
    ASSUME TypeOK, NEW i \in RowIds, NEW b \in BOOLEAN
    PROVE  rows \cup {[id |-> i, committed |-> b]} \subseteq [id : RowIds, committed : BOOLEAN]
<1>1. [id |-> i, committed |-> b] \in [id : RowIds, committed : BOOLEAN]
    OBVIOUS
<1> QED BY <1>1 DEF TypeOK

\* Committing a call's rows marks them and accepts their events.
LEMMA CommitType ==
    ASSUME TypeOK, NEW c \in Calls, CommitRows(c)
    PROVE  /\ rows' \subseteq [id : RowIds, committed : BOOLEAN]
           /\ accepted' \subseteq RowIds
<1>1. \A r \in Own(c) : /\ r \in [id : RowIds, committed : BOOLEAN]
                        /\ r.id \in RowIds
                        /\ [r EXCEPT !.committed = TRUE] \in [id : RowIds, committed : BOOLEAN]
    BY DEF TypeOK, Own
<1>2. \A r \in rows' : \/ r \in rows
                       \/ \E o \in Own(c) : r = [o EXCEPT !.committed = TRUE]
    BY DEF CommitRows
<1>3. rows' \subseteq [id : RowIds, committed : BOOLEAN]
    <2> SUFFICES ASSUME NEW r \in rows' PROVE r \in [id : RowIds, committed : BOOLEAN]
        OBVIOUS
    <2>1. CASE r \in rows
        BY <2>1 DEF TypeOK
    <2>2. CASE \E o \in Own(c) : r = [o EXCEPT !.committed = TRUE]
        BY <1>1, <2>2
    <2> QED BY <1>2, <2>1, <2>2
<1>4. accepted' \subseteq RowIds
    <2> SUFFICES ASSUME NEW i \in accepted' PROVE i \in RowIds
        OBVIOUS
    <2>1. i \in accepted \/ \E r \in Own(c) : i = r.id
        BY DEF CommitRows
    <2> QED BY <1>1, <2>1 DEF TypeOK
<1> QED BY <1>3, <1>4

\* Statements keep the types of the rows and the calls.
LEMMA TypeNext == TypeOK /\ CallsFollowSteps /\ [Next]_vars => TypeOK'
<1> SUFFICES ASSUME TypeOK, CallsFollowSteps, [Next]_vars PROVE TypeOK'
    OBVIOUS
<1>0. CASE UNCHANGED vars
    BY <1>0 DEF TypeOK, vars
<1> SUFFICES ASSUME Next PROVE TypeOK'
    BY <1>0
<1>a. UNCHANGED <<backend, cleanups>>
    BY DEF Next
<1> USE <1>a DEF TypeOK, GoTo
<1>1. ASSUME NEW c \in Calls, Begin(c) PROVE TypeOK'
    BY <1>1 DEF Begin, Nothing
<1>2. ASSUME NEW c \in Calls, FailCall(c) PROVE TypeOK'
    BY <1>2 DEF FailCall
<1>3. ASSUME NEW c \in Calls, NEW k \in Keys, Upsert(c, k) PROVE TypeOK'
    <2>1. NewRow(c, k) \in RowIds
        BY <1>3, NewRowType DEF Upsert, Active
    <2>2. \A r \in RowsWith(k) : r.id \in RowIds
        BY DEF RowsWith
    <2>3. UNCHANGED <<accepted, business, pc, tries>>
        BY <1>3 DEF Upsert
    <2>4. left' \in [Calls -> SUBSET Keys]
        BY <1>3 DEF Upsert
    <2>5. CASE /\ rows' = rows \cup {[id |-> NewRow(c, k), committed |-> FALSE]}
               /\ got' = [got EXCEPT ![c][k] = NewRow(c, k)]
        <3>1. rows' \subseteq [id : RowIds, committed : BOOLEAN]
            BY <2>1, <2>5, InsertType
        <3>2. got' \in [Calls -> [Keys -> RowIds \cup {NoRow}]]
            BY <2>1, <2>5
        <3> QED BY <2>3, <2>4, <3>1, <3>2
    <2>6. CASE /\ rows' = rows
               /\ \E r \in RowsWith(k) : got' = [got EXCEPT ![c][k] = r.id]
        BY <2>2, <2>3, <2>4, <2>6
    <2> QED BY <1>3, <2>5, <2>6 DEF Upsert
<1>4. ASSUME NEW c \in Calls, Upserted(c) PROVE TypeOK'
    BY <1>4, CommitType DEF Upserted
<1>5. ASSUME NEW c \in Calls, Commit(c) PROVE TypeOK'
    BY <1>5, CommitType DEF Commit, CallsFollowSteps, InTransaction
<1>6. ASSUME NEW c \in Calls, NEW k \in Keys, Answer(c, k)
      PROVE  /\ got' \in [Calls -> [Keys -> RowIds \cup {NoRow}]]
             /\ left' \in [Calls -> SUBSET Keys]
             /\ pc' \in [Calls -> {"idle", "sending", "inserting", "reading", "sent",
                                   "done", "failed"}]
    <2>1. \A r \in RowsWith(k) : r.id \in RowIds
        BY DEF RowsWith
    <2> QED BY <1>6, <2>1 DEF Answer
<1>7. ASSUME NEW c \in Calls, Look(c) PROVE TypeOK'
    <2>1. InHand(c) \in Keys
        BY <1>7, InHandIsLeft DEF Look
    <2> QED BY <1>6, <1>7, <2>1 DEF Look
<1>8. ASSUME NEW c \in Calls, InsertOrIgnore(c) PROVE TypeOK'
    <2>1. InHand(c) \in Keys
        BY <1>8, InHandIsLeft DEF InsertOrIgnore, CallsFollowSteps
    <2>2. NewRow(c, InHand(c)) \in RowIds
        BY <1>8, <2>1, NewRowType DEF InsertOrIgnore, Active
    <2>3. rows' \subseteq [id : RowIds, committed : BOOLEAN] /\ accepted' \subseteq RowIds
        BY <1>8, <2>2, InsertType DEF InsertOrIgnore
    <2> QED BY <1>8, <2>3 DEF InsertOrIgnore
<1>9. ASSUME NEW c \in Calls, ReadBack(c) PROVE TypeOK'
    <2>1. InHand(c) \in Keys
        BY <1>9, InHandIsLeft DEF ReadBack, CallsFollowSteps
    <2> QED BY <1>6, <1>9, <2>1 DEF ReadBack
<1>10. ASSUME NEW r \in rows, Remove(r) PROVE TypeOK'
    BY <1>10 DEF Remove
<1> QED BY <1>1, <1>2, <1>3, <1>4, <1>5, <1>7, <1>8, <1>9, <1>10 DEF Next, Send

-----------------------------------------------------------------------------
(* The rows.                                                               *)

\* A row is its id and whether it is committed.
LEMMA RowShape ==
    ASSUME NEW r \in [id : RowIds, committed : BOOLEAN]
    PROVE  /\ r = [id |-> r.id, committed |-> r.committed]
           /\ [r EXCEPT !.committed = TRUE] = [id |-> r.id, committed |-> TRUE]
<1> DEFINE q == [r EXCEPT !.committed = TRUE]
<1>1. q \in [id : RowIds, committed : BOOLEAN] /\ q.id = r.id /\ q.committed = TRUE
    OBVIOUS
<1>2. q = [id |-> q.id, committed |-> q.committed]
    <2> HIDE DEF q
    <2> QED BY <1>1
<1> QED BY <1>1, <1>2

\* Committing changes no row's name, and leaves none of the call's own open.
LEMMA CommitFacts ==
    ASSUME TypeOK, NEW c \in Calls, CommitRows(c)
    PROVE  /\ \A r \in rows' :
                 \/ r \in rows /\ r \notin Own(c)
                 \/ /\ r = [id |-> r.id, committed |-> TRUE]
                    /\ [id |-> r.id, committed |-> FALSE] \in Own(c)
           /\ \A r \in rows : r \notin Own(c) => r \in rows'
           /\ \A r \in Own(c) : /\ r.id \in accepted'
                                /\ [id |-> r.id, committed |-> TRUE] \in rows'
           /\ \A i \in accepted' :
                 i \in accepted \/ (i.by = c /\ [id |-> i, committed |-> FALSE] \in Own(c))
           /\ accepted \subseteq accepted'
<1> DEFINE stamped(r) == [r EXCEPT !.committed = TRUE]
<1>1. \A r \in Own(c) : /\ r = [id |-> r.id, committed |-> FALSE]
                        /\ r.id.by = c
                        /\ stamped(r) = [id |-> r.id, committed |-> TRUE]
    <2> SUFFICES ASSUME NEW r \in Own(c)
                 PROVE  /\ r = [id |-> r.id, committed |-> FALSE]
                        /\ r.id.by = c
                        /\ stamped(r) = [id |-> r.id, committed |-> TRUE]
        OBVIOUS
    <2>1. r \in [id : RowIds, committed : BOOLEAN] /\ r.id.by = c /\ ~r.committed
        BY DEF TypeOK, Own
    <2> QED BY <2>1, RowShape
<1>2. rows' = (rows \ Own(c)) \cup {[id |-> r.id, committed |-> TRUE] : r \in Own(c)}
    <2>1. {stamped(r) : r \in Own(c)} = {[id |-> r.id, committed |-> TRUE] : r \in Own(c)}
        <3> HIDE DEF stamped
        <3> QED BY <1>1, Zenon
    <2> QED BY <2>1 DEF CommitRows
<1>3. accepted' = accepted \cup {r.id : r \in Own(c)}
    BY DEF CommitRows
<1>4. \A r \in rows' : \/ r \in rows /\ r \notin Own(c)
                       \/ \E o \in Own(c) : r = [id |-> o.id, committed |-> TRUE]
    BY <1>2
<1>5. \A i \in accepted' : i \in accepted \/ \E o \in Own(c) : i = o.id
    BY <1>3
<1>6. \A r \in rows' :
          \/ r \in rows /\ r \notin Own(c)
          \/ /\ r = [id |-> r.id, committed |-> TRUE]
             /\ [id |-> r.id, committed |-> FALSE] \in Own(c)
    <2> SUFFICES ASSUME NEW r \in rows'
                 PROVE  \/ r \in rows /\ r \notin Own(c)
                        \/ /\ r = [id |-> r.id, committed |-> TRUE]
                           /\ [id |-> r.id, committed |-> FALSE] \in Own(c)
        OBVIOUS
    <2>1. CASE \E o \in Own(c) : r = [id |-> o.id, committed |-> TRUE]
        <3>1. PICK o \in Own(c) : r = [id |-> o.id, committed |-> TRUE]
            BY <2>1
        <3>2. r.id = o.id
            BY <3>1
        <3> QED BY <1>1, <3>1, <3>2
    <2> QED BY <1>4, <2>1
<1>7. \A i \in accepted' :
          i \in accepted \/ (i.by = c /\ [id |-> i, committed |-> FALSE] \in Own(c))
    <2> SUFFICES ASSUME NEW o \in Own(c)
                 PROVE  o.id.by = c /\ [id |-> o.id, committed |-> FALSE] \in Own(c)
        BY <1>5
    <2> QED BY <1>1
<1> QED BY <1>2, <1>3, <1>6, <1>7

\* No statement inserts a second live row under a key, or an id twice.
LEMMA RowsNext ==
    ASSUME TypeOK, CallsFollowSteps, RowsAreUnique, [Next]_vars
    PROVE  RowsAreUnique'
<1>0. CASE UNCHANGED vars
    BY <1>0 DEF RowsAreUnique, vars
<1> SUFFICES ASSUME Next PROVE RowsAreUnique'
    BY <1>0
<1>a. UNCHANGED <<backend, cleanups>>
    BY DEF Next
<1>b. \A r \in rows : r = [id |-> r.id, committed |-> r.committed] /\ r.committed \in BOOLEAN
                    /\ r.id \in RowIds /\ r.id.by \in Calls
    BY DEF TypeOK, RowIds
<1> USE <1>a DEF RowsAreUnique, GoTo
<1>1. ASSUME NEW c \in Calls, Begin(c) PROVE RowsAreUnique'
    BY <1>1, <1>b DEF Begin, TypeOK
<1>2. ASSUME NEW c \in Calls, FailCall(c) PROVE RowsAreUnique'
    BY <1>2, <1>b DEF FailCall, Own, TypeOK
<1>c. ASSUME NEW k \in Keys, NEW i \in RowIds, NEW b \in BOOLEAN, RowsWith(k) = {},
             i.key = k,
             rows' = rows \cup {[id |-> i, committed |-> b]},
             \/ b = FALSE /\ accepted' = accepted /\ backend = "postgres"
                   /\ pc[i.by] \in {"sending", "sent"} /\ pc' = pc
             \/ b = TRUE /\ backend = "sqlite" /\ accepted' = accepted \cup {i}
      PROVE  RowsAreUnique'
    <2>1. \A r \in rows : r.id.key # k
        BY <1>c DEF RowsWith
    <2> DEFINE n == [id |-> i, committed |-> b]
    <2>2. n.id = i /\ n.committed = b
        OBVIOUS
    <2>3. \A r \in rows' : r \in rows \/ r = n
        BY <1>c
    <2>4. \A r, s \in rows' : r.id.key = s.id.key => r = s
        <3> HIDE DEF n
        <3> QED BY <1>c, <2>1, <2>2, <2>3
    <2>5. \A r \in rows' : r.committed => r.id \in accepted'
        <3> HIDE DEF n
        <3> QED BY <1>c, <2>2, <2>3
    <2>6. \A r \in rows' : ~r.committed =>
              backend' = "postgres" /\ pc'[r.id.by] \in {"sending", "sent"}
        <3> HIDE DEF n
        <3> QED BY <1>c, <2>2, <2>3
    <2>7. ~cleanups => \A j \in accepted' : [id |-> j, committed |-> TRUE] \in rows'
        BY <1>c
    <2> QED BY <2>4, <2>5, <2>6, <2>7
<1>3. ASSUME NEW c \in Calls, NEW k \in Keys, Upsert(c, k) PROVE RowsAreUnique'
    <2>1. NewRow(c, k) \in RowIds /\ NewRow(c, k).key = k /\ NewRow(c, k).by = c
        BY <1>3, NewRowType DEF Upsert, Active, NewRow
    <2>2. CASE RowsWith(k) = {} /\ rows' = rows \cup {[id |-> NewRow(c, k), committed |-> FALSE]}
        BY <1>3, <1>c, <2>1, <2>2 DEF Upsert
    <2>3. CASE rows' = rows
        BY <1>3, <2>3 DEF Upsert
    <2> QED BY <1>3, <2>2, <2>3 DEF Upsert
<1>d. ASSUME NEW c \in Calls, CommitRows(c), pc[c] \in {"sending", "sent"},
             \A d \in Calls : d # c => pc'[d] = pc[d]
      PROVE  RowsAreUnique'
    <2>1. ASSUME NEW r \in rows'
          PROVE  \E o \in rows :
                    /\ r.id = o.id
                    /\ \/ r = o /\ r \notin Own(c)
                       \/ r = [id |-> o.id, committed |-> TRUE] /\ o \in Own(c)
        <3>1. \/ r \in rows /\ r \notin Own(c)
              \/ /\ r = [id |-> r.id, committed |-> TRUE]
                 /\ [id |-> r.id, committed |-> FALSE] \in Own(c)
            BY <1>d, CommitFacts
        <3>2. CASE r \in rows /\ r \notin Own(c)
            BY <3>2
        <3>3. CASE /\ r = [id |-> r.id, committed |-> TRUE]
                   /\ [id |-> r.id, committed |-> FALSE] \in Own(c)
            <4>1. PICK o : o = [id |-> r.id, committed |-> FALSE]
                OBVIOUS
            <4>2. o \in Own(c) /\ o \in rows /\ o.id = r.id
                BY <3>3, <4>1 DEF Own
            <4> QED BY <3>3, <4>2
        <3> QED BY <3>1, <3>2, <3>3
    <2>2. \A r, s \in rows' : r.id.key = s.id.key => r = s
        <3> SUFFICES ASSUME NEW r \in rows', NEW s \in rows', r.id.key = s.id.key
                     PROVE  r = s
            OBVIOUS
        <3>1. PICK o \in rows :
                 /\ r.id = o.id
                 /\ \/ r = o /\ r \notin Own(c)
                    \/ r = [id |-> o.id, committed |-> TRUE] /\ o \in Own(c)
            BY <2>1
        <3>2. PICK q \in rows :
                 /\ s.id = q.id
                 /\ \/ s = q /\ s \notin Own(c)
                    \/ s = [id |-> q.id, committed |-> TRUE] /\ q \in Own(c)
            BY <2>1
        <3>3. o = q
            BY <3>1, <3>2
        <3> QED BY <3>1, <3>2, <3>3
    <2>3. \A r \in rows' : r.committed => r.id \in accepted'
        <3> SUFFICES ASSUME NEW r \in rows', r.committed PROVE r.id \in accepted'
            OBVIOUS
        <3>1. CASE r \in rows
            <4>1. r.id \in accepted
                BY <3>1
            <4> QED BY <1>d, <4>1, CommitFacts
        <3>2. CASE [id |-> r.id, committed |-> FALSE] \in Own(c)
            <4>1. [id |-> r.id, committed |-> FALSE].id = r.id
                OBVIOUS
            <4> QED BY <1>d, <3>2, <4>1, CommitFacts
        <3>3. r \in rows \/ [id |-> r.id, committed |-> FALSE] \in Own(c)
            BY <1>d, CommitFacts
        <3> QED BY <3>1, <3>2, <3>3
    <2>4. \A r \in rows' : ~r.committed =>
              backend' = "postgres" /\ pc'[r.id.by] \in {"sending", "sent"}
        <3> SUFFICES ASSUME NEW r \in rows', ~r.committed
                     PROVE  backend' = "postgres" /\ pc'[r.id.by] \in {"sending", "sent"}
            OBVIOUS
        <3>1. r \in rows /\ r \notin Own(c)
            <4>1. CASE r = [id |-> r.id, committed |-> TRUE]
                <5>1. r.committed = TRUE
                    BY <4>1
                <5> QED BY <5>1
            <4> QED BY <1>d, <4>1, CommitFacts
        <3> QED BY <1>d, <1>b, <3>1 DEF Own
    <2>5. ~cleanups => \A i \in accepted' : [id |-> i, committed |-> TRUE] \in rows'
        <3> SUFFICES ASSUME ~cleanups, NEW i \in accepted'
                     PROVE  [id |-> i, committed |-> TRUE] \in rows'
            OBVIOUS
        <3>1. CASE i \in accepted
            <4>1. [id |-> i, committed |-> TRUE] \in rows
                BY <3>1
            <4>2. [id |-> i, committed |-> TRUE] \notin Own(c)
                BY DEF Own
            <4> QED BY <1>d, <4>1, <4>2, CommitFacts
        <3>2. CASE [id |-> i, committed |-> FALSE] \in Own(c)
            <4>1. [id |-> i, committed |-> FALSE].id = i
                OBVIOUS
            <4> QED BY <1>d, <3>2, <4>1, CommitFacts
        <3> QED BY <1>d, <3>1, <3>2, CommitFacts
    <2> QED BY <2>2, <2>3, <2>4, <2>5
<1>4. ASSUME NEW c \in Calls, Upserted(c) PROVE RowsAreUnique'
    <2>1. CASE InTransaction(c)
        BY <1>4, <1>b, <2>1 DEF Upserted, TypeOK
    <2>2. CASE ~InTransaction(c)
        BY <1>4, <1>d, <2>2 DEF Upserted, TypeOK
    <2> QED BY <2>1, <2>2
<1>5. ASSUME NEW c \in Calls, Commit(c) PROVE RowsAreUnique'
    BY <1>5, <1>d DEF Commit, TypeOK
<1>e. ASSUME UNCHANGED <<rows, accepted>>, backend = "sqlite" PROVE RowsAreUnique'
    BY <1>e
<1>7. ASSUME NEW c \in Calls, Look(c) PROVE RowsAreUnique'
    BY <1>7, <1>e DEF Look
<1>8. ASSUME NEW c \in Calls, InsertOrIgnore(c) PROVE RowsAreUnique'
    <2>1. backend = "sqlite" /\ InHand(c) \in Keys
        BY <1>8, InHandIsLeft DEF InsertOrIgnore, CallsFollowSteps
    <2>2. CASE RowsWith(InHand(c)) = {}
        <3>1. /\ NewRow(c, InHand(c)) \in RowIds
              /\ NewRow(c, InHand(c)).key = InHand(c)
            BY <1>8, <2>1, NewRowType DEF InsertOrIgnore, Active, NewRow
        <3>3. /\ rows' = rows \cup {[id |-> NewRow(c, InHand(c)), committed |-> TRUE]}
              /\ accepted' = accepted \cup {NewRow(c, InHand(c))}
            BY <1>8, <2>2 DEF InsertOrIgnore
        <3> QED BY <1>8, <1>c, <2>1, <2>2, <3>1, <3>3 DEF InsertOrIgnore
    <2>3. CASE RowsWith(InHand(c)) # {}
        BY <1>8, <1>e, <2>1, <2>3 DEF InsertOrIgnore
    <2> QED BY <2>2, <2>3
<1>9. ASSUME NEW c \in Calls, ReadBack(c) PROVE RowsAreUnique'
    BY <1>9, <1>e DEF ReadBack, CallsFollowSteps
<1>10. ASSUME NEW r \in rows, Remove(r) PROVE RowsAreUnique'
    BY <1>10, <1>b DEF Remove
<1> QED BY <1>1, <1>2, <1>3, <1>4, <1>5, <1>7, <1>8, <1>9, <1>10 DEF Next, Send

-----------------------------------------------------------------------------
(* The calls.                                                              *)

\* A step of one call leaves the answers of another as good as they were.
LEMMA OthersKeepAnswers ==
    ASSUME TypeOK, NEW c \in Calls, NEW k \in Keys, Settled(c, k),
           got'[c] = got[c], pc'[c] = pc[c],
           accepted \subseteq accepted',
           \A r \in Own(c) : r \in rows'
    PROVE  Settled(c, k)'
  BY DEF Settled, Own

\* With its rows committed every answer of a call is accepted.
LEMMA CommitSettles ==
    ASSUME TypeOK, NEW c \in Calls, NEW k \in Keys, Settled(c, k), CommitRows(c),
           got' = got
    PROVE  Settled(c, k)' /\ got'[c][k] \in accepted'
<1>1. CASE got[c][k] \in accepted
    BY <1>1, CommitFacts DEF Settled
<1>2. CASE [id |-> got[c][k], committed |-> FALSE] \in Own(c)
    <2>1. [id |-> got[c][k], committed |-> FALSE].id = got[c][k]
        OBVIOUS
    <2>2. got[c][k] \in accepted'
        BY <1>2, <2>1, CommitFacts
    <2> QED BY <2>2 DEF Settled
<1> QED BY <1>1, <1>2 DEF Settled

\* A call is where the statements it has made have left it.
LEMMA CallsNext ==
    ASSUME TypeOK, TypeOK', CallsFollowSteps, RowsAreUnique, [Next]_vars
    PROVE  CallsFollowSteps'
<1>0. CASE UNCHANGED vars
    BY <1>0 DEF CallsFollowSteps, Settled, Own, InTransaction, vars
<1> SUFFICES ASSUME Next PROVE CallsFollowSteps'
    BY <1>0
<1>a. UNCHANGED <<backend, cleanups>>
    BY DEF Next
<1> DEFINE Follows(c) ==
        /\ pc[c] # "idle" => tries[c] > 0
        /\ pc[c] \in {"inserting", "reading"} => backend = "sqlite" /\ left[c] # {}
        /\ pc[c] = "sent" => InTransaction(c)
        /\ pc[c] \in {"sent", "done"} => left[c] = {}
        /\ pc[c] \in Active \cup {"done"} => \A k \in KeysOf[c] \ left[c] : Settled(c, k)
<1>b. \A c \in Calls : Follows(c)
    BY DEF CallsFollowSteps
<1>c. ASSUME NEW c \in Calls, Follows(c)',
             \A d \in Calls \ {c} :
                /\ pc'[d] = pc[d] /\ left'[d] = left[d] /\ got'[d] = got[d]
                /\ tries'[d] = tries[d]
                /\ \A r \in Own(d) : r \in rows',
             accepted \subseteq accepted'
      PROVE  CallsFollowSteps'
    <2> SUFFICES ASSUME NEW d \in Calls PROVE Follows(d)'
        BY DEF CallsFollowSteps
    <2>1. CASE d # c
        <3>1. Follows(d) /\ KeysOf[d] \subseteq Keys
            BY <1>b
        <3>2. \A k \in KeysOf[d] : Settled(d, k) => Settled(d, k)'
            BY <1>c, <2>1, <3>1, OthersKeepAnswers
        <3> QED BY <1>a, <1>c, <2>1, <3>1, <3>2 DEF InTransaction
    <2> QED BY <1>c, <2>1
<1>d. \A c, d \in Calls : d # c => \A r \in Own(d) : r \in rows /\ r \notin Own(c)
    BY DEF Own
<1>e. ASSUME NEW c \in Calls, NEW k \in Keys, Settled(c, k),
             got'[c][k] = got[c][k], pc'[c] = pc[c], accepted \subseteq accepted',
             rows \subseteq rows'
      PROVE  Settled(c, k)'
    BY <1>e DEF Settled, Own
<1> HIDE DEF Follows
<1>1. ASSUME NEW c \in Calls, Begin(c) PROVE CallsFollowSteps'
    <2>1. Follows(c)'
        BY <1>1 DEF Begin, GoTo, Follows, TypeOK
    <2> QED BY <1>1, <1>c, <1>d, <2>1 DEF Begin, GoTo, TypeOK
<1>2. ASSUME NEW c \in Calls, FailCall(c) PROVE CallsFollowSteps'
    <2>1. Follows(c)'
        BY <1>2, <1>b DEF FailCall, GoTo, Follows, TypeOK, Active
    <2> QED BY <1>2, <1>c, <1>d, <2>1 DEF FailCall, GoTo, TypeOK
<1>3. ASSUME NEW c \in Calls, NEW k \in Keys, Upsert(c, k) PROVE CallsFollowSteps'
    <2>1. NewRow(c, k) \in RowIds /\ NewRow(c, k).key = k /\ NewRow(c, k).by = c
        BY <1>3, NewRowType DEF Upsert, Active, NewRow
    <2>2. /\ pc' = pc /\ tries' = tries /\ accepted' = accepted /\ rows \subseteq rows'
          /\ pc[c] = "sending"
          /\ left'[c] = left[c] \ {k}
          /\ \A d \in Calls \ {c} : left'[d] = left[d] /\ got'[d] = got[d]
          /\ \A j \in Keys \ {k} : got'[c][j] = got[c][j]
        BY <1>3 DEF Upsert, TypeOK
    <2>3. Settled(c, k)'
        <3>1. CASE /\ rows' = rows \cup {[id |-> NewRow(c, k), committed |-> FALSE]}
                   /\ got' = [got EXCEPT ![c][k] = NewRow(c, k)]
            <4> DEFINE n == [id |-> NewRow(c, k), committed |-> FALSE]
            <4>1. n \in rows' /\ n.id.by = c /\ ~n.committed
                BY <2>1, <3>1
            <4>2. got'[c][k] = NewRow(c, k)
                BY <3>1 DEF TypeOK
            <4> QED BY <2>1, <2>2, <4>1, <4>2 DEF Settled, Own
        <3>2. CASE \E r \in RowsWith(k) : got' = [got EXCEPT ![c][k] = r.id]
            <4>1. PICK r \in RowsWith(k) : got' = [got EXCEPT ![c][k] = r.id]
                BY <3>2
            <4>2. r.id \in accepted /\ r.id \in RowIds /\ r.id.key = k
                BY <1>3 DEF Upsert, RowsAreUnique, RowsWith, TypeOK
            <4>3. got'[c][k] = r.id
                BY <4>1 DEF TypeOK
            <4> QED BY <2>2, <4>2, <4>3 DEF Settled
        <3> QED BY <1>3, <3>1, <3>2 DEF Upsert
    <2>4. Follows(c)'
        <3>1. \A j \in KeysOf[c] \ left'[c] : Settled(c, j)'
            <4> SUFFICES ASSUME NEW j \in KeysOf[c] \ left'[c], j # k PROVE Settled(c, j)'
                BY <2>3
            <4>1. Settled(c, j) /\ j \in Keys
                BY <1>b, <2>2 DEF Follows, Active
            <4> QED BY <1>e, <2>2, <4>1
        <3> QED BY <1>b, <2>2, <3>1 DEF Follows
    <2> QED BY <1>c, <2>2, <2>4 DEF Own
<1>f. ASSUME NEW c \in Calls, CommitRows(c), pc[c] \in {"sending", "sent"},
             left[c] = {}, UNCHANGED <<left, got, tries>>, GoTo(c, "done")
      PROVE  CallsFollowSteps'
    <2>1. pc'[c] = "done" /\ \A d \in Calls \ {c} : pc'[d] = pc[d]
        BY <1>f DEF GoTo, TypeOK
    <2>2. Follows(c)'
        <3>1. \A k \in KeysOf[c] : Settled(c, k)'
            <4> SUFFICES ASSUME NEW k \in KeysOf[c] PROVE Settled(c, k)'
                OBVIOUS
            <4>1. Settled(c, k) /\ k \in Keys
                BY <1>b, <1>f DEF Follows, Active
            <4> QED BY <1>f, <4>1, CommitSettles
        <3> QED BY <1>b, <1>f, <2>1, <3>1 DEF Follows, TypeOK
    <2>3. accepted \subseteq accepted' /\ \A d \in Calls \ {c} : \A r \in Own(d) : r \in rows'
        BY <1>d, <1>f, CommitFacts
    <2> QED BY <1>c, <1>f, <2>1, <2>2, <2>3
<1>4. ASSUME NEW c \in Calls, Upserted(c) PROVE CallsFollowSteps'
    <2>1. CASE InTransaction(c)
        <3>1. /\ pc[c] = "sending" /\ pc'[c] = "sent" /\ \A d \in Calls \ {c} : pc'[d] = pc[d]
              /\ left[c] = {} /\ UNCHANGED <<rows, accepted, left, got, tries>>
            BY <1>4, <2>1 DEF Upserted, GoTo, TypeOK
        <3>2. \A k \in Keys : Settled(c, k) => Settled(c, k)'
            BY <3>1 DEF Settled, Own
        <3>3. Follows(c)'
            BY <1>a, <1>b, <2>1, <3>1, <3>2 DEF Follows, Active, InTransaction
        <3> QED BY <1>c, <1>d, <3>1, <3>3
    <2>2. CASE ~InTransaction(c)
        BY <1>4, <1>f, <2>2 DEF Upserted
    <2> QED BY <2>1, <2>2
<1>5. ASSUME NEW c \in Calls, Commit(c) PROVE CallsFollowSteps'
    BY <1>5, <1>b, <1>f DEF Commit, Follows
\* Without transactions a row that is found is a committed one.
<1>g. ASSUME NEW c \in Calls, backend = "sqlite", pc[c] \in {"sending", "reading"},
             Answer(c, InHand(c)), left[c] # {}, UNCHANGED <<rows, accepted, tries>>
      PROVE  CallsFollowSteps'
    <2>1. PICK k \in Keys : k = InHand(c) /\ k \in left[c]
        BY <1>g, InHandIsLeft
    <2>2. PICK r \in RowsWith(k) : got' = [got EXCEPT ![c][k] = r.id]
        BY <1>g, <2>1 DEF Answer
    <2>3. r.id \in accepted /\ r.id \in RowIds /\ r.id.key = k
        BY <1>g DEF RowsAreUnique, RowsWith, TypeOK
    <2>4. /\ left' = [left EXCEPT ![c] = left[c] \ {k}]
          /\ GoTo(c, IF left[c] = {k} THEN "done" ELSE "sending")
        BY <1>g, <2>1 DEF Answer
    <2>5. /\ got'[c][k] = r.id /\ \A j \in Keys \ {k} : got'[c][j] = got[c][j]
          /\ left'[c] = left[c] \ {k}
          /\ \A d \in Calls \ {c} : pc'[d] = pc[d] /\ left'[d] = left[d] /\ got'[d] = got[d]
        BY <2>1, <2>2, <2>4 DEF GoTo, TypeOK
    <2>6. pc'[c] = "sending" \/ (pc'[c] = "done" /\ left'[c] = {})
        BY <2>4, <2>5 DEF GoTo, TypeOK
    <2>7. Settled(c, k)'
        BY <1>g, <2>3, <2>5 DEF Settled
    <2>8. \A j \in KeysOf[c] \ left'[c] : Settled(c, j)'
        <3> SUFFICES ASSUME NEW j \in KeysOf[c] \ left'[c], j # k PROVE Settled(c, j)'
            BY <2>7
        <3>1. j \in Keys /\ j \in KeysOf[c] \ left[c] /\ Settled(c, j)
            BY <1>b, <1>g, <2>5 DEF Follows, Active
        <3>2. got[c][j] \in accepted
            BY <1>g, <3>1 DEF Settled, RowsAreUnique, Own
        <3> QED BY <1>g, <2>5, <3>1, <3>2 DEF Settled
    <2>9. Follows(c)'
        BY <1>b, <1>g, <2>6, <2>8 DEF Follows
    <2> QED BY <1>c, <1>d, <1>g, <2>5, <2>9
<1>7. ASSUME NEW c \in Calls, Look(c) PROVE CallsFollowSteps'
    <2>1. CASE Answer(c, InHand(c))
        BY <1>7, <1>g, <2>1 DEF Look
    <2>2. CASE GoTo(c, "inserting") /\ UNCHANGED <<left, got>>
        <3>1. /\ pc[c] = "sending" /\ backend = "sqlite" /\ left[c] # {}
              /\ pc'[c] = "inserting" /\ \A d \in Calls \ {c} : pc'[d] = pc[d]
              /\ UNCHANGED <<rows, accepted, left, got, tries>>
            BY <1>7, <2>2 DEF Look, GoTo, TypeOK
        <3>2. \A k \in Keys : Settled(c, k) => Settled(c, k)'
            BY <3>1 DEF Settled, Own, RowsAreUnique
        <3>3. Follows(c)'
            BY <1>a, <1>b, <3>1, <3>2 DEF Follows, Active
        <3> QED BY <1>c, <1>d, <3>1, <3>3
    <2> QED BY <1>7, <2>1, <2>2 DEF Look
<1>8. ASSUME NEW c \in Calls, InsertOrIgnore(c) PROVE CallsFollowSteps'
    <2>1. /\ pc[c] = "inserting" /\ backend = "sqlite" /\ left[c] # {}
          /\ pc'[c] = "reading" /\ \A d \in Calls \ {c} : pc'[d] = pc[d]
          /\ UNCHANGED <<left, got, tries>>
          /\ rows \subseteq rows' /\ accepted \subseteq accepted'
        BY <1>8, <1>b DEF InsertOrIgnore, GoTo, TypeOK, Follows
    <2>2. \A k \in Keys : Settled(c, k) => Settled(c, k)'
        BY <2>1 DEF Settled, Own, RowsAreUnique
    <2>3. Follows(c)'
        BY <1>a, <1>b, <2>1, <2>2 DEF Follows, Active
    <2> QED BY <1>c, <1>d, <2>1, <2>3
<1>9. ASSUME NEW c \in Calls, ReadBack(c) PROVE CallsFollowSteps'
    <2>0. backend = "sqlite" /\ left[c] # {}
        BY <1>9, <1>b DEF ReadBack, Follows
    <2>1. CASE Answer(c, InHand(c))
        BY <1>9, <1>g, <2>0, <2>1 DEF ReadBack
    <2>2. CASE GoTo(c, "failed") /\ left' = [left EXCEPT ![c] = {}] /\ UNCHANGED got
        <3>1. /\ pc[c] = "reading" /\ pc'[c] = "failed"
              /\ \A d \in Calls \ {c} : pc'[d] = pc[d] /\ left'[d] = left[d]
              /\ UNCHANGED <<rows, accepted, got, tries>>
            BY <1>9, <2>2 DEF ReadBack, GoTo, TypeOK
        <3>3. Follows(c)'
            BY <1>b, <3>1 DEF Follows, Active
        <3> QED BY <1>c, <1>d, <3>1, <3>3
    <2> QED BY <1>9, <2>1, <2>2 DEF ReadBack
<1>10. ASSUME NEW r \in rows, Remove(r) PROVE CallsFollowSteps'
    <2>1. /\ r.committed /\ rows' = rows \ {r}
          /\ UNCHANGED <<accepted, pc, left, got, tries>>
        BY <1>10 DEF Remove
    <2> SUFFICES ASSUME NEW d \in Calls PROVE Follows(d)'
        BY DEF CallsFollowSteps, Follows
    <2>2. \A k \in Keys : Settled(d, k) => Settled(d, k)'
        BY <2>1, OthersKeepAnswers DEF Own
    <2> QED BY <1>a, <1>b, <2>1, <2>2 DEF Follows, InTransaction
<1> QED BY <1>1, <1>2, <1>3, <1>4, <1>5, <1>7, <1>8, <1>9, <1>10 DEF Next, Send

-----------------------------------------------------------------------------
(* The business writes.                                                    *)

\* Nothing but a commit of the application's transaction makes one of its
\* rows, or its business write, count.
LEMMA WrittenNext ==
    ASSUME TypeOK, CallsFollowSteps, RowsAreUnique, WrittenTogether, [Next]_vars
    PROVE  WrittenTogether'
<1>0. CASE UNCHANGED vars
    BY <1>0 DEF WrittenTogether, InTransaction, vars
<1> SUFFICES ASSUME Next PROVE WrittenTogether'
    BY <1>0
<1>a. UNCHANGED <<backend, cleanups>>
    BY DEF Next
<1> USE <1>a DEF WrittenTogether, InTransaction
<1>1. CASE UNCHANGED <<accepted, business>>
    BY <1>1
<1>2. ASSUME NEW c \in Calls, Upserted(c) PROVE WrittenTogether'
    <2>1. CASE InTransaction(c)
        BY <1>1, <1>2, <2>1 DEF Upserted
    <2>2. CASE ~InTransaction(c)
        <3>1. CommitRows(c) /\ business' = business
            BY <1>2, <2>2 DEF Upserted
        <3>2. \A i \in accepted' : i \in accepted \/ i.by = c
            BY <3>1, CommitFacts
        <3>3. accepted \subseteq accepted'
            BY <3>1, CommitFacts
        <3> QED BY <2>2, <3>1, <3>2, <3>3
    <2> QED BY <2>1, <2>2
<1>3. ASSUME NEW c \in Calls, Commit(c) PROVE WrittenTogether'
    <2>1. CommitRows(c) /\ business' = business \cup {c} /\ got' = got /\ pc[c] = "sent"
        BY <1>3 DEF Commit
    <2>2. /\ \A i \in accepted' : i \in accepted \/ i.by = c
          /\ accepted \subseteq accepted'
        BY <2>1, CommitFacts
    <2>3. \A k \in KeysOf[c] : got[c][k] \in accepted' /\ got[c][k].key = k
        <3> SUFFICES ASSUME NEW k \in KeysOf[c]
                     PROVE  got[c][k] \in accepted' /\ got[c][k].key = k
            OBVIOUS
        <3>1. k \in Keys /\ Settled(c, k)
            BY <2>1 DEF CallsFollowSteps, Active
        <3>2. got[c][k] \in accepted'
            BY <2>1, <3>1, CommitSettles
        <3> QED BY <3>1, <3>2 DEF Settled
    <2> QED BY <2>1, <2>2, <2>3
<1>4. ASSUME NEW c \in Calls, InsertOrIgnore(c) PROVE WrittenTogether'
    <2>1. backend = "sqlite" /\ business' = business /\ accepted \subseteq accepted'
        BY <1>4 DEF InsertOrIgnore, CallsFollowSteps
    <2> QED BY <2>1
<1>5. ASSUME NEW c \in Calls, Answer(c, InHand(c)), UNCHANGED <<accepted, business>>
      PROVE  WrittenTogether'
    BY <1>1, <1>5
<1> QED
    BY <1>1, <1>2, <1>3, <1>4
    DEF Next, Send, FailCall, Begin, Upsert, Look, ReadBack, Remove

-----------------------------------------------------------------------------
(* The theorems.                                                           *)

\* No rows and no calls at first.
LEMMA InvInit == Init => OutboxInv
<1>1. Init => TypeOK
    BY TypeInit
<1> QED BY <1>1 DEF Init, OutboxInv, CallsFollowSteps, RowsAreUnique, WrittenTogether, Active

\* The parts of the invariant hold each other up.
LEMMA InvNext == OutboxInv /\ [Next]_vars => OutboxInv'
<1> SUFFICES ASSUME OutboxInv, [Next]_vars PROVE OutboxInv'
    OBVIOUS
<1>1. TypeOK /\ CallsFollowSteps /\ RowsAreUnique /\ WrittenTogether
    BY DEF OutboxInv
<1>2. TypeOK'
    BY <1>1, TypeNext
<1>3. CallsFollowSteps'
    BY <1>1, <1>2, CallsNext
<1>4. RowsAreUnique'
    BY <1>1, RowsNext
<1>5. WrittenTogether'
    BY <1>1, WrittenNext
<1> QED BY <1>2, <1>3, <1>4, <1>5 DEF OutboxInv

\* The strengthened invariant holds in every reachable state.
LEMMA Invariance == Spec => []OutboxInv
  BY InvInit, InvNext, PTL DEF Spec

\* Every row, answer and counter keeps its type.
THEOREM TypeCorrect == Spec => []TypeOK
<1>1. OutboxInv => TypeOK
    BY DEF OutboxInv
<1> QED BY <1>1, Invariance, PTL

\* enqueue_idempotent and its _in_tx and broadcast forms return only rows that
\* are committed, however calls race, fail and are made again.
THEOREM AnswersCommitted == Spec => []AnswersAreCommitted
<1>1. OutboxInv => AnswersAreCommitted
    <2> SUFFICES ASSUME OutboxInv, NEW c \in Calls, pc[c] = "done", NEW k \in KeysOf[c]
                 PROVE  got[c][k] \in accepted
        BY DEF AnswersAreCommitted
    <2>1. Settled(c, k)
        BY DEF OutboxInv, CallsFollowSteps
    <2> QED BY <2>1 DEF Settled
<1> QED BY <1>1, Invariance, PTL

\* The transactional outbox: neither phantom events nor silent drops.
THEOREM OutboxAtomic == Spec => []WrittenTogether
<1>1. OutboxInv => WrittenTogether
    BY DEF OutboxInv
<1> QED BY <1>1, Invariance, PTL

\* The unique index and the two ways of answering a conflict: without cleanup,
\* a key is accepted once, over both backends.
THEOREM KeysAcceptedOnce == Spec => []NeverDuplicates
<1>1. OutboxInv => NeverDuplicates
    <2> SUFFICES ASSUME OutboxInv, ~cleanups, NEW i \in accepted, NEW j \in accepted,
                        i.key = j.key
                 PROVE  i = j
        BY DEF NeverDuplicates
    <2> DEFINE r == [id |-> i, committed |-> TRUE]
               s == [id |-> j, committed |-> TRUE]
    <2>1. r \in rows /\ s \in rows
        BY DEF OutboxInv, RowsAreUnique
    <2>2. r.id = i /\ s.id = j
        OBVIOUS
    <2> HIDE DEF r, s
    <2>3. r = s
        BY <2>1, <2>2 DEF OutboxInv, RowsAreUnique
    <2> QED BY <2>2, <2>3
<1> QED BY <1>1, Invariance, PTL
=============================================================================
