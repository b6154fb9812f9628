---------------------------- MODULE StoreProofs ----------------------------
(***************************************************************************)
(* Theorems about the results database (store/db.py): about ResultStore    *)
(* for every set of attempts, every number of evaluators and every bound   *)
(* on the writes, and about Migrations for every number of openers,        *)
(* whichever versions of the program they run, and however often they are  *)
(* killed.                                                                 *)
(***************************************************************************)
EXTENDS ResultStore, Migrations, FiniteSetTheorems, TLAPS

USE StoreAssumption, MigrationsAssumption

(***************************************************************************)
(* The results of a run: ResultStore                                       *)
(***************************************************************************)

\* Every row comes from a result that was given to record_case_result.
RowsRecorded == \A a \in Attempts : db.cases[a] <= Len(writes)

\* Nothing is there before start_run, and nothing after delete_run.
NoRunNoRows ==
    /\ pc = "new" => db = EmptyDb
    /\ pc = "new" => acked = {}
    /\ ~db.header => db = EmptyDb

\* A write is acknowledged or refused only when it is over.
WritesSettled ==
    /\ acked \cup refused \subseteq 1 .. Len(writes)
    /\ pc \in {"begun", "writing", "committed"} =>
          Len(writes) > 0 /\ Current \notin acked \cup refused

\* The first k scores of the write under way are in the transaction.
Inserted(k) == tx.scores[Target] = {Current} \X (1 .. k)

\* The transaction is the database with the row of the write under way and
\* the scores inserted so far.
TransactionOfCurrent ==
    pc = "writing" =>
        /\ db.header /\ tx.header
        /\ tx.cases[Target] = Current
        /\ \E k \in 0 .. writes[Current].scores : Inserted(k)
        /\ \A b \in Attempts \ {Target} :
              tx.cases[b] = db.cases[b] /\ tx.scores[b] = db.scores[b]

\* Until the run is deleted, what was committed last is there.
CommittedIsThere ==
    pc = "committed" /\ db.header => db.cases[Target] = Current

\* What the reader saw as it began is there still, or was replaced by a later
\* write, or the run is gone; so for the scores it selected.
ReaderBehind ==
    /\ rpc # "idle" => pc # "new"
    /\ \A a \in Attempts :
          /\ seen.before[a] <= Len(writes) /\ seen.cases[a] <= Len(writes)
          /\ rpc \in {"run", "scores"} /\ db.header =>
                seen.before[a] <= db.cases[a]
          /\ rpc = "scores" =>
                \/ seen.scores[a] = Whole(seen.before[a])
                \/ ~db.header
                \/ seen.before[a] < db.cases[a]

IInv ==
    /\ TypeOK
    /\ CommittedWhole
    /\ AckedDurable
    /\ NothingUnreported
    /\ SettledLoadedWhole
    /\ RowsRecorded
    /\ NoRunNoRows
    /\ WritesSettled
    /\ TransactionOfCurrent
    /\ CommittedIsThere
    /\ ReaderBehind

-----------------------------------------------------------------------------
\* The rows of a write are as many as its scores inserted so far.
LEMMA RowsCount ==
  ASSUME NEW w, NEW k \in Nat
  PROVE  Cardinality({w} \X (1 .. k)) = k
<1>1. IsFiniteSet({w}) /\ Cardinality({w}) = 1
  BY FS_Singleton
<1>2. IsFiniteSet(1 .. k) /\ Cardinality(1 .. k) = k
  BY FS_Interval
<1>3. Cardinality({w} \X (1 .. k)) = 1 * k
  BY <1>1, <1>2, FS_Product
<1> QED
  BY <1>3

\* One more score is the next row.
LEMMA NextRow ==
  ASSUME NEW w, NEW k \in Nat
  PROVE  ({w} \X (1 .. k)) \cup {<<w, k + 1>>} = {w} \X (1 .. (k + 1))
<1>1. 1 .. (k + 1) = (1 .. k) \cup {k + 1}
  OBVIOUS
<1> QED
  BY <1>1

\* The rows of a write do not change while others are recorded.
LEMMA WholeStable ==
  ASSUME TypeOK, NEW w \in 0 .. Len(writes),
         \/ writes' = writes
         \/ \E r : writes' = Append(writes, r)
  PROVE  Whole(w)' = Whole(w)
<1>1. w # 0 => writes'[w] = writes[w]
  <2>1. writes \in Seq([attempt : Attempts, scores : {0, NumEvaluators}])
    BY DEF TypeOK
  <2>2. ASSUME NEW r, writes' = Append(writes, r), w # 0
        PROVE  writes'[w] = writes[w]
    <3>1. w \in 1 .. Len(writes)
      BY ONLY <2>2, w \in 0 .. Len(writes)
    <3> QED
      BY ONLY <2>1, <2>2, <3>1
  <2> QED
    BY <2>2
<1> QED
  BY <1>1 DEF Whole

\* Every write is of an attempt and has the scores of a result.
LEMMA WriteType ==
  ASSUME TypeOK, NEW w \in 1 .. Len(writes)
  PROVE  /\ writes[w].attempt \in Attempts
         /\ writes[w].scores \in {0, NumEvaluators}
         /\ w \in WriteIds
<1> DEFINE R == [attempt : Attempts, scores : {0, NumEvaluators}]
<1>1. writes \in Seq(R) /\ Len(writes) <= MaxWrites
  BY DEF TypeOK
<1>2. writes[w] \in R
  <2> HIDE DEF R
  <2> QED
    BY <1>1
<1> QED
  BY <1>1, <1>2 DEF WriteIds

\* A whole write is a set of score rows.
LEMMA WholeType ==
  ASSUME TypeOK, NEW w \in 0 .. Len(writes)
  PROVE  Whole(w) \subseteq ScoreRows
<1>1. CASE w # 0
  <2>1. w \in 1 .. Len(writes)
    BY <1>1 DEF TypeOK
  <2>2. 1 .. writes[w].scores \subseteq Positions /\ w \in WriteIds
    BY <2>1, WriteType DEF Positions
  <2> QED
    BY <1>1, <2>2 DEF Whole, ScoreRows
<1> QED
  BY <1>1 DEF Whole

LEMMA InitIInv == Init => IInv
<1> SUFFICES ASSUME Init PROVE IInv
  OBVIOUS
<1> USE DEF Init
<1>1. EmptyDb \in Databases
  BY DEF EmptyDb, Databases, NoCases, NoScores
<1>2. NothingSeen \in [before : [Attempts -> 0 .. MaxWrites],
                       scores : [Attempts -> SUBSET ScoreRows],
                       cases : [Attempts -> 0 .. MaxWrites]]
  BY DEF NothingSeen, NoCases, NoScores
<1>3. TypeOK
  BY <1>1, <1>2 DEF TypeOK
<1>4. CommittedWhole /\ AckedDurable /\ NothingUnreported /\ RowsRecorded
  BY DEF CommittedWhole, AckedDurable, NothingUnreported, RowsRecorded,
     EmptyDb, NoCases, NoScores, Whole
<1>5. NoRunNoRows /\ WritesSettled /\ TransactionOfCurrent
      /\ CommittedIsThere /\ SettledLoadedWhole
  BY DEF NoRunNoRows, WritesSettled, TransactionOfCurrent, CommittedIsThere,
     SettledLoadedWhole
<1>6. ReaderBehind
  BY DEF ReaderBehind, NothingSeen, NoCases
<1> QED
  BY <1>3, <1>4, <1>5, <1>6 DEF IInv

\* A step that touches neither the database nor the reader keeps what is said
\* of both, even if it begins another write.
LEMMA RowsUntouched ==
  ASSUME IInv, UNCHANGED <<db, rpc, seen>>, pc' # "new",
         \/ writes' = writes
         \/ \E r : writes' = Append(writes, r)
  PROVE  /\ CommittedWhole' /\ RowsRecorded'
         /\ ReaderBehind' /\ SettledLoadedWhole'
         /\ Len(writes') >= Len(writes)
<1> USE DEF IInv
<1>1. Len(writes') >= Len(writes) /\ Len(writes) \in Nat /\ Len(writes') \in Nat
  BY DEF TypeOK
<1>2. \A a \in Attempts :
        /\ db.cases[a] \in 0 .. Len(writes)
        /\ seen.before[a] \in 0 .. Len(writes)
        /\ seen.cases[a] \in 0 .. Len(writes)
  BY <1>1 DEF TypeOK, Databases, RowsRecorded, ReaderBehind
<1>3. \A w \in 0 .. Len(writes) : Whole(w)' = Whole(w)
  BY WholeStable
<1>4. CommittedWhole' /\ SettledLoadedWhole'
  BY <1>2, <1>3 DEF CommittedWhole, SettledLoadedWhole
<1>5. RowsRecorded'
  BY <1>1, <1>2 DEF RowsRecorded
<1>6. ReaderBehind'
  BY <1>1, <1>2, <1>3 DEF ReaderBehind
<1> QED
  BY <1>1, <1>4, <1>5, <1>6

LEMMA StartRunIInv ==
  ASSUME IInv, StartRun PROVE IInv'
<1> USE DEF IInv, StartRun
<1>1. db = EmptyDb /\ acked = {} /\ rpc = "idle"
  BY DEF NoRunNoRows, ReaderBehind
<1>2. db' = [EmptyDb EXCEPT !.header = TRUE]
  BY <1>1
<1>3. db' = [header |-> TRUE, cases |-> NoCases, scores |-> NoScores]
  BY <1>2 DEF EmptyDb
<1> HIDE DEF StartRun
<1>4. pc = "new" /\ pc' = "idle" /\ UNCHANGED <<tx, writes, acked, refused, rpc, seen>>
  BY DEF StartRun, readerVars
<1>5. TypeOK'
  BY <1>3, <1>4 DEF TypeOK, Databases, NoCases, NoScores
<1>6. CommittedWhole' /\ AckedDurable' /\ NothingUnreported' /\ RowsRecorded'
  <2>1. \A a \in Attempts : db'.cases[a] = 0 /\ db'.scores[a] = {}
    BY <1>3 DEF NoCases, NoScores
  <2>2. Len(writes) \in Nat
    BY DEF TypeOK
  <2> QED
    BY <1>1, <1>4, <2>1, <2>2
    DEF CommittedWhole, AckedDurable, NothingUnreported, RowsRecorded, Whole
<1>7. NoRunNoRows' /\ WritesSettled' /\ TransactionOfCurrent'
      /\ CommittedIsThere'
  BY <1>3, <1>4 DEF NoRunNoRows, WritesSettled, TransactionOfCurrent,
     CommittedIsThere, Current
<1>8. ReaderBehind' /\ SettledLoadedWhole'
  BY <1>1, <1>4 DEF ReaderBehind, SettledLoadedWhole
<1> QED
  BY <1>5, <1>6, <1>7, <1>8

\* A write begins, or fails to begin after a commit that failed.
LEMMA BeginIInv ==
  ASSUME IInv, NEW a \in Attempts, NEW n \in {0, NumEvaluators},
         Begin(a, n) \/ BeginFails(a, n)
  PROVE  IInv'
<1> USE DEF IInv
<1>1. /\ UNCHANGED <<db, tx, acked, rpc, seen>>
      /\ pc \in {"idle", "stuck"}
      /\ pc' = IF pc = "idle" THEN "begun" ELSE "stuck"
      /\ refused' = refused \cup (IF pc = "idle" THEN {} ELSE {Current'})
      /\ writes' = Append(writes, [attempt |-> a, scores |-> n])
      /\ Len(writes) < MaxWrites
  BY DEF Begin, BeginFails, readerVars
<1>2. Len(writes) \in Nat /\ Len(writes') = Len(writes) + 1
      /\ Current' = Len(writes) + 1
  BY <1>1 DEF TypeOK, Current
<1>3. \A w \in 1 .. Len(writes) : writes'[w] = writes[w]
  BY <1>1 DEF TypeOK
<1>4. CommittedWhole' /\ RowsRecorded' /\ ReaderBehind' /\ SettledLoadedWhole'
  BY <1>1, RowsUntouched
<1>5. TypeOK'
  <2>1. [attempt |-> a, scores |-> n]
          \in [attempt : Attempts, scores : {0, NumEvaluators}]
    OBVIOUS
  <2>2. writes' \in Seq([attempt : Attempts, scores : {0, NumEvaluators}])
    BY <1>1, <2>1 DEF TypeOK
  <2>3. Len(writes') <= MaxWrites /\ Current' \in WriteIds
    BY <1>1, <1>2 DEF WriteIds
  <2> QED
    BY <1>1, <2>2, <2>3 DEF TypeOK
<1>6. AckedDurable'
  BY <1>1, <1>3 DEF AckedDurable, WritesSettled
<1>7. NothingUnreported'
  BY <1>1 DEF NothingUnreported
<1>8. NoRunNoRows'
  BY <1>1 DEF NoRunNoRows
<1>9. WritesSettled'
  BY <1>1, <1>2 DEF WritesSettled
<1>10. TransactionOfCurrent' /\ CommittedIsThere'
  BY <1>1 DEF TransactionOfCurrent, CommittedIsThere
<1> QED
  BY <1>4, <1>5, <1>6, <1>7, <1>8, <1>9, <1>10

\* The row of the attempt replaces the one of an earlier write.
LEMMA InsertCaseIInv ==
  ASSUME IInv, InsertCase PROVE IInv'
<1> USE DEF IInv
<1>1. /\ UNCHANGED <<db, writes, acked, refused, rpc, seen>>
      /\ pc = "begun" /\ pc' = "writing" /\ db.header
      /\ Target' = Target /\ Current' = Current
  BY DEF InsertCase, readerVars, Target, Current
<1>2. Current \in 1 .. Len(writes) /\ Current \in WriteIds
  BY <1>1 DEF WritesSettled, TypeOK, Current, WriteIds
<1>3. Target \in Attempts /\ writes[Current].scores \in {0, NumEvaluators}
  BY <1>2, WriteType DEF Target
<1>4. tx' = [header |-> db.header,
             cases  |-> [db.cases EXCEPT ![Target] = Current],
             scores |-> [db.scores EXCEPT ![Target] = {}]]
  BY DEF InsertCase, TypeOK, Databases
<1>5. TypeOK'
  <2>1. tx' \in Databases
    <3>1. /\ db.header \in BOOLEAN
          /\ db.cases \in [Attempts -> 0 .. MaxWrites]
          /\ db.scores \in [Attempts -> SUBSET ScoreRows]
      BY DEF TypeOK, Databases
    <3>2. Current \in 0 .. MaxWrites
      BY <1>2 DEF TypeOK, WriteIds
    <3> QED
      BY ONLY <1>3, <1>4, <3>1, <3>2 DEF Databases
  <2> QED
    BY <1>1, <2>1 DEF TypeOK
<1>6. CommittedWhole' /\ RowsRecorded' /\ ReaderBehind' /\ SettledLoadedWhole'
  BY <1>1, RowsUntouched
<1>7. AckedDurable' /\ NothingUnreported' /\ NoRunNoRows'
  BY <1>1 DEF AckedDurable, NothingUnreported, NoRunNoRows
<1>8. WritesSettled' /\ CommittedIsThere'
  BY <1>1 DEF WritesSettled, CommittedIsThere
<1>9. TransactionOfCurrent'
  <2>1. tx'.scores[Target] = {Current} \X (1 .. 0)
    BY <1>3, <1>4 DEF TypeOK, Databases
  <2>2. Inserted(0)'
    BY <1>1, <2>1 DEF Inserted
  <2>3. 0 \in 0 .. writes[Current].scores
    BY <1>3
  <2> QED
    BY <1>1, <1>3, <1>4, <2>2, <2>3
    DEF TransactionOfCurrent, TypeOK, Databases
<1> QED
  BY <1>5, <1>6, <1>7, <1>8, <1>9

\* The scores of the write under way are inserted one after the other.
LEMMA InsertScoreIInv ==
  ASSUME IInv, InsertScore PROVE IInv'
<1> USE DEF IInv
<1>1. /\ UNCHANGED <<db, pc, writes, acked, refused, rpc, seen>>
      /\ pc = "writing" /\ ~AllInserted
      /\ Target' = Target /\ Current' = Current
  BY DEF InsertScore, readerVars, Target, Current
<1>2. Current \in 1 .. Len(writes) /\ Current \in WriteIds
  BY <1>1 DEF WritesSettled, TypeOK, Current, WriteIds
<1>3. Target \in Attempts /\ writes[Current].scores \in {0, NumEvaluators}
  BY <1>2, WriteType DEF Target
<1>4. PICK k \in 0 .. writes[Current].scores : Inserted(k)
  BY <1>1 DEF TransactionOfCurrent
<1>5. k \in Nat /\ k < writes[Current].scores /\ k + 1 \in Positions
      /\ k + 1 \in 0 .. writes[Current].scores
  <2>1. k # writes[Current].scores
    BY <1>1, <1>2, <1>4 DEF AllInserted, Inserted, Whole
  <2> QED
    BY <1>3, <2>1 DEF Positions
<1>6. Cardinality(tx.scores[Target]) = k
  BY <1>4, <1>5, RowsCount DEF Inserted
<1>7. tx' = [header |-> tx.header, cases |-> tx.cases,
             scores |-> [tx.scores EXCEPT ![Target] =
                            @ \cup {<<Current, k + 1>>}]]
  BY <1>6 DEF InsertScore, TypeOK, Databases
<1>8. TypeOK'
  <2>1. <<Current, k + 1>> \in ScoreRows
    BY <1>2, <1>5 DEF ScoreRows
  <2>2. tx' \in Databases
    BY <1>3, <1>7, <2>1 DEF TypeOK, Databases
  <2> QED
    BY <1>1, <2>2 DEF TypeOK
<1>9. CommittedWhole' /\ RowsRecorded' /\ ReaderBehind' /\ SettledLoadedWhole'
  BY <1>1, RowsUntouched
<1>10. AckedDurable' /\ NothingUnreported' /\ NoRunNoRows'
  BY <1>1 DEF AckedDurable, NothingUnreported, NoRunNoRows
<1>11. WritesSettled' /\ CommittedIsThere'
  BY <1>1 DEF WritesSettled, CommittedIsThere
<1>12. TransactionOfCurrent'
  <2>1. tx'.scores[Target] = {Current} \X (1 .. (k + 1))
    BY <1>3, <1>4, <1>5, <1>7, NextRow DEF TypeOK, Databases, Inserted
  <2>2. Inserted(k + 1)'
    BY <1>1, <2>1 DEF Inserted
  <2> QED
    BY <1>1, <1>3, <1>5, <1>7, <2>2
    DEF TransactionOfCurrent, TypeOK, Databases
<1> QED
  BY <1>8, <1>9, <1>10, <1>11, <1>12

\* The attempt's row and all its scores appear at once.
LEMMA CommitIInv ==
  ASSUME IInv, Commit PROVE IInv'
<1> USE DEF IInv
<1>1. /\ UNCHANGED <<tx, writes, acked, refused, rpc, seen>>
      /\ pc = "writing" /\ pc' = "committed" /\ AllInserted
      /\ db' = tx
      /\ Target' = Target /\ Current' = Current
  BY DEF Commit, readerVars, Target, Current
<1>2. Current \in 1 .. Len(writes) /\ Current \in WriteIds
      /\ Current = Len(writes) /\ Current \notin acked \cup refused
  BY <1>1 DEF WritesSettled, TypeOK, Current, WriteIds
<1>3. Target \in Attempts /\ Target = writes[Current].attempt
  BY <1>2, WriteType DEF Target
<1>4. /\ db.header /\ tx.header
      /\ tx.cases[Target] = Current
      /\ \A b \in Attempts \ {Target} :
            tx.cases[b] = db.cases[b] /\ tx.scores[b] = db.scores[b]
  BY <1>1 DEF TransactionOfCurrent
<1>5. \A a \in Attempts : db.cases[a] \in 0 .. (Current - 1)
  BY <1>1, <1>2 DEF NothingUnreported, WritesSettled
<1>6. \A w : Whole(w)' = Whole(w)
  BY <1>1 DEF Whole
<1>7. \A a \in Attempts : db.cases[a] <= tx.cases[a] /\ tx.cases[a] <= Current
  BY <1>2, <1>4, <1>5
<1>8. TypeOK'
  BY <1>1 DEF TypeOK
<1>9. CommittedWhole'
  BY <1>1, <1>3, <1>4, <1>6 DEF CommittedWhole, AllInserted
<1>10. AckedDurable'
  <2>1. ASSUME NEW w \in acked
        PROVE  tx.cases[writes[w].attempt] >= w
    <3>1. w \in 1 .. Len(writes) /\ writes[w].attempt \in Attempts
      BY WriteType DEF WritesSettled
    <3>2. db.cases[writes[w].attempt] >= w
      BY <1>4 DEF AckedDurable
    <3> QED
      BY <1>2, <1>4, <1>5, <3>1, <3>2
  <2> QED
    BY <1>1, <2>1 DEF AckedDurable
<1>11. NothingUnreported'
  BY <1>1, <1>2, <1>4 DEF NothingUnreported
<1>12. SettledLoadedWhole'
  BY <1>1, <1>6 DEF SettledLoadedWhole
<1>13. RowsRecorded' /\ NoRunNoRows' /\ WritesSettled'
       /\ TransactionOfCurrent' /\ CommittedIsThere'
  BY <1>1, <1>2, <1>4, <1>7 DEF RowsRecorded, NoRunNoRows, WritesSettled,
     TransactionOfCurrent, CommittedIsThere
<1>14. ReaderBehind'
  <2>1. \A a \in Attempts : seen.before[a] \in Int /\ db.cases[a] \in Int
                            /\ tx.cases[a] \in Int
    BY DEF TypeOK, Databases
  <2> QED
    BY <1>1, <1>4, <1>6, <1>7, <2>1 DEF ReaderBehind
<1> QED
  BY <1>8, <1>9, <1>10, <1>11, <1>12, <1>13, <1>14

\* record_case_result returns.
LEMMA AcknowledgeIInv ==
  ASSUME IInv, Acknowledge PROVE IInv'
<1> USE DEF IInv
<1>1. /\ UNCHANGED <<db, tx, writes, refused, rpc, seen>>
      /\ pc = "committed" /\ pc' = "idle"
      /\ acked' = acked \cup {Current}
      /\ Current' = Current /\ Target = writes[Current].attempt
  BY DEF Acknowledge, readerVars, Target, Current
<1>2. Current \in 1 .. Len(writes) /\ Current \in WriteIds
  BY <1>1 DEF WritesSettled, TypeOK, Current, WriteIds
<1>3. TypeOK'
  BY <1>1, <1>2 DEF TypeOK
<1>4. CommittedWhole' /\ RowsRecorded' /\ ReaderBehind' /\ SettledLoadedWhole'
  BY <1>1, RowsUntouched
<1>5. AckedDurable'
  <2>1. db.header => db.cases[Target] = Current
    BY <1>1 DEF CommittedIsThere
  <2> QED
    BY <1>1, <1>2, <2>1 DEF AckedDurable
<1>6. NothingUnreported'
  BY <1>1 DEF NothingUnreported
<1>7. NoRunNoRows' /\ WritesSettled' /\ TransactionOfCurrent'
      /\ CommittedIsThere'
  BY <1>1, <1>2 DEF NoRunNoRows, WritesSettled, TransactionOfCurrent,
     CommittedIsThere
<1> QED
  BY <1>3, <1>4, <1>5, <1>6, <1>7

\* A write fails in a statement or at its commit: the database is as it was.
LEMMA FailsIInv ==
  ASSUME IInv, RecordFails \/ CommitFails PROVE IInv'
<1> USE DEF IInv
<1>1. /\ UNCHANGED <<db, tx, writes, acked, rpc, seen>>
      /\ pc \in {"begun", "writing"} /\ pc' \in {"idle", "stuck"}
      /\ refused' = refused \cup {Current}
  BY DEF RecordFails, CommitFails, readerVars
<1>2. Current \in 1 .. Len(writes) /\ Current \in WriteIds
  BY <1>1 DEF WritesSettled, TypeOK, Current, WriteIds
<1>3. TypeOK'
  BY <1>1, <1>2 DEF TypeOK
<1>4. CommittedWhole' /\ RowsRecorded' /\ ReaderBehind' /\ SettledLoadedWhole'
  BY <1>1, RowsUntouched
<1>5. AckedDurable' /\ NothingUnreported' /\ NoRunNoRows' /\ WritesSettled'
  BY <1>1, <1>2 DEF AckedDurable, NothingUnreported, NoRunNoRows,
     WritesSettled
<1>6. TransactionOfCurrent' /\ CommittedIsThere'
  BY <1>1 DEF TransactionOfCurrent, CommittedIsThere
<1> QED
  BY <1>3, <1>4, <1>5, <1>6

\* The run ends, or is killed wherever it stands.
LEMMA EndIInv ==
  ASSUME IInv, End \/ StartRunFails PROVE IInv'
<1> USE DEF IInv
<1>1. /\ UNCHANGED <<db, tx, writes, acked, refused, rpc, seen>>
      /\ pc # "ended" /\ pc' = "ended"
      /\ Current' = Current
  BY DEF End, StartRunFails, readerVars, Current
<1>2. TypeOK'
  BY <1>1 DEF TypeOK
<1>3. CommittedWhole' /\ RowsRecorded' /\ ReaderBehind' /\ SettledLoadedWhole'
  BY <1>1, RowsUntouched
<1>4. AckedDurable' /\ NothingUnreported' /\ NoRunNoRows' /\ WritesSettled'
  BY <1>1 DEF AckedDurable, NothingUnreported, NoRunNoRows, WritesSettled
<1>5. TransactionOfCurrent' /\ CommittedIsThere'
  BY <1>1 DEF TransactionOfCurrent, CommittedIsThere
<1> QED
  BY <1>2, <1>3, <1>4, <1>5

\* The run and all its rows go, whoever reads meanwhile.
LEMMA DeleteRunIInv ==
  ASSUME IInv, DeleteRun PROVE IInv'
<1> USE DEF IInv
<1>1. /\ UNCHANGED <<tx, pc, writes, acked, refused, rpc, seen>>
      /\ pc # "writing" /\ db' = EmptyDb
      /\ Current' = Current
  BY DEF DeleteRun, readerVars, Current
<1>2. ~db'.header /\ \A a \in Attempts : db'.cases[a] = 0 /\ db'.scores[a] = {}
  BY <1>1 DEF EmptyDb, NoCases, NoScores
<1>3. TypeOK'
  <2>1. EmptyDb \in Databases
    BY DEF EmptyDb, Databases, NoCases, NoScores
  <2> QED
    BY <1>1, <2>1 DEF TypeOK
<1>4. CommittedWhole' /\ RowsRecorded'
  <2>1. Whole(0)' = {} /\ Len(writes) \in Nat
    BY DEF Whole, TypeOK
  <2>2. CommittedWhole'
    BY <1>2, <2>1 DEF CommittedWhole, Whole
  <2> QED
    BY <1>1, <1>2, <2>1, <2>2 DEF RowsRecorded
<1>5. AckedDurable' /\ NothingUnreported' /\ NoRunNoRows' /\ WritesSettled'
  BY <1>1, <1>2 DEF AckedDurable, NothingUnreported, NoRunNoRows,
     WritesSettled, TypeOK
<1>6. TransactionOfCurrent' /\ CommittedIsThere'
  BY <1>1, <1>2 DEF TransactionOfCurrent, CommittedIsThere
<1>7. ReaderBehind' /\ SettledLoadedWhole'
  BY <1>1, <1>2 DEF ReaderBehind, SettledLoadedWhole, Whole
<1> QED
  BY <1>3, <1>4, <1>5, <1>6, <1>7

\* A step of load_run: the writer's state and what was said of it stay.
LEMMA ReaderStep ==
  ASSUME IInv, UNCHANGED writerVars
  PROVE  /\ CommittedWhole' /\ AckedDurable' /\ NothingUnreported'
         /\ RowsRecorded' /\ NoRunNoRows' /\ WritesSettled'
         /\ TransactionOfCurrent' /\ CommittedIsThere'
         /\ \A w : Whole(w)' = Whole(w)
  BY DEF IInv, writerVars, CommittedWhole, AckedDurable, NothingUnreported,
     RowsRecorded, NoRunNoRows, WritesSettled, TransactionOfCurrent,
     CommittedIsThere, Whole, Current, Target, Inserted

\* load_run: what it has selected falls behind, it never becomes wrong.
LEMMA ReaderIInv ==
  ASSUME IInv, SelectRun \/ SelectScores \/ SelectCases \/ Drop
  PROVE  IInv'
<1> USE DEF IInv
<1>1. UNCHANGED writerVars
  BY DEF SelectRun, SelectScores, SelectCases, Drop
<1>2. \A w : Whole(w)' = Whole(w)
  BY <1>1, ReaderStep
<1>3. UNCHANGED <<db, tx, pc, writes, acked, refused>>
  BY <1>1 DEF writerVars
<1>4. ~db.header => \A a \in Attempts : db.cases[a] = 0
  BY DEF NoRunNoRows, EmptyDb, NoCases
<1>5. \A a \in Attempts :
        /\ db.cases[a] \in 0 .. MaxWrites
        /\ db.scores[a] = Whole(db.cases[a])
        /\ db.cases[a] <= Len(writes)
  BY DEF TypeOK, Databases, CommittedWhole, RowsRecorded
<1>6. TypeOK' /\ ReaderBehind' /\ SettledLoadedWhole'
  <2>1. CASE SelectRun
    <3>1. /\ rpc' = "run" /\ db.header
          /\ seen' = [before |-> db.cases, scores |-> NoScores,
                      cases |-> NoCases]
      BY <2>1 DEF SelectRun, NothingSeen
    <3>2. TypeOK'
      BY <1>3, <3>1 DEF TypeOK, Databases, NoScores, NoCases
    <3>3. pc # "new"
      BY <3>1 DEF NoRunNoRows, EmptyDb
    <3>4. Len(writes) \in Nat
      BY DEF TypeOK
    <3> QED
      BY <1>3, <1>5, <3>1, <3>2, <3>3, <3>4
      DEF ReaderBehind, SettledLoadedWhole, NoCases
  <2>2. CASE SelectScores
    <3>1. /\ rpc = "run" /\ rpc' = "scores"
          /\ seen' = [before |-> seen.before, scores |-> db.scores,
                      cases |-> seen.cases]
      BY <2>2 DEF SelectScores, TypeOK
    <3>2. TypeOK'
      BY <1>3, <3>1 DEF TypeOK, Databases
    <3>3. \A a \in Attempts : seen.before[a] \in 0 .. MaxWrites
      BY DEF TypeOK
    <3>4. \A a \in Attempts :
            db.header /\ ~(seen.before[a] < db.cases[a])
            => db.scores[a] = Whole(seen.before[a])
      BY <1>5, <3>1, <3>3 DEF ReaderBehind
    <3> QED
      BY <1>2, <1>3, <3>1, <3>2, <3>4 DEF ReaderBehind, SettledLoadedWhole
  <2>3. CASE SelectCases
    <3>1. /\ rpc = "scores" /\ rpc' = "loaded"
          /\ seen' = [before |-> seen.before, scores |-> seen.scores,
                      cases |-> db.cases]
      BY <2>3 DEF SelectCases, TypeOK
    <3>2. TypeOK'
      BY <1>3, <3>1 DEF TypeOK, Databases
    <3>3. \A a \in Attempts : seen.before[a] \in 0 .. MaxWrites
      BY DEF TypeOK
    <3>4. \A a \in Attempts :
            db.cases[a] # 0 /\ db.cases[a] = seen.before[a]
            => seen.scores[a] = Whole(db.cases[a])
      BY <1>4, <1>5, <3>1, <3>3 DEF ReaderBehind
    <3> QED
      BY <1>2, <1>3, <1>5, <3>1, <3>2, <3>4
      DEF ReaderBehind, SettledLoadedWhole
  <2>4. CASE Drop
    <3>1. rpc' = "idle" /\ seen' = NothingSeen
      BY <2>4 DEF Drop
    <3>2. TypeOK'
      BY <1>3, <3>1 DEF TypeOK, NothingSeen, NoScores, NoCases
    <3>3. Len(writes) \in Nat
      BY DEF TypeOK
    <3> QED
      BY <1>3, <3>1, <3>2, <3>3
      DEF ReaderBehind, SettledLoadedWhole, NothingSeen, NoCases
  <2> QED
    BY <2>1, <2>2, <2>3, <2>4
<1> QED
  BY <1>1, <1>6, ReaderStep

LEMMA NextIInv == IInv /\ [Next]_vars => IInv'
<1> SUFFICES ASSUME IInv, [Next]_vars PROVE IInv'
  OBVIOUS
<1>1. CASE Next
  BY <1>1, StartRunIInv, BeginIInv, InsertCaseIInv, InsertScoreIInv,
     CommitIInv, AcknowledgeIInv, FailsIInv, EndIInv, DeleteRunIInv,
     ReaderIInv DEF Next
<1>2. CASE UNCHANGED vars
  <2>1. UNCHANGED writerVars /\ UNCHANGED <<rpc, seen>>
    BY <1>2 DEF vars, writerVars
  <2>2. TypeOK' /\ ReaderBehind' /\ SettledLoadedWhole'
    BY <2>1, ReaderStep DEF writerVars, IInv, TypeOK, ReaderBehind,
       SettledLoadedWhole
  <2> QED
    BY <2>1, <2>2, ReaderStep DEF IInv
<1> QED
  BY <1>1, <1>2

-----------------------------------------------------------------------------
\* The inductive invariant of the store: what the transaction under way adds
\* to the database, and how far what a reader saw is behind it.
THEOREM SpecIInv == Spec => []IInv
  BY InitIInv, NextIInv, PTL DEF Spec

\* However many attempts are written how often, and whatever fails: every
\* attempt in the database has exactly the scores it was recorded with
\* (record_case_result as one transaction).
THEOREM StoreStaysWhole == Spec => []StoredWhole
<1>1. IInv => StoredWhole
  BY DEF IInv, StoredWhole
<1> QED
  BY <1>1, SpecIInv, PTL

\* The database holds what record_case_result acknowledged, no less and no
\* more, whatever was killed, refused or deleted.
THEOREM RecordingExact == Spec => []RecordedExactly
<1>1. IInv => RecordedExactly
  BY DEF IInv, RecordedExactly
<1> QED
  BY <1>1, SpecIInv, PTL

\* load_run reads without a transaction; still an attempt that nobody replaces
\* or deletes meanwhile is loaded with all its scores.
THEOREM SettledAttemptsLoad == Spec => []SettledLoadedWhole
<1>1. IInv => SettledLoadedWhole
  BY DEF IInv
<1> QED
  BY <1>1, SpecIInv, PTL

(***************************************************************************)
(* Opening the database: Migrations                                        *)
(***************************************************************************)

Prefix(S) == \E n \in 0 .. Newest : S = 1 .. n

\* Versions are recorded in order; what a connection has applied is recorded.
VersionsInOrder ==
    /\ Prefix(recorded)
    /\ \A o \in Openers : Prefix(applied[o]) /\ applied[o] \subseteq recorded

\* The write lock is held exactly inside a transaction.
LockHeld ==
    \A o \in Openers : lock = o <=> conn[o] \in {"record", "commit"}

\* The open transaction has written the first version its connection lacks,
\* which nobody has committed.
StagedFirstPending ==
    /\ lock = Nobody => staged = NothingStaged
    /\ \A o \in Openers :
          conn[o] \in {"record", "commit"} =>
              /\ staged.tables = {First(Pending(o))}
              /\ staged.recorded = IF conn[o] = "record" THEN {}
                                   ELSE {First(Pending(o))}
              /\ First(Pending(o)) \notin tables

\* A connection that migrates lacks a version; an open one lacks none.
PendingMatchesPc ==
    \A o \in Openers :
        /\ conn[o] \in {"migrate", "record", "commit"} => Pending(o) # {}
        /\ conn[o] = "open" => Pending(o) = {}

SchemaIInv ==
    /\ SchemaTyped
    /\ SchemaMatchesVersions
    /\ OpenHasSchema
    /\ VersionsInOrder
    /\ LockHeld
    /\ StagedFirstPending
    /\ PendingMatchesPc

-----------------------------------------------------------------------------
\* What is left to apply after a prefix starts right behind it.
LEMMA FirstAfterPrefix ==
  ASSUME NEW n \in 0 .. Newest, NEW k \in 1 .. Newest, 1 .. k \ 1 .. n # {}
  PROVE  First(1 .. k \ 1 .. n) = n + 1 /\ n < k
<1> DEFINE S == 1 .. k \ 1 .. n
<1>1. n < k /\ n + 1 \in S /\ \A w \in S : n + 1 <= w
  OBVIOUS
<1>2. \A v \in S : (\A w \in S : v <= w) => v = n + 1
  BY <1>1
<1> QED
  BY <1>1, <1>2 DEF First

\* Versions recorded as a prefix have no gap.
LEMMA PrefixClosed ==
  ASSUME NEW S, Prefix(S)
  PROVE  /\ S \subseteq Versions
         /\ \A v \in S : 1 .. v \subseteq S
  BY DEF Prefix, Versions

LEMMA SchemaInitIInv == SchemaInit => SchemaIInv
<1> SUFFICES ASSUME SchemaInit PROVE SchemaIInv
  OBVIOUS
<1> USE DEF SchemaInit
<1>1. Prefix({})
  BY 1 .. 0 = {} DEF Prefix
<1>2. SchemaTyped
  BY DEF SchemaTyped, NothingStaged
<1> QED
  BY <1>1, <1>2 DEF SchemaIInv, SchemaMatchesVersions, OpenHasSchema,
     VersionsInOrder, LockHeld, StagedFirstPending, PendingMatchesPc

\* What a transaction writes is the version after the recorded ones.
LEMMA StagedIsNext ==
  ASSUME SchemaIInv, NEW o \in Openers, conn[o] \in {"record", "commit"}
  PROVE  \E n \in 0 .. Newest :
            /\ n < Known[o]
            /\ recorded = 1 .. n
            /\ applied[o] = 1 .. n
            /\ First(Pending(o)) = n + 1
<1>1. PICK n \in 0 .. Newest : applied[o] = 1 .. n
  BY DEF SchemaIInv, VersionsInOrder, Prefix
<1>2. PICK m \in 0 .. Newest : recorded = 1 .. m
  BY DEF SchemaIInv, VersionsInOrder, Prefix
<1>3. First(Pending(o)) = n + 1 /\ n < Known[o]
  BY <1>1, FirstAfterPrefix DEF SchemaIInv, PendingMatchesPc, Pending
<1>4. n + 1 \notin 1 .. m /\ 1 .. n \subseteq 1 .. m
  BY <1>1, <1>2, <1>3
  DEF SchemaIInv, StagedFirstPending, SchemaMatchesVersions, VersionsInOrder
<1>5. n = m
  BY <1>4
<1> QED
  BY <1>1, <1>2, <1>3, <1>5

\* Reading the versions: a connection starts from a recorded prefix.
LEMMA ReadVersionsIInv ==
  ASSUME SchemaIInv, NEW o \in Openers, ReadVersions(o)
  PROVE  SchemaIInv'
<1> USE DEF SchemaIInv, ReadVersions
<1>1. applied'[o] = recorded /\ \A q \in Openers \ {o} : applied'[q] = applied[q]
  BY DEF SchemaTyped
<1>2. \A q \in Openers \ {o} : Pending(q)' = Pending(q) /\ conn'[q] = conn[q]
  BY <1>1 DEF Pending, SchemaTyped
<1>3. /\ conn'[o] \in {"refused", "open", "migrate"}
      /\ conn'[o] = "open" => Pending(o)' = {} /\ recorded \subseteq 1 .. Known[o]
      /\ conn'[o] = "migrate" => Pending(o)' # {}
  BY DEF SchemaTyped
<1>4. SchemaTyped'
  BY DEF SchemaTyped
<1>5. SchemaMatchesVersions' /\ VersionsInOrder'
  BY <1>1 DEF SchemaMatchesVersions, VersionsInOrder, Prefix
<1>6. OpenHasSchema'
  <2>1. conn'[o] = "open" => applied'[o] = 1 .. Known[o] /\ applied'[o] \subseteq tables
    BY <1>1, <1>3 DEF SchemaMatchesVersions, Pending
  <2> QED
    BY <1>1, <1>2, <2>1 DEF OpenHasSchema
<1>7. LockHeld'
  BY <1>2, <1>3 DEF LockHeld
<1>8. StagedFirstPending'
  BY <1>2, <1>3 DEF StagedFirstPending, NothingStaged
<1>9. PendingMatchesPc'
  BY <1>2, <1>3 DEF PendingMatchesPc
<1> QED
  BY <1>4, <1>5, <1>6, <1>7, <1>8, <1>9

\* The transaction begins: nobody else is inside one.
LEMMA CreateTablesIInv ==
  ASSUME SchemaIInv, NEW o \in Openers, CreateTables(o)
  PROVE  SchemaIInv'
<1> USE DEF SchemaIInv, CreateTables
<1>1. \A q \in Openers : conn[q] \notin {"record", "commit"}
  BY DEF LockHeld
<1>2. /\ conn'[o] = "record"
      /\ \A q \in Openers \ {o} : conn'[q] = conn[q]
      /\ \A q \in Openers : Pending(q)' = Pending(q)
  BY DEF SchemaTyped, Pending
<1>3. /\ Pending(o) # {}
      /\ staged' = [tables |-> {First(Pending(o))}, recorded |-> {}]
  BY DEF PendingMatchesPc, NothingStaged
<1>4. First(Pending(o)) \in Versions
  <2>1. PICK n \in 0 .. Newest : applied[o] = 1 .. n
    BY DEF VersionsInOrder, Prefix
  <2> QED
    BY <1>3, <2>1, FirstAfterPrefix DEF Pending, Versions
<1>5. SchemaTyped'
  <2>1. staged' \in [tables : SUBSET Versions, recorded : SUBSET Versions]
    <3> HIDE DEF CreateTables
    <3> QED
      BY <1>3, <1>4
  <2> QED
    BY <2>1 DEF SchemaTyped
<1>6. SchemaMatchesVersions' /\ VersionsInOrder'
  BY DEF SchemaMatchesVersions, VersionsInOrder, Prefix
<1>7. OpenHasSchema' /\ PendingMatchesPc'
  BY <1>2, <1>3 DEF OpenHasSchema, PendingMatchesPc
<1>8. LockHeld'
  BY <1>1, <1>2 DEF LockHeld
<1>9. StagedFirstPending'
  BY <1>1, <1>2, <1>3 DEF StagedFirstPending
<1> QED
  BY <1>5, <1>6, <1>7, <1>8, <1>9

\* The version joins its tables in the transaction.
LEMMA RecordVersionIInv ==
  ASSUME SchemaIInv, NEW o \in Openers, RecordVersion(o)
  PROVE  SchemaIInv'
<1> USE DEF SchemaIInv, RecordVersion
<1>1. lock = o /\ lock # Nobody
  BY DEF LockHeld
<1>2. \A q \in Openers \ {o} : conn[q] \notin {"record", "commit"}
  BY <1>1 DEF LockHeld
<1>3. /\ conn'[o] = "commit"
      /\ \A q \in Openers \ {o} : conn'[q] = conn[q]
      /\ \A q \in Openers : Pending(q)' = Pending(q)
  BY DEF SchemaTyped, Pending
<1>4. /\ staged.tables = {First(Pending(o))}
      /\ First(Pending(o)) \notin tables
  BY DEF StagedFirstPending
<1>5. staged' = [tables |-> {First(Pending(o))},
                 recorded |-> {First(Pending(o))}]
  BY <1>4 DEF SchemaTyped
<1>6. First(Pending(o)) \in Versions
  BY <1>4 DEF SchemaTyped
<1>7. SchemaTyped'
  BY <1>5, <1>6 DEF SchemaTyped
<1>8. SchemaMatchesVersions' /\ VersionsInOrder'
  BY DEF SchemaMatchesVersions, VersionsInOrder, Prefix
<1>9. OpenHasSchema' /\ PendingMatchesPc'
  BY <1>3 DEF OpenHasSchema, PendingMatchesPc
<1>10. LockHeld'
  BY <1>1, <1>3 DEF LockHeld
<1>11. StagedFirstPending'
  BY <1>1, <1>2, <1>3, <1>4, <1>5 DEF StagedFirstPending
<1> QED
  BY <1>7, <1>8, <1>9, <1>10, <1>11

\* The commit: the recorded versions stay a prefix, one longer.
LEMMA CommitVersionIInv ==
  ASSUME SchemaIInv, NEW o \in Openers, CommitVersion(o)
  PROVE  SchemaIInv'
<1> USE DEF SchemaIInv, CommitVersion
<1>1. PICK n \in 0 .. Newest :
        /\ n < Known[o]
        /\ recorded = 1 .. n
        /\ applied[o] = 1 .. n
        /\ First(Pending(o)) = n + 1
  BY StagedIsNext
<1>2. staged.tables = {n + 1} /\ staged.recorded = {n + 1}
  BY <1>1 DEF StagedFirstPending
<1>3. n + 1 \in 0 .. Newest /\ (1 .. n) \cup {n + 1} = 1 .. (n + 1)
  BY <1>1
<1>4. recorded' = 1 .. (n + 1) /\ tables' = 1 .. (n + 1)
  BY <1>1, <1>2, <1>3 DEF SchemaMatchesVersions
<1>5. applied'[o] = 1 .. (n + 1)
  BY <1>1, <1>2, <1>3 DEF SchemaTyped
<1>6. \A q \in Openers \ {o} :
        conn'[q] = conn[q] /\ applied'[q] = applied[q] /\ Pending(q)' = Pending(q)
  BY DEF SchemaTyped, Pending
<1>7. /\ conn'[o] \in {"open", "migrate"}
      /\ conn'[o] = "open" => Pending(o)' = {}
      /\ conn'[o] = "migrate" => Pending(o)' # {}
  BY DEF SchemaTyped
<1>8. \A q \in Openers \ {o} : conn[q] \notin {"record", "commit"}
  BY DEF LockHeld
<1>9. SchemaTyped'
  <2>1. recorded' \subseteq Versions /\ tables' \subseteq Versions
    BY <1>3, <1>4 DEF Versions
  <2>2. applied' \in [Openers -> SUBSET Versions]
    BY <1>2, <1>3 DEF SchemaTyped, Versions
  <2> QED
    BY <2>1, <2>2 DEF SchemaTyped, NothingStaged
<1>10. SchemaMatchesVersions'
  BY <1>3, <1>4, PrefixClosed DEF SchemaMatchesVersions, Prefix
<1>11. VersionsInOrder'
  BY <1>1, <1>3, <1>4, <1>5, <1>6 DEF VersionsInOrder, Prefix
<1>12. OpenHasSchema'
  BY <1>1, <1>4, <1>5, <1>6, <1>7
  DEF OpenHasSchema, SchemaMatchesVersions, Pending
<1>13. LockHeld'
  BY <1>6, <1>7, <1>8 DEF LockHeld
<1>14. StagedFirstPending'
  BY <1>6, <1>7, <1>8 DEF StagedFirstPending
<1>15. PendingMatchesPc'
  BY <1>6, <1>7 DEF PendingMatchesPc
<1> QED
  BY <1>9, <1>10, <1>11, <1>12, <1>13, <1>14, <1>15

\* A connection that gives up has written nothing.
LEMMA GivesUpIInv ==
  ASSUME SchemaIInv, NEW o \in Openers, CreateTablesFails(o) \/ WaitsTooLong(o)
  PROVE  SchemaIInv'
<1> USE DEF SchemaIInv, CreateTablesFails, WaitsTooLong
<1>1. /\ conn[o] = "migrate" /\ conn'[o] \in {"failed", "busy"}
      /\ \A q \in Openers \ {o} : conn'[q] = conn[q]
      /\ \A q \in Openers : Pending(q)' = Pending(q)
  BY DEF SchemaTyped, Pending
<1>2. SchemaTyped'
  BY DEF SchemaTyped
<1>3. SchemaMatchesVersions' /\ VersionsInOrder'
  BY DEF SchemaMatchesVersions, VersionsInOrder, Prefix
<1>4. OpenHasSchema' /\ PendingMatchesPc' /\ LockHeld'
  BY <1>1 DEF OpenHasSchema, PendingMatchesPc, LockHeld
<1>5. StagedFirstPending'
  BY <1>1 DEF StagedFirstPending, NothingStaged
<1> QED
  BY <1>2, <1>3, <1>4, <1>5

\* A process that ends, killed or not, takes its transaction with it.
LEMMA EndsIInv ==
  ASSUME SchemaIInv, NEW o \in Openers, Kill(o) \/ Close(o)
  PROVE  SchemaIInv'
<1> USE DEF SchemaIInv, Kill, Close
<1>1. /\ conn'[o] = "closed" /\ applied'[o] = {}
      /\ \A q \in Openers \ {o} :
            conn'[q] = conn[q] /\ applied'[q] = applied[q]
            /\ Pending(q)' = Pending(q)
  BY DEF SchemaTyped, Pending
<1>2. /\ lock' = IF lock = o THEN Nobody ELSE lock
      /\ staged' = IF lock = o THEN NothingStaged ELSE staged
  BY DEF LockHeld
<1>3. recorded' = recorded /\ tables' = tables
  OBVIOUS
<1>4. SchemaTyped'
  BY <1>2 DEF SchemaTyped, NothingStaged
<1>5. SchemaMatchesVersions' /\ VersionsInOrder'
  <2>1. Prefix({})
    BY 1 .. 0 = {} DEF Prefix
  <2>2. ASSUME NEW q \in Openers
        PROVE  Prefix(applied'[q]) /\ applied'[q] \subseteq recorded
    <3>1. CASE q = o
      BY <1>1, <2>1, <3>1
    <3>2. CASE q # o
      BY <1>1, <3>2 DEF VersionsInOrder
    <3> QED
      BY <3>1, <3>2
  <2> QED
    BY <1>3, <2>2 DEF SchemaMatchesVersions, VersionsInOrder, Prefix
<1>6. OpenHasSchema' /\ PendingMatchesPc'
  BY <1>1, <1>3 DEF OpenHasSchema, PendingMatchesPc
<1>7. LockHeld'
  BY <1>1, <1>2 DEF LockHeld
<1>8. StagedFirstPending'
  <2>1. CASE lock = o
    BY <1>1, <1>2, <2>1 DEF StagedFirstPending, LockHeld
  <2>2. CASE lock # o
    BY <1>1, <1>2, <1>3, <2>2 DEF StagedFirstPending, LockHeld
  <2> QED
    BY <2>1, <2>2
<1> QED
  BY <1>4, <1>5, <1>6, <1>7, <1>8

LEMMA SchemaNextIInv == SchemaIInv /\ [SchemaNext]_schemaVars => SchemaIInv'
<1> SUFFICES ASSUME SchemaIInv, [SchemaNext]_schemaVars PROVE SchemaIInv'
  OBVIOUS
<1>1. CASE SchemaNext
  <2>1. PICK o \in Openers :
          \/ ReadVersions(o) \/ CreateTables(o) \/ RecordVersion(o)
          \/ CommitVersion(o)
          \/ CreateTablesFails(o) \/ WaitsTooLong(o)
          \/ Kill(o) \/ Close(o)
    BY <1>1 DEF SchemaNext
  <2> QED
    BY <2>1, ReadVersionsIInv, CreateTablesIInv, RecordVersionIInv,
       CommitVersionIInv, GivesUpIInv, EndsIInv
<1>2. CASE UNCHANGED schemaVars
  BY <1>2
  DEF schemaVars, SchemaIInv, SchemaTyped, SchemaMatchesVersions, OpenHasSchema,
      VersionsInOrder, LockHeld, StagedFirstPending, PendingMatchesPc,
      Pending, Prefix, NothingStaged
<1> QED
  BY <1>1, <1>2

-----------------------------------------------------------------------------
\* The inductive invariant of the migrations: versions are recorded as a
\* prefix, and whoever holds the write lock has staged the next one.
THEOREM SchemaSpecIInv == SchemaSpec => []SchemaIInv
  BY SchemaInitIInv, SchemaNextIInv, PTL DEF SchemaSpec

\* However many processes open the database at once, and whichever are killed
\* where: a version's tables exist exactly when it is recorded, versions have
\* no gap, and a connection in use has its program's schema.
THEOREM SchemaAlwaysSound == SchemaSpec => []SchemaSound
<1>1. SchemaIInv => SchemaSound
  BY DEF SchemaIInv, SchemaSound
<1> QED
  BY <1>1, SchemaSpecIInv, PTL

\* Whoever has migrated since a program read the versions: what it commits takes
\* the schema to the next version, which the program knows (migrate).
THEOREM OnlyKnownSchemaMigrated == SchemaSpec => MigratesKnownSchema
<1>1. ASSUME SchemaIInv, [SchemaNext]_schemaVars
      PROVE  [\A o \in Openers :
                conn[o] = "commit" /\ conn'[o] \in {"migrate", "open"}
                => \E v \in 1 .. Known[o] :
                       recorded = 1 .. v - 1 /\ recorded' = 1 .. v]_schemaVars
  <2> SUFFICES ASSUME NEW o \in Openers,
                      conn[o] = "commit", conn'[o] \in {"migrate", "open"},
                      SchemaNext
               PROVE  \E v \in 1 .. Known[o] :
                          recorded = 1 .. v - 1 /\ recorded' = 1 .. v
    BY <1>1
  <2>1. PICK q \in Openers :
          \/ ReadVersions(q) \/ CreateTables(q) \/ CreateTablesFails(q)
          \/ WaitsTooLong(q) \/ RecordVersion(q) \/ CommitVersion(q)
          \/ Kill(q) \/ Close(q)
    BY DEF SchemaNext
  <2>2. SchemaTyped
    BY <1>1 DEF SchemaIInv
  <2>3. q = o
    BY <2>1, <2>2 DEF SchemaTyped, ReadVersions, CreateTables, CreateTablesFails,
       WaitsTooLong, RecordVersion, CommitVersion, Kill, Close
  <2>4. CommitVersion(o)
    BY <2>1, <2>2, <2>3 DEF SchemaTyped, ReadVersions, CreateTables, CreateTablesFails,
       WaitsTooLong, RecordVersion, Kill, Close
  <2>5. PICK n \in 0 .. Newest :
          n < Known[o] /\ recorded = 1 .. n /\ First(Pending(o)) = n + 1
    BY <1>1, StagedIsNext
  <2>6. recorded' = 1 .. n \cup {n + 1}
    BY <1>1, <2>4, <2>5 DEF CommitVersion, SchemaIInv, StagedFirstPending
  <2>7. n + 1 \in 1 .. Known[o] /\ (1 .. n) \cup {n + 1} = 1 .. (n + 1)
        /\ (n + 1) - 1 = n
    BY <2>5 DEF MigrationsAssumption
  <2> QED
    BY <2>5, <2>6, <2>7
<1> QED
  BY <1>1, SchemaSpecIInv, PTL DEF SchemaSpec, MigratesKnownSchema
=============================================================================
