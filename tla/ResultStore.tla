---------------------------- MODULE ResultStore ----------------------------
(***************************************************************************)
(* The results of one run in the database (store/db.py): the run that      *)
(* writes them attempt by attempt and may be killed, a connection that     *)
(* deletes the run, and a reader - `evalforge show`, the API - that loads  *)
(* it meanwhile.                                                            *)
(*                                                                         *)
(* SQLite is external: a transaction sees its own writes, nobody else sees *)
(* them before COMMIT, the first write takes the write lock, and a SELECT  *)
(* outside a transaction reads the committed state of its own moment.      *)
(*                                                                         *)
(* Simplifications.  A row is reduced to the write it comes from, and a    *)
(* result to the number of its evaluator scores.                           *)
(***************************************************************************)
EXTENDS Integers, Sequences, FiniteSets

CONSTANTS
    Attempts,       \* the attempts of the run, <<case_id, attempt>>
    NumEvaluators,  \* scores of a completed attempt; any other has none
    MaxWrites       \* bound of the model on calls of record_case_result

ASSUME StoreAssumption ==
    /\ NumEvaluators \in Nat \ {0}
    /\ MaxWrites \in Nat \ {0}

WriteIds == 1 .. MaxWrites
Positions == 1 .. NumEvaluators
ScoreRows == WriteIds \X Positions

VARIABLES
    db,       \* what is committed: the header of the run and its rows
    tx,       \* what the open transaction of the run sees
    pc,       \* where the process of the run stands
    writes,   \* history: the results given to record_case_result
    acked,    \* writes whose record_case_result returned
    refused,  \* writes whose record_case_result raised
    rpc,      \* where the reader stands
    seen      \* what load_run has selected; "before": cases as it began

vars == <<db, tx, pc, writes, acked, refused, rpc, seen>>

NoCases == [a \in Attempts |-> 0]
NoScores == [a \in Attempts |-> {}]
EmptyDb == [header |-> FALSE, cases |-> NoCases, scores |-> NoScores]
NothingSeen == [before |-> NoCases, scores |-> NoScores, cases |-> NoCases]

Init ==
    /\ db = EmptyDb
    /\ tx = EmptyDb
    /\ pc = "new"
    /\ writes = <<>>
    /\ acked = {}
    /\ refused = {}
    /\ rpc = "idle"
    /\ seen = NothingSeen

\* The write under way, its attempt, and the score rows of a whole write.
Current == Len(writes)
Target == writes[Current].attempt
Whole(w) == IF w = 0 THEN {} ELSE {w} \X (1 .. writes[w].scores)
AllInserted == tx.scores[Target] = Whole(Current)

readerVars == <<rpc, seen>>

-----------------------------------------------------------------------------
\* start_run
StartRun ==
    /\ pc = "new"
    /\ db' = [db EXCEPT !.header = TRUE]
    /\ pc' = "idle"
    /\ UNCHANGED <<tx, writes, acked, refused, readerVars>>

\* start_run raises: there is no run.
StartRunFails ==
    /\ pc = "new"
    /\ pc' = "ended"
    /\ UNCHANGED <<db, tx, writes, acked, refused, readerVars>>

\* record_case_result, BEGIN.  It takes no lock yet.
Begin(a, scores) ==
    /\ pc = "idle"
    /\ Len(writes) < MaxWrites
    /\ writes' = Append(writes, [attempt |-> a, scores |-> scores])
    /\ pc' = "begun"
    /\ UNCHANGED <<db, tx, acked, refused, readerVars>>

\* BEGIN on a connection whose last transaction is still open.
BeginFails(a, scores) ==
    /\ pc = "stuck"
    /\ Len(writes) < MaxWrites
    /\ writes' = Append(writes, [attempt |-> a, scores |-> scores])
    /\ refused' = refused \cup {Current'}
    /\ UNCHANGED <<db, tx, pc, acked, readerVars>>

\* Mutant: the row of the attempt is committed by itself.
InsertCaseAutocommit ==
    /\ pc = "begun"
    /\ db.header
    /\ tx' = [db EXCEPT !.cases[Target] = Current, !.scores[Target] = {}]
    /\ db' = tx'
    /\ pc' = "writing"
    /\ UNCHANGED <<writes, acked, refused, readerVars>>

\* INSERT OR REPLACE INTO case_results, DELETE FROM evaluator_results.  The
\* row needs its run: foreign keys are on.
InsertCase ==
    /\ pc = "begun"
    /\ db.header
    /\ tx' = [db EXCEPT !.cases[Target] = Current, !.scores[Target] = {}]
    /\ pc' = "writing"
    /\ UNCHANGED <<db, writes, acked, refused, readerVars>>

\* Mutant: every score is committed by itself.
InsertScoreAutocommit ==
    /\ pc = "writing"
    /\ ~AllInserted
    /\ LET p == Cardinality(tx.scores[Target]) + 1
       IN  tx' = [tx EXCEPT !.scores[Target] = @ \cup {<<Current, p>>}]
    /\ db' = tx'
    /\ UNCHANGED <<pc, writes, acked, refused, readerVars>>

\* INSERT INTO evaluator_results, one row after the other.
InsertScore ==
    /\ pc = "writing"
    /\ ~AllInserted
    /\ LET p == Cardinality(tx.scores[Target]) + 1
       IN  tx' = [tx EXCEPT !.scores[Target] = @ \cup {<<Current, p>>}]
    /\ UNCHANGED <<db, pc, writes, acked, refused, readerVars>>

Commit ==
    /\ pc = "writing"
    /\ AllInserted
    /\ db' = tx
    /\ pc' = "committed"
    /\ UNCHANGED <<tx, writes, acked, refused, readerVars>>

\* record_case_result returns.
Acknowledge ==
    /\ pc = "committed"
    /\ acked' = acked \cup {Current}
    /\ pc' = "idle"
    /\ UNCHANGED <<db, tx, writes, refused, readerVars>>

\* Mutant: the transaction is committed whatever happened in it.
RecordFailsCommitted ==
    /\ pc \in {"begun", "writing"}
    /\ db' = IF pc = "writing" THEN tx ELSE db
    /\ refused' = refused \cup {Current}
    /\ pc' = "idle"
    /\ UNCHANGED <<tx, writes, acked, readerVars>>

\* A statement fails - no such run, database locked, disk full - and the
\* transaction is rolled back.
RecordFails ==
    /\ pc \in {"begun", "writing"}
    /\ refused' = refused \cup {Current}
    /\ pc' = "idle"
    /\ UNCHANGED <<db, tx, writes, acked, readerVars>>

\* COMMIT fails and nothing of the transaction is kept.  Nobody rolls back
\* then: whether the transaction is still open depends on the error.
CommitFails ==
    /\ pc = "writing"
    /\ AllInserted
    /\ refused' = refused \cup {Current}
    /\ pc' \in {"idle", "stuck"}
    /\ UNCHANGED <<db, tx, writes, acked, readerVars>>

\* The run ends or is killed; an open transaction is undone.
End ==
    /\ pc \notin {"new", "ended"}
    /\ pc' = "ended"
    /\ UNCHANGED <<db, tx, writes, acked, refused, readerVars>>

\* delete_run by another connection, while no transaction has the write lock.
\* The rows go with their run (ON DELETE CASCADE).
DeleteRun ==
    /\ db.header
    /\ pc \notin {"writing", "stuck"}
    /\ db' = EmptyDb
    /\ UNCHANGED <<tx, pc, writes, acked, refused, readerVars>>

-----------------------------------------------------------------------------
writerVars == <<db, tx, pc, writes, acked, refused>>

\* load_run: SELECT FROM runs; KeyError when there is no such run.
SelectRun ==
    /\ rpc = "idle"
    /\ db.header
    /\ rpc' = "run"
    /\ seen' = [NothingSeen EXCEPT !.before = db.cases]
    /\ UNCHANGED writerVars

\* _load_case_results: SELECT FROM evaluator_results.
SelectScores ==
    /\ rpc = "run"
    /\ rpc' = "scores"
    /\ seen' = [seen EXCEPT !.scores = db.scores]
    /\ UNCHANGED writerVars

\* _load_case_results: SELECT FROM case_results, joined in memory.
SelectCases ==
    /\ rpc = "scores"
    /\ rpc' = "loaded"
    /\ seen' = [seen EXCEPT !.cases = db.cases]
    /\ UNCHANGED writerVars

\* The result is used and dropped.
Drop ==
    /\ rpc = "loaded"
    /\ rpc' = "idle"
    /\ seen' = NothingSeen
    /\ UNCHANGED writerVars

Next ==
    \/ StartRun \/ StartRunFails
    \/ \E a \in Attempts, n \in {0, NumEvaluators} :
          Begin(a, n) \/ BeginFails(a, n)
    \/ InsertCase \/ InsertScore \/ Commit \/ Acknowledge
    \/ RecordFails \/ CommitFails
    \/ End
    \/ DeleteRun
    \/ SelectRun \/ SelectScores \/ SelectCases \/ Drop

Spec == Init /\ [][Next]_vars

-----------------------------------------------------------------------------
Databases ==
    [header : BOOLEAN, cases : [Attempts -> 0 .. MaxWrites],
     scores : [Attempts -> SUBSET ScoreRows]]

\* The shape of the state.
TypeOK ==
    /\ db \in Databases
    /\ tx \in Databases
    /\ pc \in {"new", "idle", "begun", "writing", "committed", "stuck", "ended"}
    /\ writes \in Seq([attempt : Attempts, scores : {0, NumEvaluators}])
    /\ Len(writes) <= MaxWrites
    /\ acked \subseteq WriteIds
    /\ refused \subseteq WriteIds
    /\ rpc \in {"idle", "run", "scores", "loaded"}
    /\ seen \in [before : [Attempts -> 0 .. MaxWrites],
                 scores : [Attempts -> SUBSET ScoreRows],
                 cases : [Attempts -> 0 .. MaxWrites]]

\* Whatever fails or is killed, and however often an attempt is written again,
\* an attempt in the database has exactly the scores it was recorded with
\* (record_case_result as one transaction).
CommittedWhole ==
    \A a \in Attempts : db.scores[a] = Whole(db.cases[a])

\* "A killed run must leave the attempts it already reported": as long as the
\* run is not deleted, a result whose recording returned is there, or a later
\* one of the same attempt is.
AckedDurable ==
    db.header => \A w \in acked : db.cases[writes[w].attempt] >= w

\* The other direction: an attempt in the database is one whose recording
\* returned, or the very last write of a run that ended between COMMIT and the
\* return.  A result listed as unpersisted is never there.
NothingUnreported ==
    \A a \in Attempts :
        db.cases[a] \in {0} \cup acked
                        \cup (IF pc \in {"committed", "ended"}
                              THEN {Current} \ refused ELSE {})

\* No reader ever finds part of an attempt in the database.
StoredWhole == TypeOK /\ CommittedWhole

\* What the database holds is what record_case_result acknowledged, no less and
\* no more, whatever was killed, refused or deleted.
RecordedExactly == AckedDurable /\ NothingUnreported

\* An attempt that is in the database before load_run begins and is not
\* replaced or deleted meanwhile is loaded with all its scores.
SettledLoadedWhole ==
    rpc = "loaded" =>
        \A a \in Attempts :
            seen.cases[a] # 0 /\ seen.cases[a] = seen.before[a]
            => seen.scores[a] = Whole(seen.cases[a])

\* "Reload a run in full": every loaded attempt has the scores it was recorded
\* with.
LoadedWhole ==
    rpc = "loaded" =>
        \A a \in Attempts :
            seen.cases[a] # 0 => seen.scores[a] = Whole(seen.cases[a])
=============================================================================
